---------------------------- MODULE MCAdmission ----------------------------
(* Two captures and four revisions of a LabPath for TLC. *)
EXTENDS Admission, TLC

CONSTANTS mixed, group, w1, w2, v1, v2

\* the workers and the versions of the policy are interchangeable
Interchangeable == Permutations(Publishers) \cup Permutations(Versions)

\* a capture of flows and sessions, and one with frames for a group
MixedAndGroup ==
  [c \in Contents |-> IF c = mixed THEN {"udp", "tcp", "complete"} ELSE {"tcp", "multicast"}]

\* the second says no more of the roles than the first, the third changes them and
\* leaves their addresses out, the fourth puts them on one port
FourPaths ==
  <<[roles |-> "first", paired |-> TRUE, addressed |-> TRUE, broadcast |-> FALSE],
    [roles |-> "first", paired |-> TRUE, addressed |-> TRUE, broadcast |-> TRUE],
    [roles |-> "other", paired |-> TRUE, addressed |-> FALSE, broadcast |-> TRUE],
    [roles |-> "same", paired |-> FALSE, addressed |-> TRUE, broadcast |-> TRUE]>>
=============================================================================
