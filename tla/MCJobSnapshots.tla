--------------------------- MODULE MCJobSnapshots ---------------------------
(* JobSnapshots with a handful of the calls that really meet: the end of a  *)
(* run, its progress, a failure and a cancellation, over a Job that moves   *)
(* through an abridged life.                                                *)
EXTENDS JobSnapshots, TLC

CONSTANTS w1, w2, r1, r2

MCCalls ==
  {[target |-> "RUNNING", expected |-> {"ACCEPTED"}],
   [target |-> "RUNNING", expected |-> {"RUNNING"}],
   [target |-> "COLLECTING", expected |-> {"RUNNING"}],
   [target |-> "SUCCEEDED", expected |-> {"COLLECTING"}],
   [target |-> "CANCELLED", expected |-> {"COLLECTING"}],
   [target |-> "FAILED", expected |-> JobState]}

Symmetric == Permutations({w1, w2}) \cup Permutations({r1, r2})
=============================================================================
