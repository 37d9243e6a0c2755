----------------------------- MODULE Submission -----------------------------
(***************************************************************************)
(* How a Job comes into being.  A submission names an idempotency key; the  *)
(* row of a Job keeps who submitted it, under which key, the digest of the  *)
(* document and the Job it repeats.  A client that has no answer may post   *)
(* again; what it posted before may still reach the Agent, or never.        *)
(***************************************************************************)
EXTENDS Integers, Sequences, FiniteSets, JobStates

CONSTANTS Jobs,          \* the Jobs that may be submitted: 1, 2, ...
          Clients,       \* processes that talk to the Agent
          Principals,    \* whom their tokens stand for
          PrincipalOf,   \* PrincipalOf[c]: the principal of client c
          Documents,     \* canonical documents, named by their digests
          Keys,          \* idempotency keys a user may choose
          None

ASSUME SubmissionAssumption ==
  /\ Jobs \subseteq Nat
  /\ PrincipalOf \in [Clients -> Principals]
  /\ None \notin Jobs \cup Keys \cup Documents \cup Principals

VARIABLES snap,          \* snap[j]: the snapshot of Job j
          log,           \* log[j]: its events
          row,           \* row[j]: who submitted it, its key, document and retryOf
          late,          \* submissions nobody waits for that may still arrive
          answered       \* the submissions that were answered, with their Jobs

server == <<snap, log>>
submissions == <<row, late, answered>>

Server == INSTANCE JobPromise

\* start_test submits under the id of the plan, run under a fresh key
PlanKey(d) == <<"plan", d>>
FreshKey(c, n) == <<"fresh", c, n>>

NoRow == [owner |-> None]

Known == {j \in Jobs : row[j] # NoRow}
Ended(j) == snap[j].state \in Terminal

InitSubmission == /\ Server!Init
                  /\ row = [j \in Jobs |-> NoRow]
                  /\ late = {}
                  /\ answered = {}

-----------------------------------------------------------------------------
(* create_job, one transaction *)

\* WHERE principal = ? AND idempotency_key = ?
UnderKey(s) == {j \in Known : row[j].owner = s.owner /\ row[j].key = s.key}

\* mutant: any document does
ConflictNever(s) == FALSE

\* the digest of the stored Job is another one
Conflict(s) == \E j \in UnderKey(s) : row[j].document # s.document

\* mutant: the Job that is retried may still be under way
RetryRefusedByDigest(s) ==
  s.retryOf # None /\ ~\E j \in Known : j = s.retryOf /\ row[j].document = s.document

\* retryOf must name a Job that has ended and had the same document
RetryRefused(s) ==
  /\ s.retryOf # None
  /\ ~\E j \in Known : j = s.retryOf /\ Ended(j) /\ row[j].document = s.document

\* a new id: new Jobs take the lowest one
NewJob(j) == j \notin Known /\ \A i \in Jobs : i < j => i \in Known

\* the row and the first event
Create(j, s) == /\ Server!Submit(j)
                /\ row' = [row EXCEPT ![j] = s]

\* The transaction on the submission s, which answers with the Job j ...
Stores(s, j) == \/ /\ j \in UnderKey(s) /\ ~Conflict(s)
                   /\ UNCHANGED <<server, row>>
                \/ /\ UnderKey(s) = {} /\ ~RetryRefused(s) /\ NewJob(j)
                   /\ Create(j, s)

\* ... or refuses it: IdempotencyConflict, NotFound, INVALID_DOCUMENT
Refuses(s) == Conflict(s) \/ (UnderKey(s) = {} /\ RetryRefused(s))

\* a submission whose client has given up arrives after all, or is lost
LateArrives(s) ==
  /\ s \in late
  /\ late' = late \ {s}
  /\ \/ Refuses(s) /\ UNCHANGED <<server, row>>
     \/ \E j \in Jobs : Stores(s, j)
     \/ UNCHANGED <<server, row>>
  /\ UNCHANGED answered

-----------------------------------------------------------------------------
(* Properties *)

\* However often a submission is repeated, with answers lost and older ones still
\* on their way, a principal gets one Job for a key, and it carries the document
\* that was asked for (storage.py, _create_job_sync).
OneJobPerKey ==
  \A a \in answered :
    /\ row[a.job].owner = a.owner /\ row[a.job].document = a.document
    /\ \A b \in answered : a.owner = b.owner /\ a.key = b.key => a.job = b.job

\* A Job that repeats another one carries the same document and was accepted after the
\* other had ended, so that both never run at the same time (storage.py, retryOf).
RetriesFollow ==
  \A j \in Known :
    row[j].retryOf # None => /\ Ended(row[j].retryOf)
                             /\ row[j].document = row[row[j].retryOf].document
=============================================================================
