----------------------------- MODULE JobPromise -----------------------------
(***************************************************************************)
(* What the Jobs API promises a client about one Job, whatever goes on      *)
(* inside the Agent: the snapshot it reads (GET /v1/jobs/{id}) and the      *)
(* events it can replay (GET /v1/jobs/{id}/events).                         *)
(*                                                                          *)
(*   - revisions start at 1 and grow by one with every change;              *)
(*   - every change leaves exactly one event, equal to the snapshot;        *)
(*   - a terminal snapshot never changes again;                             *)
(*   - once a cancel intent is committed the Job does not succeed.          *)
(***************************************************************************)
EXTENDS Integers, Sequences, JobStates

CONSTANT Jobs          \* the Jobs that may be submitted

VARIABLES snap,        \* snap[j]: the current snapshot of Job j
          log          \* log[j]: its events, oldest first

vars == <<snap, log>>

Snapshot == [revision : Nat, state : JobState \cup {"ABSENT"}, cancel : BOOLEAN]

\* a Job nobody submitted yet
Absent == [revision |-> 0, state |-> "ABSENT", cancel |-> FALSE]

Accepted == [revision |-> 1, state |-> "ACCEPTED", cancel |-> FALSE]

Init == /\ snap = [j \in Jobs |-> Absent]
        /\ log = [j \in Jobs |-> << >>]

\* the snapshot s with the Job in state t, and with the cancel intent
Moved(s, t) == [revision |-> s.revision + 1, state |-> t, cancel |-> s.cancel]
Marked(s) == [revision |-> s.revision + 1, state |-> s.state, cancel |-> TRUE]

\* The snapshot of j becomes s and the event of that change is recorded.
Publish(j, s) == /\ snap' = [snap EXCEPT ![j] = s]
                 /\ log' = [log EXCEPT ![j] = Append(@, s)]

Submit(j) == /\ snap[j] = Absent
             /\ Publish(j, Accepted)

\* Work on the Job goes on: a new state, or progress in the same one.
Advance(j, s) == /\ snap[j] # Absent
                 /\ snap[j].state \notin Terminal
                 /\ s = "SUCCEEDED" => ~snap[j].cancel
                 /\ Publish(j, Moved(snap[j], s))

\* A client asks for cancellation: the intent is kept, the state is not touched.
Cancel(j) == /\ snap[j] # Absent
             /\ snap[j].state \notin Terminal
             /\ Publish(j, Marked(snap[j]))

Next == \E j \in Jobs : \/ Submit(j)
                        \/ Cancel(j)
                        \/ \E s \in JobState : Advance(j, s)

Spec == Init /\ [][Next]_vars
=============================================================================
