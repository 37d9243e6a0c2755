--------------------------- MODULE EnginePromise ---------------------------
(***************************************************************************)
(* What the Job engine takes the adapters for: the operations of            *)
(* TrafficEngine, called in the order _execute calls them for one Job after *)
(* the other.  RemoteSessions shows that the adapters keep this promise,    *)
(* each with its worker threads and the commands these send.                *)
(***************************************************************************)
EXTENDS TrafficEngine

VARIABLE stage         \* stage[j]: "new" until prepare returns, then "prepared"; "lost" if
                       \* it was cancelled or the process died; "closed" at the end

promise == <<engine, stage>>

Init == EngineInit /\ stage = [j \in Jobs |-> "new"]

Becomes(j, s) == stage' = [stage EXCEPT ![j] = s]

Prepares(j) == /\ stage[j] = "new"
               /\ \/ Becomes(j, "prepared") /\ Prepared(j)
                  \/ Becomes(j, "lost") /\ PrepareCancelled(j)
                  \/ Becomes(j, "closed") /\ UNCHANGED engine

\* a run is cancelled; stop has no effect of its own here
Runs(j) == /\ stage[j] = "prepared"
           /\ RunCancelled(j)
           /\ UNCHANGED stage

CleansUp(j) == /\ stage[j] = "prepared"
               /\ \/ Becomes(j, "closed") /\ CleanupReturns(j)
                  \/ UNCHANGED stage /\ CleanupRaises(j)
                  \/ UNCHANGED stage /\ CleanupCancelled(j)

\* those whose traffic may end without a call of theirs: a worker lets a port go before
\* anyone is told or long after, and what escaped comes to its end
Leaving == {j \in Jobs : stage[j] \in {"prepared", "lost"} \/ runner[j] = "escaped"}

\* not always on all the ports of a Job at once
LetsGo == /\ \E gone \in [Ports -> SUBSET Leaving] : traffic' = [p \in Ports |-> traffic[p] \ gone[p]]
          /\ UNCHANGED <<sessions, runner, stage>>

\* the process dies: what is under way is lost
Dies == \E preparing \in SUBSET {j \in Jobs : stage[j] = "new"},
           through \in SUBSET {j \in Jobs : stage[j] = "lost"} :
          /\ stage' = [j \in Jobs |-> IF j \in preparing \/ stage[j] = "prepared"
                                      THEN "lost" ELSE stage[j]]
          /\ EngineDies(preparing, through)

Reconciled(j) == /\ stage[j] = "lost"
                 /\ Becomes(j, "closed")
                 /\ ReconcileConfirms(j)

Next == \/ \E j \in Jobs : Prepares(j) \/ Runs(j) \/ CleansUp(j) \/ Reconciled(j)
        \/ LetsGo
        \/ Dies

Spec == Init /\ [][Next]_promise
============================================================================
