--------------------------- MODULE TrafficEngine ---------------------------
(***************************************************************************)
(* What the adapters to the remote TRex servers (RemoteTrexEngine for STL,  *)
(* RemoteAstfEngine for ASTF) let the Agent observe, as the lifecycle of    *)
(* one Job uses them.  traffic is the truth on the server: the ports a Job  *)
(* may still transmit on.  sessions is what the adapter remembers: the      *)
(* handles it still knows.                                                  *)
(***************************************************************************)
EXTENDS Deployment

CONSTANT Adapter       \* "stl" or "astf": engine.mode of the Agent

ASSUME AdapterAssumption == Adapter \in {"stl", "astf"}

VARIABLES traffic,     \* traffic[p]: the Jobs that may be active on port p
          sessions,    \* the Jobs whose handle is in _sessions
          runner       \* runner[j]: the worker of a run of j that was cancelled

engine == <<traffic, sessions, runner>>

EngineTypeOK == /\ traffic \in [Ports -> SUBSET Jobs]
                /\ sessions \in SUBSET Jobs
                /\ runner \in [Jobs -> {"none", "lost", "escaped"}]

EngineInit == /\ traffic = [p \in Ports |-> {}]
              /\ sessions = {}
              /\ runner = [j \in Jobs |-> "none"]

Occupy(j) == traffic' = [p \in Ports |->
                           IF p \in Needs[j] THEN traffic[p] \cup {j} ELSE traffic[p]]

Vacate(j) == traffic' = [p \in Ports |-> traffic[p] \ {j}]

\* prepare returned a handle; when it raises, it has released the ports
Prepared(j) == /\ Occupy(j)
               /\ sessions' = sessions \cup {j}
               /\ UNCHANGED runner

\* prepare was cancelled: the worker goes on alone and may get the ports, but
\* no handle is ever recorded
PrepareCancelled(j) == /\ Occupy(j) \/ UNCHANGED traffic
                       /\ UNCHANGED <<sessions, runner>>

\* run was cancelled: its worker is through, or goes on with the session and, over
\* STL, to the next trial
RunCancelled(j) == /\ \/ UNCHANGED runner
                      \/ Adapter = "stl" /\ runner' = [runner EXCEPT ![j] = "lost"]
                   /\ UNCHANGED <<traffic, sessions>>

\* mutant: ASTF ignores an unknown handle too
StopReturnsAlways(j) == UNCHANGED engine

\* stop of an unknown handle: STL returns at once, ASTF raises LEASE_LOST
StopReturns(j) == /\ j \in sessions \/ Adapter = "stl"
                  /\ UNCHANGED engine

StopRaises(j) == /\ j \in sessions \/ Adapter = "astf"
                 /\ UNCHANGED engine

\* cleanup of a known handle that released the ports; of an unknown one: nothing.
\* Between the two commands of a cleanup a lost run may start its next trial.
CleanupReturns(j) == \/ /\ j \in sessions
                        /\ sessions' = sessions \ {j}
                        /\ \/ Vacate(j) /\ UNCHANGED runner
                           \/ /\ runner[j] = "lost"
                              /\ runner' = [runner EXCEPT ![j] = "escaped"]
                              /\ UNCHANGED traffic
                     \/ /\ j \notin sessions
                        /\ UNCHANGED engine

\* ASTF forgets the handle even then (finally), STL keeps it
CleanupRaises(j) == /\ j \in sessions
                    /\ sessions' = IF Adapter = "astf" THEN sessions \ {j} ELSE sessions
                    /\ Vacate(j) \/ UNCHANGED traffic
                    /\ UNCHANGED runner

\* cleanup was cancelled: its worker goes on and releases the ports, or fails
CleanupCancelled(j) == /\ sessions' = IF Adapter = "astf" THEN sessions \ {j} ELSE sessions
                       /\ \/ j \in sessions /\ Vacate(j)
                          \/ UNCHANGED traffic
                       /\ UNCHANGED runner

\* reconcile proved the ports of the marker idle: stopped, reset and released
ReconcileConfirms(j) == /\ Adapter = "stl"
                        /\ traffic' = [p \in Ports |-> IF p \in Needs[j] THEN {} ELSE traffic[p]]
                        /\ UNCHANGED <<sessions, runner>>

\* The process dies: a prepare under way may have got the ports, one that was
\* cancelled may not, and no handle and no worker is left.
EngineDies(preparing, through) ==
  /\ \E gained \in SUBSET preparing :
       traffic' = [p \in Ports |-> (traffic[p] \ through) \cup {j \in gained : p \in Needs[j]}]
  /\ sessions' = {}
  /\ runner' = [j \in Jobs |-> IF runner[j] = "lost" THEN "none" ELSE runner[j]]

\* a foreign owner, traffic that goes on, an error; always so for ASTF
ReconcileFails(j) == UNCHANGED engine
============================================================================
