------------------------------- MODULE JobTask -------------------------------
(***************************************************************************)
(* The asyncio task of one Job: TestJobs._execute_with_deadline around      *)
(* _execute, or a _finish_cancel the scheduler spawned.  pc names the await *)
(* the task is suspended in; a step carries out what is awaited and runs on *)
(* to the next await.  task.cancel() throws CancelledError into the await   *)
(* instead: what a worker thread was handed is carried out all the same     *)
(* (async_compat.to_thread does not cancel it), what was not is not.        *)
(***************************************************************************)
EXTENDS JobStore, TrafficEngine

VARIABLES pc,          \* where the task of j is; "none": j is not in _active
          executes,    \* j's task is an execution, not a spawned _finish_cancel
          handle,      \* handle is not None
          confirmed,   \* cleanup_confirmed
          stopped,     \* stopped, in the finally block
          hitByUser,   \* a cancel() of the API or of stop() reached the task
          hitByDeadline, \* the cancel() of asyncio.wait_for did
          lateMarker,  \* a save of j's marker is still in a worker's hands
          cut          \* the finally block of j's execution was itself cancelled

locals == <<executes, handle, confirmed, stopped, hitByUser, hitByDeadline>>
task == <<pc, locals, lateMarker, cut>>

\* awaits of a snapshot transition, and the state each moves to
Target == [warming |-> "WARMING_UP", starting |-> "RUNNING", drain |-> "DRAINING",
           collect |-> "COLLECTING", succeed |-> "SUCCEEDED", fail |-> "FAILED",
           cd_drain |-> "DRAINING", cd_collect |-> "COLLECTING", cd_cancel |-> "CANCELLED"]

\* the cancellation without a handle, at the end of _execute or spawned
FxTarget == [fx_drain |-> "DRAINING", fx_collect |-> "COLLECTING", fx_cancel |-> "CANCELLED"]

\* expected_states of those transitions; JobState where it is the state just read
Expected(l) == IF l \in {"succeed", "cd_cancel", "fx_cancel"} THEN {"COLLECTING"} ELSE JobState

TaskPc == {"none", "new", "marker", "prepare", "warmup", "run", "stop", "cleanup", "unmark",
           "bundle", "cd_stop", "cd_cleanup", "fx_release", "fin_stop", "fin_cleanup",
           "fin_unmark", "fin_release", "dl_fail", "dl_release", "done"}
            \cup DOMAIN Target \cup DOMAIN FxTarget

TaskTypeOK == /\ pc \in [Jobs -> TaskPc]
              /\ executes \in [Jobs -> BOOLEAN]
              /\ handle \in [Jobs -> BOOLEAN]
              /\ confirmed \in [Jobs -> BOOLEAN]
              /\ stopped \in [Jobs -> BOOLEAN]
              /\ hitByUser \in [Jobs -> BOOLEAN]
              /\ hitByDeadline \in [Jobs -> BOOLEAN]
              /\ lateMarker \in [Jobs -> BOOLEAN]
              /\ cut \in [Jobs -> BOOLEAN]

\* a frame nobody has entered
NoFlag == [j \in Jobs |-> FALSE]

TaskInit == /\ pc = [j \in Jobs |-> "none"]
            /\ executes = NoFlag /\ handle = NoFlag /\ stopped = NoFlag
            /\ confirmed = [j \in Jobs |-> TRUE]
            /\ hitByUser = NoFlag /\ hitByDeadline = NoFlag
            /\ lateMarker = NoFlag /\ cut = NoFlag

\* the frames of the Jobs in gone are no more
FramesLost(gone) ==
  /\ pc' = [j \in Jobs |-> IF j \in gone THEN "none" ELSE pc[j]]
  /\ executes' = [j \in Jobs |-> executes[j] /\ j \notin gone]
  /\ handle' = [j \in Jobs |-> handle[j] /\ j \notin gone]
  /\ confirmed' = [j \in Jobs |-> confirmed[j] \/ j \in gone]
  /\ stopped' = [j \in Jobs |-> stopped[j] /\ j \notin gone]
  /\ hitByUser' = [j \in Jobs |-> hitByUser[j] /\ j \notin gone]
  /\ hitByDeadline' = [j \in Jobs |-> hitByDeadline[j] /\ j \notin gone]

\* self._active, with the tasks that are done and not yet swept
Active == {j \in Jobs : pc[j] # "none"}
Running(j) == pc[j] \notin {"none", "done"}

Goto(j, l) == pc' = [pc EXCEPT ![j] = l]

\* mutant: without a handle the marker is always deleted
FinallyUnmarks(hasHandle, isConfirmed) == IF hasHandle THEN "fin_stop" ELSE "fin_unmark"

\* where the finally block of _execute begins
FinallyOf(hasHandle, isConfirmed) ==
  IF hasHandle THEN "fin_stop" ELSE IF isConfirmed THEN "fin_unmark" ELSE "fin_release"
Finally(j) == FinallyOf(handle[j], confirmed[j])

\* _spawn of an execution or of a _finish_cancel
Spawn(j, execution) ==
  /\ Goto(j, "new")
  /\ executes' = [executes EXCEPT ![j] = execution]
  /\ handle' = [handle EXCEPT ![j] = FALSE]
  /\ confirmed' = [confirmed EXCEPT ![j] = TRUE]
  /\ stopped' = [stopped EXCEPT ![j] = FALSE]
  /\ hitByUser' = [hitByUser EXCEPT ![j] = FALSE]
  /\ hitByDeadline' = [hitByDeadline EXCEPT ![j] = FALSE]
  /\ UNCHANGED <<lateMarker, cut>>

\* Steps that move the task only
Silent == UNCHANGED <<store, engine, locals, lateMarker, cut>>

-----------------------------------------------------------------------------
(* _execute *)

\* the coroutine runs for the first time
Begin(j) == /\ pc[j] = "new"
            /\ Goto(j, IF executes[j] THEN "marker" ELSE "fx_drain")
            /\ Silent

SaveExecutionMarker(j) ==
  /\ pc[j] = "marker"
  /\ SaveMarker(j)
  /\ confirmed' = [confirmed EXCEPT ![j] = FALSE]
  /\ Goto(j, "prepare")
  /\ UNCHANGED <<state, cancelled, owner, quarantined, engine, executes, handle, stopped,
                 hitByUser, hitByDeadline, lateMarker, cut>>

PrepareReturns(j) ==
  /\ pc[j] = "prepare"
  /\ Prepared(j)
  /\ handle' = [handle EXCEPT ![j] = TRUE]
  /\ Goto(j, "warming")
  /\ UNCHANGED <<store, executes, confirmed, stopped, hitByUser, hitByDeadline, lateMarker, cut>>

\* the engine rolled back: nothing is left to clean up
PrepareRaises(j) ==
  /\ pc[j] = "prepare"
  /\ confirmed' = [confirmed EXCEPT ![j] = TRUE]
  /\ Goto(j, "fail")
  /\ UNCHANGED <<store, engine, executes, handle, stopped, hitByUser, hitByDeadline,
                 lateMarker, cut>>

\* what follows the await of a transition
AfterMove(j) ==
  CASE pc[j] = "warming"    -> "warmup"
    [] pc[j] = "starting"   -> "run"
    [] pc[j] = "drain"      -> "stop"
    [] pc[j] = "collect"    -> "cleanup"
    [] pc[j] = "cd_drain"   -> "cd_stop"
    [] pc[j] = "cd_collect" -> "cd_cleanup"
    [] pc[j] \in {"succeed", "fail", "cd_cancel"} -> Finally(j)

\* _phase, _fail, and the transitions of _finish_cancel with a handle
Transition(j) ==
  /\ pc[j] \in DOMAIN Target
  /\ Move(j, Expected(pc[j]), Target[pc[j]])
  /\ Goto(j, AfterMove(j))
  /\ UNCHANGED <<cancelled, owner, quarantined, marker, engine, locals, lateMarker, cut>>

\* warmup and run end, and _cancelled looks at the intent
TrafficReturns(j) ==
  /\ \/ pc[j] = "warmup" /\ Goto(j, IF cancelled[j] THEN "cd_drain" ELSE "starting")
     \/ pc[j] = "run" /\ Goto(j, IF cancelled[j] THEN "cd_drain" ELSE "drain")
  /\ Silent

TrafficRaises(j) ==
  /\ pc[j] \in {"warmup", "run"}
  /\ Goto(j, "fail")
  /\ Silent

\* engine.stop, at the end of a run or of a cancelled one
Stop(j) ==
  /\ pc[j] \in {"stop", "cd_stop"}
  /\ \/ StopReturns(j) /\ Goto(j, IF pc[j] = "stop" THEN "collect" ELSE "cd_collect")
     \/ StopRaises(j) /\ Goto(j, "fail")
  /\ UNCHANGED <<store, locals, lateMarker, cut>>

\* engine.cleanup, likewise; only the regular one is taken as confirmation
Cleanup(j) ==
  /\ pc[j] \in {"cleanup", "cd_cleanup"}
  /\ \/ /\ CleanupReturns(j)
        /\ Goto(j, IF pc[j] = "cleanup" THEN "unmark" ELSE "cd_cancel")
        /\ confirmed' = [confirmed EXCEPT ![j] = @ \/ pc[j] = "cleanup"]
     \/ /\ CleanupRaises(j)
        /\ Goto(j, "fail")
        /\ UNCHANGED confirmed
  /\ UNCHANGED <<store, executes, handle, stopped, hitByUser, hitByDeadline, lateMarker, cut>>

Unmark(j) ==
  /\ pc[j] = "unmark"
  /\ DeleteMarker(j)
  /\ handle' = [handle EXCEPT ![j] = FALSE]
  /\ Goto(j, "bundle")
  /\ UNCHANGED <<state, cancelled, owner, quarantined, engine, executes, confirmed, stopped,
                 hitByUser, hitByDeadline, lateMarker, cut>>

\* calibrations and the Result Bundle, and the last look at the intent
Bundle(j) ==
  /\ pc[j] = "bundle"
  /\ \/ Goto(j, IF cancelled[j] THEN "fx_drain" ELSE "succeed")
     \/ Goto(j, "fail")
  /\ Silent

-----------------------------------------------------------------------------
(* _finish_cancel without a handle *)

\* mutant: only the first transition is made
FxNextStops == [fx_drain |-> "fx_release", fx_collect |-> "fx_cancel", fx_cancel |-> "fx_release"]

FxNext == [fx_drain |-> "fx_collect", fx_collect |-> "fx_cancel", fx_cancel |-> "fx_release"]

\* a terminal Job is left alone from the start
FxMove(j) ==
  /\ pc[j] \in DOMAIN FxTarget
  /\ Move(j, Expected(pc[j]), FxTarget[pc[j]])
  /\ Goto(j, IF pc[j] = "fx_drain" /\ state[j] \in Terminal THEN "fx_release"
                                                              ELSE FxNext[pc[j]])
  /\ UNCHANGED <<cancelled, owner, quarantined, marker, engine, locals, lateMarker, cut>>

AfterFx(j) == IF executes[j] THEN Finally(j) ELSE "done"

FxRelease(j) ==
  /\ pc[j] = "fx_release"
  /\ Release(j, FALSE)
  /\ Goto(j, AfterFx(j))
  /\ UNCHANGED <<state, cancelled, marker, engine, locals, lateMarker, cut>>

-----------------------------------------------------------------------------
(* The finally block of _execute, and the handler of TimeoutError around it *)

FinStop(j) ==
  /\ pc[j] = "fin_stop"
  /\ \/ StopReturns(j) /\ stopped' = [stopped EXCEPT ![j] = TRUE]
     \/ StopRaises(j) /\ stopped' = [stopped EXCEPT ![j] = FALSE]
  /\ Goto(j, "fin_cleanup")
  /\ UNCHANGED <<store, executes, handle, confirmed, hitByUser, hitByDeadline, lateMarker, cut>>

FinCleanup(j) ==
  /\ pc[j] = "fin_cleanup"
  /\ \/ CleanupReturns(j) /\ confirmed' = [confirmed EXCEPT ![j] = stopped[j]]
     \/ CleanupRaises(j) /\ confirmed' = [confirmed EXCEPT ![j] = FALSE]
  /\ Goto(j, IF confirmed'[j] THEN "fin_unmark" ELSE "fin_release")
  /\ UNCHANGED <<store, executes, handle, stopped, hitByUser, hitByDeadline, lateMarker, cut>>

FinUnmark(j) ==
  /\ pc[j] = "fin_unmark"
  /\ DeleteMarker(j)
  /\ Goto(j, "fin_release")
  /\ UNCHANGED <<state, cancelled, owner, quarantined, engine, locals, lateMarker, cut>>

\* A CancelledError that comes out of _execute is a TimeoutError to wait_for
\* only if no other cancel() than its own reached the task.
Leaves(byUser, byDeadline) == IF byDeadline /\ ~byUser THEN "dl_fail" ELSE "done"

\* mutants: the ports are released as available, or only when the stop is confirmed
FinReleaseAvailable(j) ==
  /\ pc[j] = "fin_release"
  /\ Release(j, FALSE)
  /\ Goto(j, Leaves(hitByUser[j], hitByDeadline[j]))
  /\ UNCHANGED <<state, cancelled, marker, engine, locals, lateMarker, cut>>

FinReleaseConfirmed(j) ==
  /\ pc[j] = "fin_release"
  /\ IF confirmed[j] THEN Release(j, FALSE) ELSE UNCHANGED <<owner, quarantined>>
  /\ Goto(j, Leaves(hitByUser[j], hitByDeadline[j]))
  /\ UNCHANGED <<state, cancelled, marker, engine, locals, lateMarker, cut>>

FinRelease(j) ==
  /\ pc[j] = "fin_release"
  /\ Release(j, ~confirmed[j])
  /\ Goto(j, Leaves(hitByUser[j], hitByDeadline[j]))
  /\ UNCHANGED <<state, cancelled, marker, engine, locals, lateMarker, cut>>

DeadlineFail(j) ==
  /\ pc[j] = "dl_fail"
  /\ Move(j, JobState, "FAILED")
  /\ Goto(j, "dl_release")
  /\ UNCHANGED <<cancelled, owner, quarantined, marker, engine, locals, lateMarker, cut>>

DeadlineRelease(j) ==
  /\ pc[j] = "dl_release"
  /\ Release(j, FALSE)
  /\ Goto(j, "done")
  /\ UNCHANGED <<state, cancelled, marker, engine, locals, lateMarker, cut>>

TaskStep(j) ==
  \/ Begin(j) \/ SaveExecutionMarker(j) \/ PrepareReturns(j) \/ PrepareRaises(j)
  \/ Transition(j) \/ TrafficReturns(j) \/ TrafficRaises(j) \/ Stop(j) \/ Cleanup(j)
  \/ Unmark(j) \/ Bundle(j)
  \/ FxMove(j) \/ FxRelease(j)
  \/ FinStop(j) \/ FinCleanup(j) \/ FinUnmark(j) \/ FinRelease(j)
  \/ DeadlineFail(j) \/ DeadlineRelease(j)
=============================================================================
