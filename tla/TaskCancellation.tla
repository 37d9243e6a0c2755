-------------------------- MODULE TaskCancellation --------------------------
(***************************************************************************)
(* task.cancel() on the task of a Job: CancelledError out of the await it   *)
(* is suspended in.  Who cancels (a client, the shutdown, the deadline of   *)
(* asyncio.wait_for) matters only once it has left _execute.                *)
(***************************************************************************)
EXTENDS JobTask

\* The task is told by one more canceller; nothing else of the frame changes.
Hit(j, byUser) ==
  /\ hitByUser' = [hitByUser EXCEPT ![j] = @ \/ byUser]
  /\ hitByDeadline' = [hitByDeadline EXCEPT ![j] = @ \/ ~byUser]
  /\ UNCHANGED <<executes, handle, confirmed, stopped>>

\* It never ran: its coroutine is closed, and no finally block of it runs.
HitNew(j, byUser) == /\ pc[j] = "new"
                     /\ Goto(j, "done")
                     /\ UNCHANGED <<store, engine, lateMarker, cut>>

\* The document was being read, or the marker saved: the save may come first,
\* or after the finally block has deleted the marker it saved.
HitMarker(j, byUser) ==
  /\ pc[j] = "marker"
  /\ Goto(j, Finally(j))
  /\ \/ UNCHANGED <<marker, lateMarker>>
     \/ SaveMarker(j) /\ UNCHANGED lateMarker
     \/ lateMarker' = [lateMarker EXCEPT ![j] = TRUE] /\ UNCHANGED marker
  /\ UNCHANGED <<state, cancelled, owner, quarantined, engine, cut>>

HitPrepare(j, byUser) == /\ pc[j] = "prepare"
                         /\ PrepareCancelled(j)
                         /\ Goto(j, Finally(j))
                         /\ UNCHANGED <<store, lateMarker, cut>>

\* The snapshot was being read, and stays, or being written, and is.
HitTransition(j, byUser) ==
  /\ pc[j] \in DOMAIN Target
  /\ Move(j, Expected(pc[j]), Target[pc[j]]) \/ UNCHANGED state
  /\ Goto(j, Finally(j))
  /\ UNCHANGED <<cancelled, owner, quarantined, marker, engine, lateMarker, cut>>

\* the worker of the run may go on
HitRun(j, byUser) == /\ pc[j] = "run"
                     /\ RunCancelled(j)
                     /\ Goto(j, Finally(j))
                     /\ UNCHANGED <<store, lateMarker, cut>>

\* warmup, stop, the artifacts: abandoned as they are
HitWait(j, byUser) == /\ pc[j] \in {"warmup", "stop", "cd_stop", "bundle"}
                      /\ Goto(j, Finally(j))
                      /\ UNCHANGED <<store, engine, lateMarker, cut>>

HitCleanup(j, byUser) == /\ pc[j] \in {"cleanup", "cd_cleanup"}
                         /\ CleanupCancelled(j)
                         /\ Goto(j, Finally(j))
                         /\ UNCHANGED <<store, lateMarker, cut>>

\* handle is still set: the finally block cleans up again
HitUnmark(j, byUser) ==
  /\ pc[j] = "unmark"
  /\ DeleteMarker(j)
  /\ Goto(j, Finally(j))
  /\ UNCHANGED <<state, cancelled, owner, quarantined, engine, lateMarker, cut>>

\* _finish_cancel without a handle has a finally block too
HitFxMove(j, byUser) ==
  /\ pc[j] \in DOMAIN FxTarget
  /\ Move(j, Expected(pc[j]), FxTarget[pc[j]]) \/ UNCHANGED state
  /\ Goto(j, "fx_release")
  /\ UNCHANGED <<cancelled, owner, quarantined, marker, engine, lateMarker, cut>>

HitFxRelease(j, byUser) ==
  /\ pc[j] = "fx_release"
  /\ Release(j, FALSE)
  /\ Goto(j, AfterFx(j))
  /\ UNCHANGED <<state, cancelled, marker, engine, lateMarker, cut>>

\* The finally block itself is cancelled: "except Exception" does not catch it,
\* and what the block had left to do is not done.
HitFinally(j, byUser) ==
  /\ \/ pc[j] = "fin_stop" /\ UNCHANGED <<engine, marker>>
     \/ pc[j] = "fin_cleanup" /\ CleanupCancelled(j) /\ UNCHANGED marker
     \/ pc[j] = "fin_unmark" /\ DeleteMarker(j) /\ UNCHANGED engine
  /\ cut' = [cut EXCEPT ![j] = TRUE]
  /\ Goto(j, Leaves(hitByUser[j] \/ byUser, hitByDeadline[j] \/ ~byUser))
  /\ UNCHANGED <<state, cancelled, owner, quarantined, lateMarker>>

\* the release was handed over: only the way out differs
HitFinRelease(j, byUser) ==
  /\ pc[j] = "fin_release"
  /\ Release(j, ~confirmed[j])
  /\ Goto(j, Leaves(hitByUser[j] \/ byUser, hitByDeadline[j] \/ ~byUser))
  /\ UNCHANGED <<state, cancelled, marker, engine, lateMarker, cut>>

HitDeadlineHandler(j, byUser) ==
  /\ \/ /\ pc[j] = "dl_fail"
        /\ Move(j, JobState, "FAILED") \/ UNCHANGED state
        /\ UNCHANGED <<owner, quarantined>>
     \/ pc[j] = "dl_release" /\ Release(j, FALSE) /\ UNCHANGED state
  /\ Goto(j, "done")
  /\ UNCHANGED <<cancelled, marker, engine, lateMarker, cut>>

CancelTask(j, byUser) ==
  /\ Hit(j, byUser)
  /\ \/ HitNew(j, byUser) \/ HitMarker(j, byUser) \/ HitPrepare(j, byUser)
     \/ HitTransition(j, byUser) \/ HitRun(j, byUser) \/ HitWait(j, byUser)
     \/ HitCleanup(j, byUser)
     \/ HitUnmark(j, byUser) \/ HitFxMove(j, byUser) \/ HitFxRelease(j, byUser)
     \/ HitFinally(j, byUser) \/ HitFinRelease(j, byUser) \/ HitDeadlineHandler(j, byUser)

\* the worker that was still saving a marker is through
LateMarkerSaved(j) ==
  /\ lateMarker[j]
  /\ SaveMarker(j)
  /\ lateMarker' = [lateMarker EXCEPT ![j] = FALSE]
  /\ UNCHANGED <<state, cancelled, owner, quarantined, engine, pc, locals, cut>>
=============================================================================
