----------------------------- MODULE TestJobsProofs -----------------------------
(***************************************************************************)
(* The safety of the Job engine, for any Jobs, ports and limits.  Each      *)
(* layer of the inductive invariant (TestJobsInvariant) rests on the ones   *)
(* before it: the frames of the tasks and the recovery, the leases, the     *)
(* ports that may be active, the slots, the life of a Job, and what is      *)
(* given back.                                                              *)
(***************************************************************************)
EXTENDS TestJobsSteps

\* A step of the task of j leaves the frames of the others as they are.
LEMMA FrameOthers ==
  ASSUME NEW j \in Jobs, NEW k \in Jobs \ {j}, JobFrame(k), OthersKept(j)
  PROVE  JobFrame(k)'
BY DEF OthersKept, JobFrame, Covered, FrameIdle, FrameBusy, FrameLeft, Executes, Quiet, Waits

\* No transition of a task leads back to the queue.
LEMMA NeverBack ==
  ASSUME StoreTypeOK, NEW j \in Jobs, NEW from, NEW s,
         s \in {Target[l] : l \in DOMAIN Target} \cup {FxTarget[l] : l \in DOMAIN FxTarget} \cup {"FAILED"},
         Move(j, from, s) \/ UNCHANGED state
  PROVE  Waits(j)' => Waits(j)
<1>1. s \notin {"ABSENT"} \cup Recoverable
  BY DEF Target, FxTarget, Recoverable
<1>2. QED  BY <1>1 DEF Move, Waits, StoreTypeOK

\* Every step of _execute and _finish_cancel finds the marker, the handle, the engine
\* and `confirmed` as the step before it left them.
LEMMA FrameTask ==
  ASSUME Typed, NEW j \in Jobs, JobFrame(j), TaskStep(j)
  PROVE  JobFrame(j)'
<1> USE TargetTyped DEF Typed, StoreTypeOK, EngineTypeOK, TaskTypeOK, JobFrame, Covered, FrameIdle, FrameBusy, FrameLeft, Executes, Quiet, Waits, WithHandle, FxPc
<1>Begin. CASE Begin(j)
  BY <1>Begin DEF Begin, Silent, Goto, Finally, FinallyOf, AfterFx, Leaves, store, engine, locals
<1>SaveExecutionMarker. CASE SaveExecutionMarker(j)
  BY <1>SaveExecutionMarker DEF SaveExecutionMarker, SaveMarker, Goto, Finally, FinallyOf, AfterFx, Leaves, store, engine, locals
<1>PrepareReturns. CASE PrepareReturns(j)
  BY <1>PrepareReturns DEF PrepareReturns, Prepared, Occupy, Goto, Finally, FinallyOf, AfterFx, Leaves, store, engine, locals
<1>PrepareRaises. CASE PrepareRaises(j)
  BY <1>PrepareRaises DEF PrepareRaises, Goto, Finally, FinallyOf, AfterFx, Leaves, store, engine, locals
<1>Transition. CASE Transition(j)
  <2>1. Waits(j)' => Waits(j)
    BY <1>Transition, NeverBack DEF Transition
  <2>2. QED
    BY <1>Transition, <2>1 DEF Transition, AfterMove, Goto, Finally, FinallyOf, AfterFx, Leaves, store, engine, locals
<1>TrafficReturns. CASE TrafficReturns(j)
  BY <1>TrafficReturns DEF TrafficReturns, Silent, Goto, Finally, FinallyOf, AfterFx, Leaves, store, engine, locals
<1>TrafficRaises. CASE TrafficRaises(j)
  BY <1>TrafficRaises DEF TrafficRaises, Silent, Goto, Finally, FinallyOf, AfterFx, Leaves, store, engine, locals
<1>Stop. CASE Stop(j)
  BY <1>Stop DEF Stop, StopReturns, StopRaises, Goto, Finally, FinallyOf, AfterFx, Leaves, store, engine, locals
<1>Cleanup. CASE Cleanup(j)
  BY <1>Cleanup DEF Cleanup, CleanupReturns, CleanupRaises, Vacate, Goto, Finally, FinallyOf, AfterFx, Leaves, store, engine, locals
<1>Unmark. CASE Unmark(j)
  BY <1>Unmark DEF Unmark, DeleteMarker, Goto, Finally, FinallyOf, AfterFx, Leaves, store, engine, locals
<1>Bundle. CASE Bundle(j)
  BY <1>Bundle DEF Bundle, Silent, Goto, Finally, FinallyOf, AfterFx, Leaves, store, engine, locals
<1>FxMove. CASE FxMove(j)
  <2>1. Waits(j)' => Waits(j)
    BY <1>FxMove, NeverBack DEF FxMove
  <2>2. QED
    BY <1>FxMove, <2>1 DEF FxMove, FxNext, Goto, Finally, FinallyOf, AfterFx, Leaves, store, engine, locals
<1>FxRelease. CASE FxRelease(j)
  BY <1>FxRelease DEF FxRelease, Goto, Finally, FinallyOf, AfterFx, Leaves, store, engine, locals
<1>FinStop. CASE FinStop(j)
  BY <1>FinStop DEF FinStop, StopReturns, StopRaises, Goto, Finally, FinallyOf, AfterFx, Leaves, store, engine, locals
<1>FinCleanup. CASE FinCleanup(j)
  BY <1>FinCleanup DEF FinCleanup, CleanupReturns, CleanupRaises, Vacate, Goto, Finally, FinallyOf, AfterFx, Leaves, store, engine, locals
<1>FinUnmark. CASE FinUnmark(j)
  BY <1>FinUnmark DEF FinUnmark, DeleteMarker, Goto, Finally, FinallyOf, AfterFx, Leaves, store, engine, locals
<1>FinRelease. CASE FinRelease(j)
  BY <1>FinRelease DEF FinRelease, Goto, Finally, FinallyOf, AfterFx, Leaves, store, engine, locals
<1>DeadlineFail. CASE DeadlineFail(j)
  <2>1. Waits(j)' => Waits(j)
    BY <1>DeadlineFail, NeverBack DEF DeadlineFail
  <2>2. QED
    BY <1>DeadlineFail, <2>1 DEF DeadlineFail, Goto, Finally, FinallyOf, AfterFx, Leaves, store, engine, locals
<1>DeadlineRelease. CASE DeadlineRelease(j)
  BY <1>DeadlineRelease DEF DeadlineRelease, Goto, Finally, FinallyOf, AfterFx, Leaves, store, engine, locals
<1> QED
  BY <1>Begin, <1>SaveExecutionMarker, <1>PrepareReturns, <1>PrepareRaises, <1>Transition, <1>TrafficReturns, <1>TrafficRaises, <1>Stop, <1>Cleanup, <1>Unmark, <1>Bundle, <1>FxMove, <1>FxRelease, <1>FinStop, <1>FinCleanup, <1>FinUnmark, <1>FinRelease, <1>DeadlineFail, <1>DeadlineRelease DEF TaskStep

\* The same of a CancelledError in any await: whichever await it ends, the finally
\* block finds out from the handle and from `confirmed` what may still be active.
LEMMA FrameCancel ==
  ASSUME Typed, NEW j \in Jobs, JobFrame(j), NEW b \in BOOLEAN, CancelTask(j, b)
  PROVE  JobFrame(j)'
<1> USE TargetTyped DEF Typed, StoreTypeOK, EngineTypeOK, TaskTypeOK, JobFrame, Covered, FrameIdle, FrameBusy, FrameLeft, Executes, Quiet, Waits, WithHandle, FxPc
<1>0. Hit(j, b)
  BY DEF CancelTask
<1>HitNew. CASE HitNew(j, b)
  BY <1>HitNew, <1>0 DEF HitNew, Hit, Goto, Finally, FinallyOf, AfterFx, Leaves, store, engine, locals
<1>HitMarker. CASE HitMarker(j, b)
  BY <1>HitMarker, <1>0 DEF HitMarker, SaveMarker, Hit, Goto, Finally, FinallyOf, AfterFx, Leaves, store, engine, locals
<1>HitPrepare. CASE HitPrepare(j, b)
  BY <1>HitPrepare, <1>0 DEF HitPrepare, PrepareCancelled, Occupy, Hit, Goto, Finally, FinallyOf, AfterFx, Leaves, store, engine, locals
<1>HitTransition. CASE HitTransition(j, b)
  <2>1. Waits(j)' => Waits(j)
    BY <1>HitTransition, NeverBack DEF HitTransition
  <2>2. QED
    BY <1>HitTransition, <1>0, <2>1 DEF HitTransition, Goto, Finally, FinallyOf, AfterFx, Leaves, store, engine, locals, Hit
<1>HitRun. CASE HitRun(j, b)
  BY <1>HitRun, <1>0 DEF HitRun, RunCancelled, Hit, Goto, Finally, FinallyOf, AfterFx, Leaves, store, engine, locals
<1>HitWait. CASE HitWait(j, b)
  BY <1>HitWait, <1>0 DEF HitWait, Hit, Goto, Finally, FinallyOf, AfterFx, Leaves, store, engine, locals
<1>HitCleanup. CASE HitCleanup(j, b)
  BY <1>HitCleanup, <1>0 DEF HitCleanup, CleanupCancelled, Vacate, Hit, Goto, Finally, FinallyOf, AfterFx, Leaves, store, engine, locals
<1>HitUnmark. CASE HitUnmark(j, b)
  BY <1>HitUnmark, <1>0 DEF HitUnmark, DeleteMarker, Hit, Goto, Finally, FinallyOf, AfterFx, Leaves, store, engine, locals
<1>HitFxMove. CASE HitFxMove(j, b)
  <2>1. Waits(j)' => Waits(j)
    BY <1>HitFxMove, NeverBack DEF HitFxMove
  <2>2. QED
    BY <1>HitFxMove, <1>0, <2>1 DEF HitFxMove, Goto, Finally, FinallyOf, AfterFx, Leaves, store, engine, locals, Hit
<1>HitFxRelease. CASE HitFxRelease(j, b)
  BY <1>HitFxRelease, <1>0 DEF HitFxRelease, Hit, Goto, Finally, FinallyOf, AfterFx, Leaves, store, engine, locals
<1>HitFinally. CASE HitFinally(j, b)
  BY <1>HitFinally, <1>0 DEF HitFinally, CleanupCancelled, Vacate, DeleteMarker, Hit, Goto, Finally, FinallyOf, AfterFx, Leaves, store, engine, locals
<1>HitFinRelease. CASE HitFinRelease(j, b)
  BY <1>HitFinRelease, <1>0 DEF HitFinRelease, Hit, Goto, Finally, FinallyOf, AfterFx, Leaves, store, engine, locals
<1>HitDeadlineHandler. CASE HitDeadlineHandler(j, b)
  <2>1. Waits(j)' => Waits(j)
    BY <1>HitDeadlineHandler, NeverBack DEF HitDeadlineHandler
  <2>2. QED
    BY <1>HitDeadlineHandler, <1>0, <2>1 DEF HitDeadlineHandler, Goto, Finally, FinallyOf, AfterFx, Leaves, store, engine, locals, Hit
<1> QED
  BY <1>HitNew, <1>HitMarker, <1>HitPrepare, <1>HitTransition, <1>HitRun, <1>HitWait, <1>HitCleanup, <1>HitUnmark, <1>HitFxMove, <1>HitFxRelease, <1>HitFinally, <1>HitFinRelease, <1>HitDeadlineHandler DEF CancelTask

\* A step that moves no frame, and no Job back to the queue.
LEMMA FrameStays ==
  ASSUME FrameInv, UNCHANGED <<engine, marker, pc, executes, handle, confirmed, stopped>>,
         \A j \in Jobs : Waits(j)' => Waits(j)
  PROVE  FrameInv'
BY DEF FrameInv, JobFrame, Covered, FrameIdle, FrameBusy, FrameLeft, Executes, Quiet, engine

\* The scheduler sweeps frames, and makes them for Jobs that hold nothing.
LEMMA FrameTick == ASSUME Base, FrameInv, Tick PROVE FrameInv'
<1>1. Typed
  BY TypeParts DEF Base
<1>2. CASE PassEnds \/ SlotsTaken \/ Skip \/ PortsBusy \/ JobTimeoutRelease \/ AcquirePorts
  <2>1. UNCHANGED <<state, engine, marker, pc, executes, handle, confirmed, stopped>>
    BY <1>2 DEF PassEnds, SlotsTaken, Skip, PortsBusy, JobTimeoutRelease, AcquirePorts, store, task, locals
  <2>2. QED  BY <2>1, FrameStays DEF Waits
<1>3. CASE JobTimeout \/ ValidationStarts \/ ValidationEnds \/ WaitFails
  <2>1. UNCHANGED <<engine, marker, pc, executes, handle, confirmed, stopped>>
    BY <1>3 DEF JobTimeout, ValidationStarts, ValidationEnds, WaitFails, task, locals
  <2>2. \A j \in Jobs : Waits(j)' => Waits(j)
    BY <1>1, <1>3 DEF JobTimeout, ValidationStarts, ValidationEnds, WaitFails, Move, Waits, Recoverable,
       Typed, StoreTypeOK
  <2>3. QED  BY <2>1, <2>2, FrameStays
<1>4. CASE TickStart
  <2>1. UNCHANGED <<state, engine, marker>>
    BY <1>4 DEF TickStart, store
  <2>2. ASSUME NEW j \in Jobs
        PROVE  \/ pc'[j] = "none" /\ ~executes'[j]
               \/ /\ pc'[j] = pc[j] /\ (executes'[j] <=> executes[j]) /\ (handle'[j] <=> handle[j])
                  /\ (confirmed'[j] <=> confirmed[j]) /\ (stopped'[j] <=> stopped[j])
    BY <1>4 DEF TickStart, FramesLost
  <2>3. QED
    BY <2>1, <2>2 DEF engine, FrameInv, JobFrame, Covered, FrameIdle, FrameBusy, FrameLeft, Executes, Quiet, Waits,
       WithHandle, FxPc, FxTarget
<1>5. CASE SpawnFinishCancel
  BY <1>1, <1>5 DEF SpawnFinishCancel, Spawn, Goto, store, engine, FrameInv, JobFrame, Covered, FrameIdle,
     FrameBusy, FrameLeft, Executes, Quiet, Waits, WithHandle, FxPc, FxTarget, Typed, TaskTypeOK
<1>6. CASE SpawnExecution
  <2>1. Head \in Jobs /\ state[Head] = "WAITING_FOR_PORTS"
    BY <1>6, HeadIn DEF SpawnExecution, Base, PassInv, PassHolds
  <2>2. Quiet(Head)
    BY <2>1 DEF FrameInv, JobFrame, Executes, Waits, Recoverable
  <2>3. \A j \in Jobs : state'[j] = IF j = Head THEN "PREPARING" ELSE state[j]
    BY <1>1, <1>6, <2>1 DEF SpawnExecution, Move, Terminal, Typed, StoreTypeOK
  <2>4. QED
    BY <1>1, <1>6, <2>1, <2>2, <2>3 DEF SpawnExecution, Spawn, Goto, engine, FrameInv, JobFrame, Covered, FrameIdle,
       FrameBusy, FrameLeft, Executes, Quiet, Waits, Recoverable, WithHandle, FxPc, FxTarget, Typed, TaskTypeOK
<1>7. QED
  BY <1>2, <1>3, <1>4, <1>5, <1>6 DEF Tick

\* The process dies: a run in the middle of prepare may take its ports yet, and its
\* marker is on disk.
LEMMA FrameEnds == ASSUME Base, FrameInv, Ends PROVE FrameInv'
<1>1. Typed
  BY TypeParts DEF Base
<1>2. PICK gained \in SUBSET {j \in Jobs : pc[j] = "prepare"} :
        traffic' = [p \in Ports |-> (traffic[p] \ {}) \cup {j \in gained : p \in Needs[j]}]
  BY DEF Ends, MemoryLost, EngineDies
<1>3. /\ UNCHANGED <<state, marker>>
      /\ \A j \in Jobs : /\ pc'[j] = "none" /\ ~executes'[j]
                         /\ (runner'[j] = "escaped" <=> runner[j] = "escaped")
  BY <1>1 DEF Ends, MemoryLost, FramesLost, EngineDies, store, Typed, EngineTypeOK
<1>4. \A j \in Jobs, p \in Ports : j \in traffic'[p] => j \in traffic[p] \/ (pc[j] = "prepare" /\ p \in Needs[j])
  BY <1>2
<1>5. \A j \in Jobs : pc[j] = "prepare" => marker[j] /\ ~Waits(j)
  BY DEF FrameInv, JobFrame, FrameIdle, Executes, FxPc, FxTarget
<1>6. \A j \in Jobs : Covered(j)' /\ (Waits(j)' => Quiet(j)')
  BY <1>3, <1>4, <1>5 DEF FrameInv, JobFrame, Covered, Executes, Quiet, Waits
<1>7. QED
  BY <1>3, <1>6 DEF FrameInv, JobFrame, FrameIdle, FrameBusy, FrameLeft, Executes, WithHandle, FxPc, FxTarget

\* _recover deletes a marker only after the engine has confirmed its ports.
LEMMA FrameRecover == ASSUME Base, FrameInv, RecoveryInv, Recover PROVE FrameInv'
<1>1. Typed
  BY TypeParts DEF Base
<1>2. UNCHANGED task
  BY DEF Recover, Start, RecoverJob, RecoverMarker, RecoverUnmark, RecoverConfirm, RecoverFail,
     RecoverRelease, RecoverLoopEnds, Recovering
<1>3. \A j \in Jobs : pc[j] = "none" /\ Covered(j) /\ Executes(j)
  BY DEF Recover, Start, RecoverJob, RecoverMarker, RecoverUnmark, RecoverConfirm, RecoverFail,
     RecoverRelease, RecoverLoopEnds, Base, MemoryInv, MemoryEmpty, RecoveryRuns, FrameInv, JobFrame
<1>4. SUFFICES \A j \in Jobs : Covered(j)' /\ Executes(j)'
  BY <1>2, <1>3 DEF FrameInv, JobFrame, FrameIdle, FrameBusy, FrameLeft, WithHandle, FxPc, FxTarget, task
<1>5. CASE Start \/ RecoverConfirm \/ RecoverRelease \/ RecoverLoopEnds
  BY <1>2, <1>3, <1>5 DEF Start, RecoverConfirm, RecoverRelease, RecoverLoopEnds, Covered, Executes, Quiet, Waits,
     store, engine, task, locals
<1>6. CASE RecoverJob \/ RecoverMarker
  BY <1>1, <1>2, <1>3, <1>6 DEF RecoverJob, RecoverMarker, ReconcileConfirms, ReconcileFails, Covered, Executes, Quiet, Waits,
     store, engine, task, locals, Typed, EngineTypeOK
<1>7. CASE RecoverUnmark
  <2>1. rjob \in Jobs /\ Quiet(rjob)
    BY <1>3, <1>7 DEF RecoverUnmark, RecoveryInv, AtJob, RecoveryPc, Covered, Quiet
  <2>2. QED
    BY <1>1, <1>2, <1>3, <1>7, <2>1 DEF RecoverUnmark, DeleteMarker, Covered, Executes, Quiet, Waits,
       engine, task, locals, Typed, StoreTypeOK
<1>8. CASE RecoverFail
  <2>1. \A j \in Jobs : Waits(j)' => Waits(j)
    BY <1>1, <1>8, NeverBack DEF RecoverFail, Move, Waits, Recoverable, Typed, StoreTypeOK
  <2>2. QED
    BY <1>2, <1>3, <1>8, <2>1 DEF RecoverFail, Covered, Executes, Quiet, engine, task, locals
<1>9. QED
  BY <1>5, <1>6, <1>7, <1>8 DEF Recover

\* No step takes the frames out of FrameInv.
LEMMA FrameStep == Base /\ FrameInv /\ RecoveryInv /\ [Next]_vars => FrameInv'
<1>1. HAVE Base /\ FrameInv /\ RecoveryInv /\ [Next]_vars
<1>2. Typed
  BY <1>1, TypeParts DEF Base
<1>3. CASE Outside \/ Shutdown \/ SchedulerExits
  BY <1>1, <1>3, FrameStays DEF Outside, Shutdown, SchedulerExits, store, task, locals, Waits
<1>4. ASSUME NEW j \in Jobs, TaskMoves(j) PROVE  FrameInv'
  <2>1. OthersKept(j) /\ JobFrame(j)'
    BY <1>1, <1>2, <1>4, TaskKeeps, CancelKeeps, FrameTask, FrameCancel DEF TaskMoves, FrameInv
  <2>2. QED  BY <1>1, <2>1, FrameOthers DEF FrameInv
<1>5. ASSUME NEW j \in Jobs, LateSave(j) PROVE  FrameInv'
  BY <1>1, <1>2, <1>5 DEF LateSave, LateMarkerSaved, SaveMarker, FrameInv, JobFrame, Covered, FrameIdle, FrameBusy,
     FrameLeft, Executes, Quiet, Waits, engine, locals, Typed, StoreTypeOK
<1>6. ASSUME NEW j \in Jobs, Submit(j) \/ RequestCancel(j) PROVE  FrameInv'
  <2>1. UNCHANGED <<engine, marker, pc, executes, handle, confirmed, stopped>>
    BY <1>6 DEF Submit, RequestCancel, task, locals
  <2>2. \A k \in Jobs : Waits(k)' => Waits(k)
    BY <1>2, <1>6 DEF Submit, RequestCancel, Waits, Typed, StoreTypeOK
  <2>3. QED  BY <1>1, <2>1, <2>2, FrameStays
<1>7. QED
  BY <1>1, <1>3, <1>4, <1>5, <1>6, FrameTick, FrameEnds, FrameRecover, StepKinds DEF Base

\* _recover goes through every Job that was under way, and knows at every one what the
\* reconcile has confirmed.
LEMMA RecoveryStep == Base /\ FrameInv /\ RecoveryInv /\ [Next]_vars => RecoveryInv'
<1>1. HAVE Base /\ FrameInv /\ RecoveryInv /\ [Next]_vars
<1>2. Typed /\ RestTyped
  BY <1>1, TypeParts DEF Base
<1>3. agent # "recovering" <=> rpass = "off"
  BY <1>1 DEF Base, MemoryInv, RecoveryRuns
\* nothing but the recovery goes on while it does
<1>4. CASE Outside \/ Shutdown \/ SchedulerExits \/ Ends \/ Tick
           \/ \E j \in Jobs : TaskMoves(j) \/ LateSave(j) \/ Submit(j) \/ RequestCancel(j)
  <2>1. CASE agent = "recovering"
    <3>1. CASE Outside
      BY <1>1, <3>1 DEF Outside, Memory, RecoveryInv, recovery, Quiet, engine, store
    <3>2. CASE \E j \in Jobs : RequestCancel(j) \/ LateSave(j) \/ TaskMoves(j)
      BY <1>1, <1>2, <2>1, <3>2, TaskRuns DEF RequestCancel, LateSave, LateMarkerSaved, TaskMoves, Running, Base, MemoryInv, MemoryEmpty
    <3>3. CASE Ends
      BY <3>3 DEF Ends, MemoryLost, RecoveryInv, AtJob
    <3>4. CASE Shutdown \/ SchedulerExits \/ Tick \/ \E j \in Jobs : Submit(j)
      BY <1>1, <2>1, <3>4 DEF Shutdown, SchedulerExits, Submit, Base, MemoryInv, MemoryEmpty, Tick, TickStart, PassEnds, SlotsTaken, Skip, SpawnFinishCancel, JobTimeout,
         JobTimeoutRelease, ValidationStarts, ValidationEnds, WaitFails, PortsBusy, AcquirePorts,
         SpawnExecution, Visits, Waiting
    <3>5. QED  BY <1>4, <3>1, <3>2, <3>3, <3>4
  <2>2. CASE agent # "recovering"
    <3>1. agent' # "recovering" /\ rpass' = "off"
      BY <1>3, <1>4, <2>2 DEF Outside, Shutdown, SchedulerExits, Ends, MemoryLost, TaskMoves, LateSave, Submit,
         RequestCancel, Memory, recovery, Tick, Others, TickStart, PassEnds, SlotsTaken, Skip, SpawnFinishCancel, JobTimeout,
         JobTimeoutRelease, ValidationStarts, ValidationEnds, WaitFails, PortsBusy, AcquirePorts,
         SpawnExecution
    <3>2. QED  BY <3>1 DEF RecoveryInv, AtJob
  <2>3. QED  BY <2>1, <2>2
<1>5. CASE Recover
  <2> USE DEF RecoveryInv, AtJob, RecoveryPc
  <2>1. CASE Start
    BY <2>1 DEF Start, store
  <2>2. CASE RecoverJob
    <3>1. rjob' \in Jobs /\ rtodo' = rtodo \ {rjob'} /\ agent = "recovering" /\ agent' = agent /\ state' = state
      BY <1>2, <1>3, <2>2, OldestIn DEF RecoverJob, RestTyped, store
    <3>2. CASE ~marker[rjob'] /\ rpass' = "fail_idle" /\ UNCHANGED engine
      <4>1. Quiet(rjob')
        BY <1>1, <3>1, <3>2 DEF FrameInv, JobFrame, Covered
      <4>2. Quiet(rjob)'
        BY <3>2, <4>1 DEF Quiet, engine
      <4>3. QED  BY <1>1, <2>2, <3>1, <3>2, <4>2 DEF RecoverJob
    <3>3. CASE \/ ReconcileConfirms(rjob') /\ rpass' = "unmark"
               \/ ReconcileFails(rjob') /\ rpass' = "fail_busy"
      <4>1. rpass' = "unmark" => \A p \in Needs[rjob'] : traffic'[p] = {}
        <5>1. \A p \in Needs[rjob'] : p \in Ports
          BY <3>1, NeedsAssumption
        <5>2. QED  BY <3>3, <5>1 DEF ReconcileConfirms
      <4>2. QED  BY <1>1, <2>2, <3>1, <3>3, <4>1 DEF RecoverJob
    <3>4. QED  BY <2>2, <3>2, <3>3 DEF RecoverJob
  <2>3. CASE RecoverMarker
    <3>1. PICK j \in rtodo : /\ rjob' = j /\ rtodo' = rtodo \ {j}
                             /\ \/ ReconcileConfirms(j) /\ rpass' = "unmark_left"
                                \/ ReconcileFails(j) /\ UNCHANGED rpass
      BY <2>3 DEF RecoverMarker
    <3>2. j \in Jobs /\ agent = "recovering" /\ agent' = agent /\ state' = state /\ rpass = "markers"
      BY <1>2, <1>3, <2>3 DEF RecoverMarker, RestTyped, store
    <3>3. rpass' = "unmark_left" => \A p \in Needs[j] : traffic'[p] = {}
      <4>1. \A p \in Needs[j] : p \in Ports
        BY <3>2, NeedsAssumption
      <4>2. QED  BY <3>1, <3>2, <4>1 DEF ReconcileConfirms
    <3>4. QED  BY <1>1, <3>1, <3>2, <3>3
  <2>4. CASE RecoverUnmark
    BY <1>1, <2>4 DEF RecoverUnmark, engine
  <2>5. CASE RecoverConfirm
    <3>1. rjob \in Jobs /\ \A p \in Needs[rjob] : traffic[p] = {}
      BY <1>1, <2>5 DEF RecoverConfirm
    <3>2. Quiet(rjob)'
      BY <1>1, <2>5, <3>1 DEF RecoverConfirm, FrameInv, JobFrame, Covered, Quiet, engine
    <3>3. QED  BY <1>1, <2>5, <3>1, <3>2 DEF RecoverConfirm, engine
  <2>6. CASE RecoverFail
    <3>1. \A j \in Jobs : state'[j] = IF j = rjob /\ state[j] \in Executing THEN "FAILED" ELSE state[j]
      BY <1>2, <2>6 DEF RecoverFail, Move, Executing, Typed, StoreTypeOK
    <3>2. "FAILED" \notin Executing
      BY DEF Executing, Terminal
    <3>3. Quiet(rjob) => Quiet(rjob)'
      BY <2>6 DEF RecoverFail, Quiet, engine
    <3>4. QED  BY <1>1, <2>6, <3>1, <3>2, <3>3 DEF RecoverFail
  <2>7. CASE RecoverRelease
    BY <1>1, <2>7 DEF RecoverRelease
  <2>8. CASE RecoverLoopEnds
    BY <1>1, <2>8 DEF RecoverLoopEnds, store
  <2>9. QED
    BY <1>5, <2>1, <2>2, <2>3, <2>4, <2>5, <2>6, <2>7, <2>8 DEF Recover
<1>6. QED
  BY <1>1, <1>4, <1>5, StepKinds DEF Base

\* the layers up to the frames
Frames == Base /\ FrameInv /\ RecoveryInv

\* The frames of the tasks, and where the recovery is, at every step.
THEOREM FramesCorrect == Spec => []Frames
<1>1. Init => FrameInv /\ RecoveryInv
  BY DEF Init, StoreInit, EngineInit, TaskInit, NoFlag, FrameInv, JobFrame, Covered, FrameIdle, FrameBusy, FrameLeft,
     Executes, Quiet, Waits, WithHandle, FxPc, FxTarget, RecoveryInv, AtJob
<1>2. QED
  BY <1>1, BaseCorrect, FrameStep, RecoveryStep, PTL DEF Spec, Frames

\* The frames tell it of every Job.
LEMMA MarkersHold == Frames => MarkerCoversTraffic
<1>1. SUFFICES ASSUME Frames, NEW p \in Ports, NEW j \in traffic[p] PROVE marker[j] \/ runner[j] = "escaped"
  BY DEF MarkerCoversTraffic
<1>2. j \in Jobs
  BY <1>1 DEF Frames, Base, TypeOK, EngineTypeOK
<1>3. QED  BY <1>1, <1>2 DEF Frames, FrameInv, JobFrame, Covered, Quiet

\* While TRex ports may be in the hands of a Job its marker is on disk (_execute,
\* save_execution_marker before prepare; delete_execution_marker after a confirmation).
THEOREM MarkersCorrect == Spec => []MarkerCoversTraffic
BY MarkersHold, FramesCorrect, PTL

-----------------------------------------------------------------------------
(* Leases *)

\* awaits of an execution that may have lost its ports
Released == {"none", "done", "dl_fail", "dl_release", "fx_release", "fin_unmark", "fin_release"}

\* the releases a task makes
TaskReleases(j) == \/ pc[j] = "fin_release" /\ Release(j, ~confirmed[j])
                   \/ pc[j] \in {"fx_release", "dl_release"} /\ Release(j, FALSE)

\* How a step of a task, or a cancel of it, gets on with the leases.
OwnerFlow(j) ==
  /\ UNCHANGED <<owner, quarantined>> \/ TaskReleases(j)
  /\ pc[j] \in Released => pc'[j] \in Released
  /\ executes'[j] <=> executes[j]
  /\ cut[j] => cut'[j]
  /\ pc'[j] \in {"dl_fail", "dl_release", "done"} /\ ~cut'[j]
       => \/ TaskReleases(j)
          \/ pc[j] = "dl_fail" /\ pc'[j] \in {"dl_release", "done"}
          \/ pc[j] = "new" /\ pc'[j] = "done" /\ UNCHANGED state

\* A task gives up leases where it releases them, and is on its way out from there.
LEMMA TaskOwner ==
  ASSUME Typed, NEW j \in Jobs, JobFrame(j), TaskStep(j)
  PROVE  OwnerFlow(j)
<1> USE DEF OwnerFlow, TaskReleases, Released, Goto, Typed, TaskTypeOK, store, locals
<1>1. CASE Transition(j)
  BY <1>1, TargetTyped DEF Transition, AfterMove, Finally, FinallyOf
<1>2. CASE FxMove(j)
  <2>1. pc[j] \in {"fx_drain", "fx_collect", "fx_cancel"} /\ UNCHANGED <<owner, quarantined, executes, cut>>
    BY <1>2, TargetTyped DEF FxMove
  <2>2. pc'[j] \in {"fx_collect", "fx_cancel", "fx_release"}
    BY <1>2, <2>1 DEF FxMove, FxNext
  <2>3. QED  BY <2>1, <2>2
<1>3. CASE Begin(j) \/ SaveExecutionMarker(j) \/ PrepareReturns(j) \/ PrepareRaises(j) \/ Unmark(j) \/ Bundle(j)
  BY <1>3 DEF Begin, Silent, SaveExecutionMarker, PrepareReturns, PrepareRaises, Unmark, Bundle
<1>4. CASE TrafficReturns(j) \/ TrafficRaises(j) \/ Stop(j) \/ Cleanup(j)
  BY <1>4 DEF TrafficReturns, Silent, TrafficRaises, Stop, Cleanup
<1>5. CASE FinStop(j) \/ FinCleanup(j) \/ FinUnmark(j) \/ DeadlineFail(j)
  BY <1>5 DEF FinStop, FinCleanup, FinUnmark, DeadlineFail
<1>6. CASE FxRelease(j)
  BY <1>6 DEF FxRelease, AfterFx, Finally, FinallyOf, JobFrame, FrameIdle, FxPc
<1>7. CASE FinRelease(j) \/ DeadlineRelease(j)
  BY <1>7 DEF FinRelease, DeadlineRelease, Leaves
<1>8. QED
  BY <1>1, <1>2, <1>3, <1>4, <1>5, <1>6, <1>7 DEF TaskStep

\* The same of a cancelled task; one cancelled in its finally block is `cut`.
LEMMA CancelOwner ==
  ASSUME Typed, NEW j \in Jobs, JobFrame(j), NEW b \in BOOLEAN, CancelTask(j, b)
  PROVE  OwnerFlow(j)
<1> USE TargetTyped DEF OwnerFlow, TaskReleases, Released, Goto, Hit, Typed, TaskTypeOK, store, Finally, FinallyOf
<1>0. Hit(j, b)
  BY DEF CancelTask
<1>1. CASE HitNew(j, b) \/ HitMarker(j, b) \/ HitPrepare(j, b) \/ HitTransition(j, b) \/ HitRun(j, b)
  BY <1>0, <1>1 DEF HitNew, HitMarker, HitPrepare, HitTransition, HitRun
<1>2. CASE HitWait(j, b) \/ HitCleanup(j, b) \/ HitUnmark(j, b) \/ HitFxMove(j, b)
  BY <1>0, <1>2 DEF HitWait, HitCleanup, HitUnmark, HitFxMove
<1>3. CASE HitFxRelease(j, b)
  BY <1>0, <1>3 DEF HitFxRelease, AfterFx, JobFrame, FrameIdle, FxPc
<1>4. CASE HitFinally(j, b)
  BY <1>0, <1>4 DEF HitFinally, Leaves
<1>5. CASE HitFinRelease(j, b)
  BY <1>0, <1>5 DEF HitFinRelease, Leaves
<1>6. CASE HitDeadlineHandler(j, b)
  BY <1>0, <1>6 DEF HitDeadlineHandler
<1>7. QED
  BY <1>1, <1>2, <1>3, <1>4, <1>5, <1>6 DEF CancelTask

\* The two together, for a step of the task of j or against it.
LEMMA TaskFlow ==
  ASSUME Frames, NEW j \in Jobs, TaskMoves(j)
  PROVE  OwnerFlow(j) /\ OthersKept(j) /\ UNCHANGED Memory
<1>1. Typed /\ JobFrame(j)
  BY TypeParts DEF Frames, Base, FrameInv
<1>2. QED  BY <1>1, TaskOwner, CancelOwner, TaskKeeps, CancelKeeps DEF TaskMoves

\* No step takes a port from an execution that may still touch it: not the pass that
\* times a Job out, not the release of another task, not the recovery.
LEMMA LeaseStep == Frames /\ LeaseInv /\ [Next]_vars => LeaseInv'
<1>1. HAVE Frames /\ LeaseInv /\ [Next]_vars
<1>2. Typed /\ RestTyped
  BY <1>1, TypeParts DEF Frames, Base
<1> USE DEF LeaseInv, LeaseCoversExecution
<1>3. CASE Outside \/ Shutdown \/ SchedulerExits
           \/ \E j \in Jobs : LateSave(j) \/ Submit(j) \/ RequestCancel(j)
  BY <1>1, <1>3 DEF Outside, Shutdown, SchedulerExits, LateSave, LateMarkerSaved, Submit, RequestCancel, store, task, locals
<1>4. ASSUME NEW j \in Jobs, TaskMoves(j) PROVE LeaseInv'
  <2>1. OwnerFlow(j) /\ OthersKept(j)
    BY <1>1, <1>4, TaskFlow
  <2>2. ASSUME NEW k \in Jobs \ {j}, NEW p \in Needs[k], owner[p] = k PROVE owner'[p] = k
    BY <2>1, <2>2, NeedsAssumption DEF OthersKept
  <2>3. ASSUME NEW p \in Needs[j], pc'[j] \notin Released PROVE owner'[p] = owner[p]
    BY <2>1, <2>3 DEF OwnerFlow, TaskReleases, Released
  <2>4. QED  BY <1>1, <2>1, <2>2, <2>3 DEF OthersKept, OwnerFlow, Released
<1>5. CASE Ends
  BY <1>5 DEF Ends, MemoryLost, FramesLost
<1>6. CASE Recover
  <2>1. \A j \in Jobs : pc'[j] = "none"
    BY <1>1, <1>6 DEF Recover, Start, RecoverJob, RecoverMarker, RecoverUnmark, RecoverConfirm, RecoverFail,
       RecoverRelease, RecoverLoopEnds, Recovering, task, Frames, Base, MemoryInv, MemoryEmpty, RecoveryRuns
  <2>2. QED  BY <2>1
<1>7. CASE Tick
  <2>1. CASE PassEnds \/ SlotsTaken \/ Skip \/ PortsBusy \/ JobTimeout \/ ValidationStarts \/ ValidationEnds \/ WaitFails
    BY <1>1, <2>1 DEF PassEnds, SlotsTaken, Skip, PortsBusy, JobTimeout, ValidationStarts, ValidationEnds,
       WaitFails, store, task, locals
  <2>2. CASE TickStart
    BY <1>1, <2>2 DEF TickStart, FramesLost, store
  <2>3. CASE SpawnFinishCancel
    BY <1>1, <1>2, <2>3 DEF SpawnFinishCancel, Spawn, Goto, store, Typed, TaskTypeOK
  <2>4. CASE SpawnExecution
    BY <1>1, <1>2, <2>4, HeadIn DEF SpawnExecution, Spawn, Goto, store, Typed, TaskTypeOK, Frames, Base, PassInv, PassHolds, Leased, Owns
  <2>5. CASE JobTimeoutRelease
    <3>1. Head \notin Active
      BY <1>1, <2>5 DEF JobTimeoutRelease, Frames, Base, PassInv, PassHolds
    <3>2. QED  BY <1>1, <2>5, <3>1, NeedsAssumption DEF JobTimeoutRelease, Release, Active, task, locals
  <2>6. CASE AcquirePorts
    <3>1. Head \notin Active
      BY <1>1, <2>6 DEF AcquirePorts, Waiting, Visits
    <3>2. QED  BY <1>1, <2>6, <3>1, NeedsAssumption, NoneAssumption DEF AcquirePorts, Acquire, AcquireBusy, Active, task, locals
  <2>7. QED
    BY <1>7, <2>1, <2>2, <2>3, <2>4, <2>5, <2>6 DEF Tick
<1>8. QED
  BY <1>1, <1>3, <1>4, <1>5, <1>6, <1>7, StepKinds

\* An execution has all its ports from its first step to the release in its finally
\* block (_tick, _execute, and every other caller of release_ports).
THEOREM LeaseCorrect == Spec => []LeaseCoversExecution
<1>1. Init => LeaseInv
  BY DEF Init, TaskInit, NoFlag, LeaseInv, LeaseCoversExecution
<1>2. QED
  BY <1>1, FramesCorrect, LeaseStep, PTL DEF Spec, LeaseInv

-----------------------------------------------------------------------------
(* Ports that may be active *)

\* FailClosedUnlessCut of one Job and one port
PortClosed(j, p) == j \in traffic[p] => owner[p] = j \/ quarantined[p] \/ cut[j] \/ runner[j] = "escaped"

\* the parts of ClosedInv about one Job
JobSettled(j) ==
  /\ pc[j] \in {"dl_fail", "dl_release", "done"} => Settled(j)
  /\ pc[j] # "none" /\ ~executes[j] => Settled(j)
  /\ agent \in {"up", "stopping"} /\ pc[j] = "none" /\ state[j] \notin Terminal => Settled(j)

\* ClosedInv, one Job and one port at a time.
LEMMA ClosedParts ==
  ASSUME TypeOK
  PROVE  ClosedInv <=> /\ QuarantinedFree
                       /\ \A j \in Jobs : JobSettled(j) /\ \A p \in Ports : PortClosed(j, p)
                       /\ sched = "timeout" => Settled(Head)
<1>1. \A p \in Ports : traffic[p] \subseteq Jobs
  BY DEF TypeOK, EngineTypeOK
<1>2. FailClosedUnlessCut <=> \A j \in Jobs : \A p \in Ports : PortClosed(j, p)
  BY <1>1 DEF FailClosedUnlessCut, PortClosed
<1>3. QED  BY <1>2 DEF ClosedInv, ReleasesSettled, JobSettled

\* What a step of the task of j does to the engine: ports are only taken by an
\* execution that has them, and only a run that had been cancelled comes back.
EngineFlow(j) ==
  /\ \A p \in Ports : j \in traffic'[p] => j \in traffic[p] \/ (pc[j] = "prepare" /\ p \in Needs[j])
  /\ runner[j] = "escaped" => runner'[j] = "escaped" \/ pc[j] = "run"

\* A task takes ports in prepare only, and a trial escapes a cleanup for good, unless
\* it is a run.
LEMMA TaskEngine ==
  ASSUME Typed, NEW j \in Jobs, TaskStep(j) \/ \E b \in BOOLEAN : CancelTask(j, b)
  PROVE  EngineFlow(j)
<1> USE DEF EngineFlow, Typed, EngineTypeOK, engine
<1>1. CASE UNCHANGED engine
  BY <1>1
<1>2. CASE \/ StopReturns(j) \/ StopRaises(j) \/ CleanupReturns(j) \/ CleanupRaises(j) \/ CleanupCancelled(j)
  BY <1>2 DEF StopReturns, StopRaises, CleanupReturns, CleanupRaises, CleanupCancelled, Vacate
<1>3. CASE pc[j] = "prepare" /\ (Prepared(j) \/ PrepareCancelled(j))
  BY <1>3 DEF Prepared, PrepareCancelled, Occupy
<1>4. CASE pc[j] = "run" /\ RunCancelled(j)
  BY <1>4 DEF RunCancelled
<1>5. CASE TaskStep(j)
  BY <1>1, <1>2, <1>3, <1>5 DEF TaskStep, Begin, Silent, SaveExecutionMarker, PrepareReturns, PrepareRaises,
     Transition, TrafficReturns, TrafficRaises, Stop, Cleanup, Unmark, Bundle, FxMove, FxRelease, FinStop,
     FinCleanup, FinUnmark, FinRelease, DeadlineFail, DeadlineRelease
<1>6. ASSUME NEW b \in BOOLEAN, CancelTask(j, b) PROVE EngineFlow(j)
  BY <1>1, <1>2, <1>3, <1>4, <1>6 DEF CancelTask, HitNew, HitMarker, HitPrepare, HitTransition, HitRun, HitWait,
     HitCleanup, HitUnmark, HitFxMove, HitFxRelease, HitFinally, HitFinRelease, HitDeadlineHandler
<1>7. QED  BY <1>5, <1>6

\* Whatever the task of j does, ports of j that may be active stay leased or go into
\* quarantine, and whoever else will release them later will find them settled.
LEMMA SettledTask ==
  ASSUME Frames, LeaseInv, ClosedInv, NEW j \in Jobs, TaskMoves(j)
  PROVE  /\ \A p \in Ports : PortClosed(j, p)'
         /\ JobSettled(j)'
<1>1. Typed /\ TypeOK /\ JobFrame(j) /\ JobFrame(j)' /\ JobSettled(j) /\ \A p \in Ports : PortClosed(j, p)
  BY TypeParts, ClosedParts, FrameTask, FrameCancel DEF Frames, Base, FrameInv, TaskMoves
<1>2. OwnerFlow(j) /\ OthersKept(j) /\ EngineFlow(j) /\ Running(j) /\ pc'[j] # "none" /\ UNCHANGED Memory
  BY <1>1, TaskFlow, TaskEngine, TaskRuns DEF TaskMoves
<1>3. pc[j] \in {"prepare", "run"} => \A p \in Needs[j] : owner[p] = j /\ owner'[p] = j
  BY <1>1, <1>2 DEF LeaseInv, LeaseCoversExecution, OwnerFlow, TaskReleases, JobFrame, Executes, FxPc, FxTarget
<1>4. pc[j] \notin {"prepare", "run"} => (Quiet(j) => Quiet(j)')
  BY <1>2 DEF EngineFlow, Quiet
<1>5. Landless(j) => Landless(j)'
  BY <1>2, NoneAssumption DEF OthersKept, Landless, Owns
<1>6. pc[j] \notin {"prepare", "run"} => (Settled(j) => Settled(j)')
  BY <1>2, <1>4, <1>5 DEF Settled, OwnerFlow
<1>7. TaskReleases(j) => Landless(j)' /\ pc[j] \in {"fin_release", "fx_release", "dl_release"}
  BY <1>1, NoneAssumption DEF TaskReleases, Release, Landless, Owns
<1>8. ASSUME NEW p \in Ports PROVE PortClosed(j, p)'
  <2>1. SUFFICES ASSUME j \in traffic'[p] PROVE owner'[p] = j \/ quarantined'[p] \/ cut'[j] \/ runner'[j] = "escaped"
    BY DEF PortClosed
  <2>2. CASE pc[j] \in {"prepare", "run"}
    BY <1>1, <1>2, <1>3, <2>1, <2>2 DEF EngineFlow, JobFrame, Covered
  <2>3. CASE pc[j] \notin {"prepare", "run"}
    <3>1. j \in traffic[p] /\ (runner[j] = "escaped" => runner'[j] = "escaped")
      BY <1>2, <2>1, <2>3 DEF EngineFlow
    <3>2. CASE UNCHANGED <<owner, quarantined>>
      BY <1>1, <1>2, <3>1, <3>2 DEF PortClosed, OwnerFlow
    <3>3. CASE pc[j] = "fin_release" /\ Release(j, ~confirmed[j])
      <4>1. confirmed[j] => Quiet(j)
        BY <1>1, <3>3 DEF JobFrame, FrameLeft
      <4>2. QED  BY <1>1, <1>2, <3>1, <3>3, <4>1 DEF PortClosed, Quiet, Release, OwnerFlow
    <3>4. CASE pc[j] \in {"fx_release", "dl_release"} /\ Release(j, FALSE)
      <4>1. Settled(j)
        BY <1>1, <3>4 DEF JobFrame, FrameIdle, FxPc, JobSettled, Settled
      <4>2. QED  BY <1>1, <1>2, <3>1, <3>4, <4>1 DEF PortClosed, Quiet, Release, OwnerFlow, Settled, Landless, Owns
    <3>5. QED  BY <1>2, <3>2, <3>3, <3>4 DEF OwnerFlow, TaskReleases
  <2>4. QED  BY <2>2, <2>3
<1>9. ~executes'[j] => Settled(j)'
  <2>1. ~executes[j] => Settled(j) /\ pc[j] \notin {"prepare", "run"}
    BY <1>1, <1>2 DEF JobSettled, Running, JobFrame, Executes, FxPc, FxTarget
  <2>2. QED  BY <1>2, <1>6, <2>1 DEF OwnerFlow
<1>10. pc'[j] \in {"dl_fail", "dl_release", "done"} => Settled(j)'
  <2>1. CASE cut'[j] \/ TaskReleases(j)
    BY <1>7, <2>1 DEF Settled
  <2>2. CASE pc[j] = "dl_fail"
    BY <1>1, <1>6, <2>2 DEF JobSettled
  <2>3. CASE pc[j] = "new"
    BY <1>1, <1>2, <1>6, <2>3 DEF JobSettled, JobFrame, FrameIdle, Settled, Running
  <2>4. QED  BY <1>2, <2>1, <2>2, <2>3 DEF OwnerFlow
<1>11. QED  BY <1>2, <1>8, <1>9, <1>10 DEF JobSettled

\* A step of the task of j settles nothing, and unsettles nothing, of the others.
LEMMA SettledOthers ==
  ASSUME Frames, ClosedInv, NEW j \in Jobs, TaskMoves(j), NEW k \in Jobs \ {j}
  PROVE  JobSettled(k)' /\ (Settled(k) => Settled(k)') /\ \A p \in Ports : PortClosed(k, p)'
<1>1. TypeOK /\ JobSettled(k) /\ \A p \in Ports : PortClosed(k, p) /\ (quarantined[p] => owner[p] = None)
  BY ClosedParts DEF Frames, Base, QuarantinedFree
<1>2. OthersKept(j) /\ UNCHANGED Memory
  BY TaskFlow
<1>3. Quiet(k) <=> Quiet(k)'
  BY <1>2 DEF OthersKept, Quiet
<1>4. Landless(k) => Landless(k)'
  BY <1>2, NoneAssumption DEF OthersKept, Landless, Owns
<1>5. Settled(k) => Settled(k)'
  BY <1>2, <1>3, <1>4 DEF Settled, OthersKept
<1>6. \A p \in Ports : PortClosed(k, p)'
  BY <1>1, <1>2, NoneAssumption DEF OthersKept, PortClosed
<1>7. QED  BY <1>1, <1>2, <1>5, <1>6 DEF JobSettled, OthersKept, Memory

\* ClosedInv, Job by Job
Closed == /\ QuarantinedFree
          /\ \A j \in Jobs : JobSettled(j) /\ \A p \in Ports : PortClosed(j, p)
          /\ sched = "timeout" => Settled(Head)

\* A step that moves no lease, no port and no task.
LEMMA ClosedStays ==
  ASSUME Closed, UNCHANGED <<owner, quarantined, engine, cut, pc, executes>>,
         agent' \in {"up", "stopping"} => agent \in {"up", "stopping"},
         \A j \in Jobs : pc[j] = "none" /\ state[j] \in Terminal => state'[j] \in Terminal,
         sched' = "timeout" => Settled(Head')
  PROVE  Closed'
<1>1. \A j \in Jobs : Settled(j) <=> Settled(j)'
  BY DEF Settled, Quiet, Landless, Owns, engine
<1>2. sched' = "timeout" => Settled(Head)'
  BY DEF Settled, Quiet, Landless, Owns, engine
<1>3. QED  BY <1>1, <1>2 DEF Closed, QuarantinedFree, JobSettled, PortClosed, engine

\* To release, as available, ports that are settled, or any ports into quarantine,
\* leaves no active port without one of the two.
LEMMA ReleaseCloses ==
  ASSUME Typed, Closed, NEW j \in Jobs, NEW b \in BOOLEAN, Release(j, b), b \/ Settled(j),
         UNCHANGED <<engine, cut>>
  PROVE  \A k \in Jobs, p \in Ports : PortClosed(k, p)'
<1>1. SUFFICES ASSUME NEW k \in Jobs, NEW p \in Ports, PortClosed(k, p), k \in traffic[p]
               PROVE  owner'[p] = k \/ quarantined'[p] \/ cut[k] \/ runner[k] = "escaped"
  BY DEF Closed, PortClosed, engine
<1>2. CASE owner[p] # j
  BY <1>1, <1>2 DEF Release, PortClosed
<1>3. CASE owner[p] = j
  <2>1. quarantined'[p] = b /\ ~quarantined[p]
    BY <1>3, NoneAssumption DEF Release, Closed, QuarantinedFree
  <2>2. k = j => quarantined'[p] \/ cut[k] \/ runner[k] = "escaped"
    BY <1>1, <1>3, <2>1 DEF Settled, Quiet, Landless, Owns
  <2>3. QED  BY <1>1, <1>3, <2>1, <2>2 DEF PortClosed
<1>4. QED  BY <1>2, <1>3

\* The scheduler releases the ports of Jobs without a task, acquires ports nobody is
\* active on but their owner, and spawns tasks.
LEMMA ClosedTick == ASSUME Frames, Closed, Tick PROVE Closed'
<1>1. Typed /\ RestTyped /\ TypeOK /\ PassInv /\ FrameInv
  BY TypeParts DEF Frames, Base
<1>2. agent \in {"up", "stopping"} /\ agent' = agent
  BY <1>1 DEF Tick, Others, TickStart, PassEnds, SlotsTaken, Skip, SpawnFinishCancel, JobTimeout,
     JobTimeoutRelease, ValidationStarts, ValidationEnds, WaitFails, PortsBusy, AcquirePorts,
     SpawnExecution, Visits, Waiting, Frames, Base, MemoryInv, MemoryEmpty, RestTyped
<1>3. CASE PassEnds \/ SlotsTaken \/ Skip \/ PortsBusy \/ ValidationStarts \/ ValidationEnds \/ WaitFails
  <2>1. \A j \in Jobs : state[j] \in Terminal => state'[j] \in Terminal
    BY <1>1, <1>3 DEF PassEnds, SlotsTaken, Skip, PortsBusy, ValidationStarts, ValidationEnds, WaitFails, Move, store,
       Typed, StoreTypeOK
  <2>2. UNCHANGED <<owner, quarantined, engine, cut, pc, executes>> /\ sched' # "timeout"
    BY <1>3 DEF PassEnds, SlotsTaken, Skip, PortsBusy, ValidationStarts, ValidationEnds, WaitFails, Waiting, Visits, store,
       task, locals, Pass
  <2>3. QED  BY <1>2, <2>1, <2>2, ClosedStays
<1>4. CASE TickStart
  <2>1. UNCHANGED <<store, engine, cut>> /\ sched' = "scan1"
    BY <1>4 DEF TickStart, Pass
  <2>2. ASSUME NEW j \in Jobs
        PROVE  \/ pc'[j] = "none" /\ pc[j] \in {"done", "none"}
               \/ pc'[j] = pc[j] /\ (executes'[j] <=> executes[j])
    BY <1>4 DEF TickStart, FramesLost
  <2>3. \A j \in Jobs : Settled(j) <=> Settled(j)'
    BY <2>1 DEF Settled, Quiet, Landless, Owns, store, engine
  <2>4. QED  BY <1>2, <2>1, <2>2, <2>3 DEF Closed, QuarantinedFree, JobSettled, PortClosed, store, engine
<1>5. CASE SpawnFinishCancel \/ JobTimeout
  <2>1. Head \in Jobs /\ pc[Head] = "none" /\ First(todo) \in todo /\ sched # "timeout" /\ sched # "validating"
    BY <1>1, <1>5, HeadIn DEF SpawnFinishCancel, JobTimeout, Visits, Active
  <2>2. state[Head] \notin Terminal
    BY <1>1, <2>1 DEF PassInv, RowsStand, AtWork, Active, Head
  <2>3. Settled(Head)
    BY <1>2, <2>1, <2>2 DEF Closed, JobSettled
  <2>4. \A j \in Jobs : Settled(j) <=> Settled(j)'
    BY <1>5 DEF SpawnFinishCancel, Spawn, JobTimeout, Settled, Quiet, Landless, Owns, store, engine, task
  <2>5. CASE SpawnFinishCancel
    <3>1. UNCHANGED <<store, engine, cut, sched>> /\ \A j \in Jobs \ {Head} : pc'[j] = pc[j] /\ executes'[j] = executes[j]
      BY <1>1, <2>1, <2>5 DEF SpawnFinishCancel, Spawn, Goto, Typed, TaskTypeOK
    <3>2. pc'[Head] = "new"
      BY <1>1, <2>1, <2>5 DEF SpawnFinishCancel, Spawn, Goto, Typed, TaskTypeOK
    <3>3. QED  BY <1>2, <2>1, <2>3, <2>4, <3>1, <3>2 DEF Closed, QuarantinedFree, JobSettled, PortClosed, store, engine
  <2>6. CASE JobTimeout
    <3>1. \A j \in Jobs : state[j] \in Terminal => state'[j] \in Terminal
      BY <1>1, <2>6 DEF JobTimeout, Move, Typed, StoreTypeOK
    <3>2. Head' = Head
      BY <2>6 DEF JobTimeout, Head
    <3>3. QED  BY <1>2, <2>3, <2>6, <3>1, <3>2, ClosedStays DEF JobTimeout, task, locals
  <2>7. QED  BY <1>5, <2>5, <2>6
<1>6. CASE JobTimeoutRelease
  <2>1. Head \in Jobs /\ Settled(Head)
    BY <1>1, <1>6, HeadIn DEF JobTimeoutRelease, Closed, PassInv, PassHolds
  <2>2. UNCHANGED <<state, engine, cut, pc, executes>> /\ sched' = "scan1"
    BY <1>6 DEF JobTimeoutRelease, task, locals, Pass
  <2>3. \A j \in Jobs : Settled(j) => Settled(j)'
    BY <1>1, <1>6, <2>2, NoneAssumption DEF JobTimeoutRelease, Release, Settled, Quiet, Landless, Owns, engine
  <2>4. \A j \in Jobs, p \in Ports : PortClosed(j, p)'
    BY <1>1, <1>6, <2>1, <2>2, ReleaseCloses DEF JobTimeoutRelease, Closed, Settled
  <2>5. QuarantinedFree'
    BY <1>1, <1>6 DEF JobTimeoutRelease, Release, Closed, QuarantinedFree
  <2>6. QED  BY <1>2, <2>2, <2>3, <2>4, <2>5 DEF Closed, JobSettled
<1>7. CASE AcquirePorts
  <2>1. /\ Head \in Jobs /\ First(todo) \in todo /\ Head \notin Active /\ sched = "scan2"
        /\ First(todo).state = "WAITING_FOR_PORTS"
    BY <1>1, <1>7, HeadIn DEF AcquirePorts, Waiting, Visits
  <2>2. Quiet(Head)
    BY <1>1, <2>1 DEF PassInv, RowsStand, AtWork, Head, FrameInv, JobFrame, Executes, Waits, Recoverable
  <2>3. UNCHANGED <<state, engine, cut, pc, executes, quarantined>> /\ sched' = "acquired"
    BY <1>7 DEF AcquirePorts, Acquire, task, locals, Pass
  <2>4. \A p \in Ports : \/ owner'[p] = owner[p]
                         \/ owner[p] \in {None, Head} /\ owner'[p] = Head /\ ~quarantined[p]
    BY <1>1, <1>7, <2>1 DEF AcquirePorts, Acquire, AcquireBusy, AcquireRefused
  <2>5. \A j \in Jobs : Settled(j) => Settled(j)'
    BY <2>2, <2>3, <2>4 DEF Settled, Quiet, Landless, Owns, engine
  <2>6. \A j \in Jobs, p \in Ports : PortClosed(j, p)'
    BY <2>1, <2>2, <2>3, <2>4, NoneAssumption DEF Closed, PortClosed, Quiet, engine
  <2>7. QuarantinedFree'
    BY <2>3, <2>4 DEF Closed, QuarantinedFree
  <2>8. QED  BY <1>2, <2>3, <2>5, <2>6, <2>7 DEF Closed, JobSettled
<1>8. CASE SpawnExecution
  <2>1. Head \in Jobs
    BY <1>1, <1>8, HeadIn DEF SpawnExecution, PassInv, PassHolds
  <2>2. UNCHANGED <<owner, quarantined, engine, cut>> /\ sched' = "scan2"
    BY <1>8 DEF SpawnExecution, Spawn, Pass
  <2>3. pc'[Head] = "new" /\ executes'[Head]
        /\ \A j \in Jobs \ {Head} : pc'[j] = pc[j] /\ executes'[j] = executes[j] /\ state'[j] = state[j]
    BY <1>1, <1>8, <2>1 DEF SpawnExecution, Spawn, Goto, Move, Typed, StoreTypeOK, TaskTypeOK
  <2>4. \A j \in Jobs : Settled(j) => Settled(j)'
    BY <2>2 DEF Settled, Quiet, Landless, Owns, engine
  <2>5. QED  BY <1>2, <2>2, <2>3, <2>4 DEF Closed, QuarantinedFree, JobSettled, PortClosed, engine
<1>9. QED
  BY <1>3, <1>4, <1>5, <1>6, <1>7, <1>8 DEF Tick

\* _recover frees ports the reconcile has confirmed, and quarantines the others.
LEMMA ClosedRecover == ASSUME Frames, Closed, Recover PROVE Closed'
<1>1. Typed /\ RestTyped /\ FrameInv /\ RecoveryInv
  BY TypeParts DEF Frames, Base
<1>2. UNCHANGED <<task, sched, todo>> /\ (\A j \in Jobs : pc[j] = "none") /\ sched = "idle"
      /\ agent \in {"down", "recovering"}
  BY <1>1 DEF Recover, Start, RecoverJob, RecoverMarker, RecoverUnmark, RecoverConfirm, RecoverFail,
     RecoverRelease, RecoverLoopEnds, Recovering, scheduler, Frames, Base, MemoryInv, MemoryEmpty, RecoveryRuns
<1>3. CASE RecoverLoopEnds
  <2>1. UNCHANGED <<store, engine>>
    BY <1>3 DEF RecoverLoopEnds
  <2>2. \A j \in Jobs : Settled(j) <=> Settled(j)'
    BY <1>2, <2>1 DEF Settled, Quiet, Landless, Owns, store, engine, task
  <2>3. agent' = "up" => \A j \in Jobs : state[j] \in Terminal \/ Quiet(j)
    <3>1. rpass # "off" => agent = "recovering"
      BY DEF Frames, Base, MemoryInv, RecoveryRuns
    <3>2. agent' = "up" => \A j \in Jobs : state[j] \notin Executing
      BY <1>1, <1>2, <1>3, <3>1 DEF RecoverLoopEnds, RecoveryInv
    <3>3. QED
      BY <1>1, <3>2 DEF FrameInv, JobFrame, Executes, Waits, Executing, Typed, StoreTypeOK
  <2>4. QED
    BY <1>1, <1>2, <1>3, <2>1, <2>2, <2>3 DEF RecoverLoopEnds, Closed, QuarantinedFree, JobSettled, PortClosed, Settled, store, engine, task, locals
<1>4. SUFFICES ASSUME ~RecoverLoopEnds
               PROVE  QuarantinedFree' /\ \A j \in Jobs, p \in Ports : PortClosed(j, p)'
  <2>1. ~RecoverLoopEnds => agent' \notin {"up", "stopping"}
    BY <1>2 DEF Recover, Start, RecoverJob, RecoverMarker, RecoverUnmark, RecoverConfirm, RecoverFail, RecoverRelease
  <2>2. QED  BY <1>2, <1>3, <2>1 DEF Closed, JobSettled, task
<1>5. CASE Start \/ RecoverUnmark \/ RecoverFail
  BY <1>2, <1>5 DEF Start, RecoverUnmark, RecoverFail, Closed, QuarantinedFree, PortClosed, store, engine, task
<1>6. CASE RecoverJob \/ RecoverMarker
  <2>1. UNCHANGED store /\ runner' = runner /\ \A p \in Ports : traffic'[p] \subseteq traffic[p]
    BY <1>1, <1>6 DEF RecoverJob, RecoverMarker, ReconcileConfirms, ReconcileFails, engine, Typed, EngineTypeOK
  <2>2. QED  BY <1>2, <2>1 DEF Closed, QuarantinedFree, PortClosed, store, task
<1>7. CASE RecoverConfirm
  <2>1. rjob \in Jobs /\ \A p \in Needs[rjob] : traffic[p] = {}
    BY <1>1, <1>7 DEF RecoverConfirm, RecoveryInv, AtJob, RecoveryPc
  <2>2. UNCHANGED <<engine, cut>>
    BY <1>2, <1>7 DEF RecoverConfirm, task
  <2>3. QED  BY <1>7, <2>1, <2>2 DEF RecoverConfirm, ConfirmAvailable, Closed, QuarantinedFree, PortClosed, engine
<1>8. CASE RecoverRelease
  <2>1. rjob \in Jobs /\ (rpass = "release_idle" => Quiet(rjob))
    BY <1>1, <1>8 DEF RecoverRelease, RecoveryInv, AtJob, RecoveryPc
  <2>2. UNCHANGED <<engine, cut>>
    BY <1>2, <1>8 DEF RecoverRelease, task
  <2>3. QuarantinedFree'
    BY <1>8 DEF RecoverRelease, Release, Closed, QuarantinedFree
  <2>4. \A j \in Jobs, p \in Ports : PortClosed(j, p)'
    BY <1>1, <1>8, <2>1, <2>2, ReleaseCloses DEF RecoverRelease, Settled
  <2>5. QED  BY <2>3, <2>4
<1>9. QED
  BY <1>4, <1>5, <1>6, <1>7, <1>8 DEF Recover

\* The process dies, and leases stay in the store.
LEMMA ClosedEnds == ASSUME Frames, LeaseInv, Closed, Ends PROVE Closed'
<1>1. Typed /\ FrameInv
  BY TypeParts DEF Frames, Base
<1>2. PICK gained \in SUBSET {j \in Jobs : pc[j] = "prepare"} :
        traffic' = [p \in Ports |-> (traffic[p] \ {}) \cup {j \in gained : p \in Needs[j]}]
  BY DEF Ends, MemoryLost, EngineDies
<1>3. /\ UNCHANGED <<store, cut>> /\ agent' = "down" /\ sched' = "idle"
      /\ \A j \in Jobs : pc'[j] = "none" /\ (runner'[j] = "escaped" <=> runner[j] = "escaped")
  BY <1>1 DEF Ends, MemoryLost, FramesLost, EngineDies, Typed, EngineTypeOK
<1>4. \A j \in Jobs, p \in Ports : j \in traffic'[p] => j \in traffic[p] \/ owner[p] = j
  BY <1>1, <1>2 DEF LeaseInv, LeaseCoversExecution, FrameInv, JobFrame, Executes, FxPc, FxTarget
<1>5. QED  BY <1>3, <1>4 DEF Closed, QuarantinedFree, JobSettled, PortClosed, store

\* No step makes a port that may be active look available.
LEMMA ClosedStep == Frames /\ LeaseInv /\ ClosedInv /\ [Next]_vars => ClosedInv'
<1>1. HAVE Frames /\ LeaseInv /\ ClosedInv /\ [Next]_vars
<1>2. Typed /\ TypeOK /\ TypeOK' /\ Closed
  BY <1>1, TypeParts, TypeStep, ClosedParts DEF Frames, Base, Closed
<1>3. SUFFICES Closed'
  <2>1. TypeOK' => (ClosedInv' <=> Closed')
    BY ClosedParts, PTL DEF Closed
  <2>2. QED  BY <1>2, <2>1
<1>4. CASE Outside \/ \E j \in Jobs : LateSave(j) \/ Submit(j) \/ RequestCancel(j)
  <2>1. UNCHANGED <<owner, quarantined, engine, cut, pc, executes, agent, sched, todo>>
    BY <1>4 DEF Outside, LateSave, LateMarkerSaved, Submit, RequestCancel, store, task, locals, Memory, scheduler
  <2>2. \A j \in Jobs : state[j] \in Terminal => state'[j] \in Terminal
    BY <1>2, <1>4 DEF Outside, LateSave, LateMarkerSaved, Submit, RequestCancel, store, Typed, StoreTypeOK, Terminal
  <2>3. QED  BY <1>2, <2>1, <2>2, ClosedStays DEF Closed, Head
<1>5. CASE Shutdown \/ SchedulerExits
  <2>1. /\ UNCHANGED <<store, engine, cut, pc, executes>>
        /\ agent \in {"up", "stopping"}
        /\ sched' # "timeout" \/ UNCHANGED <<sched, todo>>
    BY <1>5 DEF Shutdown, SchedulerExits, task, locals, Pass, scheduler
  <2>2. QED  BY <1>2, <1>5, <2>1, ClosedStays DEF Shutdown, SchedulerExits, Closed, Head, store, task, locals, scheduler, Pass
<1>6. ASSUME NEW j \in Jobs, TaskMoves(j) PROVE Closed'
  <2>1. OwnerFlow(j) /\ OthersKept(j) /\ Running(j) /\ Active' = Active /\ UNCHANGED Memory
    BY <1>1, <1>2, <1>6, TaskFlow, TaskRuns DEF TaskMoves
  <2>2. QuarantinedFree'
    BY <1>2, <2>1 DEF Closed, QuarantinedFree, OwnerFlow, TaskReleases, Release
  <2>3. \A k \in Jobs : JobSettled(k)' /\ \A p \in Ports : PortClosed(k, p)'
    BY <1>1, <1>6, SettledTask, SettledOthers
  <2>4. sched' = "timeout" => Settled(Head)'
    <3>1. ASSUME sched = "timeout" PROVE Head \in Jobs \ {j} /\ Settled(Head)
      BY <1>1, <1>2, <2>1, <3>1, HeadIn DEF Frames, Base, PassInv, PassHolds, Closed, Active, Running
    <3>2. sched = "timeout" => Settled(Head)'
      BY <1>1, <1>6, <2>1, <3>1, SettledOthers DEF Memory, scheduler, Head
    <3>3. QED  BY <2>1, <3>2 DEF Memory, scheduler
  <2>5. QED  BY <2>2, <2>3, <2>4 DEF Closed
<1>7. QED
  BY <1>1, <1>2, <1>4, <1>5, <1>6, ClosedTick, ClosedRecover, ClosedEnds, StepKinds

\* The inductive form of FailClosedUnlessCut: every release to come is safe too.
THEOREM ClosedInvariant == Spec => []ClosedInv
<1>1. Init => ClosedInv
  BY NoneAssumption DEF Init, StoreInit, EngineInit, TaskInit, NoFlag, ClosedInv, QuarantinedFree, ReleasesSettled,
     FailClosedUnlessCut, Settled, Landless, Quiet, Owns
<1>2. LeaseInv <=> LeaseCoversExecution
  BY DEF LeaseInv
<1>3. QED
  BY <1>1, <1>2, FramesCorrect, LeaseCorrect, ClosedStep, PTL DEF Spec

\* Fail closed: a port a Job may still be active on is leased to it or quarantined,
\* unless the finally block was itself cancelled or a cancelled run started a trial in
\* the middle of the cleanup (_execute, release_ports, confirm_ports_available).
THEOREM ClosedCorrect == Spec => []FailClosedUnlessCut
<1>1. ClosedInv => FailClosedUnlessCut
  BY DEF ClosedInv
<1>2. QED  BY <1>1, ClosedInvariant, PTL

\* only a recovery, and only of ports it has seen idle
Lifts == \A p \in Ports : quarantined[p] /\ ~quarantined'[p] => agent = "recovering" /\ traffic[p] = {}

\* release_ports leaves the quarantine of a port that nobody has.
LEMMA ReleaseLifts ==
  ASSUME QuarantinedFree, NEW j, j # None, NEW b \in BOOLEAN, Release(j, b)
  PROVE  Lifts
BY DEF QuarantinedFree, Release, Lifts

\* Only a recovery lifts a quarantine, and only over ports nobody is active on.
LEMMA QuarantineStep == Frames /\ ClosedInv /\ [Next]_vars => Lifts
<1>1. HAVE Frames /\ ClosedInv /\ [Next]_vars
<1>2. Typed /\ TypeOK /\ QuarantinedFree /\ RecoveryInv
  BY <1>1, TypeParts DEF Frames, Base, ClosedInv
<1>3. CASE UNCHANGED quarantined
  BY <1>3 DEF Lifts
<1>4. ASSUME NEW j \in Jobs, TaskMoves(j) PROVE Lifts
  <2>1. OwnerFlow(j) /\ (~confirmed[j]) \in BOOLEAN
    BY <1>1, <1>2, <1>4, TaskFlow DEF Typed, TaskTypeOK
  <2>2. QED  BY <1>2, <1>3, <2>1, ReleaseLifts, NoneAssumption DEF OwnerFlow, TaskReleases
<1>5. CASE JobTimeoutRelease
  <2>1. Head \in Jobs
    BY <1>1, <1>2, <1>5, HeadIn DEF JobTimeoutRelease, Frames, Base, PassInv, PassHolds
  <2>2. QED  BY <1>2, <1>5, <2>1, ReleaseLifts, NoneAssumption DEF JobTimeoutRelease
<1>6. CASE RecoverRelease
  <2>1. rjob \in Jobs /\ (rpass = "release_busy") \in BOOLEAN
    BY <1>2, <1>6 DEF RecoverRelease, RecoveryInv, AtJob, RecoveryPc
  <2>2. QED  BY <1>2, <1>6, <2>1, ReleaseLifts, NoneAssumption DEF RecoverRelease
<1>7. CASE RecoverConfirm
  <2>1. agent = "recovering" /\ \A p \in Needs[rjob] : traffic[p] = {}
    BY <1>1, <1>2, <1>7 DEF RecoverConfirm, RecoveryInv, Frames, Base, MemoryInv, RecoveryRuns
  <2>2. QED  BY <1>7, <2>1 DEF RecoverConfirm, ConfirmAvailable, Lifts
<1>8. QED
  BY <1>1, <1>3, <1>4, <1>5, <1>6, <1>7, StepKinds DEF Outside, LateSave, LateMarkerSaved, Submit, RequestCancel, Shutdown,
     SchedulerExits, Ends, store, Tick, TickStart, PassEnds, SlotsTaken, Skip, SpawnFinishCancel, JobTimeout,
     ValidationStarts, ValidationEnds, WaitFails, PortsBusy, AcquirePorts, Acquire, SpawnExecution,
     Recover, Start, RecoverJob, RecoverMarker, RecoverUnmark, RecoverFail, RecoverLoopEnds

\* A quarantined port comes back in a recovery only, after a confirmed reconcile
\* (_recover, confirm_ports_available).
THEOREM QuarantineCorrect == Spec => QuarantineLifted
<1>1. Frames /\ ClosedInv /\ [Next]_vars
        => [\A p \in Ports : quarantined[p] /\ ~quarantined'[p] => agent = "recovering" /\ traffic[p] = {}]_vars
  BY QuarantineStep DEF Lifts
<1>2. QED
  BY <1>1, FramesCorrect, ClosedInvariant, PTL DEF Spec, QuarantineLifted

-----------------------------------------------------------------------------
(* Slots *)

\* the tasks that count against maxConcurrentJobs
Executions == {j \in Jobs : executes[j] /\ Running(j)}

\* A slot is counted before a Job is acquired for, and nothing else adds a task to
\* _active in between.
LEMMA SlotStep == Base /\ SlotInv /\ [Next]_vars => SlotInv'
<1>1. HAVE Base /\ SlotInv /\ [Next]_vars
<1>2. Typed /\ TypeOK
  BY <1>1, TypeParts DEF Base
<1>3. IsFiniteSet(Active) /\ Executions \subseteq Active /\ Cardinality(Executions) <= MaxConcurrent
  BY <1>1 DEF SlotInv, ExecutionsBounded, Executions, Active, Running
\* fewer tasks, and no task that has become an execution
<1>4. ASSUME Active' \subseteq Active, Executions' \subseteq Executions PROVE SlotInv'
  <2>1. IsFiniteSet(Executions) /\ IsFiniteSet(Active')
    BY <1>3, <1>4, FS_Subset
  <2>2. Cardinality(Executions') <= Cardinality(Executions) /\ Cardinality(Executions') \in Nat
        /\ Cardinality(Executions) \in Nat
    BY <1>4, <2>1, FS_Subset, FS_CardinalityType
  <2>3. Cardinality(Executions') <= MaxConcurrent
    BY <1>3, <2>2, MaxConcurrentAssumption
  <2>4. QED  BY <2>1, <2>3 DEF SlotInv, ExecutionsBounded, Executions
<1>5. CASE UNCHANGED <<pc, executes>>
  BY <1>4, <1>5 DEF Active, Executions, Running
<1>6. ASSUME NEW j \in Jobs, TaskMoves(j) PROVE SlotInv'
  <2>1. Running(j) /\ Active' = Active /\ OthersKept(j)
    BY <1>2, <1>6, TaskRuns, TaskKeeps, CancelKeeps DEF TaskMoves
  <2>2. executes'[j] <=> executes[j]
    BY <1>2, <1>6, TaskExecutes DEF TaskMoves
  <2>3. Executions' \subseteq Executions
    BY <2>1, <2>2 DEF Executions, Running, OthersKept
  <2>4. QED  BY <1>4, <2>1, <2>3
<1>7. CASE Ends \/ TickStart
  <2>1. PICK gone \in SUBSET Jobs : FramesLost(gone)
    BY <1>7 DEF Ends, MemoryLost, TickStart
  <2>2. Active' \subseteq Active /\ Executions' \subseteq Executions
    BY <2>1 DEF FramesLost, Active, Executions, Running
  <2>3. QED  BY <1>4, <2>2
<1>8. CASE SpawnFinishCancel
  <2>1. Head \in Jobs
    BY <1>2, <1>8, HeadIn DEF SpawnFinishCancel, Visits
  <2>2. Active' = Active \cup {Head} /\ Executions' \subseteq Executions
    BY <1>2, <1>8, <2>1 DEF SpawnFinishCancel, Spawn, Goto, Active, Executions, Running, Typed, TaskTypeOK
  <2>3. IsFiniteSet(Active')
    BY <1>3, <2>2, FS_AddElement
  <2>4. IsFiniteSet(Executions)
    BY <1>3, FS_Subset
  <2>5. Cardinality(Executions') <= Cardinality(Executions) /\ Cardinality(Executions') \in Nat
        /\ Cardinality(Executions) \in Nat
    BY <2>2, <2>4, FS_Subset, FS_CardinalityType
  <2>6. QED  BY <1>3, <2>3, <2>5, MaxConcurrentAssumption DEF SlotInv, ExecutionsBounded, Executions
<1>9. CASE SpawnExecution
  <2>1. Head \in Jobs \ Active /\ Cardinality(Active) < MaxConcurrent
    BY <1>1, <1>2, <1>9, HeadIn DEF SpawnExecution, Base, PassInv, PassHolds
  <2>2. Active' = Active \cup {Head} /\ Executions' \subseteq Active'
    BY <1>2, <1>9, <2>1 DEF SpawnExecution, Spawn, Goto, Active, Executions, Running, Typed, TaskTypeOK
  <2>3. /\ IsFiniteSet(Active') /\ Cardinality(Active') = Cardinality(Active) + 1
        /\ Cardinality(Active) \in Nat
    BY <1>3, <2>1, <2>2, FS_AddElement, FS_CardinalityType
  <2>4. Cardinality(Executions') <= Cardinality(Active') /\ Cardinality(Executions') \in Nat
    BY <2>2, <2>3, FS_Subset, FS_CardinalityType
  <2>5. QED  BY <2>1, <2>3, <2>4, MaxConcurrentAssumption DEF SlotInv, ExecutionsBounded, Executions
<1>10. QED
  BY <1>1, <1>5, <1>6, <1>7, <1>8, <1>9, StepKinds DEF Outside, LateSave, LateMarkerSaved, Submit, RequestCancel,
     Shutdown, SchedulerExits, task, locals, Tick, PassEnds, SlotsTaken, Skip, JobTimeout, JobTimeoutRelease,
     ValidationStarts, ValidationEnds, WaitFails, PortsBusy, AcquirePorts,
     Recover, Recovering, Start, RecoverJob, RecoverMarker, RecoverUnmark, RecoverConfirm, RecoverFail,
     RecoverRelease, RecoverLoopEnds

\* No more executions at a time than maxConcurrentJobs, although cancellations are
\* spawned without a slot and the count is of tasks that may be done (_tick).
THEOREM SlotsCorrect == Spec => []ExecutionsBounded
<1>1. Init => SlotInv
  <2>1. SUFFICES ASSUME Init PROVE SlotInv
    OBVIOUS
  <2>2. Active = {} /\ Executions = {}
    BY <2>1 DEF Init, TaskInit, NoFlag, Active, Executions
  <2>3. QED  BY <2>2, FS_EmptySet, MaxConcurrentAssumption DEF SlotInv, ExecutionsBounded, Executions
<1>2. SlotInv => ExecutionsBounded
  BY DEF SlotInv
<1>3. QED
  BY <1>1, <1>2, BaseCorrect, SlotStep, PTL DEF Spec

-----------------------------------------------------------------------------
(* The life of a Job *)

\* LifeInv of one Job
JobLife(j) ==
  /\ pc[j] \in DOMAIN StateAt => state[j] \in StateAt[pc[j]]
  /\ pc[j] = "new" => IF executes[j] THEN state[j] = "PREPARING" ELSE Live(j)
  /\ pc[j] \in {"cd_drain", "cd_stop", "cd_collect", "cd_cleanup", "cd_cancel"}
                 \cup DOMAIN FxTarget => cancelled[j]
  /\ pc[j] = "new" /\ ~executes[j] => cancelled[j]

\* a step of the life of j, as LifeCycle has it
Step(j) ==
  state'[j] # state[j] =>
    /\ state[j] \notin Terminal
    /\ \/ state'[j] = Succeeds[state[j]]
       \/ state'[j] = "FAILED"
       \/ state'[j] \in {"DRAINING", "CANCELLED"} /\ cancelled[j]
    /\ state'[j] = "CANCELLED" => state[j] = "COLLECTING"
    /\ state'[j] = "PREPARING" => \A p \in Needs[j] : owner[p] = j

\* A task in a given await has its Job in a given state, so its next _transition is the
\* next of the design's life of a Job.
LEMMA LifeTask ==
  ASSUME Typed, NEW j \in Jobs, JobFrame(j), JobLife(j), TaskStep(j)
  PROVE  JobLife(j)' /\ Step(j)
<1> USE TargetTyped DEF JobLife, Step, Live, Goto, Typed, StoreTypeOK, TaskTypeOK, store, locals
<1>1. CASE Transition(j)
  <2>1. CASE pc[j] = "warming"
    BY <1>1, <2>1 DEF Transition, Move, Expected, Target, FxTarget, AfterMove, Finally, FinallyOf, StateAt, Succeeds, Terminal, JobState
  <2>2. CASE pc[j] = "starting"
    BY <1>1, <2>2 DEF Transition, Move, Expected, Target, FxTarget, AfterMove, Finally, FinallyOf, StateAt, Succeeds, Terminal, JobState
  <2>3. CASE pc[j] = "drain"
    BY <1>1, <2>3 DEF Transition, Move, Expected, Target, FxTarget, AfterMove, Finally, FinallyOf, StateAt, Succeeds, Terminal, JobState
  <2>4. CASE pc[j] = "collect"
    BY <1>1, <2>4 DEF Transition, Move, Expected, Target, FxTarget, AfterMove, Finally, FinallyOf, StateAt, Succeeds, Terminal, JobState
  <2>5. CASE pc[j] = "succeed"
    BY <1>1, <2>5 DEF Transition, Move, Expected, Target, FxTarget, AfterMove, Finally, FinallyOf, StateAt, Succeeds, Terminal, JobState
  <2>6. CASE pc[j] = "fail"
    BY <1>1, <2>6 DEF Transition, Move, Expected, Target, FxTarget, AfterMove, Finally, FinallyOf, StateAt, Succeeds, Terminal, JobState
  <2>7. CASE pc[j] = "cd_drain"
    BY <1>1, <2>7 DEF Transition, Move, Expected, Target, FxTarget, AfterMove, Finally, FinallyOf, StateAt, Succeeds, Terminal, JobState
  <2>8. CASE pc[j] = "cd_collect"
    BY <1>1, <2>8 DEF Transition, Move, Expected, Target, FxTarget, AfterMove, Finally, FinallyOf, StateAt, Succeeds, Terminal, JobState
  <2>9. CASE pc[j] = "cd_cancel"
    BY <1>1, <2>9 DEF Transition, Move, Expected, Target, FxTarget, AfterMove, Finally, FinallyOf, StateAt, Succeeds, Terminal, JobState
  <2>10. QED  BY <1>1, <2>1, <2>2, <2>3, <2>4, <2>5, <2>6, <2>7, <2>8, <2>9 DEF Transition
<1>2. CASE FxMove(j)
  <2>1. CASE pc[j] = "fx_drain"
    BY <1>2, <2>1 DEF FxMove, Move, Expected, FxTarget, FxNext, StateAt, Succeeds, Terminal, JobState
  <2>2. CASE pc[j] = "fx_collect"
    BY <1>2, <2>2 DEF FxMove, Move, Expected, FxTarget, FxNext, StateAt, Succeeds, Terminal, JobState
  <2>3. CASE pc[j] = "fx_cancel"
    BY <1>2, <2>3 DEF FxMove, Move, Expected, FxTarget, FxNext, StateAt, Succeeds, Terminal, JobState
  <2>4. QED  BY <1>2, <2>1, <2>2, <2>3 DEF FxMove
<1>3. CASE Begin(j)
  BY <1>3 DEF Begin, Silent, StateAt, FxTarget, JobState, Terminal
<1>4. CASE SaveExecutionMarker(j) \/ PrepareReturns(j) \/ PrepareRaises(j)
  BY <1>4 DEF SaveExecutionMarker, PrepareReturns, PrepareRaises, StateAt, FxTarget, JobState, Terminal
<1>5. CASE TrafficReturns(j) \/ TrafficRaises(j)
  BY <1>5 DEF TrafficReturns, Silent, TrafficRaises, StateAt, FxTarget, JobState, Terminal
<1>6. CASE Stop(j)
  BY <1>6 DEF Stop, StateAt, FxTarget, JobState, Terminal
<1>7. CASE Cleanup(j)
  BY <1>7 DEF Cleanup, StateAt, FxTarget, JobState, Terminal
<1>8. CASE Unmark(j) \/ Bundle(j)
  BY <1>8 DEF Unmark, Bundle, Silent, StateAt, FxTarget, JobState, Terminal
<1>9. CASE FxRelease(j) \/ FinStop(j) \/ FinCleanup(j) \/ FinUnmark(j) \/ FinRelease(j) \/ DeadlineRelease(j)
  <2>1. pc'[j] \in {"fin_stop", "fin_cleanup", "fin_unmark", "fin_release", "dl_fail", "done"} /\ state' = state
    BY <1>9 DEF FxRelease, FinStop, FinCleanup, FinUnmark, FinRelease, DeadlineRelease, AfterFx, Finally, FinallyOf, Leaves
  <2>2. QED  BY <2>1 DEF StateAt, FxTarget
<1>10. CASE DeadlineFail(j)
  BY <1>10 DEF DeadlineFail, Move, StateAt, FxTarget
<1>11. QED
  BY <1>1, <1>2, <1>3, <1>4, <1>5, <1>6, <1>7, <1>8, <1>9, <1>10 DEF TaskStep

\* The same of a transition that a cancel catches half way.
LEMMA LifeCancel ==
  ASSUME Typed, NEW j \in Jobs, JobLife(j), NEW b \in BOOLEAN, CancelTask(j, b)
  PROVE  JobLife(j)' /\ Step(j)
<1> USE TargetTyped DEF JobLife, Step, Live, Goto, Typed, StoreTypeOK, TaskTypeOK, store
<1>1. SUFFICES Step(j) /\ pc'[j] \notin DOMAIN StateAt \cup {"new"}
  BY DEF StateAt, FxTarget
<1>2. CASE HitTransition(j, b)
  <2>1. Move(j, Expected(pc[j]), Target[pc[j]]) \/ UNCHANGED state
    BY <1>2 DEF HitTransition
  <2>2. Step(j)
    <3>1. CASE pc[j] = "warming"
      BY <2>1, <3>1 DEF Move, Expected, Target, FxTarget, StateAt, Succeeds, Terminal, JobState
    <3>2. CASE pc[j] = "starting"
      BY <2>1, <3>2 DEF Move, Expected, Target, FxTarget, StateAt, Succeeds, Terminal, JobState
    <3>3. CASE pc[j] = "drain"
      BY <2>1, <3>3 DEF Move, Expected, Target, FxTarget, StateAt, Succeeds, Terminal, JobState
    <3>4. CASE pc[j] = "collect"
      BY <2>1, <3>4 DEF Move, Expected, Target, FxTarget, StateAt, Succeeds, Terminal, JobState
    <3>5. CASE pc[j] = "succeed"
      BY <2>1, <3>5 DEF Move, Expected, Target, FxTarget, StateAt, Succeeds, Terminal, JobState
    <3>6. CASE pc[j] = "fail"
      BY <2>1, <3>6 DEF Move, Expected, Target, FxTarget, StateAt, Succeeds, Terminal, JobState
    <3>7. CASE pc[j] = "cd_drain"
      BY <2>1, <3>7 DEF Move, Expected, Target, FxTarget, StateAt, Succeeds, Terminal, JobState
    <3>8. CASE pc[j] = "cd_collect"
      BY <2>1, <3>8 DEF Move, Expected, Target, FxTarget, StateAt, Succeeds, Terminal, JobState
    <3>9. CASE pc[j] = "cd_cancel"
      BY <2>1, <3>9 DEF Move, Expected, Target, FxTarget, StateAt, Succeeds, Terminal, JobState
    <3>10. QED  BY <1>2, <3>1, <3>2, <3>3, <3>4, <3>5, <3>6, <3>7, <3>8, <3>9 DEF HitTransition
  <2>3. QED  BY <1>2, <2>2 DEF HitTransition, Finally, FinallyOf, StateAt
<1>3. CASE HitFxMove(j, b)
  <2>1. Move(j, Expected(pc[j]), FxTarget[pc[j]]) \/ UNCHANGED state
    BY <1>3 DEF HitFxMove
  <2>2. Step(j)
    <3>1. CASE pc[j] = "fx_drain"
      BY <2>1, <3>1 DEF Move, Expected, FxTarget, StateAt, Succeeds, Terminal, JobState
    <3>2. CASE pc[j] = "fx_collect"
      BY <2>1, <3>2 DEF Move, Expected, FxTarget, StateAt, Succeeds, Terminal, JobState
    <3>3. CASE pc[j] = "fx_cancel"
      BY <2>1, <3>3 DEF Move, Expected, FxTarget, StateAt, Succeeds, Terminal, JobState
    <3>4. QED  BY <1>3, <3>1, <3>2, <3>3 DEF HitFxMove
  <2>3. pc'[j] = "fx_release"
    BY <1>3 DEF HitFxMove
  <2>4. QED  BY <2>2, <2>3 DEF StateAt
<1>4. CASE HitDeadlineHandler(j, b)
  BY <1>4 DEF HitDeadlineHandler, Move, StateAt
<1>5. CASE HitNew(j, b) \/ HitMarker(j, b) \/ HitPrepare(j, b) \/ HitRun(j, b) \/ HitWait(j, b) \/ HitCleanup(j, b)
           \/ HitUnmark(j, b)
  BY <1>5 DEF HitNew, HitMarker, HitPrepare, HitRun, HitWait, HitCleanup, HitUnmark, Finally, FinallyOf, StateAt
<1>6. CASE HitFxRelease(j, b) \/ HitFinally(j, b) \/ HitFinRelease(j, b)
  <2>1. pc'[j] \in {"fin_stop", "fin_unmark", "fin_release", "dl_fail", "done"} /\ state' = state
    BY <1>6 DEF HitFxRelease, HitFinally, HitFinRelease, AfterFx, Finally, FinallyOf, Leaves
  <2>2. QED  BY <2>1 DEF StateAt
<1>7. QED
  BY <1>2, <1>3, <1>4, <1>5, <1>6 DEF CancelTask

\* every Job is where its task says, and has moved along its life
LifeKept == \A j \in Jobs : JobLife(j)' /\ Step(j)

\* The transitions of the scheduler are made on lists that may be old.
LEMMA LifeTick == ASSUME Base, LifeInv, Tick PROVE LifeKept
<1>1. Typed /\ TypeOK /\ PassInv /\ \A j \in Jobs : JobLife(j)
  BY TypeParts DEF Base, LifeInv, JobLife
<1>2. CASE UNCHANGED <<state, cancelled, pc, executes>>
  BY <1>1, <1>2 DEF LifeKept, JobLife, Step, Live
<1>3. CASE TickStart
  <2>1. \A j \in Jobs : pc'[j] = "none" \/ (pc'[j] = pc[j] /\ (executes'[j] <=> executes[j]))
    BY <1>3 DEF TickStart, FramesLost
  <2>2. UNCHANGED <<state, cancelled>>
    BY <1>3 DEF TickStart, store
  <2>3. QED  BY <1>1, <2>1, <2>2 DEF LifeKept, JobLife, Step, Live, StateAt, FxTarget
<1>4. ASSUME NEW h \in Jobs, h \notin Active, UNCHANGED <<pc, executes, cancelled>>,
             \A j \in Jobs \ {h} : state'[j] = state[j],
             Step(h)
      PROVE  LifeKept
  <2>1. \A j \in Jobs \ {h} : JobLife(j)' /\ Step(j)
    BY <1>1, <1>4 DEF JobLife, Step, Live
  <2>2. JobLife(h)'
    BY <1>4 DEF JobLife, Active, StateAt, FxTarget
  <2>3. QED  BY <1>4, <2>1, <2>2 DEF LifeKept
<1>5. CASE JobTimeout \/ ValidationStarts \/ WaitFails
  <2>1. Head \in Jobs /\ Head \notin Active /\ UNCHANGED <<pc, executes, cancelled>>
    BY <1>1, <1>5, HeadIn DEF JobTimeout, ValidationStarts, WaitFails, Waiting, Visits, task, locals
  <2>2. \A j \in Jobs \ {Head} : state'[j] = state[j]
    BY <1>1, <1>5 DEF JobTimeout, ValidationStarts, WaitFails, Move, Typed, StoreTypeOK
  <2>3. \A h \in Jobs : h = Head => Step(h)
    BY <1>1, <1>5, <2>1 DEF JobTimeout, ValidationStarts, WaitFails, Move, Step, Succeeds, Typed, StoreTypeOK
  <2>4. QED  BY <1>4, <2>1, <2>2, <2>3
<1>6. CASE ValidationEnds
  <2>1. Head \in Jobs /\ Head \notin Active /\ UNCHANGED <<pc, executes, cancelled>>
    BY <1>1, <1>6, HeadIn DEF ValidationEnds, PassInv, PassHolds, task, locals
  <2>2. \A j \in Jobs \ {Head} : state'[j] = state[j]
    BY <1>1, <1>6 DEF ValidationEnds, Move, Typed, StoreTypeOK
  <2>3. \A h \in Jobs : h = Head => Step(h)
    BY <1>1, <1>6, <2>1 DEF ValidationEnds, Move, Step, Succeeds, Typed, StoreTypeOK
  <2>4. QED  BY <1>4, <2>1, <2>2, <2>3
<1>7. CASE SpawnFinishCancel
  <2>1. /\ Head \in Jobs /\ Head \notin Active /\ First(todo) \in todo /\ First(todo).cancelled
        /\ sched \in {"scan1", "scan2"}
    BY <1>1, <1>7, HeadIn DEF SpawnFinishCancel, Visits
  <2>2. cancelled[Head] /\ state[Head] \notin Terminal \cup {"ABSENT"}
    BY <1>1, <2>1 DEF PassInv, RowsStand, AtWork, Head
  <2>3. /\ UNCHANGED <<state, cancelled>> /\ pc'[Head] = "new" /\ ~executes'[Head]
        /\ \A j \in Jobs \ {Head} : pc'[j] = pc[j] /\ executes'[j] = executes[j]
    BY <1>1, <1>7, <2>1 DEF SpawnFinishCancel, Spawn, Goto, store, Typed, TaskTypeOK
  <2>4. QED  BY <1>1, <2>1, <2>2, <2>3 DEF LifeKept, JobLife, Step, Live, StateAt, FxTarget
<1>8. CASE SpawnExecution
  <2>1. PICK h \in Jobs : h = Head /\ state[h] = "WAITING_FOR_PORTS" /\ Leased(h)
    BY <1>1, <1>8, HeadIn DEF SpawnExecution, PassInv, PassHolds
  <2>2. /\ UNCHANGED cancelled /\ pc'[h] = "new" /\ executes'[h] /\ state'[h] = "PREPARING"
        /\ \A j \in Jobs \ {h} : pc'[j] = pc[j] /\ executes'[j] = executes[j] /\ state'[j] = state[j]
    BY <1>1, <1>8, <2>1 DEF SpawnExecution, Spawn, Goto, Move, Terminal, Typed, StoreTypeOK, TaskTypeOK
  <2>3. Step(h) /\ JobLife(h)'
    BY <2>1, <2>2 DEF Step, JobLife, Leased, Owns, StateAt, FxTarget, Succeeds, Terminal
  <2>4. \A j \in Jobs \ {h} : Step(j) /\ JobLife(j)'
    BY <1>1, <2>2 DEF Step, JobLife, Live
  <2>5. QED  BY <2>3, <2>4 DEF LifeKept
<1>9. QED
  BY <1>2, <1>3, <1>5, <1>6, <1>7, <1>8 DEF Tick, PassEnds, SlotsTaken, Skip, JobTimeoutRelease, PortsBusy, AcquirePorts,
     store, task, locals

\* Every step moves every Job along its life, or not at all.
LEMMA LifeStep == Frames /\ LifeInv /\ [Next]_vars => LifeKept
<1>1. HAVE Frames /\ LifeInv /\ [Next]_vars
<1>2. Typed /\ TypeOK /\ FrameInv /\ \A j \in Jobs : JobLife(j)
  BY <1>1, TypeParts DEF Frames, Base, LifeInv, JobLife
<1>3. CASE UNCHANGED <<state, cancelled, pc, executes>>
  BY <1>2, <1>3 DEF LifeKept, JobLife, Step, Live
<1>4. ASSUME NEW j \in Jobs, TaskMoves(j) PROVE LifeKept
  <2>1. OthersKept(j) /\ JobLife(j)' /\ Step(j)
    BY <1>1, <1>2, <1>4, TaskKeeps, CancelKeeps, LifeTask, LifeCancel DEF TaskMoves, FrameInv
  <2>2. \A k \in Jobs \ {j} : JobLife(k)' /\ Step(k)
    BY <1>2, <2>1 DEF OthersKept, JobLife, Step, Live
  <2>3. QED  BY <2>1, <2>2 DEF LifeKept
<1>5. ASSUME NEW j \in Jobs, Submit(j) PROVE LifeKept
  <2>1. /\ UNCHANGED <<cancelled, pc, executes>> /\ state[j] = "ABSENT" /\ state'[j] = "ACCEPTED"
        /\ \A k \in Jobs \ {j} : state'[k] = state[k]
    BY <1>2, <1>5 DEF Submit, task, locals, Typed, StoreTypeOK
  <2>2. pc[j] \notin DOMAIN StateAt \cup {"new"}
    BY <1>2, <2>1 DEF JobLife, Live, StateAt, JobState
  <2>3. Step(j) /\ JobLife(j)'
    BY <2>1, <2>2 DEF Step, JobLife, Succeeds, Terminal, StateAt, FxTarget
  <2>4. \A k \in Jobs \ {j} : JobLife(k)' /\ Step(k)
    BY <1>2, <2>1 DEF JobLife, Step, Live
  <2>5. QED  BY <2>3, <2>4 DEF LifeKept
<1>6. ASSUME NEW j \in Jobs, RequestCancel(j) PROVE LifeKept
  <2>1. UNCHANGED <<state, pc, executes>> /\ \A k \in Jobs : cancelled[k] => cancelled'[k]
    BY <1>2, <1>6 DEF RequestCancel, task, locals, Typed, StoreTypeOK
  <2>2. QED  BY <1>2, <2>1 DEF LifeKept, JobLife, Step, Live
<1>7. CASE Ends
  BY <1>7 DEF Ends, MemoryLost, FramesLost, store, LifeKept, JobLife, Step, StateAt, FxTarget
<1>8. CASE RecoverFail
  <2>1. \A j \in Jobs : pc'[j] = "none"
    BY <1>1, <1>8 DEF RecoverFail, Recovering, task, Frames, Base, MemoryInv, MemoryEmpty, RecoveryRuns
  <2>2. \A j \in Jobs : state'[j] = state[j] \/ (state'[j] = "FAILED" /\ state[j] \notin Terminal)
    BY <1>2, <1>8 DEF RecoverFail, Move, Typed, StoreTypeOK
  <2>3. QED  BY <2>1, <2>2 DEF LifeKept, JobLife, Step, StateAt, FxTarget
<1>9. QED
  BY <1>1, <1>3, <1>4, <1>5, <1>6, <1>7, <1>8, LifeTick, StepKinds DEF Frames, Outside, LateSave, LateMarkerSaved,
     Shutdown, SchedulerExits, store, task, locals,
     Recover, Recovering, Start, RecoverJob, RecoverMarker, RecoverUnmark, RecoverConfirm,
     RecoverRelease, RecoverLoopEnds

\* Where a task is tells where its Job is, and every step is one of its life.
LEMMA LifeInvariant == Spec => []LifeInv /\ [][LifeKept]_vars
<1>1. Init => LifeInv
  BY DEF Init, TaskInit, LifeInv, StateAt, FxTarget
<1>2. LifeKept => LifeInv'
  BY DEF LifeKept, LifeInv, JobLife
<1>3. QED
  BY <1>1, <1>2, FramesCorrect, LifeStep, PTL DEF Spec

\* A Job walks along its life one state at a time, and leaves it for FAILED or, with a
\* cancel intent, for CANCELLED (every caller of _transition).
THEOREM LifeCorrect == Spec => LifeCycle
<1>1. LifeKept => [\A j \in Jobs : state'[j] # state[j] =>
       /\ state[j] \notin Terminal
       /\ \/ state'[j] = Succeeds[state[j]]
          \/ state'[j] = "FAILED"
          \/ state'[j] \in {"DRAINING", "CANCELLED"} /\ cancelled[j]
       /\ state'[j] = "CANCELLED" => state[j] = "COLLECTING"
       /\ state'[j] = "PREPARING" => \A p \in Needs[j] : owner[p] = j]_vars
  BY DEF LifeKept, Step
<1>2. QED
  BY <1>1, LifeInvariant, PTL DEF LifeCycle

-----------------------------------------------------------------------------
(* What is given back *)

\* A Job that has left the queue does not come back to it.
LEMMA StaysOut ==
  ASSUME Typed, LifeKept, NEW j \in Jobs, Waits(j)'
  PROVE  Waits(j)
<1>1. state'[j] = state[j] \/ state'[j] = Succeeds[state[j]]
  BY DEF LifeKept, Step, Waits, Recoverable
<1>2. state[j] \in JobState \cup {"ABSENT"} /\ (state'[j] # state[j] => state[j] \notin Terminal)
  BY DEF Typed, StoreTypeOK, LifeKept, Step
<1>3. QED  BY <1>1, <1>2 DEF Waits, Recoverable, Succeeds, JobState, Terminal

\* The pass is at no Job, leases stay, and a Job that ends was waiting.
LEMMA ReturnStays ==
  ASSUME Typed, LifeKept, \A j \in Jobs : Returned(j),
         sched \notin {"timeout", "acquired"}, UNCHANGED <<owner, cut>>,
         \A j \in Jobs : /\ \/ state'[j] \notin Terminal \/ state'[j] = state[j] \/ Waits(j)
                            \/ sched' = "timeout" /\ j = Head'
                         /\ \/ pc'[j] \in {pc[j], "new"}
                            \/ pc[j] = "done" /\ pc'[j] = "none"
  PROVE  \A j \in Jobs : Returned(j)'
<1>1. SUFFICES ASSUME NEW j \in Jobs PROVE Returned(j)'
  OBVIOUS
<1>2. Waits(j)' => Waits(j)
  BY StaysOut
<1>3. Landless(j) <=> Landless(j)'
  BY DEF Landless, Owns
<1>4. sched' = "timeout" /\ j = Head' => (sched = "timeout" /\ j = Head)'
  OBVIOUS
<1>5. QED  BY <1>2, <1>3, <1>4 DEF Returned

\* _tick releases the ports of a Job it times out, and leaves none with a Job it fails
\* while it waits.
LEMMA ReturnTick ==
  ASSUME Frames, LifeKept, \A j \in Jobs : Returned(j), Tick
  PROVE  \A j \in Jobs : Returned(j)'
<1>1. Typed /\ TypeOK /\ PassInv
  BY TypeParts DEF Frames, Base
<1>2. CASE PassEnds \/ SlotsTaken \/ Skip \/ PortsBusy \/ TickStart \/ SpawnFinishCancel
  <2>1. UNCHANGED <<state, owner, cut>> /\ sched \notin {"timeout", "acquired"}
    BY <1>2 DEF PassEnds, SlotsTaken, Skip, PortsBusy, Waiting, TickStart, SpawnFinishCancel, Spawn, Visits, store, task
  <2>2. \A j \in Jobs : pc'[j] \in {pc[j], "new"} \/ (pc[j] = "done" /\ pc'[j] = "none")
    <3>1. CASE TickStart
      BY <3>1 DEF TickStart, FramesLost
    <3>2. CASE ~TickStart
      BY <1>1, <1>2, <3>2 DEF PassEnds, SlotsTaken, Skip, PortsBusy, SpawnFinishCancel, Spawn, Goto, task, Typed, TaskTypeOK
    <3>3. QED  BY <3>1, <3>2
  <2>3. QED  BY <1>1, <2>1, <2>2, ReturnStays
<1>3. CASE ValidationStarts \/ ValidationEnds \/ WaitFails \/ JobTimeout
  <2>1. UNCHANGED <<owner, cut, pc>> /\ sched \notin {"timeout", "acquired"}
    BY <1>3 DEF ValidationStarts, ValidationEnds, WaitFails, JobTimeout, Waiting, Visits, task
  <2>2. \A j \in Jobs : \/ state'[j] \notin Terminal \/ state'[j] = state[j] \/ Waits(j)
                        \/ sched' = "timeout" /\ j = Head'
    BY <1>1, <1>3 DEF ValidationStarts, ValidationEnds, WaitFails, JobTimeout, Move, Pass, Head, Waits, Recoverable,
       Terminal, Typed, StoreTypeOK
  <2>3. QED  BY <1>1, <2>1, <2>2, ReturnStays
<1>4. CASE JobTimeoutRelease
  <2>1. PICK h \in Jobs : h = Head /\ state[h] = "FAILED" /\ sched = "timeout"
    BY <1>1, <1>4, HeadIn DEF JobTimeoutRelease, PassInv, PassHolds
  <2>2. UNCHANGED <<state, cut, pc>> /\ Release(h, FALSE)
    BY <1>4, <2>1 DEF JobTimeoutRelease, task
  <2>3. Landless(h)' /\ \A j \in Jobs : Landless(j) => Landless(j)'
    BY <2>2, NoneAssumption DEF Release, Landless, Owns
  <2>4. \A j \in Jobs \ {h} : Returned(j)'
    BY <2>1, <2>2, <2>3 DEF Returned, Waits
  <2>5. Returned(h)'
    BY <2>1, <2>2, <2>3 DEF Returned, Waits
  <2>6. QED  BY <2>4, <2>5
<1>5. CASE AcquirePorts
  <2>1. PICK h \in Jobs : h = Head
    BY <1>1, <1>5, HeadIn DEF AcquirePorts, Waiting, Visits
  <2>2. state[h] = "WAITING_FOR_PORTS" /\ pc[h] = "none"
    BY <1>1, <1>5, <2>1, HeadIn DEF AcquirePorts, Waiting, Visits, PassInv, RowsStand, AtWork, Head, Active
  <2>3. /\ UNCHANGED <<state, cut, pc>> /\ sched = "scan2" /\ sched' = "acquired" /\ Head' = Head
        /\ \A p \in Ports : owner'[p] \in {owner[p], h}
    BY <1>5, <2>1 DEF AcquirePorts, Acquire, Waiting, Visits, Pass, task, Head
  <2>4. \A j \in Jobs \ {h} : Landless(j) => Landless(j)'
    BY <2>3 DEF Landless, Owns
  <2>5. \A j \in Jobs \ {h} : Returned(j)'
    BY <2>3, <2>4 DEF Returned, Waits
  <2>6. Returned(h)'
    BY <2>1, <2>2, <2>3 DEF Returned, Terminal
  <2>7. QED  BY <2>5, <2>6
<1>6. CASE SpawnExecution
  <2>1. PICK h \in Jobs : h = Head /\ state[h] = "WAITING_FOR_PORTS" /\ sched = "acquired"
    BY <1>1, <1>6, HeadIn DEF SpawnExecution, PassInv, PassHolds
  <2>2. /\ UNCHANGED <<owner, cut>> /\ pc'[h] = "new" /\ state'[h] = "PREPARING"
        /\ \A j \in Jobs \ {h} : pc'[j] = pc[j] /\ state'[j] = state[j]
    BY <1>1, <1>6, <2>1 DEF SpawnExecution, Spawn, Goto, Move, Terminal, Typed, StoreTypeOK, TaskTypeOK
  <2>3. \A j \in Jobs : Landless(j) => Landless(j)'
    BY <2>2 DEF Landless, Owns
  <2>4. \A j \in Jobs \ {h} : Returned(j)'
    BY <2>1, <2>2, <2>3 DEF Returned, Waits
  <2>5. Returned(h)'
    BY <2>2 DEF Returned, Waits, Recoverable
  <2>6. QED  BY <2>4, <2>5
<1>7. QED
  BY <1>2, <1>3, <1>4, <1>5, <1>6 DEF Tick

\* A task that ends has released its ports, unless it was cut.
LEMMA ReturnTask ==
  ASSUME Frames, LifeInv, LifeKept, \A j \in Jobs : Returned(j), NEW j \in Jobs, TaskMoves(j)
  PROVE  \A k \in Jobs : Returned(k)'
<1>1. Typed /\ TypeOK /\ PassInv
  BY TypeParts DEF Frames, Base
<1>2. OwnerFlow(j) /\ OthersKept(j) /\ Running(j) /\ UNCHANGED <<sched, todo>>
  BY <1>1, TaskFlow, TaskRuns DEF TaskMoves, Memory, scheduler
<1>3. \A k \in Jobs : Landless(k) => Landless(k)'
  BY <1>2, NoneAssumption DEF OthersKept, Landless, Owns
<1>4. Head' = Head
  BY <1>2 DEF Head
<1>5. \A k \in Jobs \ {j} : Returned(k)'
  BY <1>2, <1>3, <1>4 DEF OthersKept, Returned, Waits
<1>6. Waits(j)' => Landless(j)'
  <2>1. sched = "acquired" => j # Head
    BY <1>1, <1>2 DEF PassInv, PassHolds, Active, Running
  <2>2. QED  BY <1>1, <1>3, <2>1, StaysOut DEF Returned
<1>7. pc'[j] \in {"dl_fail", "dl_release", "done"} /\ (pc'[j] = "done" => state'[j] \in Terminal)
        => cut'[j] \/ Landless(j)'
  <2>1. TaskReleases(j) => Landless(j)'
    BY <1>1, NoneAssumption DEF TaskReleases, Release, Landless, Owns
  <2>2. pc[j] = "dl_fail" => cut'[j] \/ Landless(j)'
    BY <1>2, <1>3 DEF Returned, OwnerFlow
  <2>3. pc[j] = "new" /\ UNCHANGED state => state'[j] \notin Terminal
    BY DEF LifeInv, Live, Terminal
  <2>4. QED  BY <1>2, <2>1, <2>2, <2>3 DEF OwnerFlow
<1>8. pc'[j] # "none"
  BY <1>1, TaskRuns DEF TaskMoves
<1>9. Returned(j)'
  BY <1>6, <1>7, <1>8 DEF Returned
<1>10. QED  BY <1>5, <1>9

\* The ends of the process are counted up.
LEMMA RestartsGrow ==
  ASSUME TypeOK, [Next]_vars, restarts # 0
  PROVE  restarts' # 0
<1>1. restarts \in Nat
  BY MaxRestartsAssumption DEF TypeOK
<1>2. restarts' \in {restarts, restarts + 1}
  <2>1. CASE Tick
    BY <2>1 DEF Tick, Others, env, TickStart, PassEnds, SlotsTaken, Skip, SpawnFinishCancel, JobTimeout,
       JobTimeoutRelease, ValidationStarts, ValidationEnds, WaitFails, PortsBusy, AcquirePorts, SpawnExecution
  <2>2. CASE Recover
    BY <2>2 DEF Recover, Recovering, env, Start, RecoverJob, RecoverMarker, RecoverUnmark, RecoverConfirm,
       RecoverFail, RecoverRelease, RecoverLoopEnds
  <2>3. CASE Crash \/ Shutdown \/ SchedulerExits \/ AgentStopped
    BY <2>3 DEF Crash, Shutdown, SchedulerExits, AgentStopped
  <2>4. CASE UNCHANGED vars
    BY <2>4 DEF vars, env
  <2>5. CASE \E j \in Jobs : \/ Submit(j) \/ RequestCancel(j) \/ DeliverCancel(j) \/ TimePasses(j)
                             \/ Deadline(j) \/ RunTask(j) \/ StopCancels(j)
    BY <2>5 DEF Submit, RequestCancel, DeliverCancel, TimePasses, Deadline, RunTask, StopCancels, env
  <2>6. QED  BY <2>1, <2>2, <2>3, <2>4, <2>5 DEF Next
<1>3. QED  BY <1>1, <1>2

\* In its first life the Agent neither stops nor recovers.
LEMMA FirstLife ==
  ASSUME TypeOK, agent = "up", rpass = "off", sched # "exited", [Next]_vars, restarts' = 0
  PROVE  /\ restarts = 0
         /\ \/ Outside
            \/ \E j \in Jobs : TaskMoves(j) \/ LateSave(j) \/ Submit(j) \/ RequestCancel(j)
            \/ Tick
<1>1. restarts \in Nat
  BY MaxRestartsAssumption DEF TypeOK
<1>2. CASE Shutdown \/ Crash
  BY <1>1, <1>2 DEF Shutdown, Crash
<1>3. CASE SchedulerExits \/ AgentStopped \/ Recover
  BY <1>3 DEF SchedulerExits, AgentStopped, Recover, Start, RecoverJob, RecoverMarker, RecoverUnmark, RecoverConfirm,
     RecoverFail, RecoverRelease, RecoverLoopEnds
<1>4. CASE UNCHANGED vars
  BY <1>4 DEF vars, env, Outside, Memory, scheduler, recovery
<1>5. CASE Tick
  BY <1>5 DEF Tick, Others, env, TickStart, PassEnds, SlotsTaken, Skip, SpawnFinishCancel, JobTimeout,
     JobTimeoutRelease, ValidationStarts, ValidationEnds, WaitFails, PortsBusy, AcquirePorts, SpawnExecution
<1>6. ASSUME NEW j \in Jobs, \/ Submit(j) \/ RequestCancel(j) \/ DeliverCancel(j) \/ TimePasses(j)
                             \/ Deadline(j) \/ RunTask(j) \/ StopCancels(j)
      PROVE  restarts = 0 /\ (Outside \/ TaskMoves(j) \/ LateSave(j) \/ Submit(j) \/ RequestCancel(j))
  <2>1. restarts' = restarts
    BY <1>6 DEF Submit, RequestCancel, DeliverCancel, TimePasses, Deadline, RunTask, StopCancels, env
  <2>2. QED
    BY <1>6, <2>1 DEF DeliverCancel, TimePasses, Deadline, RunTask, StopCancels, Outside, TaskMoves, LateSave, Memory
<1>7. QED
  BY <1>2, <1>3, <1>4, <1>5, <1>6 DEF Next

\* No step of that life leaves a lease with a Job that is over.
LEMMA ReturnStep == Frames /\ LifeInv /\ ReturnInv /\ [Next]_vars => ReturnInv'
<1>1. SUFFICES ASSUME Frames, LifeInv, ReturnInv, [Next]_vars, restarts' = 0
               PROVE  agent' = "up" /\ sched' # "exited" /\ \A j \in Jobs : Returned(j)'
  BY DEF ReturnInv
<1>2. Typed /\ TypeOK /\ PassInv /\ MemoryInv /\ LifeKept
  BY <1>1, TypeParts, LifeStep DEF Frames, Base
<1>3. /\ restarts = 0 /\ agent = "up" /\ sched # "exited" /\ \A j \in Jobs : Returned(j)
      /\ \/ Outside
         \/ \E j \in Jobs : TaskMoves(j) \/ LateSave(j) \/ Submit(j) \/ RequestCancel(j)
         \/ Tick
  <2>1. restarts = 0 => agent = "up" /\ sched # "exited" /\ rpass = "off" /\ \A j \in Jobs : Returned(j)
    BY <1>1, <1>2 DEF ReturnInv, MemoryInv, RecoveryRuns
  <2>2. CASE restarts = 0
    BY <1>1, <1>2, <2>1, <2>2, FirstLife
  <2>3. CASE restarts # 0
    BY <1>1, <1>2, <2>3, RestartsGrow
  <2>4. QED  BY <2>2, <2>3
<1>4. CASE Outside
  BY <1>3, <1>4 DEF Outside, Memory, scheduler, store, task, Returned, Waits, Landless, Owns, Head
<1>5. CASE \E j \in Jobs : TaskMoves(j)
  BY <1>1, <1>2, <1>3, <1>5, ReturnTask DEF TaskMoves, Memory, scheduler
<1>6. ASSUME NEW j \in Jobs, LateSave(j) \/ Submit(j) \/ RequestCancel(j)
      PROVE  agent' = "up" /\ sched' # "exited" /\ \A k \in Jobs : Returned(k)'
  <2>1. UNCHANGED <<agent, sched, todo, owner, pc, cut>> /\ Head' = Head
    BY <1>6 DEF LateSave, LateMarkerSaved, Submit, RequestCancel, Memory, scheduler, task, Head
  <2>2. \A k \in Jobs : state'[k] \in Terminal => state'[k] = state[k]
    BY <1>2, <1>6 DEF LateSave, LateMarkerSaved, Submit, RequestCancel, Terminal, Typed, StoreTypeOK
  <2>3. \A k \in Jobs : Waits(k)' => Waits(k)
    BY <1>2, StaysOut
  <2>4. QED  BY <1>3, <2>1, <2>2, <2>3 DEF Returned, Landless, Owns
<1>7. CASE Tick
  <2>1. agent' = "up" /\ sched' # "exited"
    BY <1>3, <1>7 DEF Tick, Others, Pass, TickStart, PassEnds, SlotsTaken, Skip, SpawnFinishCancel, JobTimeout,
       JobTimeoutRelease, ValidationStarts, ValidationEnds, WaitFails, PortsBusy, AcquirePorts, SpawnExecution
  <2>2. QED  BY <1>1, <1>2, <1>3, <1>7, <2>1, ReturnTick
<1>8. QED
  BY <1>3, <1>4, <1>5, <1>6, <1>7

\* In the first life of the process a lease with a Job that is over is one of a cut task.
LEMMA ReturnsHold == TypeOK /\ ReturnInv => LeaseReturnedUnlessCut
<1>1. SUFFICES ASSUME TypeOK, ReturnInv, NEW p \in Ports, Stranded(p), restarts = 0
               PROVE  cut[owner[p]]
  BY MaxRestartsAssumption DEF TypeOK, LeaseReturnedUnlessCut
<1>2. PICK j \in Jobs : j = owner[p] /\ state[j] \in Terminal /\ ~Running(j) /\ ~(sched = "timeout" /\ Head = j)
  BY <1>1 DEF Stranded, TypeOK, StoreTypeOK
<1>3. Returned(j) /\ ~Landless(j)
  BY <1>1, <1>2 DEF ReturnInv, Landless, Owns
<1>4. QED  BY <1>2, <1>3 DEF Returned, Running

\* Only a cancelled finally block, or the end of the process, leaves a lease behind with
\* a terminal Job (release_ports at the end of every path).
THEOREM ReturnCorrect == Spec => []LeaseReturnedUnlessCut
<1>1. Init => ReturnInv
  BY NoneAssumption DEF Init, StoreInit, TaskInit, ReturnInv, Returned, Landless, Owns, Waits, Terminal
<1>2. Frames => TypeOK
  BY DEF Frames, Base
<1>3. QED
  BY <1>1, <1>2, ReturnsHold, FramesCorrect, LifeInvariant, ReturnStep, PTL DEF Spec

-----------------------------------------------------------------------------
(* Traffic that ends of its own accord *)

\* What the adapters do besides the calls of _execute (EnginePromise!LetsGo): a worker
\* thread lets ports go before anyone is told, or traffic ends on one port before the other.
LetGo == /\ \E gone \in [Ports -> SUBSET Jobs] : traffic' = [p \in Ports |-> traffic[p] \ gone[p]]
         /\ UNCHANGED <<store, sessions, runner, task, agent, scheduler, recovery, clients, env>>

LettingGo == Init /\ [][Next \/ LetGo]_vars

\* the invariants of this module in one
Whole == Frames /\ LeaseInv /\ ClosedInv /\ SlotInv /\ LifeInv /\ ReturnInv

\* All of them hold before the first Job is there.
LEMMA WholeAtFirst == Init => Whole
<1>1. SUFFICES ASSUME Init PROVE Whole
  OBVIOUS
<1>2. TypeOK
  BY <1>1, MaxCancelsAssumption, MaxRestartsAssumption DEF Init, StoreInit, EngineInit, TaskInit, NoFlag,
     TypeOK, StoreTypeOK, EngineTypeOK, TaskTypeOK, SchedPc, RecoveryPc, TaskPc
<1>3. MemoryInv /\ PassInv
  BY <1>1 DEF Init, MemoryInv, MemoryEmpty, RecoveryRuns, PassInv, RowsStand, PassHolds
<1>4. FrameInv /\ RecoveryInv
  BY <1>1 DEF Init, StoreInit, EngineInit, TaskInit, NoFlag, FrameInv, JobFrame, Covered, FrameIdle, FrameBusy,
     FrameLeft, Executes, Quiet, Waits, WithHandle, FxPc, FxTarget, RecoveryInv, AtJob
<1>5. LeaseInv
  BY <1>1 DEF Init, TaskInit, NoFlag, LeaseInv, LeaseCoversExecution
<1>6. ClosedInv
  BY <1>1, NoneAssumption DEF Init, StoreInit, EngineInit, TaskInit, NoFlag, ClosedInv, QuarantinedFree,
     ReleasesSettled, FailClosedUnlessCut, Settled, Landless, Quiet, Owns
<1>7. SlotInv
  <2>1. Active = {} /\ Executions = {}
    BY <1>1 DEF Init, TaskInit, NoFlag, Active, Executions
  <2>2. QED  BY <2>1, FS_EmptySet, MaxConcurrentAssumption DEF SlotInv, ExecutionsBounded, Executions
<1>8. LifeInv
  BY <1>1 DEF Init, TaskInit, LifeInv, StateAt, FxTarget
<1>9. ReturnInv
  BY <1>1, NoneAssumption DEF Init, StoreInit, TaskInit, ReturnInv, Returned, Landless, Owns, Waits, Terminal
<1>10. QED
  BY <1>2, <1>3, <1>4, <1>5, <1>6, <1>7, <1>8, <1>9 DEF Whole, Frames, Base

\* A step of TestJobs keeps all of them.
LEMMA WholeStep == Whole /\ [Next]_vars => Whole' /\ Lifts /\ LifeKept
<1>1. SUFFICES ASSUME Whole, [Next]_vars PROVE Whole' /\ Lifts /\ LifeKept
  OBVIOUS
<1>2. /\ TypeOK /\ MemoryInv /\ PassInv /\ FrameInv /\ RecoveryInv /\ Base /\ Frames
      /\ LeaseInv /\ ClosedInv /\ SlotInv /\ LifeInv /\ ReturnInv
  BY <1>1 DEF Whole, Frames, Base
<1>3. Frames'
  BY <1>1, <1>2, TypeStep, MemoryStep, PassStep, FrameStep, RecoveryStep DEF Frames, Base
<1>4. LeaseInv' /\ ClosedInv'
  BY <1>1, <1>2, LeaseStep, ClosedStep
<1>5. SlotInv' /\ ReturnInv'
  BY <1>1, <1>2, SlotStep, ReturnStep
<1>6. Lifts /\ LifeKept
  BY <1>1, <1>2, QuarantineStep, LifeStep
<1>7. LifeInv'
  BY <1>6 DEF LifeKept, LifeInv, JobLife
<1>8. QED  BY <1>3, <1>4, <1>5, <1>6, <1>7 DEF Whole

\* An end of traffic takes nothing away that any of them needs.
LEMMA WholeLetsGo == Whole /\ LetGo => Whole' /\ Lifts /\ LifeKept
<1>1. SUFFICES ASSUME Whole, LetGo PROVE Whole' /\ Lifts /\ LifeKept
  OBVIOUS
<1>2. /\ TypeOK /\ MemoryInv /\ PassInv /\ FrameInv /\ RecoveryInv
      /\ LeaseInv /\ ClosedInv /\ SlotInv /\ LifeInv /\ ReturnInv
  BY <1>1 DEF Whole, Frames, Base
<1>3. UNCHANGED <<state, cancelled, owner, quarantined, marker, sessions, runner, pc, lateMarker, cut, agent,
                  sched, todo, rpass, rtodo, rjob, rseen, calls, pending, toStop, clock, restarts>>
  BY <1>1 DEF LetGo, store, task, scheduler, recovery, clients, env
<1>4. UNCHANGED <<executes, handle, confirmed, stopped>> /\ UNCHANGED locals /\ Active' = Active /\ Head' = Head
  BY <1>1, <1>3 DEF LetGo, task, locals, Active, Head
<1>5. traffic' \in [Ports -> SUBSET Jobs] /\ \A p \in Ports : traffic'[p] \subseteq traffic[p]
  BY <1>1, <1>2 DEF LetGo, TypeOK, EngineTypeOK
<1>6. \A j \in Jobs : Quiet(j) => Quiet(j)'
  BY <1>3, <1>5 DEF Quiet
<1>7. \A j \in Jobs : Waits(j)' = Waits(j) /\ Landless(j)' = Landless(j)
  BY <1>3 DEF Waits, Landless, Owns
<1>8. TypeOK'
  <2>1. Typed'
    BY <1>2, <1>3, <1>4, <1>5 DEF TypeOK, Typed, StoreTypeOK, EngineTypeOK, TaskTypeOK, locals
  <2>2. RestTyped' /\ ClientsTyped'
    BY <1>2, <1>3, TypeParts DEF RestTyped, ClientsTyped
  <2>3. QED  BY <2>1, <2>2 DEF TypeOK, Typed, RestTyped, ClientsTyped
<1>9. MemoryInv' /\ PassInv'
  BY <1>2, <1>3, <1>4 DEF MemoryInv, MemoryEmpty, RecoveryRuns, PassInv, RowsStand, PassHolds, AtWork, Leased, Owns
<1>10. FrameInv'
  <2>1. SUFFICES ASSUME NEW j \in Jobs PROVE JobFrame(j)'
    BY DEF FrameInv
  <2>2. JobFrame(j)
    BY <1>2 DEF FrameInv
  <2>3. Covered(j)'
    BY <1>3, <1>5, <1>6, <2>2 DEF JobFrame, Covered
  <2>4. FrameIdle(j)' /\ FrameBusy(j)'
    BY <1>3, <1>4, <1>6, <2>2 DEF JobFrame, FrameIdle, FrameBusy
  <2>5. FrameLeft(j)' /\ Executes(j)'
    BY <1>3, <1>4, <1>6, <1>7, <2>2 DEF JobFrame, FrameLeft, Executes
  <2>6. QED  BY <2>3, <2>4, <2>5 DEF JobFrame
<1>11. RecoveryInv'
  <2>1. rpass \in {"unmark", "confirm", "unmark_left", "confirm_left"}
          => rjob \in Jobs /\ \A p \in Needs[rjob] : traffic'[p] = {}
    BY <1>2, <1>5, NeedsAssumption DEF RecoveryInv, AtJob, RecoveryPc
  <2>2. rpass \in {"fail_idle", "release_idle"} => Quiet(rjob)'
    BY <1>2, <1>3, <1>5 DEF RecoveryInv, AtJob, RecoveryPc, Quiet
  <2>3. QED  BY <1>2, <1>3, <2>1, <2>2 DEF RecoveryInv, AtJob, Quiet
<1>12. LeaseInv' /\ SlotInv' /\ LifeInv'
  BY <1>2, <1>3, <1>4 DEF LeaseInv, LeaseCoversExecution, SlotInv, ExecutionsBounded, Running, LifeInv, Live
<1>13. ClosedInv'
  <2>1. \A j \in Jobs : Settled(j) => Settled(j)'
    BY <1>3, <1>6, <1>7 DEF Settled
  <2>2. sched = "timeout" => Settled(Head)'
    <3>1. sched = "timeout" => Head \in Jobs /\ Settled(Head)
      BY <1>2, HeadIn DEF PassInv, PassHolds, ClosedInv, ReleasesSettled
    <3>2. QED  BY <1>3, <1>4, <1>5, <3>1 DEF Settled, Landless, Owns, Quiet
  <2>3. ReleasesSettled'
    BY <1>2, <1>3, <1>4, <2>1, <2>2 DEF ClosedInv, ReleasesSettled
  <2>4. QED  BY <1>2, <1>3, <1>5, <2>3 DEF ClosedInv, QuarantinedFree, FailClosedUnlessCut
<1>14. ReturnInv'
  BY <1>2, <1>3, <1>4, <1>7 DEF ReturnInv, Returned
<1>15. Lifts
  BY <1>3 DEF Lifts
<1>16. LifeKept
  BY <1>3, <1>12 DEF LifeKept, Step, LifeInv, JobLife
<1>17. QED
  BY <1>8, <1>9, <1>10, <1>11, <1>12, <1>13, <1>14, <1>15, <1>16 DEF Whole, Frames, Base

\* What is promised of the markers, the leases, the quarantine, the slots and the life of
\* a Job stands if, in any state, traffic may end on any port of any Job without a call:
\* that TestJobs has no such step leaves out nothing that could break them (the worker
\* threads of trex_adapter.py and astf_adapter.py beside _execute).
THEOREM LetGoHarmless ==
  LettingGo => /\ [](/\ MarkerCoversTraffic /\ FailClosedUnlessCut /\ LeaseCoversExecution
                     /\ ExecutionsBounded /\ LeaseReturnedUnlessCut)
               /\ QuarantineLifted /\ LifeCycle
<1>1. Whole /\ [Next \/ LetGo]_vars => Whole' /\ Lifts /\ LifeKept
  BY WholeStep, WholeLetsGo
<1>2. Whole => /\ MarkerCoversTraffic /\ FailClosedUnlessCut /\ LeaseCoversExecution
               /\ ExecutionsBounded /\ LeaseReturnedUnlessCut
  BY MarkersHold, ReturnsHold DEF Whole, Frames, Base, ClosedInv, LeaseInv, SlotInv
<1>3. Lifts => [\A p \in Ports : quarantined[p] /\ ~quarantined'[p] => agent = "recovering" /\ traffic[p] = {}]_vars
  BY DEF Lifts
<1>4. LifeKept => [\A j \in Jobs : state'[j] # state[j] =>
       /\ state[j] \notin Terminal
       /\ \/ state'[j] = Succeeds[state[j]]
          \/ state'[j] = "FAILED"
          \/ state'[j] \in {"DRAINING", "CANCELLED"} /\ cancelled[j]
       /\ state'[j] = "CANCELLED" => state[j] = "COLLECTING"
       /\ state'[j] = "PREPARING" => \A p \in Needs[j] : owner[p] = j]_vars
  BY DEF LifeKept, Step
<1>5. QED
  BY <1>1, <1>2, <1>3, <1>4, WholeAtFirst, PTL DEF LettingGo, QuarantineLifted, LifeCycle
=============================================================================
