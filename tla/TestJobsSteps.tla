----------------------------- MODULE TestJobsSteps -----------------------------
(***************************************************************************)
(* The first layers of the proof about TestJobs: types, what lives in       *)
(* memory, and the list a pass of the scheduler walks.  A step is taken     *)
(* apart by what it touches (StepKinds): a task moves, or is cancelled, and *)
(* then every other Job stays as it is (OthersKept); the scheduler moves;   *)
(* the recovery moves; the process ends; or only the clients do something.  *)
(***************************************************************************)
EXTENDS TestJobsInvariant, WellFoundedInduction, FiniteSetTheorems, TLAPS

USE JobsAssumption, NeedsAssumption, NoneAssumption, AdapterAssumption,
    MaxConcurrentAssumption, MaxCancelsAssumption, MaxRestartsAssumption

\* ORDER BY accepted_at: a set of Jobs that is not empty has an oldest one.
LEMMA OldestIn == \A S \in SUBSET Jobs : S # {} => Oldest(S) \in S
<1>1. SUFFICES ASSUME NEW S \in SUBSET Jobs, S # {} PROVE  Oldest(S) \in S
  OBVIOUS
<1>2. IsWellFoundedOn(OpToRel(<, Nat), Nat)
  BY NatLessThanWellFounded
<1>3. PICK x \in S : \A y \in S : ~(<<y, x>> \in OpToRel(<, Nat))
  <2>1. S \subseteq Nat /\ S # {}
    BY <1>1
  <2>2. QED  BY <1>2, <2>1, WFMin, Zenon
<1>4. \A y \in S : x <= y
  <2>1. \A y \in S : y \in Nat /\ x \in Nat
    BY <1>1
  <2>2. \A y \in S : ~(y < x)
    BY <1>3, <2>1, Zenon DEF OpToRel
  <2>3. QED  BY <2>1, <2>2
<1>5. QED  BY <1>4 DEF Oldest

\* The rows a list of the scheduler has left have a first one.
LEMMA FirstIn == \A rows \in SUBSET Row : rows # {} => First(rows) \in rows
<1>1. SUFFICES ASSUME NEW rows \in SUBSET Row, rows # {} PROVE  First(rows) \in rows
  OBVIOUS
<1> DEFINE jobs == {r.job : r \in rows}
<1>2. jobs \in SUBSET Jobs /\ jobs # {}
  BY <1>1 DEF Row
<1>3. Oldest(jobs) \in jobs /\ \E j \in jobs : \A k \in jobs : j <= k
  <2>1. IsWellFoundedOn(OpToRel(<, Nat), Nat)
    BY NatLessThanWellFounded
  <2>2. PICK x \in jobs : \A y \in jobs : ~(<<y, x>> \in OpToRel(<, Nat))
    <3>1. jobs \subseteq Nat /\ jobs # {}
      BY <1>2
    <3>2. QED  BY <2>1, <3>1, WFMin, Zenon
  <2>3. \A y \in jobs : x <= y
    <3>1. \A y \in jobs : y \in Nat /\ x \in Nat
      BY <1>2
    <3>2. \A y \in jobs : ~(y < x)
      BY <2>2, <3>1, Zenon DEF OpToRel
    <3>3. QED  BY <3>1, <3>2
  <2>4. QED  BY <2>3, <1>2, OldestIn
<1>4. PICK j \in jobs : \A k \in jobs : j <= k
  BY <1>3
<1>5. PICK r \in rows : r.job = j
  OBVIOUS
<1>6. \A s \in rows : r.job <= s.job
  BY <1>4, <1>5
<1>7. QED  BY <1>6 DEF First

\* _transition leaves every other Job alone, and this one where it is or where it
\* is moved to.
LEMMA MoveTyped ==
  ASSUME StoreTypeOK, NEW j, NEW from, NEW s \in JobState, Move(j, from, s)
  PROVE  /\ state' \in [Jobs -> JobState \cup {"ABSENT"}]
         /\ \A k \in Jobs \ {j} : state'[k] = state[k]
         /\ j \in Jobs => state'[j] \in {state[j], s}
BY DEF Move, StoreTypeOK

\* The awaits of a task in a transition, and where each of them leads.
LEMMA TargetTyped ==
  /\ \A l \in DOMAIN Target : Target[l] \in JobState
  /\ \A l \in DOMAIN FxTarget : FxTarget[l] \in JobState
  /\ DOMAIN Target \cup DOMAIN FxTarget \subseteq TaskPc
  /\ DOMAIN Target = {"warming", "starting", "drain", "collect", "succeed", "fail", "cd_drain", "cd_collect", "cd_cancel"}
  /\ DOMAIN FxTarget = {"fx_drain", "fx_collect", "fx_cancel"}
BY DEF Target, FxTarget, JobState, TaskPc

\* The tables, the engine and the frames
Typed == StoreTypeOK /\ EngineTypeOK /\ TaskTypeOK

\* What an answer or a cancelled call of the engine does to it keeps its types.
LEMMA EngineTyped ==
  ASSUME Typed, NEW j \in Jobs,
         \/ StopReturns(j) \/ StopRaises(j) \/ CleanupReturns(j) \/ CleanupRaises(j)
         \/ CleanupCancelled(j) \/ PrepareCancelled(j) \/ RunCancelled(j) \/ Prepared(j)
  PROVE  EngineTypeOK'
<1>1. traffic' \in [Ports -> SUBSET Jobs]
  BY DEF Typed, EngineTypeOK, StopReturns, StopRaises, CleanupReturns, CleanupRaises, CleanupCancelled,
     PrepareCancelled, RunCancelled, Prepared, Occupy, Vacate, engine
<1>2. sessions' \in SUBSET Jobs
  BY DEF Typed, EngineTypeOK, StopReturns, StopRaises, CleanupReturns, CleanupRaises, CleanupCancelled,
     PrepareCancelled, RunCancelled, Prepared, engine
<1>3. runner' \in [Jobs -> {"none", "lost", "escaped"}]
  BY DEF Typed, EngineTypeOK, StopReturns, StopRaises, CleanupReturns, CleanupRaises, CleanupCancelled,
     PrepareCancelled, RunCancelled, Prepared, engine
<1>4. QED  BY <1>1, <1>2, <1>3 DEF EngineTypeOK

\* release_ports writes an owner and a status a row can have.
LEMMA ReleaseTyped ==
  ASSUME StoreTypeOK, NEW j, NEW b \in BOOLEAN, Release(j, b)
  PROVE  owner' \in [Ports -> Jobs \cup {None}] /\ quarantined' \in [Ports -> BOOLEAN]
BY DEF StoreTypeOK, Release

\* The finally block, and the way out of it, are awaits of a task.
LEMMA FinallyTyped ==
  ASSUME NEW j \in Jobs
  PROVE  Finally(j) \in TaskPc /\ AfterFx(j) \in TaskPc /\ \A b, d \in BOOLEAN : Leaves(b, d) \in TaskPc
BY DEF Finally, FinallyOf, AfterFx, Leaves, TaskPc

\* No step of a task leaves the types of the tables, the engine and the frames.
LEMMA TaskTyped == ASSUME Typed, NEW j \in Jobs, TaskStep(j) PROVE Typed'
<1> USE EngineTyped, ReleaseTyped, FinallyTyped, MoveTyped, TargetTyped DEF Typed
<1>Begin. CASE Begin(j)
  BY <1>Begin DEF Begin, Silent, Goto, Typed, StoreTypeOK, EngineTypeOK, TaskTypeOK, TaskPc, store, engine, locals, FxTarget
<1>SaveExecutionMarker. CASE SaveExecutionMarker(j)
  BY <1>SaveExecutionMarker DEF SaveExecutionMarker, SaveMarker, Goto, Typed, StoreTypeOK, EngineTypeOK, TaskTypeOK, TaskPc, engine
<1>PrepareReturns. CASE PrepareReturns(j)
  BY <1>PrepareReturns DEF PrepareReturns, Goto, Typed, StoreTypeOK, TaskTypeOK, TaskPc, store, Target
<1>PrepareRaises. CASE PrepareRaises(j)
  BY <1>PrepareRaises DEF PrepareRaises, Goto, Typed, StoreTypeOK, EngineTypeOK, TaskTypeOK, TaskPc, store, engine, Target
<1>Transition. CASE Transition(j)
  <2>1. state' \in [Jobs -> JobState \cup {"ABSENT"}]
    BY <1>Transition DEF Transition, Typed
  <2>2. AfterMove(j) \in TaskPc
    BY <1>Transition DEF Transition, AfterMove, TaskPc
  <2>3. QED BY <1>Transition, <2>1, <2>2 DEF Transition, Goto, Typed, StoreTypeOK, EngineTypeOK, TaskTypeOK, locals, engine
<1>TrafficReturns. CASE TrafficReturns(j)
  BY <1>TrafficReturns DEF TrafficReturns, Silent, Goto, Typed, StoreTypeOK, EngineTypeOK, TaskTypeOK, TaskPc, store, engine, locals
<1>TrafficRaises. CASE TrafficRaises(j)
  BY <1>TrafficRaises DEF TrafficRaises, Silent, Goto, Typed, StoreTypeOK, EngineTypeOK, TaskTypeOK, TaskPc, store, engine, locals
<1>Stop. CASE Stop(j)
  BY <1>Stop DEF Stop, Goto, Typed, StoreTypeOK, TaskTypeOK, TaskPc, store, locals
<1>Cleanup. CASE Cleanup(j)
  BY <1>Cleanup DEF Cleanup, Goto, Typed, StoreTypeOK, TaskTypeOK, TaskPc, store
<1>Unmark. CASE Unmark(j)
  BY <1>Unmark DEF Unmark, DeleteMarker, Goto, Typed, StoreTypeOK, EngineTypeOK, TaskTypeOK, TaskPc, engine
<1>Bundle. CASE Bundle(j)
  BY <1>Bundle DEF Bundle, Silent, Goto, Typed, StoreTypeOK, EngineTypeOK, TaskTypeOK, TaskPc, store, engine, locals
<1>FxMove. CASE FxMove(j)
  <2>1. state' \in [Jobs -> JobState \cup {"ABSENT"}]
    BY <1>FxMove DEF FxMove, Typed
  <2>2. pc' \in [Jobs -> TaskPc]
    BY <1>FxMove DEF FxMove, FxNext, Goto, Typed, TaskTypeOK, TaskPc
  <2>3. QED BY <1>FxMove, <2>1, <2>2 DEF FxMove, Goto, Typed, StoreTypeOK, EngineTypeOK, TaskTypeOK, TaskPc, locals, engine
<1>FxRelease. CASE FxRelease(j)
  BY <1>FxRelease DEF FxRelease, Goto, Typed, StoreTypeOK, EngineTypeOK, TaskTypeOK, engine, locals
<1>FinStop. CASE FinStop(j)
  BY <1>FinStop DEF FinStop, Goto, Typed, StoreTypeOK, TaskTypeOK, TaskPc, store
<1>FinCleanup. CASE FinCleanup(j)
  <2>1. EngineTypeOK'
    BY <1>FinCleanup DEF FinCleanup
  <2>2. confirmed' \in [Jobs -> BOOLEAN]
    BY <1>FinCleanup DEF FinCleanup, Typed, TaskTypeOK
  <2>3. pc' \in [Jobs -> TaskPc]
    BY <1>FinCleanup DEF FinCleanup, Goto, Typed, TaskTypeOK, TaskPc
  <2>4. QED
    BY <1>FinCleanup, <2>1, <2>2, <2>3 DEF FinCleanup, Typed, StoreTypeOK, TaskTypeOK, store
<1>FinUnmark. CASE FinUnmark(j)
  BY <1>FinUnmark DEF FinUnmark, DeleteMarker, Goto, Typed, StoreTypeOK, EngineTypeOK, TaskTypeOK, TaskPc, locals, engine
<1>FinRelease. CASE FinRelease(j)
  <2>1. hitByUser[j] \in BOOLEAN /\ hitByDeadline[j] \in BOOLEAN /\ (~confirmed[j]) \in BOOLEAN
    BY DEF Typed, TaskTypeOK
  <2>2. owner' \in [Ports -> Jobs \cup {None}] /\ quarantined' \in [Ports -> BOOLEAN]
    BY <1>FinRelease, <2>1 DEF FinRelease
  <2>3. Leaves(hitByUser[j], hitByDeadline[j]) \in TaskPc
    BY <2>1
  <2>4. QED BY <1>FinRelease, <2>2, <2>3 DEF FinRelease, Goto, Typed, StoreTypeOK, EngineTypeOK, TaskTypeOK, engine, locals
<1>DeadlineFail. CASE DeadlineFail(j)
  <2>1. state' \in [Jobs -> JobState \cup {"ABSENT"}]
    BY <1>DeadlineFail DEF DeadlineFail, Typed, JobState
  <2>2. QED BY <1>DeadlineFail, <2>1 DEF DeadlineFail, Goto, Typed, StoreTypeOK, EngineTypeOK, TaskTypeOK, TaskPc, engine, locals
<1>DeadlineRelease. CASE DeadlineRelease(j)
  BY <1>DeadlineRelease DEF DeadlineRelease, Goto, Typed, StoreTypeOK, EngineTypeOK, TaskTypeOK, TaskPc, engine, locals
<1> QED
  BY <1>Begin, <1>SaveExecutionMarker, <1>PrepareReturns, <1>PrepareRaises, <1>Transition, <1>TrafficReturns, <1>TrafficRaises, <1>Stop, <1>Cleanup, <1>Unmark, <1>Bundle, <1>FxMove, <1>FxRelease, <1>FinStop, <1>FinCleanup, <1>FinUnmark, <1>FinRelease, <1>DeadlineFail, <1>DeadlineRelease DEF TaskStep

\* Nor does a CancelledError, in whichever await it arrives.
LEMMA CancelTyped == ASSUME Typed, NEW j \in Jobs, NEW b \in BOOLEAN, CancelTask(j, b) PROVE Typed'
<1> USE EngineTyped, ReleaseTyped, FinallyTyped, MoveTyped, TargetTyped DEF Typed
<1>1. /\ executes' \in [Jobs -> BOOLEAN] /\ handle' \in [Jobs -> BOOLEAN]
      /\ confirmed' \in [Jobs -> BOOLEAN] /\ stopped' \in [Jobs -> BOOLEAN]
      /\ hitByUser' \in [Jobs -> BOOLEAN] /\ hitByDeadline' \in [Jobs -> BOOLEAN]
  BY DEF CancelTask, Hit, Typed, TaskTypeOK
<1>2. SUFFICES StoreTypeOK' /\ EngineTypeOK' /\ pc' \in [Jobs -> TaskPc]
                /\ lateMarker' \in [Jobs -> BOOLEAN] /\ cut' \in [Jobs -> BOOLEAN]
  BY <1>1 DEF Typed, TaskTypeOK
<1>3. /\ hitByUser[j] \in BOOLEAN /\ hitByDeadline[j] \in BOOLEAN /\ (~confirmed[j]) \in BOOLEAN
      /\ (hitByUser[j] \/ b) \in BOOLEAN /\ (hitByDeadline[j] \/ ~b) \in BOOLEAN
  BY DEF Typed, TaskTypeOK
<1>4. Leaves(hitByUser[j] \/ b, hitByDeadline[j] \/ ~b) \in TaskPc
  BY <1>3
<1>HitNew. CASE HitNew(j, b)
  BY <1>HitNew DEF HitNew, Goto, Typed, StoreTypeOK, EngineTypeOK, TaskTypeOK, TaskPc, store, engine
<1>HitMarker. CASE HitMarker(j, b)
  BY <1>HitMarker DEF HitMarker, SaveMarker, Goto, Typed, StoreTypeOK, EngineTypeOK, TaskTypeOK, engine
<1>HitPrepare. CASE HitPrepare(j, b)
  BY <1>HitPrepare DEF HitPrepare, Goto, Typed, StoreTypeOK, TaskTypeOK, store
<1>HitTransition. CASE HitTransition(j, b)
  <2>1. state' \in [Jobs -> JobState \cup {"ABSENT"}]
    BY <1>HitTransition DEF HitTransition, Typed, StoreTypeOK
  <2>2. QED BY <1>HitTransition, <2>1 DEF HitTransition, Goto, Typed, StoreTypeOK, EngineTypeOK, TaskTypeOK, engine
<1>HitRun. CASE HitRun(j, b)
  BY <1>HitRun DEF HitRun, Goto, Typed, StoreTypeOK, TaskTypeOK, store
<1>HitWait. CASE HitWait(j, b)
  BY <1>HitWait DEF HitWait, Goto, Typed, StoreTypeOK, EngineTypeOK, TaskTypeOK, store, engine
<1>HitCleanup. CASE HitCleanup(j, b)
  BY <1>HitCleanup DEF HitCleanup, Goto, Typed, StoreTypeOK, TaskTypeOK, store
<1>HitUnmark. CASE HitUnmark(j, b)
  BY <1>HitUnmark DEF HitUnmark, DeleteMarker, Goto, Typed, StoreTypeOK, EngineTypeOK, TaskTypeOK, engine
<1>HitFxMove. CASE HitFxMove(j, b)
  <2>1. state' \in [Jobs -> JobState \cup {"ABSENT"}]
    BY <1>HitFxMove DEF HitFxMove, Typed, StoreTypeOK
  <2>2. pc' \in [Jobs -> TaskPc]
    BY <1>HitFxMove DEF HitFxMove, Goto, Typed, TaskTypeOK, TaskPc
  <2>3. QED BY <1>HitFxMove, <2>1, <2>2 DEF HitFxMove, Typed, StoreTypeOK, EngineTypeOK, TaskTypeOK, engine
<1>HitFxRelease. CASE HitFxRelease(j, b)
  BY <1>HitFxRelease DEF HitFxRelease, Goto, Typed, StoreTypeOK, EngineTypeOK, TaskTypeOK, engine
<1>HitFinally. CASE HitFinally(j, b)
  <2>1. EngineTypeOK'
    BY <1>HitFinally DEF HitFinally, Typed, EngineTypeOK, engine
  <2>2. marker' \in [Jobs -> BOOLEAN]
    BY <1>HitFinally DEF HitFinally, DeleteMarker, Typed, StoreTypeOK
  <2>3. QED BY <1>HitFinally, <1>4, <2>1, <2>2 DEF HitFinally, Goto, Typed, StoreTypeOK, TaskTypeOK
<1>HitFinRelease. CASE HitFinRelease(j, b)
  <2>1. owner' \in [Ports -> Jobs \cup {None}] /\ quarantined' \in [Ports -> BOOLEAN]
    BY <1>HitFinRelease, <1>3 DEF HitFinRelease
  <2>2. QED BY <1>HitFinRelease, <1>4, <2>1 DEF HitFinRelease, Goto, Typed, StoreTypeOK, EngineTypeOK, TaskTypeOK, engine
<1>HitDeadlineHandler. CASE HitDeadlineHandler(j, b)
  <2>1. state' \in [Jobs -> JobState \cup {"ABSENT"}]
    BY <1>HitDeadlineHandler DEF HitDeadlineHandler, Typed, StoreTypeOK, JobState
  <2>2. owner' \in [Ports -> Jobs \cup {None}] /\ quarantined' \in [Ports -> BOOLEAN]
    BY <1>HitDeadlineHandler DEF HitDeadlineHandler, Typed, StoreTypeOK
  <2>3. pc' \in [Jobs -> TaskPc]
    BY <1>HitDeadlineHandler DEF HitDeadlineHandler, Goto, Typed, TaskTypeOK, TaskPc
  <2>4. QED BY <1>HitDeadlineHandler, <2>1, <2>2, <2>3 DEF HitDeadlineHandler, Typed, StoreTypeOK, EngineTypeOK, TaskTypeOK, engine
<1> QED
  BY <1>HitNew, <1>HitMarker, <1>HitPrepare, <1>HitTransition, <1>HitRun, <1>HitWait, <1>HitCleanup, <1>HitUnmark, <1>HitFxMove, <1>HitFxRelease, <1>HitFinally, <1>HitFinRelease, <1>HitDeadlineHandler DEF CancelTask

\* what a step of the task of j, or against it, leaves alone: every other Job
OthersKept(j) ==
  /\ \A k \in Jobs \ {j} :
       /\ state'[k] = state[k] /\ marker'[k] = marker[k]
       /\ pc'[k] = pc[k] /\ executes'[k] = executes[k] /\ handle'[k] = handle[k]
       /\ confirmed'[k] = confirmed[k] /\ stopped'[k] = stopped[k]
       /\ lateMarker'[k] = lateMarker[k] /\ cut'[k] = cut[k]
       /\ runner'[k] = runner[k] /\ (k \in sessions' <=> k \in sessions)
       /\ \A p \in Ports : k \in traffic'[p] <=> k \in traffic[p]
  /\ cancelled' = cancelled
  /\ \A p \in Ports : \/ owner'[p] = owner[p] /\ quarantined'[p] = quarantined[p]
                      \/ owner[p] = j /\ owner'[p] = None

\* A step of the task of j is a step of j only: _execute and _finish_cancel touch no
\* other Job, and of the leases only those of j.
LEMMA TaskKeeps == ASSUME Typed, NEW j \in Jobs, TaskStep(j) PROVE OthersKept(j)
<1> USE MoveTyped, TargetTyped
<1>Begin. CASE Begin(j)
  BY <1>Begin DEF Begin, Silent, Goto, OthersKept, Typed, StoreTypeOK, EngineTypeOK, TaskTypeOK, store, engine, locals
<1>SaveExecutionMarker. CASE SaveExecutionMarker(j)
  BY <1>SaveExecutionMarker DEF SaveExecutionMarker, SaveMarker, Goto, OthersKept, Typed, StoreTypeOK, EngineTypeOK, TaskTypeOK, store, engine, locals
<1>PrepareReturns. CASE PrepareReturns(j)
  BY <1>PrepareReturns DEF PrepareReturns, Prepared, Occupy, Goto, OthersKept, Typed, StoreTypeOK, EngineTypeOK, TaskTypeOK, store, engine, locals
<1>PrepareRaises. CASE PrepareRaises(j)
  BY <1>PrepareRaises DEF PrepareRaises, Goto, OthersKept, Typed, StoreTypeOK, EngineTypeOK, TaskTypeOK, store, engine, locals
<1>Transition. CASE Transition(j)
  BY <1>Transition DEF Transition, Goto, OthersKept, Typed, StoreTypeOK, EngineTypeOK, TaskTypeOK, store, engine, locals
<1>TrafficReturns. CASE TrafficReturns(j)
  BY <1>TrafficReturns DEF TrafficReturns, Silent, Goto, OthersKept, Typed, StoreTypeOK, EngineTypeOK, TaskTypeOK, store, engine, locals
<1>TrafficRaises. CASE TrafficRaises(j)
  BY <1>TrafficRaises DEF TrafficRaises, Silent, Goto, OthersKept, Typed, StoreTypeOK, EngineTypeOK, TaskTypeOK, store, engine, locals
<1>Stop. CASE Stop(j)
  BY <1>Stop DEF Stop, StopReturns, StopRaises, Goto, OthersKept, Typed, StoreTypeOK, EngineTypeOK, TaskTypeOK, store, engine, locals
<1>Cleanup. CASE Cleanup(j)
  BY <1>Cleanup DEF Cleanup, CleanupReturns, CleanupRaises, Vacate, Goto, OthersKept, Typed, StoreTypeOK, EngineTypeOK, TaskTypeOK, store, engine, locals
<1>Unmark. CASE Unmark(j)
  BY <1>Unmark DEF Unmark, DeleteMarker, Goto, OthersKept, Typed, StoreTypeOK, EngineTypeOK, TaskTypeOK, store, engine, locals
<1>Bundle. CASE Bundle(j)
  BY <1>Bundle DEF Bundle, Silent, Goto, OthersKept, Typed, StoreTypeOK, EngineTypeOK, TaskTypeOK, store, engine, locals
<1>FxMove. CASE FxMove(j)
  BY <1>FxMove DEF FxMove, Goto, OthersKept, Typed, StoreTypeOK, EngineTypeOK, TaskTypeOK, store, engine, locals
<1>FxRelease. CASE FxRelease(j)
  BY <1>FxRelease DEF FxRelease, Release, Goto, OthersKept, Typed, StoreTypeOK, EngineTypeOK, TaskTypeOK, store, engine, locals
<1>FinStop. CASE FinStop(j)
  BY <1>FinStop DEF FinStop, StopReturns, StopRaises, Goto, OthersKept, Typed, StoreTypeOK, EngineTypeOK, TaskTypeOK, store, engine, locals
<1>FinCleanup. CASE FinCleanup(j)
  BY <1>FinCleanup DEF FinCleanup, CleanupReturns, CleanupRaises, Vacate, Goto, OthersKept, Typed, StoreTypeOK, EngineTypeOK, TaskTypeOK, store, engine, locals
<1>FinUnmark. CASE FinUnmark(j)
  BY <1>FinUnmark DEF FinUnmark, DeleteMarker, Goto, OthersKept, Typed, StoreTypeOK, EngineTypeOK, TaskTypeOK, store, engine, locals
<1>FinRelease. CASE FinRelease(j)
  BY <1>FinRelease DEF FinRelease, Release, Goto, OthersKept, Typed, StoreTypeOK, EngineTypeOK, TaskTypeOK, store, engine, locals
<1>DeadlineFail. CASE DeadlineFail(j)
  BY <1>DeadlineFail DEF DeadlineFail, JobState, Goto, OthersKept, Typed, StoreTypeOK, EngineTypeOK, TaskTypeOK, store, engine, locals
<1>DeadlineRelease. CASE DeadlineRelease(j)
  BY <1>DeadlineRelease DEF DeadlineRelease, Release, Goto, OthersKept, Typed, StoreTypeOK, EngineTypeOK, TaskTypeOK, store, engine, locals
<1> QED
  BY <1>Begin, <1>SaveExecutionMarker, <1>PrepareReturns, <1>PrepareRaises, <1>Transition, <1>TrafficReturns, <1>TrafficRaises, <1>Stop, <1>Cleanup, <1>Unmark, <1>Bundle, <1>FxMove, <1>FxRelease, <1>FinStop, <1>FinCleanup, <1>FinUnmark, <1>FinRelease, <1>DeadlineFail, <1>DeadlineRelease DEF TaskStep

\* The same of task.cancel().
LEMMA CancelKeeps == ASSUME Typed, NEW j \in Jobs, NEW b \in BOOLEAN, CancelTask(j, b) PROVE OthersKept(j)
<1> USE MoveTyped, TargetTyped
<1>0. Hit(j, b)
  BY DEF CancelTask
<1>HitNew. CASE HitNew(j, b)
  BY <1>HitNew, <1>0 DEF HitNew, Hit, Goto, OthersKept, Typed, StoreTypeOK, EngineTypeOK, TaskTypeOK, store, engine, locals
<1>HitMarker. CASE HitMarker(j, b)
  BY <1>HitMarker, <1>0 DEF HitMarker, SaveMarker, Hit, Goto, OthersKept, Typed, StoreTypeOK, EngineTypeOK, TaskTypeOK, store, engine, locals
<1>HitPrepare. CASE HitPrepare(j, b)
  BY <1>HitPrepare, <1>0 DEF HitPrepare, PrepareCancelled, Occupy, Hit, Goto, OthersKept, Typed, StoreTypeOK, EngineTypeOK, TaskTypeOK, store, engine, locals
<1>HitTransition. CASE HitTransition(j, b)
  BY <1>HitTransition, <1>0 DEF HitTransition, Hit, Goto, OthersKept, Typed, StoreTypeOK, EngineTypeOK, TaskTypeOK, store, engine, locals
<1>HitRun. CASE HitRun(j, b)
  BY <1>HitRun, <1>0 DEF HitRun, RunCancelled, Hit, Goto, OthersKept, Typed, StoreTypeOK, EngineTypeOK, TaskTypeOK, store, engine, locals
<1>HitWait. CASE HitWait(j, b)
  BY <1>HitWait, <1>0 DEF HitWait, Hit, Goto, OthersKept, Typed, StoreTypeOK, EngineTypeOK, TaskTypeOK, store, engine, locals
<1>HitCleanup. CASE HitCleanup(j, b)
  BY <1>HitCleanup, <1>0 DEF HitCleanup, CleanupCancelled, Vacate, Hit, Goto, OthersKept, Typed, StoreTypeOK, EngineTypeOK, TaskTypeOK, store, engine, locals
<1>HitUnmark. CASE HitUnmark(j, b)
  BY <1>HitUnmark, <1>0 DEF HitUnmark, DeleteMarker, Hit, Goto, OthersKept, Typed, StoreTypeOK, EngineTypeOK, TaskTypeOK, store, engine, locals
<1>HitFxMove. CASE HitFxMove(j, b)
  BY <1>HitFxMove, <1>0 DEF HitFxMove, Hit, Goto, OthersKept, Typed, StoreTypeOK, EngineTypeOK, TaskTypeOK, store, engine, locals
<1>HitFxRelease. CASE HitFxRelease(j, b)
  BY <1>HitFxRelease, <1>0 DEF HitFxRelease, Release, Hit, Goto, OthersKept, Typed, StoreTypeOK, EngineTypeOK, TaskTypeOK, store, engine, locals
<1>HitFinally. CASE HitFinally(j, b)
  BY <1>HitFinally, <1>0 DEF HitFinally, CleanupCancelled, Vacate, DeleteMarker, Hit, Goto, OthersKept, Typed, StoreTypeOK, EngineTypeOK, TaskTypeOK, store, engine, locals
<1>HitFinRelease. CASE HitFinRelease(j, b)
  BY <1>HitFinRelease, <1>0 DEF HitFinRelease, Release, Hit, Goto, OthersKept, Typed, StoreTypeOK, EngineTypeOK, TaskTypeOK, store, engine, locals
<1>HitDeadlineHandler. CASE HitDeadlineHandler(j, b)
  <2>1. \A k \in Jobs \ {j} : state'[k] = state[k]
    BY <1>HitDeadlineHandler DEF HitDeadlineHandler, Typed, JobState
  <2>2. \A p \in Ports : \/ owner'[p] = owner[p] /\ quarantined'[p] = quarantined[p]
                         \/ owner[p] = j /\ owner'[p] = None
    <3>1. CASE UNCHANGED <<owner, quarantined>>
      BY <3>1
    <3>2. CASE Release(j, FALSE)
      BY <3>2 DEF Release, Typed, StoreTypeOK
    <3>3. QED  BY <1>HitDeadlineHandler, <3>1, <3>2 DEF HitDeadlineHandler
  <2>3. QED
    BY <1>HitDeadlineHandler, <1>0, <2>1, <2>2
    DEF HitDeadlineHandler, Hit, Goto, OthersKept, Typed, StoreTypeOK, EngineTypeOK, TaskTypeOK, engine
<1> QED
  BY <1>HitNew, <1>HitMarker, <1>HitPrepare, <1>HitTransition, <1>HitRun, <1>HitWait, <1>HitCleanup, <1>HitUnmark, <1>HitFxMove, <1>HitFxRelease, <1>HitFinally, <1>HitFinRelease, <1>HitDeadlineHandler DEF CancelTask

-----------------------------------------------------------------------------
(* Steps of the whole *)

\* what is not the store, the engine or a task
Memory == <<agent, scheduler, recovery>>

\* nothing but the clients' calls, the clock or the list of stop() changes
Outside == UNCHANGED <<store, engine, task, Memory>>

\* a step of the task of j, or a cancel of it
TaskMoves(j) == /\ TaskStep(j) \/ \E b \in BOOLEAN : CancelTask(j, b)
                /\ UNCHANGED Memory

\* the worker of a cancelled save_execution_marker is through
LateSave(j) == LateMarkerSaved(j) /\ UNCHANGED Memory

\* the process ends
Ends == /\ agent' = "down"
        /\ MemoryLost
        /\ UNCHANGED <<store, cut>>

\* What a step can be to the Jobs, their ports and the Agent; proofs about those split
\* here instead of on every action of a client.
LEMMA StepKinds ==
  ASSUME [Next]_vars
  PROVE  \/ Outside
         \/ \E j \in Jobs : TaskMoves(j) \/ LateSave(j) \/ Submit(j) \/ RequestCancel(j)
         \/ Tick \/ Shutdown \/ SchedulerExits \/ Ends \/ Recover
<1>1. CASE UNCHANGED vars
  BY <1>1 DEF vars, Outside, Memory, scheduler, recovery
<1>2. CASE \E j \in Jobs : \/ TimePasses(j) \/ Deadline(j) \/ RunTask(j)
                           \/ DeliverCancel(j) \/ StopCancels(j) \/ Submit(j) \/ RequestCancel(j)
  <2>1. PICK j \in Jobs : \/ TimePasses(j) \/ Deadline(j) \/ RunTask(j)
                           \/ DeliverCancel(j) \/ StopCancels(j) \/ Submit(j) \/ RequestCancel(j)
    BY <1>2
  <2>2. CASE TimePasses(j)
    BY <2>2 DEF TimePasses, Outside, Memory
  <2>3. CASE Deadline(j)
    BY <2>3 DEF Deadline, TaskMoves, Memory
  <2>4. CASE RunTask(j)
    BY <2>4 DEF RunTask, TaskMoves, LateSave, Memory
  <2>5. CASE DeliverCancel(j)
    BY <2>5 DEF DeliverCancel, TaskMoves, Outside, Memory
  <2>6. CASE StopCancels(j)
    BY <2>6 DEF StopCancels, TaskMoves, Outside, Memory
  <2>7. QED
    BY <2>1, <2>2, <2>3, <2>4, <2>5, <2>6
<1>3. CASE Crash \/ AgentStopped
  BY <1>3 DEF Crash, AgentStopped, Ends
<1>4. QED
  BY <1>1, <1>2, <1>3 DEF Next

\* The Job a pass of _tick is at is a Job, as the list had it.
LEMMA HeadIn == ASSUME TypeOK, todo # {}
                PROVE  /\ First(todo) \in todo /\ First(todo) \in Row /\ Head \in Jobs
                       /\ First(todo).state \in JobState /\ First(todo).cancelled \in BOOLEAN
<1>1. todo \in SUBSET Row
  BY DEF TypeOK
<1>2. First(todo) \in todo /\ First(todo) \in Row
  BY <1>1, FirstIn
<1>3. QED  BY <1>2 DEF Head, Row

\* list_nonterminal returns rows.
LEMMA ListTyped == TypeOK => NonTerminal \in SUBSET Row
BY DEF TypeOK, StoreTypeOK, NonTerminal, Row, Live, JobState

\* the variables of TypeOK that are no table, engine or frame
RestTyped == /\ agent \in {"down", "recovering", "up", "stopping"}
             /\ sched \in SchedPc
             /\ todo \in SUBSET Row
             /\ rpass \in RecoveryPc
             /\ rtodo \in SUBSET Jobs
             /\ rjob \in Jobs \cup {None}
             /\ rseen \in SUBSET Jobs

\* the calls of clients, the list of stop(), the clocks
ClientsTyped == /\ calls \in [Jobs -> 0 .. MaxCancels]
                /\ pending \in [Jobs -> 0 .. MaxCancels]
                /\ \A j \in Jobs : pending[j] <= calls[j]
                /\ toStop \in SUBSET Jobs
                /\ clock \in [Jobs -> 0 .. 2]
                /\ restarts \in 0 .. MaxRestarts

\* TypeOK, in the parts that different steps preserve.
LEMMA TypeParts == TypeOK <=> Typed /\ RestTyped /\ ClientsTyped
BY DEF TypeOK, Typed, RestTyped, ClientsTyped

\* A task that is swept, or dies with the process, leaves a frame of the right types.
LEMMA FramesTyped ==
  ASSUME TaskTypeOK, NEW gone \in SUBSET Jobs, FramesLost(gone),
         lateMarker' \in [Jobs -> BOOLEAN], cut' \in [Jobs -> BOOLEAN]
  PROVE  TaskTypeOK'
BY DEF TaskTypeOK, FramesLost, TaskPc

\* _spawn makes a frame of the right types.
LEMMA SpawnTyped ==
  ASSUME TaskTypeOK, NEW j, NEW b \in BOOLEAN, Spawn(j, b)
  PROVE  TaskTypeOK'
BY DEF TaskTypeOK, Spawn, Goto, TaskPc

\* The calls of clients and the list of stop() keep their types: a cancel() is
\* delivered once for every cancel that was committed, and no more.
LEMMA ClientStep == ASSUME TypeOK, [Next]_vars PROVE ClientsTyped'
<1> USE DEF ClientsTyped, TypeOK
<1>1. CASE UNCHANGED vars \/ Tick \/ Recover
  BY <1>1 DEF vars, Tick, Recover, Others, Recovering, clients, env,
     TickStart, PassEnds, SlotsTaken, Skip, SpawnFinishCancel, JobTimeout, JobTimeoutRelease,
     ValidationStarts, ValidationEnds, WaitFails, PortsBusy, AcquirePorts, SpawnExecution,
     Start, RecoverJob, RecoverMarker, RecoverUnmark, RecoverConfirm, RecoverFail,
     RecoverRelease, RecoverLoopEnds
<1>2. CASE \E j \in Jobs : RequestCancel(j)
  BY <1>2 DEF RequestCancel, env
<1>3. CASE \E j \in Jobs : DeliverCancel(j)
  BY <1>3 DEF DeliverCancel, env
<1>4. CASE \E j \in Jobs : TimePasses(j)
  BY <1>4 DEF TimePasses, clients
<1>5. CASE \E j \in Jobs : Submit(j) \/ Deadline(j) \/ RunTask(j) \/ StopCancels(j)
  BY <1>5 DEF Submit, Deadline, RunTask, StopCancels, clients, env
<1>6. CASE Crash \/ AgentStopped
  BY <1>6 DEF Crash, AgentStopped, MemoryLost
<1>7. CASE Shutdown
  BY <1>7 DEF Shutdown, clients
<1>8. CASE SchedulerExits
  BY <1>8 DEF SchedulerExits, clients
<1>9. QED
  BY <1>1, <1>2, <1>3, <1>4, <1>5, <1>6, <1>7, <1>8 DEF Next

\* No step of _tick leaves the types.
LEMMA TickTyped == ASSUME TypeOK, Tick PROVE Typed' /\ RestTyped'
<1> USE DEF Others, Pass, Next1, Typed, RestTyped, TypeOK, SchedPc
<1> USE HeadIn, ListTyped
<1>0. agent' = agent /\ UNCHANGED recovery
  BY DEF Tick, TickStart, PassEnds, SlotsTaken, Skip, SpawnFinishCancel, JobTimeout, JobTimeoutRelease,
     ValidationStarts, ValidationEnds, WaitFails, PortsBusy, AcquirePorts, SpawnExecution
<1>TickStart. CASE TickStart
  <2>1. TaskTypeOK'
    BY <1>TickStart, FramesTyped DEF TickStart, TaskTypeOK
  <2>2. QED  BY <1>TickStart, <1>0, <2>1 DEF TickStart, store, engine, recovery, StoreTypeOK, EngineTypeOK
<1>1. CASE PassEnds \/ SlotsTaken \/ Skip \/ PortsBusy
  BY <1>1, <1>0 DEF PassEnds, SlotsTaken, Skip, PortsBusy, store, engine, task, locals, recovery,
     StoreTypeOK, EngineTypeOK, TaskTypeOK
<1>2. CASE JobTimeout \/ ValidationStarts \/ ValidationEnds \/ WaitFails
  <2>1. {"FAILED", "VALIDATING", "WAITING_FOR_PORTS"} \subseteq JobState
    BY DEF JobState
  <2>2. state' \in [Jobs -> JobState \cup {"ABSENT"}]
    <3>1. CASE JobTimeout
      BY <3>1, <2>1, MoveTyped DEF JobTimeout
    <3>2. CASE ValidationStarts
      BY <3>2, <2>1, MoveTyped DEF ValidationStarts
    <3>3. CASE ValidationEnds
      BY <3>3, <2>1, MoveTyped DEF ValidationEnds
    <3>4. CASE WaitFails
      BY <3>4, <2>1, MoveTyped DEF WaitFails
    <3>5. QED  BY <1>2, <3>1, <3>2, <3>3, <3>4
  <2>3. sched' \in SchedPc /\ todo' \in SUBSET Row
    BY <1>2 DEF JobTimeout, ValidationStarts, ValidationEnds, WaitFails
  <2>4. UNCHANGED <<cancelled, owner, quarantined, marker, engine, task>>
    BY <1>2 DEF JobTimeout, ValidationStarts, ValidationEnds, WaitFails
  <2>5. QED  BY <1>0, <2>2, <2>3, <2>4 DEF engine, task, locals, recovery, StoreTypeOK, EngineTypeOK, TaskTypeOK
<1>3. CASE SpawnFinishCancel
  <2>1. TaskTypeOK'
    BY <1>3, SpawnTyped DEF SpawnFinishCancel
  <2>2. QED  BY <1>3, <1>0, <2>1 DEF SpawnFinishCancel, store, engine, recovery, StoreTypeOK, EngineTypeOK
<1>4. CASE JobTimeoutRelease
  BY <1>4, <1>0, ReleaseTyped DEF JobTimeoutRelease, engine, task, locals, recovery, StoreTypeOK, EngineTypeOK, TaskTypeOK
<1>5. CASE AcquirePorts
  <2>1. owner' \in [Ports -> Jobs \cup {None}]
    BY <1>5 DEF AcquirePorts, Acquire, Waiting, Visits, StoreTypeOK
  <2>2. QED  BY <1>5, <1>0, <2>1 DEF AcquirePorts, Acquire, engine, task, locals, recovery, StoreTypeOK, EngineTypeOK, TaskTypeOK
<1>6. CASE SpawnExecution
  <2>1. TaskTypeOK'
    BY <1>6, SpawnTyped DEF SpawnExecution
  <2>2. state' \in [Jobs -> JobState \cup {"ABSENT"}]
    BY <1>6, MoveTyped DEF SpawnExecution, JobState
  <2>3. QED  BY <1>6, <1>0, <2>1, <2>2 DEF SpawnExecution, engine, recovery, StoreTypeOK, EngineTypeOK
<1>7. QED
  BY <1>TickStart, <1>1, <1>2, <1>3, <1>4, <1>5, <1>6 DEF Tick

\* Nor does any step of _recover.
LEMMA RecoverTyped == ASSUME TypeOK, Recover PROVE Typed' /\ RestTyped'
<1> USE DEF Recovering, Typed, RestTyped, TypeOK, RecoveryPc
<1>0. TaskTypeOK' /\ sched' \in SchedPc /\ todo' \in SUBSET Row
  BY DEF Recover, Start, RecoverJob, RecoverMarker, RecoverUnmark, RecoverConfirm, RecoverFail,
     RecoverRelease, RecoverLoopEnds, task, locals, TaskTypeOK, scheduler
<1>1. agent' \in {"down", "recovering", "up", "stopping"}
  BY DEF Recover, Start, RecoverJob, RecoverMarker, RecoverUnmark, RecoverConfirm, RecoverFail,
     RecoverRelease, RecoverLoopEnds
<1>2. CASE Start \/ RecoverLoopEnds
  BY <1>2, <1>0, <1>1 DEF Start, RecoverLoopEnds, store, engine, StoreTypeOK, EngineTypeOK
<1>3. CASE RecoverJob
  <2>1. Oldest(rtodo) \in Jobs
    BY <1>3, OldestIn DEF RecoverJob
  <2>2. EngineTypeOK'
    BY <1>3 DEF RecoverJob, ReconcileConfirms, ReconcileFails, engine, EngineTypeOK
  <2>3. QED  BY <1>3, <1>0, <1>1, <2>1, <2>2 DEF RecoverJob, store, StoreTypeOK
<1>4. CASE RecoverMarker
  <2>1. EngineTypeOK'
    BY <1>4 DEF RecoverMarker, ReconcileConfirms, ReconcileFails, engine, EngineTypeOK
  <2>2. QED  BY <1>4, <1>0, <1>1, <2>1 DEF RecoverMarker, store, StoreTypeOK
<1>5. CASE RecoverUnmark
  BY <1>5, <1>0, <1>1 DEF RecoverUnmark, DeleteMarker, engine, StoreTypeOK, EngineTypeOK
<1>6. CASE RecoverConfirm
  BY <1>6, <1>0, <1>1 DEF RecoverConfirm, ConfirmAvailable, engine, StoreTypeOK, EngineTypeOK
<1>7. CASE RecoverFail
  <2>1. state' \in [Jobs -> JobState \cup {"ABSENT"}]
    BY <1>7, MoveTyped DEF RecoverFail, JobState
  <2>2. QED  BY <1>7, <1>0, <1>1, <2>1 DEF RecoverFail, engine, StoreTypeOK, EngineTypeOK
<1>8. CASE RecoverRelease
  <2>1. owner' \in [Ports -> Jobs \cup {None}] /\ quarantined' \in [Ports -> BOOLEAN]
    BY <1>8, ReleaseTyped DEF RecoverRelease
  <2>2. QED  BY <1>8, <1>0, <1>1, <2>1 DEF RecoverRelease, engine, StoreTypeOK, EngineTypeOK
<1>9. QED
  BY <1>2, <1>3, <1>4, <1>5, <1>6, <1>7, <1>8 DEF Recover

\* No step leaves TypeOK.
LEMMA TypeStep == TypeOK /\ [Next]_vars => TypeOK'
<1>1. SUFFICES ASSUME TypeOK, [Next]_vars PROVE  Typed' /\ RestTyped'
  BY ClientStep, TypeParts DEF TypeOK, Typed, RestTyped, ClientsTyped
<1>2. Typed /\ RestTyped
  BY <1>1, TypeParts
<1>3. ASSUME UNCHANGED Memory PROVE  RestTyped'
  BY <1>2, <1>3 DEF Memory, scheduler, recovery, RestTyped
<1>4. CASE Outside
  BY <1>2, <1>3, <1>4
  DEF Outside, Memory, Typed, StoreTypeOK, EngineTypeOK, TaskTypeOK, store, engine, task, locals
<1>5. ASSUME NEW j \in Jobs, TaskMoves(j) PROVE  Typed' /\ RestTyped'
  BY <1>2, <1>3, <1>5, TaskTyped, CancelTyped DEF TaskMoves
<1>6. ASSUME NEW j \in Jobs, LateSave(j) PROVE  Typed' /\ RestTyped'
  BY <1>2, <1>3, <1>6
  DEF LateSave, LateMarkerSaved, SaveMarker, Typed, StoreTypeOK, EngineTypeOK, TaskTypeOK, engine, locals
<1>7. ASSUME NEW j \in Jobs, Submit(j) \/ RequestCancel(j) PROVE  Typed' /\ RestTyped'
  <2>1. state' \in [Jobs -> JobState \cup {"ABSENT"}] /\ cancelled' \in [Jobs -> BOOLEAN]
    BY <1>2, <1>7 DEF Submit, RequestCancel, JobState, Typed, StoreTypeOK, Live
  <2>2. QED
    BY <1>2, <1>3, <1>7, <2>1
    DEF Submit, RequestCancel, Typed, StoreTypeOK, EngineTypeOK, TaskTypeOK, engine, task, locals, Memory
<1>8. CASE Shutdown \/ SchedulerExits
  BY <1>2, <1>8 DEF Shutdown, SchedulerExits, Pass, Typed, RestTyped, StoreTypeOK, EngineTypeOK, TaskTypeOK,
     store, engine, task, locals, scheduler, recovery, SchedPc
<1>9. CASE Ends
  <2>1. TaskTypeOK'
    BY <1>2, <1>9, FramesTyped DEF Ends, MemoryLost, Typed, TaskTypeOK, NoFlag
  <2>2. EngineTypeOK'
    <3>1. PICK gained \in SUBSET {j \in Jobs : pc[j] = "prepare"} :
            traffic' = [p \in Ports |-> (traffic[p] \ {}) \cup {j \in gained : p \in Needs[j]}]
      BY <1>9 DEF Ends, MemoryLost, EngineDies
    <3>2. \A p \in Ports : traffic'[p] \in SUBSET Jobs
      BY <1>2, <3>1 DEF Typed, EngineTypeOK
    <3>3. traffic' \in [Ports -> SUBSET Jobs]
      BY <3>1, <3>2
    <3>4. QED  BY <1>2, <1>9, <3>3 DEF Ends, MemoryLost, EngineDies, Typed, EngineTypeOK
  <2>3. RestTyped' /\ StoreTypeOK'
    BY <1>2, <1>9 DEF Ends, MemoryLost, Typed, RestTyped, StoreTypeOK, store, SchedPc, RecoveryPc
  <2>4. QED  BY <2>1, <2>2, <2>3 DEF Typed
<1>10. QED
  BY <1>1, <1>4, <1>5, <1>6, <1>7, <1>8, <1>9, StepKinds, TickTyped, RecoverTyped

\* Every variable of the engine keeps its type, whatever clients, tasks, deadlines and
\* ends of the process do (the Jobs API, _tick, _execute, _recover).
THEOREM TypeCorrect == Spec => []TypeOK
<1>1. Init => TypeOK
  BY DEF Init, StoreInit, EngineInit, TaskInit, NoFlag, TypeOK, StoreTypeOK, EngineTypeOK, TaskTypeOK,
     SchedPc, RecoveryPc, TaskPc
<1>2. QED
  BY <1>1, TypeStep, PTL DEF Spec

\* A task that moves, or is cancelled, was running, and it is still in _active after.
LEMMA TaskRuns ==
  ASSUME Typed, NEW j \in Jobs, TaskStep(j) \/ \E b \in BOOLEAN : CancelTask(j, b)
  PROVE  /\ Running(j) /\ pc'[j] # "none"
         /\ pc' = [pc EXCEPT ![j] = pc'[j]]
         /\ Active' = Active
<1> USE DEF Goto, Typed, TaskTypeOK, Running
<1>1. Running(j) /\ \E l : l # "none" /\ Goto(j, l)
  <2>1. CASE TaskStep(j)
    <3>1. CASE Transition(j)
      <4>1. pc[j] \in DOMAIN Target /\ AfterMove(j) # "none"
        BY <3>1, TargetTyped DEF Transition, AfterMove, Finally, FinallyOf
      <4>2. QED  BY <3>1, <4>1, TargetTyped DEF Transition
    <3>2. CASE FxMove(j)
      <4>1. FxNext[pc[j]] # "none"
        BY <3>2, TargetTyped DEF FxMove, FxNext
      <4>2. QED  BY <3>2, <4>1, TargetTyped DEF FxMove
    <3>3. QED
      BY <2>1, <3>1, <3>2 DEF TaskStep, Begin, SaveExecutionMarker, PrepareReturns, PrepareRaises, TrafficReturns,
         TrafficRaises, Stop, Cleanup, Unmark, Bundle, FxRelease, FinStop, FinCleanup,
         FinUnmark, FinRelease, DeadlineFail, DeadlineRelease, AfterFx, Finally, FinallyOf, Leaves
  <2>2. ASSUME NEW b \in BOOLEAN, CancelTask(j, b) PROVE Running(j) /\ \E l : l # "none" /\ Goto(j, l)
    BY <2>2, TargetTyped DEF CancelTask, HitNew, HitMarker, HitPrepare, HitTransition, HitRun, HitWait, HitCleanup,
       HitUnmark, HitFxMove, HitFxRelease, HitFinally, HitFinRelease, HitDeadlineHandler,
       AfterFx, Finally, FinallyOf, Leaves
  <2>3. QED  BY <2>1, <2>2
<1>2. QED  BY <1>1 DEF Active

\* An execution stays an execution and a cancellation a cancellation.
LEMMA TaskExecutes ==
  ASSUME Typed, NEW j \in Jobs, TaskStep(j) \/ \E b \in BOOLEAN : CancelTask(j, b)
  PROVE  executes' = executes
<1>1. ASSUME NEW b \in BOOLEAN, CancelTask(j, b) PROVE executes' = executes
  BY <1>1 DEF CancelTask, Hit
<1>2. CASE TaskStep(j)
  BY <1>2 DEF TaskStep, Begin, Silent, SaveExecutionMarker, PrepareReturns, PrepareRaises,
     Transition, TrafficReturns, TrafficRaises, Stop, Cleanup, Unmark, Bundle, FxMove, FxRelease, FinStop,
     FinCleanup, FinUnmark, FinRelease, DeadlineFail, DeadlineRelease, locals
<1>3. QED  BY <1>1, <1>2

-----------------------------------------------------------------------------
(* Memory *)

\* A process that is down has nothing in memory, and one that recovers has no task yet
\* (start: _recover comes before the scheduler).
LEMMA MemoryStep == TypeOK /\ MemoryInv /\ [Next]_vars => MemoryInv'
<1>1. HAVE TypeOK /\ MemoryInv /\ [Next]_vars
<1>2. Typed /\ RestTyped
  BY <1>1, TypeParts
<1> USE DEF MemoryInv, MemoryEmpty, RecoveryRuns
<1>3. CASE Outside \/ \E j \in Jobs : LateSave(j) \/ Submit(j) \/ RequestCancel(j)
  BY <1>1, <1>2, <1>3 DEF Outside, LateSave, LateMarkerSaved, Submit, RequestCancel, Memory, task, locals, scheduler,
     recovery, Typed, TaskTypeOK
<1>4. ASSUME NEW j \in Jobs, TaskMoves(j) PROVE  MemoryInv'
  BY <1>1, <1>2, <1>4, TaskRuns DEF TaskMoves, Memory, scheduler, recovery, Running
<1>5. CASE Tick
  <2>1. agent \in {"up", "stopping"} /\ UNCHANGED <<agent, recovery>>
    BY <1>1, <1>2, <1>5 DEF Tick, Others, TickStart, PassEnds, SlotsTaken, Skip, SpawnFinishCancel, JobTimeout,
       JobTimeoutRelease, ValidationStarts, ValidationEnds, WaitFails, PortsBusy, AcquirePorts,
       SpawnExecution, Visits, Waiting, RestTyped
  <2>2. QED  BY <1>1, <2>1 DEF recovery
<1>6. CASE Shutdown \/ SchedulerExits
  BY <1>1, <1>6 DEF Shutdown, SchedulerExits, recovery
<1>7. CASE Ends
  BY <1>7 DEF Ends, MemoryLost, FramesLost, NoFlag
<1>8. CASE Recover
  BY <1>1, <1>2, <1>8 DEF Recover, Start, RecoverJob, RecoverMarker, RecoverUnmark, RecoverConfirm, RecoverFail,
     RecoverRelease, RecoverLoopEnds, Recovering, task, locals, scheduler, RestTyped
<1>9. QED
  BY <1>1, <1>3, <1>4, <1>5, <1>6, <1>7, <1>8, StepKinds

-----------------------------------------------------------------------------
(* The list of a pass *)

\* A step of someone else than the pass, on a Job that has a task, does not make its
\* list wrong where the pass relies on it.
LEMMA Bystander ==
  ASSUME TypeOK, PassInv, UNCHANGED <<sched, todo>>, Active' = Active,
         \A j \in Jobs : cancelled[j] => cancelled'[j],
         \A j \in Jobs : j \notin Active /\ state[j] # "ABSENT" => state'[j] = state[j],
         \A p \in Ports : owner'[p] = owner[p] \/ owner[p] \in Active
  PROVE  PassInv'
<1>1. \A r \in todo : r.job \in Jobs /\ (r.job \notin Active => state[r.job] # "ABSENT")
  BY DEF TypeOK, Row, PassInv, RowsStand, PassHolds, AtWork
<1>2. Head' = Head /\ (todo # {} => Head \in Jobs)
  BY HeadIn DEF Head
<1>3. RowsStand'
  BY <1>1, <1>2 DEF PassInv, RowsStand, AtWork
<1>4. sched \in {"timeout", "validating", "acquired"} => state'[Head] = state[Head]
  BY <1>2 DEF PassInv, PassHolds
<1>5. PassHolds'
  BY <1>2, <1>4 DEF PassInv, PassHolds, Leased, Owns
<1>6. QED  BY <1>3, <1>5 DEF PassInv

\* Each Job is on a list once: what is left of it is not about the Job at its head.
LEMMA HeadGone ==
  ASSUME TypeOK, PassInv, todo # {}, NEW r \in todo \ {First(todo)}
  PROVE  r \in Row /\ r.job \in Jobs \ {Head}
<1>1. First(todo) \in todo /\ Head \in Jobs
  BY HeadIn
<1>2. QED  BY <1>1 DEF PassInv, RowsStand, Head, TypeOK, Row

\* The pass strikes a Job off: the rest of its list is as right as it was.
LEMMA HeadDone ==
  ASSUME TypeOK, PassInv, todo # {}, Next1, sched' \in {"scan1", "scan2"},
         Active \subseteq Active', UNCHANGED cancelled,
         \A j \in Jobs \ {Head} : state'[j] = state[j]
  PROVE  PassInv'
<1>1. \A r \in todo' : /\ r \in todo /\ r \in Row /\ r.job \in Jobs \ {Head}
                       /\ r.job \in Active' \/ state'[r.job] = r.state
  BY HeadGone DEF Next1, PassInv, RowsStand, AtWork
<1>2. QED  BY <1>1 DEF PassInv, RowsStand, PassHolds

\* A list that has just been read says what is so.
LEMMA ListRead ==
  ASSUME TypeOK, todo' = NonTerminal, sched' \in {"scan1", "scan2"}, UNCHANGED <<state, cancelled>>
  PROVE  PassInv'
<1>1. \A r \in todo' : \E j \in Jobs : Live(j) /\ r = [job |-> j, state |-> state[j], cancelled |-> cancelled[j]]
  BY DEF NonTerminal
<1>2. QED  BY <1>1 DEF PassInv, RowsStand, PassHolds, Live

\* The pass moves the Job at its head and keeps at it.
LEMMA HeadHeld ==
  ASSUME TypeOK, PassInv, todo # {}, Head \notin Active, UNCHANGED <<todo, pc, cancelled>>,
         sched' \in {"timeout", "validating"},
         \A j \in Jobs \ {Head} : state'[j] = state[j],
         sched' = "timeout" => state'[Head] = "FAILED",
         sched' = "validating" => state'[Head] = "VALIDATING"
  PROVE  PassInv'
<1>1. \A r \in todo \ {First(todo)} : r \in Row /\ r.job \in Jobs \ {Head}
  BY HeadGone
<1>2. Head' = Head /\ Active' = Active
  BY DEF Head, Active
<1>3. \A r \in todo : r.job = Head \/ r.job \in Active \/ state'[r.job] = r.state
  BY <1>1 DEF PassInv, RowsStand, AtWork, Head
<1>4. RowsStand'
  BY <1>2, <1>3 DEF PassInv, RowsStand, AtWork
<1>5. QED  BY <1>2, <1>4 DEF PassInv, PassHolds

\* The scheduler reads a list and walks it while tasks run and clients call: on every
\* Job without a task the list is right when the pass comes to it, however old it is
\* (_tick skips the Jobs of _active).
LEMMA PassStep == TypeOK /\ MemoryInv /\ PassInv /\ [Next]_vars => PassInv'
<1>1. HAVE TypeOK /\ MemoryInv /\ PassInv /\ [Next]_vars
<1>2. Typed /\ RestTyped
  BY <1>1, TypeParts
<1>3. CASE Outside \/ Shutdown
  BY <1>1, <1>3, Bystander DEF Outside, Shutdown, Memory, scheduler, store, task, Active
<1>4. ASSUME NEW j \in Jobs, TaskMoves(j) PROVE  PassInv'
  <2>1. OthersKept(j) /\ j \in Active /\ Active' = Active /\ UNCHANGED <<sched, todo>>
    BY <1>2, <1>4, TaskKeeps, CancelKeeps, TaskRuns DEF TaskMoves, Memory, scheduler, Active, Running
  <2>2. QED  BY <1>1, <2>1, Bystander DEF OthersKept
<1>5. ASSUME NEW j \in Jobs, LateSave(j) \/ Submit(j) \/ RequestCancel(j) PROVE  PassInv'
  <2>1. UNCHANGED <<sched, todo, pc, owner>>
    BY <1>5 DEF LateSave, LateMarkerSaved, Submit, RequestCancel, Memory, scheduler, task
  <2>2. \A k \in Jobs : cancelled[k] => cancelled'[k]
    BY <1>2, <1>5 DEF LateSave, LateMarkerSaved, Submit, RequestCancel, Typed, StoreTypeOK
  <2>3. \A k \in Jobs : state[k] # "ABSENT" => state'[k] = state[k]
    BY <1>2, <1>5 DEF LateSave, LateMarkerSaved, Submit, RequestCancel, Typed, StoreTypeOK
  <2>4. Active' = Active
    BY <2>1 DEF Active
  <2>5. QED  BY <1>1, <2>1, <2>2, <2>3, <2>4, Bystander
<1>6. CASE SchedulerExits
  <2>1. UNCHANGED <<todo, pc, state, cancelled>> /\ sched = "idle" /\ sched' = "exited"
    BY <1>6 DEF SchedulerExits, Pass, store, task
  <2>2. QED  BY <1>1, <2>1 DEF PassInv, RowsStand, PassHolds, AtWork, Active
<1>7. CASE Ends
  BY <1>7 DEF Ends, MemoryLost, PassInv, RowsStand, PassHolds
<1>8. CASE Recover
  <2>1. agent \in {"down", "recovering"} /\ UNCHANGED <<sched, todo>>
    BY <1>1, <1>8 DEF Recover, Start, RecoverJob, RecoverMarker, RecoverUnmark, RecoverConfirm, RecoverFail,
       RecoverRelease, RecoverLoopEnds, Recovering, scheduler, MemoryInv, RecoveryRuns
  <2>2. QED  BY <1>1, <2>1 DEF MemoryInv, MemoryEmpty, PassInv, RowsStand, PassHolds
<1>9. CASE Tick
  <2> USE <1>1
  <2>1. CASE TickStart \/ (PassEnds /\ Pass("scan2"))
    BY <2>1, ListRead DEF TickStart, PassEnds, Pass, store
  <2>2. CASE SlotsTaken \/ (PassEnds /\ Pass("idle"))
    <3>1. todo' = {} /\ sched' = "idle"
      BY <2>2 DEF SlotsTaken, PassEnds, Pass
    <3>2. QED  BY <3>1 DEF PassInv, RowsStand, PassHolds
  <2>3. CASE Skip \/ PortsBusy
    BY <2>3, HeadDone DEF Skip, PortsBusy, Waiting, Visits, store, task, Active
  <2>4. CASE SpawnFinishCancel
    <3>1. Active \subseteq Active'
      BY <1>2, <2>4 DEF SpawnFinishCancel, Spawn, Goto, Active, Typed, TaskTypeOK
    <3>2. QED  BY <2>4, <3>1, HeadDone DEF SpawnFinishCancel, Visits, store
  <2>5. CASE JobTimeout \/ ValidationStarts
    <3>1. /\ todo # {} /\ Head \notin Active /\ sched = "scan1" /\ Head \in Jobs
          /\ First(todo) \in todo
      BY <2>5, HeadIn DEF JobTimeout, ValidationStarts, Visits
    <3>2. state[Head] = First(todo).state /\ First(todo).state \in JobState \ Terminal
      BY <3>1, HeadIn DEF PassInv, RowsStand, AtWork, Head
    <3>3. CASE JobTimeout
      <4>1. state'[Head] = "FAILED" /\ \A j \in Jobs \ {Head} : state'[j] = state[j]
        BY <1>2, <3>1, <3>2, <3>3 DEF JobTimeout, Move, Typed, StoreTypeOK
      <4>2. QED  BY <3>1, <3>3, <4>1, HeadHeld DEF JobTimeout, Pass, task
    <3>4. CASE ValidationStarts
      <4>1. state'[Head] = "VALIDATING" /\ \A j \in Jobs \ {Head} : state'[j] = state[j]
        BY <1>2, <3>1, <3>2, <3>4 DEF ValidationStarts, Move, Typed, StoreTypeOK, Terminal
      <4>2. QED  BY <3>1, <3>4, <4>1, HeadHeld DEF ValidationStarts, Pass, task
    <3>5. QED  BY <2>5, <3>3, <3>4
  <2>6. CASE JobTimeoutRelease
    BY <2>6, HeadDone DEF JobTimeoutRelease, PassInv, PassHolds, Pass, task, Active
  <2>7. CASE ValidationEnds
    <3>1. \A j \in Jobs \ {Head} : state'[j] = state[j]
      BY <1>2, <2>7 DEF ValidationEnds, Move, Typed, StoreTypeOK
    <3>2. QED  BY <2>7, <3>1, HeadDone DEF ValidationEnds, PassInv, PassHolds, Pass, task, Active
  <2>8. CASE WaitFails
    <3>1. \A j \in Jobs \ {Head} : state'[j] = state[j]
      BY <1>2, <2>8 DEF WaitFails, Move, Typed, StoreTypeOK
    <3>2. QED  BY <2>8, <3>1, HeadDone DEF WaitFails, Waiting, Visits, task, Active
  <2>9. CASE AcquirePorts
    <3>1. /\ todo # {} /\ Head \notin Active /\ sched = "scan2" /\ Head \in Jobs
          /\ First(todo) \in todo /\ First(todo).state = "WAITING_FOR_PORTS"
          /\ Cardinality(Active) < MaxConcurrent
      BY <2>9, HeadIn DEF AcquirePorts, Waiting, Visits
    <3>2. state[Head] = "WAITING_FOR_PORTS"
      BY <3>1 DEF PassInv, RowsStand, AtWork, Head
    <3>3. UNCHANGED <<todo, pc, state, cancelled>> /\ sched' = "acquired" /\ Head' = Head /\ Active' = Active
      BY <2>9 DEF AcquirePorts, Pass, task, Head, Active
    <3>4. \A p \in Needs[Head] : owner'[p] = Head
      BY <3>1, <2>9 DEF AcquirePorts, Acquire
    <3>5. QED  BY <3>1, <3>2, <3>3, <3>4 DEF PassInv, RowsStand, PassHolds, AtWork, Leased, Owns
  <2>10. CASE SpawnExecution
    <3>1. \A j \in Jobs \ {Head} : state'[j] = state[j]
      BY <1>2, <2>10 DEF SpawnExecution, Move, Typed, StoreTypeOK
    <3>2. Active \subseteq Active'
      BY <1>2, <2>10 DEF SpawnExecution, Spawn, Goto, Active, Typed, TaskTypeOK
    <3>3. QED  BY <2>10, <3>1, <3>2, HeadDone DEF SpawnExecution, PassInv, PassHolds, Pass
  <2>11. QED
    BY <1>9, <2>1, <2>2, <2>3, <2>4, <2>5, <2>6, <2>7, <2>8, <2>9, <2>10 DEF Tick, PassEnds
<1>10. QED
  BY <1>1, <1>3, <1>4, <1>5, <1>6, <1>7, <1>8, <1>9, StepKinds

\* the layers of this module
Base == TypeOK /\ MemoryInv /\ PassInv

\* What holds of the lists and the memory of the Agent, on top of its types.
THEOREM BaseCorrect == Spec => []Base
<1>1. Init => MemoryInv /\ PassInv
  BY DEF Init, MemoryInv, MemoryEmpty, RecoveryRuns, PassInv, RowsStand, PassHolds
<1>2. QED
  BY <1>1, TypeCorrect, MemoryStep, PassStep, PTL DEF Spec, Base
=============================================================================
