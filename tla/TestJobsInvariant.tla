--------------------------- MODULE TestJobsInvariant ---------------------------
(***************************************************************************)
(* Why the invariants of TestJobs hold: what is true of the scheduler's     *)
(* list, of the frame of every task, of the leases and of the recovery at   *)
(* every point a step of another actor may come in between.                 *)
(***************************************************************************)
EXTENDS TestJobs

\* no port of j may be active, but for the trial of a run that escaped a cleanup
Quiet(j) == runner[j] = "escaped" \/ \A p \in Ports : j \notin traffic[p]

Owns(j, p) == owner[p] = j
Leased(j) == \A p \in Needs[j] : Owns(j, p)
Landless(j) == \A p \in Ports : ~Owns(j, p)

Waits(j) == state[j] \in {"ABSENT"} \cup Recoverable

-----------------------------------------------------------------------------
(* What lives in memory *)

\* The process that is down, or recovers, has no task, no worker and no list.
MemoryEmpty ==
  agent \in {"down", "recovering"} =>
    /\ \A j \in Jobs : pc[j] = "none" /\ ~lateMarker[j]
    /\ sched = "idle" /\ todo = {}

\* The recovery is under way exactly while the Agent says so.
RecoveryRuns == agent = "recovering" <=> rpass # "off"

MemoryInv == MemoryEmpty /\ RecoveryRuns

-----------------------------------------------------------------------------
(* The list a pass of _tick walks *)

\* the Job a pass has moved, but not yet struck off its list
AtWork(j) == sched \in {"timeout", "validating"} /\ j = Head

\* However old the list is: what it says of a Job nobody works on is so.
RowsStand ==
  /\ \A r \in todo : /\ r.state \notin Terminal \cup {"ABSENT"}
                     /\ r.cancelled => cancelled[r.job]
                     /\ r.job \in Active \/ AtWork(r.job) \/ state[r.job] = r.state
  /\ \A r, s \in todo : r.job = s.job => r = s

\* In the middle of a Job, the pass has it to itself.
PassHolds ==
  /\ sched \in {"timeout", "validating", "acquired"} => todo # {} /\ Head \notin Active
  /\ sched = "timeout" => state[Head] = "FAILED"
  /\ sched = "validating" => state[Head] = "VALIDATING"
  /\ sched = "acquired" => /\ state[Head] = "WAITING_FOR_PORTS"
                           /\ Leased(Head)
                           /\ Cardinality(Active) < MaxConcurrent

PassInv == RowsStand /\ PassHolds

-----------------------------------------------------------------------------
(* The frame of a task *)

\* awaits in which the engine has a handle for the run
WithHandle == {"warming", "warmup", "starting", "run", "drain", "stop", "collect", "cleanup",
               "cd_drain", "cd_stop", "cd_collect", "cd_cleanup", "cd_cancel"}

FxPc == DOMAIN FxTarget \cup {"fx_release"}

\* the marker covers the ports, and only the ports its document names
Covered(j) == /\ marker[j] \/ Quiet(j)
              /\ \A p \in Ports : j \in traffic[p] => p \in Needs[j]

\* before the engine is asked for anything, and after it has given it back
FrameIdle(j) ==
  /\ pc[j] \in {"new", "marker", "bundle", "succeed"} \cup FxPc => ~handle[j] /\ confirmed[j]
  /\ pc[j] \in {"new", "marker", "prepare", "unmark", "bundle", "succeed"} \cup FxPc
       => (executes[j] => Quiet(j))
  /\ pc[j] = "prepare" => marker[j] /\ ~handle[j] /\ ~confirmed[j]

\* while it may be active
FrameBusy(j) ==
  /\ pc[j] \in WithHandle => marker[j] /\ handle[j] /\ ~confirmed[j]
  /\ pc[j] \in WithHandle => j \in sessions \/ (pc[j] = "cd_cancel" /\ Quiet(j))
  /\ pc[j] = "unmark" => handle[j] /\ confirmed[j]

\* in the finally block, and on the way to it
FrameLeft(j) ==
  /\ pc[j] = "fail" => (~handle[j] /\ confirmed[j] => Quiet(j))
  /\ pc[j] \in {"fin_stop", "fin_cleanup"} => handle[j]
  /\ pc[j] \in {"fail", "fin_stop", "fin_cleanup"}
       => (handle[j] /\ Adapter = "stl" => j \in sessions \/ Quiet(j))
  /\ pc[j] = "fin_cleanup" /\ stopped[j] => Adapter = "stl" \/ j \in sessions
  /\ pc[j] = "fin_unmark" => confirmed[j]
  /\ pc[j] \in {"fin_unmark", "fin_release"} => (confirmed[j] => Quiet(j))

\* Only a task that executes is past the first awaits, and its Job does not wait.
Executes(j) ==
  /\ pc[j] \notin {"none", "new", "done"} \cup FxPc => executes[j]
  /\ executes[j] => ~Waits(j)
  /\ Waits(j) => Quiet(j)

JobFrame(j) == Covered(j) /\ FrameIdle(j) /\ FrameBusy(j) /\ FrameLeft(j) /\ Executes(j)

FrameInv == \A j \in Jobs : JobFrame(j)

-----------------------------------------------------------------------------
(* Leases *)

\* from its first step to the release, an execution has all its ports
LeaseInv == LeaseCoversExecution

QuarantinedFree == \A p \in Ports : quarantined[p] => owner[p] = None

\* to take the lease of j away hides nothing
Settled(j) == cut[j] \/ Quiet(j) \/ Landless(j)

\* Whoever else than the execution itself releases the ports of a Job, finds
\* them settled: the deadline, a spawned cancellation, the scheduler.
ReleasesSettled ==
  /\ \A j \in Jobs :
       /\ pc[j] \in {"dl_fail", "dl_release", "done"} => Settled(j)
       /\ pc[j] # "none" /\ ~executes[j] => Settled(j)
       /\ agent \in {"up", "stopping"} /\ pc[j] = "none" /\ state[j] \notin Terminal => Settled(j)
  /\ sched = "timeout" => Settled(Head)

ClosedInv == QuarantinedFree /\ ReleasesSettled /\ FailClosedUnlessCut

-----------------------------------------------------------------------------
(* Recovery *)

\* the steps of _recover at one Job
AtJob == RecoveryPc \ {"off", "jobs", "markers"}

RecoveryInv ==
  /\ rpass \in AtJob => rjob \in Jobs
  /\ rpass \in {"unmark", "confirm", "unmark_left", "confirm_left"}
       => \A p \in Needs[rjob] : traffic[p] = {}
  /\ rpass \in {"fail_idle", "release_idle"} => Quiet(rjob)
  /\ agent = "recovering" =>
       \A j \in Jobs : state[j] \in Executing =>
         /\ rpass \notin {"markers", "unmark_left", "confirm_left"}
         /\ j \in rtodo \/ (j = rjob /\ rpass \in {"unmark", "confirm", "fail_idle", "fail_busy"})

-----------------------------------------------------------------------------
(* Slots *)

SlotInv == IsFiniteSet(Active) /\ ExecutionsBounded

-----------------------------------------------------------------------------
(* What is given back *)

\* what a Job has of ports while it waits, once nobody works on it any more, and
\* once its task is past the release
Returned(j) ==
  /\ Waits(j) => Landless(j) \/ (sched = "acquired" /\ j = Head)
  /\ pc[j] \in {"none", "done"} /\ state[j] \in Terminal
       => cut[j] \/ Landless(j) \/ (sched = "timeout" /\ j = Head)
  /\ pc[j] \in {"dl_fail", "dl_release"} => cut[j] \/ Landless(j)

\* in the first life of the process
ReturnInv ==
  restarts = 0 => agent = "up" /\ sched # "exited" /\ \A j \in Jobs : Returned(j)

-----------------------------------------------------------------------------
(* The life of a Job *)

\* where a Job is while its task is in an await
StateAt == [marker |-> {"PREPARING"}, prepare |-> {"PREPARING"}, warming |-> {"PREPARING"},
            warmup |-> {"WARMING_UP"}, starting |-> {"WARMING_UP"},
            run |-> {"RUNNING"}, drain |-> {"RUNNING"},
            stop |-> {"DRAINING"}, collect |-> {"DRAINING"},
            cleanup |-> {"COLLECTING"}, unmark |-> {"COLLECTING"}, bundle |-> {"COLLECTING"},
            succeed |-> {"COLLECTING"},
            cd_drain |-> {"WARMING_UP", "RUNNING"}, cd_stop |-> {"DRAINING"},
            cd_collect |-> {"DRAINING"}, cd_cleanup |-> {"COLLECTING"},
            cd_cancel |-> {"COLLECTING"},
            fx_drain |-> JobState \ Terminal, fx_collect |-> {"DRAINING"},
            fx_cancel |-> {"COLLECTING"},
            fail |-> JobState \ Terminal]

LifeInv ==
  \A j \in Jobs :
    /\ pc[j] \in DOMAIN StateAt => state[j] \in StateAt[pc[j]]
    /\ pc[j] = "new" => IF executes[j] THEN state[j] = "PREPARING" ELSE Live(j)
    /\ pc[j] \in {"cd_drain", "cd_stop", "cd_collect", "cd_cleanup", "cd_cancel"}
                   \cup DOMAIN FxTarget => cancelled[j]
    /\ pc[j] = "new" /\ ~executes[j] => cancelled[j]
=============================================================================
