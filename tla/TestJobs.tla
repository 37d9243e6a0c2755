------------------------------ MODULE TestJobs ------------------------------
(***************************************************************************)
(* The Agent's Job engine as a whole (jobs.py, TestJobs): the Jobs API, the *)
(* scheduler tick with its two passes over lists that are already stale     *)
(* when they are walked, one task per Job, cancellation, the deadlines, the *)
(* death of the process at any point, its orderly stop, and the recovery    *)
(* that runs before anything else at the next start.                        *)
(***************************************************************************)
EXTENDS TaskCancellation, FiniteSets

CONSTANTS MaxConcurrent,  \* safety.maxConcurrentJobs
          MaxCancels,     \* cancel calls clients make for one Job
          MaxRestarts,    \* ends of the process, orderly or not
          Impatient       \* the Jobs whose time limits may run out

ASSUME MaxConcurrentAssumption == MaxConcurrent \in Nat \ {0}
\* with fewer than three cancels _transition cannot run out of its three tries
ASSUME MaxCancelsAssumption == MaxCancels \in 0 .. 2
ASSUME MaxRestartsAssumption == MaxRestarts \in Nat

VARIABLES agent,       \* "down", "recovering", "up" or "stopping"
          sched,       \* where _tick is
          todo,        \* the rest of the list a pass of it walks
          rpass,       \* which loop of _recover, and where in it
          rtodo,       \* the Jobs that loop still has to look at
          rjob,        \* the one it is at
          rseen,       \* processed_markers
          calls,       \* cancel calls made for each Job
          pending,     \* those whose task.cancel() is yet to come
          toStop,      \* the Jobs whose task stop() is about to cancel
          clock,       \* 0; 1: portWaitTimeout has passed; 2: jobTimeout too
          restarts

scheduler == <<sched, todo>>
recovery == <<rpass, rtodo, rjob, rseen>>
clients == <<calls, pending>>
env == <<toStop, clock, restarts>>
vars == <<store, engine, task, agent, scheduler, recovery, clients, env>>

\* a row of list_nonterminal
Row == [job : Jobs, state : JobState, cancelled : BOOLEAN]

NonTerminal == {[job |-> j, state |-> state[j], cancelled |-> cancelled[j]] :
                  j \in {k \in Jobs : Live(k)}}

\* ORDER BY accepted_at, job_id
Oldest(jobs) == CHOOSE j \in jobs : \A k \in jobs : j <= k
First(rows) == CHOOSE r \in rows : \A s \in rows : r.job <= s.job

SchedPc == {"idle", "scan1", "timeout", "validating", "scan2", "acquired", "exited"}
RecoveryPc == {"off", "jobs", "unmark", "confirm", "fail_idle", "fail_busy",
               "release_idle", "release_busy", "markers", "unmark_left", "confirm_left"}

TypeOK == /\ StoreTypeOK /\ EngineTypeOK /\ TaskTypeOK
          /\ agent \in {"down", "recovering", "up", "stopping"}
          /\ sched \in SchedPc
          /\ todo \in SUBSET Row
          /\ rpass \in RecoveryPc
          /\ rtodo \in SUBSET Jobs
          /\ rjob \in Jobs \cup {None}
          /\ rseen \in SUBSET Jobs
          /\ calls \in [Jobs -> 0 .. MaxCancels]
          /\ pending \in [Jobs -> 0 .. MaxCancels]
          /\ \A j \in Jobs : pending[j] <= calls[j]
          /\ toStop \in SUBSET Jobs
          /\ clock \in [Jobs -> 0 .. 2]
          /\ restarts \in 0 .. MaxRestarts

Init == /\ StoreInit /\ EngineInit /\ TaskInit
        /\ agent = "up"
        /\ sched = "idle" /\ todo = {}
        /\ rpass = "off" /\ rtodo = {} /\ rjob = None /\ rseen = {}
        /\ calls = [j \in Jobs |-> 0] /\ pending = [j \in Jobs |-> 0]
        /\ toStop = {} /\ clock = [j \in Jobs |-> 0] /\ restarts = 0

-----------------------------------------------------------------------------
(* Clients and time *)

\* create_job commits; Jobs are numbered in the order they are accepted
Submit(j) ==
  /\ agent = "up"
  /\ state[j] = "ABSENT"
  /\ \A k \in Jobs : k < j => state[k] # "ABSENT"
  /\ state' = [state EXCEPT ![j] = "ACCEPTED"]
  /\ UNCHANGED <<cancelled, owner, quarantined, marker, engine, task, agent, scheduler,
                 recovery, clients, env>>

\* cancel: the intent is committed, unless the Job is terminal
RequestCancel(j) ==
  /\ agent = "up"
  /\ state[j] # "ABSENT"
  /\ calls[j] < MaxCancels
  /\ cancelled' = [cancelled EXCEPT ![j] = @ \/ Live(j)]
  /\ calls' = [calls EXCEPT ![j] = @ + 1]
  /\ pending' = [pending EXCEPT ![j] = @ + 1]
  /\ UNCHANGED <<state, owner, quarantined, marker, engine, task, agent, scheduler, recovery,
                 env>>

\* mutant: a cancel() nobody asked for
DeliverAnyCancel(j) ==
  /\ pending' = [pending EXCEPT ![j] = @ - 1]
  /\ IF Running(j) THEN CancelTask(j, TRUE) ELSE UNCHANGED <<store, engine, task>>
  /\ UNCHANGED <<agent, scheduler, recovery, calls, env>>

\* cancel goes on after the commit: whatever came of it, the task is cancelled
DeliverCancel(j) ==
  /\ pending[j] > 0
  /\ pending' = [pending EXCEPT ![j] = @ - 1]
  /\ IF Running(j) THEN CancelTask(j, TRUE) ELSE UNCHANGED <<store, engine, task>>
  /\ UNCHANGED <<agent, scheduler, recovery, calls, env>>

TimePasses(j) ==
  /\ j \in Impatient
  /\ Live(j) \/ Running(j)
  /\ clock[j] < 2
  /\ clock' = [clock EXCEPT ![j] = @ + 1]
  /\ UNCHANGED <<store, engine, task, agent, scheduler, recovery, clients, toStop, restarts>>

\* asyncio.wait_for around _execute runs out, once
Deadline(j) ==
  /\ executes[j] /\ clock[j] = 2 /\ ~hitByDeadline[j]
  /\ Running(j) /\ pc[j] \notin {"new", "dl_fail", "dl_release"}
  /\ CancelTask(j, FALSE)
  /\ UNCHANGED <<agent, scheduler, recovery, clients, env>>

\* the event loop runs the task of j
RunTask(j) == /\ TaskStep(j) \/ LateMarkerSaved(j)
              /\ UNCHANGED <<agent, scheduler, recovery, clients, env>>
-----------------------------------------------------------------------------
(* _tick *)

Others == <<agent, recovery, clients, env>>

Head == First(todo).job
Next1 == todo' = todo \ {First(todo)}
Pass(l) == sched' = l

\* _active loses the tasks that are done, and the list of the first pass is read
TickStart ==
  /\ agent = "up" /\ sched = "idle"
  /\ FramesLost({j \in Jobs : pc[j] = "done"})
  /\ todo' = NonTerminal
  /\ Pass("scan1")
  /\ UNCHANGED <<store, engine, lateMarker, cut, Others>>

\* a pass is over: the first goes on to the second if a slot is free
PassEnds ==
  /\ todo = {}
  /\ \/ /\ sched = "scan1" /\ Cardinality(Active) < MaxConcurrent
        /\ Pass("scan2") /\ todo' = NonTerminal
     \/ /\ sched = "scan1" /\ Cardinality(Active) >= MaxConcurrent
        /\ Pass("idle") /\ UNCHANGED todo
     \/ /\ sched = "scan2"
        /\ Pass("idle") /\ UNCHANGED todo
  /\ UNCHANGED <<store, engine, task, Others>>

\* the second pass breaks off when the slots are taken
SlotsTaken ==
  /\ sched = "scan2" /\ todo # {}
  /\ Cardinality(Active) >= MaxConcurrent
  /\ todo' = {} /\ Pass("idle")
  /\ UNCHANGED <<store, engine, task, Others>>

\* mutant: the slots are not counted again for every Job
VisitsUncounted(pass) == /\ sched = pass /\ todo # {}
                         /\ Head \notin Active
                         /\ pass = "scan2" => First(todo).state = "WAITING_FOR_PORTS"

\* the Jobs a pass has reached and does not skip
Visits(pass) == /\ sched = pass /\ todo # {}
                /\ pass = "scan2" => Cardinality(Active) < MaxConcurrent
                /\ Head \notin Active
                /\ pass = "scan2" => First(todo).state = "WAITING_FOR_PORTS"

Skip ==
  /\ sched \in {"scan1", "scan2"} /\ todo # {}
  /\ sched = "scan2" => Cardinality(Active) < MaxConcurrent
  /\ \/ ~Visits(sched)
     \/ /\ Visits("scan1") /\ ~First(todo).cancelled /\ clock[Head] < 2
        /\ First(todo).state \notin {"ACCEPTED", "VALIDATING"}
  /\ Next1
  /\ UNCHANGED <<store, engine, task, sched, Others>>

\* the listed Job carries a cancel intent and nobody works on it
SpawnFinishCancel ==
  /\ Visits(sched) /\ sched \in {"scan1", "scan2"}
  /\ First(todo).cancelled
  /\ Spawn(Head, FALSE)
  /\ Next1
  /\ UNCHANGED <<store, engine, sched, Others>>

\* mutant: the ports are given back, but the Job is not failed
JobTimeoutUnsaid ==
  /\ Visits("scan1") /\ ~First(todo).cancelled /\ clock[Head] = 2
  /\ Pass("timeout")
  /\ UNCHANGED <<store, engine, task, todo, Others>>

\* JOB_TIMEOUT of a Job without a task; its ports, if any, are released next
JobTimeout ==
  /\ Visits("scan1") /\ ~First(todo).cancelled /\ clock[Head] = 2
  /\ Move(Head, JobState, "FAILED")
  /\ Pass("timeout")
  /\ UNCHANGED <<cancelled, owner, quarantined, marker, engine, task, todo, Others>>

JobTimeoutRelease ==
  /\ sched = "timeout"
  /\ Release(Head, FALSE)
  /\ Next1 /\ Pass("scan1")
  /\ UNCHANGED <<state, cancelled, marker, engine, task, Others>>

\* _validate_job, on a snapshot of its own
ValidationStarts ==
  /\ Visits("scan1") /\ ~First(todo).cancelled /\ clock[Head] < 2
  /\ First(todo).state \in {"ACCEPTED", "VALIDATING"}
  /\ Move(Head, {"ACCEPTED"}, "VALIDATING")
  /\ Pass("validating")
  /\ UNCHANGED <<cancelled, owner, quarantined, marker, engine, task, todo, Others>>

ValidationEnds ==
  /\ sched = "validating"
  /\ \E s \in {"WAITING_FOR_PORTS", "FAILED"} : Move(Head, {"VALIDATING"}, s)
  /\ Next1 /\ Pass("scan1")
  /\ UNCHANGED <<cancelled, owner, quarantined, marker, engine, task, Others>>

Waiting == Visits("scan2") /\ ~First(todo).cancelled

\* PORT_WAIT_TIMEOUT, and CAPABILITY_MISMATCH for a quarantined port
WaitFails ==
  /\ Waiting
  /\ clock[Head] >= 1 \/ AcquireRefused(Head)
  /\ Move(Head, {"WAITING_FOR_PORTS"}, "FAILED")
  /\ Next1
  /\ UNCHANGED <<cancelled, owner, quarantined, marker, engine, task, sched, Others>>

PortsBusy ==
  /\ Waiting /\ clock[Head] = 0
  /\ AcquireBusy(Head)
  /\ Next1
  /\ UNCHANGED <<store, engine, task, sched, Others>>

AcquirePorts ==
  /\ Waiting /\ clock[Head] = 0
  /\ Acquire(Head)
  /\ Pass("acquired")
  /\ UNCHANGED <<state, cancelled, marker, engine, task, todo, Others>>

\* the transition to PREPARING, and the task of the execution
SpawnExecution ==
  /\ sched = "acquired"
  /\ Move(Head, {"WAITING_FOR_PORTS"}, "PREPARING")
  /\ Spawn(Head, TRUE)
  /\ Next1 /\ Pass("scan2")
  /\ UNCHANGED <<cancelled, owner, quarantined, marker, engine, Others>>

Tick == \/ TickStart \/ PassEnds \/ SlotsTaken \/ Skip \/ SpawnFinishCancel
        \/ JobTimeout \/ JobTimeoutRelease \/ ValidationStarts \/ ValidationEnds
        \/ WaitFails \/ PortsBusy \/ AcquirePorts \/ SpawnExecution
-----------------------------------------------------------------------------
(* The end of the process *)

\* What lived in memory is gone: tasks, lists, handles, undelivered cancels.
MemoryLost ==
  /\ FramesLost(Jobs)
  /\ lateMarker' = NoFlag
  /\ sched' = "idle" /\ todo' = {}
  /\ rpass' = "off" /\ rtodo' = {} /\ rjob' = None /\ rseen' = {}
  /\ pending' = [j \in Jobs |-> 0]
  /\ toStop' = {}
  /\ EngineDies({j \in Jobs : pc[j] = "prepare"}, {})

Crash ==
  /\ agent # "down" /\ restarts < MaxRestarts
  /\ agent' = "down"
  /\ restarts' = restarts + 1
  /\ MemoryLost
  /\ UNCHANGED <<store, cut, calls, clock>>

\* stop(): _stop is set once the server has answered its open requests
Shutdown ==
  /\ agent = "up" /\ restarts < MaxRestarts
  /\ \A j \in Jobs : pending[j] = 0
  /\ agent' = "stopping"
  /\ restarts' = restarts + 1
  /\ UNCHANGED <<store, engine, task, scheduler, recovery, clients, toStop, clock>>

\* the loop ends after its tick, and stop() cancels every task in one go
SchedulerExits ==
  /\ agent = "stopping" /\ sched = "idle"
  /\ Pass("exited")
  /\ toStop' = {j \in Jobs : Running(j)}
  /\ UNCHANGED <<store, engine, task, agent, todo, recovery, clients, clock, restarts>>

StopCancels(j) ==
  /\ j \in toStop
  /\ toStop' = toStop \ {j}
  /\ IF Running(j) THEN CancelTask(j, TRUE) ELSE UNCHANGED <<store, engine, task>>
  /\ UNCHANGED <<agent, scheduler, recovery, clients, clock, restarts>>

AgentStopped ==
  /\ sched = "exited" /\ toStop = {}
  /\ \A j \in Jobs : ~Running(j) /\ ~lateMarker[j]
  /\ agent' = "down"
  /\ MemoryLost
  /\ UNCHANGED <<store, cut, calls, clock, restarts>>

-----------------------------------------------------------------------------
(* start(): _recover, before the scheduler and the API *)

Recovering == UNCHANGED <<task, scheduler, clients, env>>

\* Jobs that were waiting stay as they are; those under way are gone through
Start ==
  /\ agent = "down"
  /\ agent' = "recovering"
  /\ rpass' = "jobs" /\ rjob' = None /\ rseen' = {}
  /\ rtodo' = {j \in Jobs : state[j] \in Executing}
  /\ UNCHANGED <<store, engine>> /\ Recovering

\* the next Job of the loop: no marker, or what reconcile says of it
RecoverJob ==
  /\ rpass = "jobs" /\ rtodo # {}
  /\ rjob' = Oldest(rtodo)
  /\ rtodo' = rtodo \ {rjob'}
  /\ \/ /\ ~marker[rjob']
        /\ rpass' = "fail_idle"
        /\ UNCHANGED <<engine, rseen>>
     \/ /\ marker[rjob']
        /\ rseen' = rseen \cup {rjob'}
        /\ \/ ReconcileConfirms(rjob') /\ rpass' = "unmark"
           \/ ReconcileFails(rjob') /\ rpass' = "fail_busy"
  /\ UNCHANGED <<store, agent>> /\ Recovering

\* the second loop: a marker that no interrupted Job accounts for
RecoverMarker ==
  /\ rpass = "markers"
  /\ \E j \in rtodo :
       /\ rjob' = j /\ rtodo' = rtodo \ {j}
       /\ \/ ReconcileConfirms(j) /\ rpass' = "unmark_left"
          \/ ReconcileFails(j) /\ UNCHANGED rpass
  /\ UNCHANGED <<store, agent, rseen>> /\ Recovering

\* delete_execution_marker, then confirm_ports_available
RecoverUnmark ==
  /\ \/ rpass = "unmark" /\ rpass' = "confirm"
     \/ rpass = "unmark_left" /\ rpass' = "confirm_left"
  /\ DeleteMarker(rjob)
  /\ UNCHANGED <<state, cancelled, owner, quarantined, engine, agent, rtodo, rjob, rseen>>
  /\ Recovering

RecoverConfirm ==
  /\ \/ rpass = "confirm" /\ rpass' = "fail_idle"
     \/ rpass = "confirm_left" /\ rpass' = "markers"
  /\ ConfirmAvailable(Needs[rjob])
  /\ UNCHANGED <<state, cancelled, marker, engine, agent, rtodo, rjob, rseen>> /\ Recovering

\* RECOVERY_ABORTED, and the lease is given back or the ports are quarantined
RecoverFail ==
  /\ \/ rpass = "fail_idle" /\ rpass' = "release_idle"
     \/ rpass = "fail_busy" /\ rpass' = "release_busy"
  /\ Move(rjob, Executing, "FAILED")
  /\ UNCHANGED <<cancelled, owner, quarantined, marker, engine, agent, rtodo, rjob, rseen>>
  /\ Recovering

RecoverRelease ==
  /\ rpass \in {"release_idle", "release_busy"}
  /\ Release(rjob, rpass = "release_busy")
  /\ rpass' = "jobs"
  /\ UNCHANGED <<state, cancelled, marker, engine, agent, rtodo, rjob, rseen>> /\ Recovering

\* a loop has come to its end
RecoverLoopEnds ==
  /\ rpass \in {"jobs", "markers"} /\ rtodo = {}
  /\ \/ /\ rpass = "jobs" /\ rpass' = "markers"
        /\ rtodo' = {j \in Jobs : marker[j]} \ rseen
        /\ UNCHANGED <<agent, rjob, rseen>>
     \/ /\ rpass = "markers" /\ rpass' = "off"
        /\ agent' = "up" /\ rjob' = None /\ rseen' = {}
        /\ UNCHANGED rtodo
  /\ UNCHANGED <<store, engine>> /\ Recovering

Recover == \/ Start \/ RecoverJob \/ RecoverMarker \/ RecoverUnmark \/ RecoverConfirm
           \/ RecoverFail \/ RecoverRelease \/ RecoverLoopEnds

Next == \/ \E j \in Jobs : \/ Submit(j) \/ RequestCancel(j) \/ DeliverCancel(j)
                           \/ TimePasses(j) \/ Deadline(j) \/ RunTask(j) \/ StopCancels(j)
        \/ Tick
        \/ Crash \/ Shutdown \/ SchedulerExits \/ AgentStopped
        \/ Recover

Spec == Init /\ [][Next]_vars

\* The event loop runs what is ready and worker threads finish; a run of the
\* engine has a finite duration; a process that died is started again.  Nothing
\* makes clients submit, or cancel, or the process die.
Progress ==
  /\ WF_vars(Tick) /\ WF_vars(Recover) /\ WF_vars(SchedulerExits) /\ WF_vars(AgentStopped)
  /\ \A j \in Jobs : WF_vars(RunTask(j)) /\ WF_vars(DeliverCancel(j)) /\ WF_vars(StopCancels(j))

\* The same where time limits may have to pass.
Fairness == Progress /\ \A j \in Jobs : WF_vars(TimePasses(j))

ProgressSpec == Spec /\ Progress
FairSpec == Spec /\ Fairness

-----------------------------------------------------------------------------
(* Properties *)

\* Write-ahead intent: while TRex ports may be in the hands of a Job, its
\* execution marker is on disk, so that a restart knows what to reconcile; but for
\* the trial a cancelled run may still start between the two commands of a cleanup
\* (jobs.py _execute: save_execution_marker before prepare, delete_execution_marker
\* after a cleanup that was confirmed).
MarkerCoversTraffic ==
  \A p \in Ports : \A j \in traffic[p] : marker[j] \/ runner[j] = "escaped"

\* Fail closed: a port a Job may still be active on is leased to that Job or
\* quarantined, unless the finally block of its execution was itself cancelled, or
\* a cancelled run started a trial in the middle of the cleanup.
FailClosedUnlessCut ==
  \A p \in Ports : \A j \in traffic[p] :
    owner[p] = j \/ quarantined[p] \/ cut[j] \/ runner[j] = "escaped"

\* The same without the exception (design.md: a port whose stop cannot be
\* confirmed must be QUARANTINED and not be allocated again).
FailClosed == \A p \in Ports : \A j \in traffic[p] : owner[p] = j \/ quarantined[p]

\* An execution that may still touch the engine has all its ports, from its
\* first step to the release in its finally block (_tick, _execute, and every
\* other caller of release_ports and confirm_ports_available).
LeaseCoversExecution ==
  \A j \in Jobs :
    executes[j] /\ pc[j] \notin {"none", "done", "dl_fail", "dl_release", "fx_release",
                                 "fin_unmark", "fin_release"}
      => \A p \in Needs[j] : owner[p] = j

\* p is leased to a terminal Job nobody works on, and no step will release it
Stranded(p) == /\ agent = "up"
               /\ owner[p] # None
               /\ state[owner[p]] \in Terminal
               /\ ~Running(owner[p])
               /\ ~(sched = "timeout" /\ Head = owner[p])

\* Only a cancelled finally block, or the end of the process, leaves a lease
\* behind with a terminal Job (release_ports at the end of every path).
LeaseReturnedUnlessCut == \A p \in Ports : Stranded(p) => cut[owner[p]] \/ restarts > 0

\* No more executions at a time than the policy allows, although the scheduler
\* also spawns cancellations and counts tasks that are done (_tick).
ExecutionsBounded ==
  Cardinality({j \in Jobs : executes[j] /\ Running(j)}) <= MaxConcurrent

\* A quarantined port comes back in a recovery only, and nobody is active on it
\* then (_recover, confirm_ports_available after a confirmed reconcile).
QuarantineLifted ==
  [][\A p \in Ports : quarantined[p] /\ ~quarantined'[p]
                        => agent = "recovering" /\ traffic[p] = {}]_vars

\* The steps of a Job's life the design allows.
Succeeds == [ACCEPTED |-> "VALIDATING", VALIDATING |-> "WAITING_FOR_PORTS",
             WAITING_FOR_PORTS |-> "PREPARING", PREPARING |-> "WARMING_UP",
             WARMING_UP |-> "RUNNING", RUNNING |-> "DRAINING", DRAINING |-> "COLLECTING",
             COLLECTING |-> "SUCCEEDED", ABSENT |-> "ACCEPTED"]

\* A Job walks along its life one state at a time; it leaves it for FAILED, or,
\* with a cancel intent only, for DRAINING, COLLECTING and CANCELLED; and it is
\* PREPARING only with all its ports (jobs.py, all callers of _transition).
LifeCycle ==
  [][\A j \in Jobs : state'[j] # state[j] =>
       /\ state[j] \notin Terminal
       /\ \/ state'[j] = Succeeds[state[j]]
          \/ state'[j] = "FAILED"
          \/ state'[j] \in {"DRAINING", "CANCELLED"} /\ cancelled[j]
       /\ state'[j] = "CANCELLED" => state[j] = "COLLECTING"
       /\ state'[j] = "PREPARING" => \A p \in Needs[j] : owner[p] = j]_vars

\* Whatever is cancelled, times out or dies, every Job ends.
EveryJobEnds == \A j \in Jobs : Live(j) ~> state[j] \in Terminal
=============================================================================
