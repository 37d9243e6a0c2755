--------------------------- MODULE RemoteSessions ---------------------------
(***************************************************************************)
(* The adapters to the remote TRex servers, RemoteTrexStlEngine and          *)
(* RemoteAstfEngine: the coroutines prepare, run, stop and cleanup of a Job, *)
(* the worker threads they wait for, and the commands these send one by one. *)
(* A coroutine that is cancelled, or that times out over ASTF, leaves its    *)
(* worker behind.  Any command may fail, before or after it took effect.     *)
(***************************************************************************)
EXTENDS TrafficRuns

CONSTANTS AdapterOf,   \* AdapterOf[j]: "stl" or "astf", the engine j is made for
          MaxRestarts  \* deaths of the Agent

ASSUME AdapterOfAssumption ==
  /\ AdapterOf \in [Jobs -> {"stl", "astf"}]
  /\ \A j \in Jobs : Workloads[j] \subseteq IF AdapterOf[j] = "stl" THEN StlKinds ELSE AstfKinds

VARIABLES mode,        \* engine.mode of this Agent
          agent,       \* "up", "down" or "recovering"
          task,        \* task[j]: the call the task of j awaits
          work,        \* work[j][c]: where the worker of call c is
          sessions,    \* _sessions: the Jobs whose handle is known
          stopped,     \* ASTF: the session was stopped
          controlLost, \* ASTF: control of the client session was lost
          stopOk,      \* _execute: the stop of its finally block returned
          runner,      \* runner[j]: what became of the worker of a cancelled run
          fate,        \* fate[j]: "open", "lost" or "closed"
          avail,       \* avail[j]: the ports of j were given back as available
          toReconcile, \* the Jobs the recovery still has to look at
          recon,       \* the Job reconcile is at and its next command
          restarts

session == <<sessions, stopped, controlLost>>
frame == <<task, work, stopOk, runner, fate, avail, measurement>>
life == <<mode, agent, toReconcile, recon, restarts>>
vars == <<server, workload, session, frame, life>>

\* the awaits of _execute in their order; the last two are those of its finally
\* block, stop and cleanup also those of _finish_cancel
Calls == {"prepare", "run", "stop", "cleanup", "fin_stop", "fin_cleanup"}
Stops == {"stop", "fin_stop"}
Cleanups == {"cleanup", "fin_cleanup"}
Over == {"ok", "failed"}

stl(j) == AdapterOf[j] = "stl"
astf(j) == AdapterOf[j] = "astf"

NoFlag == [j \in Jobs |-> FALSE]
NoWork == [j \in Jobs |-> [c \in Calls |-> "off"]]

Init == /\ ServerInit /\ RunsInit
        /\ mode \in {"stl", "astf"} /\ agent = "up"
        /\ task = [j \in Jobs |-> "new"] /\ work = NoWork
        /\ sessions = {} /\ stopped = NoFlag /\ controlLost = NoFlag
        /\ stopOk = NoFlag /\ avail = NoFlag
        /\ runner = [j \in Jobs |-> "none"] /\ fate = [j \in Jobs |-> "open"]
        /\ toReconcile = {} /\ recon = <<>> /\ restarts = 0

-----------------------------------------------------------------------------
(* The commands of a worker *)

\* The worker goes on to l; nobody waits for the result of an abandoned call.
\* An ASTF run is over for its first worker once the traffic has started.
To(j, c, l) ==
  work' = [work EXCEPT ![j][c] =
             IF task[j] # c /\ l \in Over \cup {"sleep"} THEN "off" ELSE l]

\* mutant: an error of the first command of a cleanup is forgotten
AfterFailureGoesOn(c, l) == CASE c = "prepare" /\ l # "acquire" -> "undo"
                              [] l = "remove"                   -> "release"
                              [] OTHER                          -> "failed"

\* what follows the failure of a command
AfterFailure(c, l) == CASE c = "prepare" /\ l # "acquire" -> "undo"
                        [] l = "remove"                   -> "release_failing"
                        [] l \in {"learn", "learning"}    -> "forget_failing"
                        [] OTHER                          -> "failed"

\* the command a call goes on to after l
AfterSuccess(j, c, l) ==
  CASE l = "acquire"                       -> IF stl(j) THEN "reset" ELSE "load"
    [] l = "reset" /\ c = "prepare"        -> AfterReset(j)
    [] c = "run" /\ stl(j)                 -> NextOfRun[l]
    [] l = "start" /\ astf(j)              -> "sleep"
    [] l = "halt" /\ c = "fin_stop" /\ stl(j) -> "reset"
    [] l = "remove"                        -> "release"
    [] OTHER                               -> "ok"

\* those whose run is awaited and has begun to count
Counting == {k \in Jobs : task[k] = "run" /\ work[k]["run"] \in {"wait", "sleep", "halt"}}

\* the worker reads the counters; nobody waits for the result of an abandoned run
Read(j) == IF task[j] = "run" THEN Reads(j) ELSE UNCHANGED measurement

\* the kind of a document matters while a prepare or a run of it goes on
Remembers(j) ==
  workload' = [workload EXCEPT ![j] =
    IF \E c \in {"prepare", "run"} : task'[j] = c \/ work'[j][c] # "off" THEN @ ELSE "none"]

\* what a command does to the counters of the runs under way
Measures(j, c, l) ==
  CASE l \in {"start", "push"} -> Counts(j, Counting \cup {k \in {j} : task[k] = "run"})
    [] l = "learn"             -> Teaches(j, Counting)
    [] c = "run" /\ l = "halt" -> Read(j)
    [] OTHER                   -> UNCHANGED measurement

Sent(j, l) == \/ l = "acquire" /\ Acquire(j)
              \/ l = "reset" /\ Reset(j, j)
              \/ l \in {"load", "teach"} /\ Load(j)
              \/ l \in {"start", "learn"} /\ StartTraffic(j)
              \/ l = "push" /\ PushRemote(j)
              \/ l = "halt" /\ StopTraffic(j, j)
              \/ l \in {"remove", "clear", "forget"} /\ Unload(j)
              \/ l = "release" /\ Release(j, j)

Commands == {"acquire", "reset", "load", "teach", "start", "learn", "push", "halt", "remove", "clear",
             "forget", "release"}

Command(j, c) ==
  LET l == work[j][c]
      Takes == Sent(j, l) /\ Measures(j, c, l)
  IN  /\ l \in Commands
      /\ \/ Takes /\ To(j, c, AfterSuccess(j, c, l))
         \/ /\ Takes \/ UNCHANGED <<server, measurement>>
            /\ To(j, c, AfterFailure(c, l))

\* _stop_sync of STL sends no stop when no port of its is active
NothingToHalt(j, c) == /\ work[j][c] = "halt" /\ stl(j) /\ Idle(j)
                       /\ To(j, c, AfterSuccess(j, c, "halt"))
                       /\ UNCHANGED <<server, measurement>>

\* wait_on_traffic: the learning frames were sent, or what is measured
Waits(j, c) ==
  /\ \/ /\ work[j][c] \in {"wait", "learning"}
        /\ To(j, c, AfterFailure(c, work[j][c]))
        /\ UNCHANGED measurement
     \/ /\ work[j][c] = "learning" /\ Owns(j, j) /\ Idle(j)
        /\ To(j, c, "forget")
        /\ UNCHANGED measurement
     \/ /\ work[j][c] = "wait" /\ Owns(j, j) /\ Idle(j)
        /\ \E l \in AfterWait(j) : To(j, c, l)
        /\ Read(j)
  /\ UNCHANGED server

\* the duration of an ASTF run is over; its second worker stops the traffic
Wakes(j, c) == /\ work[j][c] = "sleep"
               /\ To(j, c, "halt")
               /\ UNCHANGED <<server, measurement>>

\* a release that is tried after an error, and the learning streams that are taken
\* away after one: the call has failed, whatever becomes of it
Rollback(j, c) ==
  /\ \/ work[j][c] \in {"undo", "release_failing"} /\ (Release(j, j) \/ UNCHANGED server)
     \/ work[j][c] = "forget_failing" /\ (Unload(j) \/ UNCHANGED server)
  /\ To(j, c, "failed")
  /\ UNCHANGED measurement

Work(j, c) == /\ \/ Command(j, c) \/ NothingToHalt(j, c) \/ Waits(j, c) \/ Wakes(j, c) \/ Rollback(j, c)
              /\ UNCHANGED <<session, task, stopOk, runner, fate, avail, life>>
              /\ Remembers(j)

-----------------------------------------------------------------------------
(* The coroutines *)

\* the first command of a call, by what the adapter remembers of the session
FirstCommand(j, c, known, halted, lost) ==
  CASE c = "prepare"                      -> "acquire"
    [] c = "run"                          -> IF stl(j) THEN FirstOfRun(j) ELSE "start"
    [] c \in Stops /\ stl(j)              -> IF known THEN "halt" ELSE "ok"
    [] c \in Stops /\ astf(j)             -> IF ~known THEN "failed"
                                             ELSE IF halted THEN "ok" ELSE "halt"
    [] c \in Cleanups                     -> IF ~known THEN "ok"
                                             ELSE IF lost THEN "failed" ELSE "remove"

\* the task leaves the call it awaits and makes the next one
Call(j, c) ==
  /\ task' = [task EXCEPT ![j] = c]
  /\ work' = [work EXCEPT ![j] =
       [d \in Calls |->
          IF d = c THEN FirstCommand(j, c, j \in sessions', stopped'[j], controlLost'[j])
          ELSE IF d = task[j] /\ work[j][d] \in Over \cup {"sleep"} THEN "off"
          ELSE work[j][d]]]
  /\ Dropped(j)

\* the task ends; its ports are available only if all is confirmed
Leave(j, confirmed) ==
  /\ task' = [task EXCEPT ![j] = "left"]
  /\ avail' = [avail EXCEPT ![j] = confirmed]
  /\ work' = [work EXCEPT ![j] = [d \in Calls |->
       IF work[j][d] \in Over \cup {"sleep"} THEN "off" ELSE work[j][d]]]
  /\ Dropped(j)

\* a Job gets its ports when those before it have left them for good
Begin(j) ==
  /\ agent = "up" /\ mode = AdapterOf[j] /\ task[j] = "new"
  /\ \A k \in Jobs : k < j /\ AdapterOf[k] = mode => avail[k]
  /\ UNCHANGED session
  /\ \E kind \in Workloads[j] : workload' = [workload EXCEPT ![j] = kind]
  /\ Call(j, "prepare")
  /\ UNCHANGED <<server, stopOk, runner, fate, avail, life>>

Returns(j, c) == task[j] = c /\ work[j][c] = "ok"
Raises(j, c) == task[j] = c /\ work[j][c] = "failed"
Pending(j, c) == task[j] = c /\ work[j][c] \notin Over

\* then warmup; an error or a cancel may follow any return
Prepare(j) ==
  \/ /\ Returns(j, "prepare")
     /\ sessions' = sessions \cup {j} /\ UNCHANGED <<stopped, controlLost>>
     /\ \E c \in {"run", "stop", "fin_stop"} : Call(j, c)
     /\ UNCHANGED <<server, stopOk, runner, fate, avail, life>>
  \/ /\ Raises(j, "prepare")
     /\ fate' = [fate EXCEPT ![j] = "closed"]
     /\ Leave(j, TRUE)
     /\ UNCHANGED <<server, session, stopOk, runner, life>>

\* an ASTF run that comes to its end has stopped the session
Run(j) ==
  \/ /\ Returns(j, "run")
     /\ stopped' = [stopped EXCEPT ![j] = astf(j)] /\ UNCHANGED <<sessions, controlLost>>
     /\ \E c \in {"stop", "fin_stop"} : Call(j, c)
     /\ UNCHANGED <<server, stopOk, runner, fate, avail, life>>
  \/ /\ Raises(j, "run")
     /\ UNCHANGED session
     /\ Call(j, "fin_stop")
     /\ UNCHANGED <<server, stopOk, runner, fate, avail, life>>

\* mutant: the wait has no time limit
WaitsForever(j, c) == FALSE

\* asyncio.wait_for around the worker of an ASTF stop or cleanup runs out
TimesOut(j, c) == astf(j) /\ Pending(j, c)

LosesControl(j) == controlLost' = [controlLost EXCEPT ![j] = TRUE]

Stop(j) ==
  \/ /\ Returns(j, "stop")
     /\ stopped' = [stopped EXCEPT ![j] = astf(j)] /\ UNCHANGED <<sessions, controlLost>>
     /\ \E c \in {"cleanup", "fin_stop"} : Call(j, c)
     /\ UNCHANGED <<server, stopOk, runner, fate, avail, life>>
  \/ /\ \/ Raises(j, "stop") /\ UNCHANGED session
        \/ TimesOut(j, "stop") /\ LosesControl(j) /\ UNCHANGED <<sessions, stopped>>
     /\ Call(j, "fin_stop")
     /\ UNCHANGED <<server, stopOk, runner, fate, avail, life>>

\* ASTF forgets the handle in any case, STL only after success
Forgets(j) == sessions' = sessions \ {j}
ForgetsAnyway(j) == IF astf(j) THEN Forgets(j) ELSE UNCHANGED sessions

\* the server sends the streams of j
Transmits(j) == \E p \in Needs[j] : sends[p] = j

\* the ports were released; a lost run may have started a trial before that
Closes(j) ==
  /\ fate' = [fate EXCEPT ![j] = "closed"]
  /\ runner' = [runner EXCEPT ![j] = IF Transmits(j) THEN "escaped" ELSE @]

Cleanup(j) ==
  \/ /\ Returns(j, "cleanup")
     /\ Closes(j)
     /\ Forgets(j) /\ UNCHANGED <<stopped, controlLost>>
     /\ \/ Leave(j, TRUE)
        \/ Call(j, "fin_stop") /\ UNCHANGED avail
     /\ UNCHANGED <<server, stopOk, life>>
  \/ /\ \/ Raises(j, "cleanup") /\ UNCHANGED controlLost
        \/ TimesOut(j, "cleanup") /\ LosesControl(j)
     /\ ForgetsAnyway(j) /\ UNCHANGED stopped
     /\ Call(j, "fin_stop")
     /\ UNCHANGED <<server, stopOk, runner, fate, avail, life>>

\* the finally block
FinStop(j) ==
  /\ \/ Returns(j, "fin_stop") /\ stopOk' = [stopOk EXCEPT ![j] = TRUE]
        /\ stopped' = [stopped EXCEPT ![j] = astf(j)] /\ UNCHANGED controlLost
     \/ Raises(j, "fin_stop") /\ UNCHANGED <<stopOk, stopped, controlLost>>
     \/ TimesOut(j, "fin_stop") /\ LosesControl(j) /\ UNCHANGED <<stopOk, stopped>>
  /\ UNCHANGED sessions
  /\ Call(j, "fin_cleanup")
  /\ UNCHANGED <<server, runner, fate, avail, life>>

FinCleanup(j) ==
  \/ /\ Returns(j, "fin_cleanup")
     /\ IF j \in sessions THEN Closes(j) ELSE UNCHANGED <<fate, runner>>
     /\ Forgets(j) /\ UNCHANGED <<stopped, controlLost>>
     /\ Leave(j, stopOk[j])
     /\ UNCHANGED <<server, stopOk, life>>
  \/ /\ \/ Raises(j, "fin_cleanup") /\ UNCHANGED controlLost
        \/ TimesOut(j, "fin_cleanup") /\ LosesControl(j)
     /\ ForgetsAnyway(j) /\ UNCHANGED stopped
     /\ Leave(j, FALSE)
     /\ UNCHANGED <<server, stopOk, runner, fate, life>>

\* The task is cancelled while a worker works, or before it has seen the worker end:
\* prepare is lost, the other calls lead to the finally block, and that block,
\* cancelled itself, confirms nothing.
Cancel(j) ==
  /\ task[j] \in Calls
  /\ \/ /\ task[j] = "prepare"
        /\ fate' = [fate EXCEPT ![j] = "lost"]
        /\ Leave(j, FALSE)
        /\ UNCHANGED <<session, runner>>
     \/ /\ task[j] = "run"
        /\ runner' = [runner EXCEPT ![j] = IF stl(j) /\ Pending(j, "run") THEN "lost"
                                                ELSE @]
        /\ UNCHANGED session
        /\ Call(j, "fin_stop")
        /\ UNCHANGED <<fate, avail>>
     \/ /\ task[j] \in Stops \cup Cleanups
        /\ IF task[j] \in Cleanups THEN ForgetsAnyway(j) ELSE UNCHANGED sessions
        /\ UNCHANGED <<stopped, controlLost, runner, fate>>
        /\ IF task[j] \in {"stop", "cleanup"} THEN Call(j, "fin_stop") /\ UNCHANGED avail
                                             ELSE Leave(j, FALSE)
  /\ Remembers(j)
  /\ UNCHANGED <<server, stopOk, life>>

Step(j) == /\ Prepare(j) \/ Run(j) \/ Stop(j) \/ Cleanup(j) \/ FinStop(j) \/ FinCleanup(j)
           /\ Remembers(j)

-----------------------------------------------------------------------------
(* The death of the Agent, and reconcile at the next start *)

Begun == {j \in Jobs : task[j] # "new"}

Crash ==
  /\ agent # "down" /\ restarts < MaxRestarts
  /\ agent' = "down" /\ restarts' = restarts + 1
  /\ sessions' = {} /\ stopped' = NoFlag /\ controlLost' = NoFlag
  /\ work' = NoWork /\ stopOk' = NoFlag
  /\ task' = [j \in Jobs |-> IF j \in Begun THEN "left" ELSE task[j]]
  /\ fate' = [j \in Jobs |-> IF j \in Begun /\ fate[j] = "open" THEN "lost" ELSE fate[j]]
  /\ runner' = [j \in Jobs |-> IF runner[j] = "lost" THEN "none" ELSE runner[j]]
  /\ toReconcile' = {} /\ recon' = <<>>
  /\ workload' = [j \in Jobs |-> "none"]
  /\ base' = [j \in Jobs |-> "zero"] /\ measured' = [j \in Jobs |-> NotMeasured]
  /\ UNCHANGED <<server, avail, mode>>

\* the markers are those of the Jobs whose ports nobody could give back
Start == /\ agent = "down"
         /\ agent' = "recovering"
         /\ toReconcile' = {j \in Begun : ~avail[j]}
         /\ UNCHANGED <<server, workload, session, frame, mode, recon, restarts>>

Recovered == /\ agent = "recovering" /\ toReconcile = {} /\ recon = <<>>
             /\ agent' = "up"
             /\ UNCHANGED <<server, workload, session, frame, mode, toReconcile, recon, restarts>>

\* ASTF cannot prove anything after the loss of its session
Reconciles(j) == /\ agent = "recovering" /\ recon = <<>> /\ j \in toReconcile
                 /\ toReconcile' = toReconcile \ {j}
                 /\ recon' = IF stl(j) THEN <<j, "acquire">> ELSE <<>>
                 /\ UNCHANGED <<server, workload, session, frame, mode, agent, restarts>>

ReconcileNext(j, l) == CASE l = "acquire" -> "halt" [] l = "halt" -> "reset"
                         [] OTHER -> "release"

\* a client of the same owner name takes the ports back, by force if need be
ReconcileCommand(j, l) ==
  /\ recon = <<j, l>>
  /\ \/ l = "acquire" /\ Reclaim(j)
     \/ l = "halt" /\ (StopTraffic(Reconciler, j) \/ UNCHANGED server)
     \/ l = "reset" /\ Reset(Reconciler, j)
  /\ recon' = <<j, ReconcileNext(j, l)>>
  /\ UNCHANGED <<workload, session, frame, mode, agent, toReconcile, restarts>>

ReconcileConfirms(j) ==
  /\ recon = <<j, "release">> /\ Idle(j)
  /\ Release(Reconciler, j)
  /\ recon' = <<>>
  /\ fate' = [fate EXCEPT ![j] = "closed"] /\ avail' = [avail EXCEPT ![j] = TRUE]
  /\ UNCHANGED <<session, task, work, stopOk, runner, measurement, mode, agent, toReconcile, restarts,
                 workload>>

\* a foreign owner, an error, traffic that goes on
ReconcileFails(j) ==
  /\ recon # <<>> /\ recon[1] = j
  /\ Release(Reconciler, j) \/ UNCHANGED server
  /\ recon' = <<>>
  /\ UNCHANGED <<workload, session, frame, mode, agent, toReconcile, restarts>>

Reconcile(j) == \/ Reconciles(j) \/ ReconcileConfirms(j) \/ ReconcileFails(j)
                \/ \E l \in {"acquire", "halt", "reset"} : ReconcileCommand(j, l)

Ends == \E p \in Ports : TrafficEnds(p) /\ UNCHANGED <<session, workload, frame, life>>

Next == \/ \E j \in Jobs : Begin(j) \/ Step(j) \/ Cancel(j) \/ Reconcile(j) \/ \E c \in Calls : Work(j, c)
        \/ Crash \/ Start \/ Recovered \/ Ends

\* A worker over STL answers in the end, for its client has a time limit; one
\* over ASTF may hang, and only its coroutine goes on.
Spec == /\ Init /\ [][Next]_vars
        /\ \A j \in Jobs : /\ WF_vars(Step(j))
                           /\ stl(j) => \A c \in Calls : WF_vars(Work(j, c))
-----------------------------------------------------------------------------
(* What the Job engine takes it for *)

StageOf(j) == CASE fate[j] # "open" -> fate[j]
                [] task[j] \in {"new", "prepare"} -> "new"
                [] OTHER -> "prepared"

\* A port is in the hands of a Job that transmits on it, that owns it after its
\* prepare has returned or was lost, or whose lost prepare may yet acquire it.
InHands(j, p) ==
  \/ sends[p] = j
  \/ holder[p] = j /\ StageOf(j) \in {"prepared", "lost"}
  \/ p \in Needs[j] /\ work[j]["prepare"] # "off" /\ StageOf(j) = "lost"

Kind(kind) == {j \in Jobs : AdapterOf[j] = kind}
TrafficOf(kind) == [p \in Ports |-> {j \in Kind(kind) : InHands(j, p)}]
Of(kind, f) == [j \in Kind(kind) |-> f[j]]

Stl == INSTANCE EnginePromise WITH
         Adapter <- "stl", Jobs <- Kind("stl"), Needs <- Of("stl", Needs),
         traffic <- TrafficOf("stl"), sessions <- sessions \cap Kind("stl"),
         runner <- Of("stl", runner), stage <- [j \in Kind("stl") |-> StageOf(j)]

Astf == INSTANCE EnginePromise WITH
          Adapter <- "astf", Jobs <- Kind("astf"), Needs <- Of("astf", Needs),
          traffic <- TrafficOf("astf"), sessions <- sessions \cap Kind("astf"),
          runner <- Of("astf", runner), stage <- [j \in Kind("astf") |-> StageOf(j)]

\* Both adapters keep what the Job engine relies on: a cleanup that returns has
\* left the ports, but for the trial a lost run started in the middle of it; a
\* prepare that was cancelled may have them; reconcile confirms only ports that
\* are idle (prepare, run, stop, cleanup and reconcile of both adapters).
KeepsPromise == Stl!Spec /\ Astf!Spec

\* A run that calls its counters valid, or passes a verdict on them, has counted
\* the frames of its own Job only: also when a lost run of the Job before it has
\* left its traffic on the port (prepare of RemoteTrexStlEngine, _observe_trial,
\* _run_pcap_replay_sync and the other runs).
MeasuresItsOwn == \A j \in Jobs : measured[j].valid \/ measured[j].verdict \in {"PASS", "FAIL"}
                                => base[j] = "zero"

\* A call of stop or cleanup comes back, although a worker over ASTF may hang (the
\* wait_for of RemoteAstfEngine.stop and cleanup, the time limit of an STL client):
\* the task is never for good in one of them.
CallsReturn == \A j \in Jobs : []<>(task[j] \notin Stops \cup Cleanups)
=============================================================================
