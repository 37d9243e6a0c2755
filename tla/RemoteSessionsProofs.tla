------------------------ MODULE RemoteSessionsProofs ------------------------
(***************************************************************************)
(* For any Jobs, ports and kinds of documents, and any number of deaths of   *)
(* the Agent: both adapters keep what the Job engine takes them for          *)
(* (EnginePromise), and what a run calls valid was counted from zero.        *)
(***************************************************************************)
EXTENDS RemoteSessions, TLAPS

\* where the worker of a call can be
LabelsOf(j, c) == {"off"} \cup Over \cup
  CASE c = "prepare"  -> {"acquire", "reset", "load", "undo"}
    [] c = "run"      -> IF stl(j) THEN {"clear", "teach", "learn", "learning", "forget", "forget_failing",
                                         "load", "push", "start", "wait"}
                                   ELSE {"start", "sleep", "halt"}
    [] c \in Stops    -> {"halt", "reset"}
    [] c \in Cleanups -> {"remove", "release", "release_failing"}

Server == /\ holder \in [Ports -> Jobs \cup {None, Reconciler}]
          /\ loaded \in [Ports -> BOOLEAN]
          /\ sends \in [Ports -> Jobs \cup {None}]

Workers == /\ task \in [Jobs -> Calls \cup {"new", "left"}]
           /\ work = [j \in Jobs |-> [c \in Calls |-> work[j][c]]]
           /\ \A j \in Jobs, c \in Calls : work[j][c] \in LabelsOf(j, c)
           /\ base = [j \in Jobs |-> base[j]] /\ measured = [j \in Jobs |-> measured[j]]

Handles == /\ sessions \subseteq Jobs /\ toReconcile \subseteq Jobs
           /\ runner \in [Jobs -> {"none", "lost", "escaped"}]
           /\ fate \in [Jobs -> {"open", "lost", "closed"}]
           /\ mode \in {"stl", "astf"}

Tasks == Workers /\ Handles

\* no port of any Job is owned by j
Gone(j) == \A p \in Ports : holder[p] # j

Off(j, calls) == \A c \in calls : work[j][c] = "off"

\* Ports are acquired and released together, and by Jobs that name them.
HoldsAll(j) == \A p \in Ports : holder[p] = j => p \in Needs[j] /\ Owns(j, j)

\* What is sent belongs to a Job that has its ports, or had them when a worker it has
\* lost started another trial.
SendsAccounted(j) ==
  \A p \in Ports :
    sends[p] = j => p \in Needs[j] /\ (StageOf(j) \in {"prepared", "lost"} \/ runner[j] = "escaped")

\* The adapters of the other mode are not called.
OneMode(j) == task[j] # "new" => AdapterOf[j] = mode

\* A Job has its calls one after the other, prepare before all others.
Alone(j) ==
  /\ task[j] = "new" => Off(j, Calls)
  /\ task[j] \in Calls => work[j][task[j]] # "off"
  /\ task[j] = "prepare" \/ work[j]["prepare"] # "off" => Off(j, Calls \ {"prepare"})
  /\ task[j] = "run" => Off(j, Calls \ {"run"})
  /\ work[j]["prepare"] # "off" => \/ task[j] = "prepare" /\ fate[j] = "open"
                                   \/ task[j] = "left" /\ fate[j] = "lost"

\* What became of a Job, by where its task is.
Fates(j) ==
  /\ task[j] \in {"new", "prepare", "run", "stop", "cleanup"} => fate[j] = "open"
  /\ fate[j] = "lost" => task[j] = "left" /\ Off(j, Calls \ {"prepare"})
  /\ fate[j] = "closed" => Gone(j) \/ Off(j, Calls)
  /\ runner[j] = "escaped" => fate[j] = "closed"

\* A handle is known from the return of a prepare to a cleanup.
Known(j) ==
  /\ j \in sessions => fate[j] = "open" /\ task[j] \notin {"new", "prepare"}
  /\ task[j] \in {"run", "stop", "cleanup"} => j \in sessions
  /\ \A c \in Cleanups : task[j] = c /\ work[j][c] # "ok" => j \in sessions

\* A worker that goes on although its run was cancelled is known to be lost.
RunLost(j) ==
  stl(j) /\ work[j]["run"] # "off" /\ task[j] # "run" => runner[j] \in {"lost", "escaped"}

\* From acquire to the return of prepare the ports are owned, and nothing is sent until
\* its worker has ended.
PrepareHolds(j) ==
  /\ work[j]["prepare"] # "off" => \A p \in Ports : sends[p] # j
  /\ work[j]["prepare"] \in {"reset", "load", "ok"} => Owns(j, j)
  /\ work[j]["prepare"] = "ok" => Idle(j)

\* A cleanup that comes to release has left nothing running, but for a lost run.
CleanupClears(j) ==
  \A c \in Cleanups :
    task[j] = c =>
      /\ work[j][c] = "release" => /\ Transmits(j) => runner[j] = "lost"
                                   /\ astf(j) /\ Owns(j, j) => \A p \in Needs[j] : ~loaded[p]
      /\ work[j][c] = "ok" /\ j \in sessions => Gone(j) /\ (Transmits(j) => runner[j] = "lost")

\* A run owns its ports, and starts when nothing is sent on them.
RunHolds(j) == task[j] = "run" => /\ Owns(j, j)
                                  /\ work[j]["run"] = "start" => Idle(j)

\* Counters that do not begin at zero are nobody's measurement.
CountsFromZero(j) == base[j] = "zero" \/ (task[j] # "run" /\ measured[j] = NotMeasured)

JobInv(j) ==
  /\ HoldsAll(j) /\ SendsAccounted(j)
  /\ OneMode(j) /\ Alone(j) /\ Fates(j) /\ Known(j) /\ RunLost(j)
  /\ PrepareHolds(j) /\ CleanupClears(j) /\ RunHolds(j) /\ CountsFromZero(j)

\* Nothing is under way when a process dies or recovers.
Recovery ==
  /\ agent # "up" => /\ work = NoWork /\ sessions = {}
                     /\ \A j \in Jobs : \/ task[j] = "new"
                                        \/ task[j] = "left" /\ fate[j] # "open"
  /\ toReconcile # {} \/ recon # <<>> => agent = "recovering"
  /\ \A j \in toReconcile : task[j] = "left"
  /\ \A j \in Jobs : recon # <<>> /\ recon[1] = j => task[j] = "left" /\ stl(j)

IInv == Server /\ Tasks /\ Recovery /\ \A j \in Jobs : JobInv(j)

-----------------------------------------------------------------------------
(* What a worker does *)

\* what the label a worker goes on to says of the command it has sent
Enters(j, c, l) ==
  /\ l = "off" => task[j] # c
  /\ c = "prepare" => /\ l = "reset" => Acquire(j)
                      /\ l = "load"  => Acquire(j) \/ Reset(j, j)
                      /\ l = "ok"    => Reset(j, j) \/ Load(j)
  /\ c = "run" => /\ l = "start" => Load(j)
  /\ c \in Cleanups => /\ l = "release" => Unload(j)
                       /\ l = "ok"      => work[j][c] = "release" /\ Release(j, j)

\* which commands the worker of a call sends
Effect(j, c) ==
  \/ UNCHANGED server
  \/ c = "prepare" /\ (Acquire(j) \/ Load(j))
  \/ c \in {"prepare"} \cup Cleanups /\ Release(j, j)
  \/ c = "run" /\ stl(j) /\ Load(j)
  \/ c = "run" /\ StartTraffic(j)
  \/ c = "run" /\ stl(j) /\ PushRemote(j)
  \/ Reset(j, j) \/ StopTraffic(j, j) \/ Unload(j)

Moves(j, c, l) == /\ l \in LabelsOf(j, c)
                  /\ work' = [work EXCEPT ![j][c] = l]
                  /\ Enters(j, c, l)

\* The next label of a worker.
LEMMA Goes == ASSUME Tasks, NEW j \in Jobs, NEW c \in Calls, NEW l \in LabelsOf(j, c), l # "off",
                     To(j, c, l)
              PROVE  \E m \in LabelsOf(j, c) : /\ work' = [work EXCEPT ![j][c] = m]
                                               /\ m = "off" => task[j] # c
                                               /\ m = "off" \/ m = l
<1>1. "off" \in LabelsOf(j, c)
  BY DEF LabelsOf
<1>2. CASE task[j] # c /\ l \in Over \cup {"sleep"}
  BY <1>1, <1>2 DEF To
<1>3. CASE ~(task[j] # c /\ l \in Over \cup {"sleep"})
  BY <1>3 DEF To
<1>4. QED  BY <1>2, <1>3

\* A command, by the call it belongs to.
LEMMA CommandMoves == ASSUME Tasks, NEW j \in Jobs, NEW c \in Calls, Command(j, c)
                      PROVE  Effect(j, c) /\ \E l \in LabelsOf(j, c) : Moves(j, c, l)
<1> DEFINE l == work[j][c]
<1>1. l \in LabelsOf(j, c) /\ l \in Commands
  BY DEF Command, Tasks, Workers
<1>2. Effect(j, c)
  BY <1>1 DEF Command, Sent, Effect, LabelsOf, Commands, Calls, Stops, Cleanups, Over
<1>3. ASSUME Sent(j, l), To(j, c, AfterSuccess(j, c, l))
      PROVE  \E m \in LabelsOf(j, c) : Moves(j, c, m)
  <2>1. AfterSuccess(j, c, l) \in LabelsOf(j, c) /\ AfterSuccess(j, c, l) # "off"
    BY <1>1, AdapterOfAssumption
       DEF AfterSuccess, AfterReset, NextOfRun, LabelsOf, Commands, Calls, Stops, Cleanups, Over, stl, astf
  <2>2. PICK m \in LabelsOf(j, c) : /\ work' = [work EXCEPT ![j][c] = m]
                                    /\ m = "off" => task[j] # c
                                    /\ m = "off" \/ m = AfterSuccess(j, c, l)
    BY <1>3, <2>1, Goes
  <2>3. Enters(j, c, m)
    BY <1>1, <1>3, <2>2 DEF Enters, Sent, AfterSuccess, AfterReset, NextOfRun, LabelsOf, Commands, Calls,
       Stops, Cleanups, Over, stl
  <2>4. QED  BY <2>2, <2>3 DEF Moves
<1>4. ASSUME To(j, c, AfterFailure(c, l))
      PROVE  \E m \in LabelsOf(j, c) : Moves(j, c, m)
  <2>1. AfterFailure(c, l) \in LabelsOf(j, c) \cap {"failed", "undo", "release_failing", "forget_failing"}
    BY <1>1 DEF AfterFailure, LabelsOf, Commands, Calls, Stops, Cleanups, Over, stl
  <2>2. PICK m \in LabelsOf(j, c) : /\ work' = [work EXCEPT ![j][c] = m]
                                    /\ m = "off" => task[j] # c
                                    /\ m = "off" \/ m = AfterFailure(c, l)
    BY <1>4, <2>1, Goes
  <2>3. Enters(j, c, m)
    BY <2>1, <2>2 DEF Enters
  <2>4. QED  BY <2>2, <2>3 DEF Moves
<1>5. QED  BY <1>2, <1>3, <1>4 DEF Command

\* Whatever a worker does.
LEMMA WorkMoves == ASSUME Tasks, NEW j \in Jobs, NEW c \in Calls, Work(j, c)
                   PROVE  /\ work[j][c] \notin {"off"} \cup Over
                          /\ Effect(j, c)
                          /\ \E l \in LabelsOf(j, c) : Moves(j, c, l)
<1> DEFINE l == work[j][c]
<1>1. l \in LabelsOf(j, c)
  BY DEF Tasks, Workers
<1>2. CASE Command(j, c)
  BY <1>2, CommandMoves DEF Command, Commands, Over
<1>3. ASSUME NEW m \in LabelsOf(j, c) \ {"off"}, To(j, c, m),
             ~(c = "prepare" /\ m \in {"reset", "load", "ok"}), ~(c = "run" /\ m = "start"),
             ~(c \in Cleanups /\ m \in {"release", "ok"})
      PROVE  \E n \in LabelsOf(j, c) : Moves(j, c, n)
  BY <1>3, Goes DEF Moves, Enters
<1>4. CASE NothingToHalt(j, c)
  <2>1. AfterSuccess(j, c, "halt") \in {"reset", "ok"} /\ c \in Stops
    BY <1>1, <1>4 DEF NothingToHalt, AfterSuccess, NextOfRun, LabelsOf, Calls, Stops, Cleanups, Over, stl, astf
  <2>2. QED  BY <1>1, <1>3, <1>4, <2>1 DEF NothingToHalt, Effect, LabelsOf, Stops, Cleanups, Over
<1>5. CASE Waits(j, c)
  <2>1. c = "run" /\ stl(j)
    BY <1>1, <1>5 DEF Waits, LabelsOf, Calls, Stops, Cleanups, Over
  <2>2. \E m \in {"failed", "forget_failing", "forget", "ok", "clear"} : To(j, c, m)
    BY <1>5, <2>1 DEF Waits, AfterWait, AfterFailure
  <2>3. QED  BY <1>3, <1>5, <2>1, <2>2 DEF Waits, Effect, LabelsOf, Stops, Cleanups, Over
<1>6. CASE Wakes(j, c)
  <2>1. c = "run" /\ ~stl(j)
    BY <1>1, <1>6 DEF Wakes, LabelsOf, Calls, Stops, Cleanups, Over
  <2>2. QED  BY <1>3, <1>6, <2>1 DEF Wakes, Effect, LabelsOf, Stops, Cleanups, Over
<1>7. CASE Rollback(j, c)
  <2>1. c \in {"prepare", "run"} \cup Cleanups /\ (l = "forget_failing" <=> c = "run")
    BY <1>1, <1>7 DEF Rollback, LabelsOf, Calls, Stops, Cleanups, Over
  <2>2. Effect(j, c)
    BY <1>7, <2>1 DEF Rollback, Effect, Cleanups
  <2>3. QED  BY <1>3, <1>7, <2>1, <2>2 DEF Rollback, LabelsOf, Stops, Cleanups, Over
<1>8. QED  BY <1>2, <1>4, <1>5, <1>6, <1>7
           DEF Work, NothingToHalt, Waits, Wakes, Rollback, Over

\* What a command changes on the ports of others.
LEMMA OthersKept ==
  ASSUME Server, NEW j \in Jobs, NEW c \in Calls, Effect(j, c), NEW k \in Jobs, k # j
  PROVE  /\ \A p \in Ports : holder'[p] = k <=> holder[p] = k
         /\ \A p \in Ports : sends'[p] = k => sends[p] = k
         /\ \A p \in Ports : holder[p] = k => loaded'[p] = loaded[p] /\ sends'[p] = sends[p]
<1>1. CASE UNCHANGED server
  BY <1>1 DEF server
<1>2. CASE Acquire(j)
  BY <1>2, NoneAssumption DEF Server, Acquire, Put
<1>3. CASE Release(j, j)
  BY <1>3, NoneAssumption DEF Server, Release, Put, Owns
<1>4. ASSUME Owns(j, j), NEW p \in Ports, holder[p] = k PROVE  p \notin Needs[j]
  BY <1>4 DEF Owns
<1>5. CASE Load(j) \/ Unload(j)
  BY <1>4, <1>5 DEF Server, Load, Unload, Put
<1>6. CASE StartTraffic(j) \/ PushRemote(j)
  BY <1>4, <1>6 DEF Server, StartTraffic, PushRemote, Put
<1>7. CASE Reset(j, j) \/ StopTraffic(j, j)
  BY <1>4, <1>7, NoneAssumption DEF Server, Reset, StopTraffic, Put
<1>8. QED  BY <1>1, <1>2, <1>3, <1>5, <1>6, <1>7 DEF Effect

-----------------------------------------------------------------------------
(* What a coroutine does *)

\* The task of j goes from one call to the next.
LEMMA CallFacts ==
  ASSUME Tasks, NEW j \in Jobs, NEW c \in Calls, Call(j, c)
  PROVE  /\ task'[j] = c
         /\ Workers'
         /\ \A k \in Jobs \ {j} : /\ task'[k] = task[k] /\ work'[k] = work[k]
                                  /\ base'[k] = base[k] /\ measured'[k] = measured[k]
         /\ \A d \in Calls \ {c} : work'[j][d] \in {work[j][d], "off"}
         /\ task[j] \in Calls \ {c} /\ work[j][task[j]] \in Over \cup {"sleep"} => work'[j][task[j]] = "off"
         /\ work'[j][c] # "off"
         /\ c = "prepare" => work'[j][c] = "acquire"
         /\ c \in Cleanups => IF j \in sessions' THEN work'[j][c] \in {"failed", "remove"}
                                                 ELSE work'[j][c] = "ok"
         /\ base'[j] = "zero" /\ measured'[j] = NotMeasured
<1> DEFINE first == FirstCommand(j, c, j \in sessions', stopped'[j], controlLost'[j])
<1>1. /\ first \in LabelsOf(j, c) \ {"off"}
      /\ c = "prepare" => first = "acquire"
      /\ c \in Cleanups => IF j \in sessions' THEN first \in {"failed", "remove"} ELSE first = "ok"
  BY AdapterOfAssumption
     DEF FirstCommand, FirstOfRun, LabelsOf, Calls, Stops, Cleanups, Over, stl, astf
<1>2. /\ work' = [work EXCEPT ![j] = [d \in Calls |-> work'[j][d]]]
      /\ work'[j][c] = first
      /\ \A d \in Calls \ {c} : work'[j][d] \in {work[j][d], "off"}
      /\ task[j] \in Calls \ {c} /\ work[j][task[j]] \in Over \cup {"sleep"} => work'[j][task[j]] = "off"
  BY DEF Call, Tasks, Workers
<1>3. \A d \in Calls : "off" \in LabelsOf(j, d)
  BY DEF LabelsOf
<1>4. \A d \in Calls : work'[j][d] \in LabelsOf(j, d)
  BY <1>1, <1>2, <1>3 DEF Tasks, Workers
<1>5. \A k \in Jobs \ {j} : work'[k] = work[k]
  BY <1>2 DEF Tasks, Workers
<1>6. work' = [k \in Jobs |-> [d \in Calls |-> work'[k][d]]]
  BY <1>2, <1>5 DEF Tasks, Workers
<1>7. \A k \in Jobs, d \in Calls : work'[k][d] \in LabelsOf(k, d)
  BY <1>4, <1>5 DEF Tasks, Workers
<1>8. task' = [task EXCEPT ![j] = c] /\ Dropped(j)
  BY DEF Call
<1>9. task' \in [Jobs -> Calls \cup {"new", "left"}]
  BY <1>8 DEF Tasks, Workers
<1>10. /\ base' = [k \in Jobs |-> base'[k]] /\ measured' = [k \in Jobs |-> measured'[k]]
       /\ base'[j] = "zero" /\ measured'[j] = NotMeasured
       /\ \A k \in Jobs \ {j} : base'[k] = base[k] /\ measured'[k] = measured[k]
  BY <1>8 DEF Tasks, Workers, Dropped
<1>11. task'[j] = c /\ \A k \in Jobs \ {j} : task'[k] = task[k]
  BY <1>8 DEF Tasks, Workers
<1>12. Workers'
  BY <1>6, <1>7, <1>9, <1>10 DEF Workers
<1>13. QED  BY <1>1, <1>2, <1>5, <1>10, <1>11, <1>12

\* The task of j ends.
LEMMA LeaveFacts ==
  ASSUME Tasks, NEW j \in Jobs, NEW confirmed, Leave(j, confirmed)
  PROVE  /\ task'[j] = "left"
         /\ Workers'
         /\ \A k \in Jobs \ {j} : /\ task'[k] = task[k] /\ work'[k] = work[k]
                                  /\ base'[k] = base[k] /\ measured'[k] = measured[k]
         /\ \A d \in Calls : /\ work'[j][d] \in {work[j][d], "off"}
                             /\ work[j][d] \in Over \cup {"sleep"} => work'[j][d] = "off"
                             /\ work[j][d] \notin Over \cup {"sleep"} => work'[j][d] = work[j][d]
         /\ base'[j] = "zero" /\ measured'[j] = NotMeasured
<1>1. /\ work' = [work EXCEPT ![j] = [d \in Calls |-> work'[j][d]]]
      /\ \A d \in Calls : /\ work'[j][d] \in {work[j][d], "off"}
                          /\ work[j][d] \in Over \cup {"sleep"} => work'[j][d] = "off"
                          /\ work[j][d] \notin Over \cup {"sleep"} => work'[j][d] = work[j][d]
  BY DEF Leave, Tasks, Workers
<1>2. \A d \in Calls : "off" \in LabelsOf(j, d)
  BY DEF LabelsOf
<1>3. \A d \in Calls : work'[j][d] \in LabelsOf(j, d)
  BY <1>1, <1>2 DEF Tasks, Workers
<1>4. \A k \in Jobs \ {j} : work'[k] = work[k]
  BY <1>1 DEF Tasks, Workers
<1>5. work' = [k \in Jobs |-> [d \in Calls |-> work'[k][d]]]
  BY <1>1, <1>4 DEF Tasks, Workers
<1>6. \A k \in Jobs, d \in Calls : work'[k][d] \in LabelsOf(k, d)
  BY <1>3, <1>4 DEF Tasks, Workers
<1>7. task' = [task EXCEPT ![j] = "left"] /\ Dropped(j)
  BY DEF Leave
<1>8. task' \in [Jobs -> Calls \cup {"new", "left"}]
  BY <1>7 DEF Tasks, Workers
<1>9. /\ base' = [k \in Jobs |-> base'[k]] /\ measured' = [k \in Jobs |-> measured'[k]]
      /\ base'[j] = "zero" /\ measured'[j] = NotMeasured
      /\ \A k \in Jobs \ {j} : base'[k] = base[k] /\ measured'[k] = measured[k]
  BY <1>7 DEF Tasks, Workers, Dropped
<1>10. task'[j] = "left" /\ \A k \in Jobs \ {j} : task'[k] = task[k]
  BY <1>7 DEF Tasks, Workers
<1>11. Workers'
  BY <1>5, <1>6, <1>8, <1>9 DEF Workers
<1>12. QED  BY <1>1, <1>4, <1>9, <1>10, <1>11

-----------------------------------------------------------------------------
(* What is kept for the Jobs a step is not about *)

Undisturbed(k) ==
  \A p \in Ports : /\ holder'[p] = k <=> holder[p] = k
                   /\ sends'[p] = k => sends[p] = k
                   /\ holder[p] = k => loaded'[p] = loaded[p] /\ sends'[p] \in {sends[p], None}

Same(k) == /\ task'[k] = task[k] /\ work'[k] = work[k] /\ runner'[k] = runner[k] /\ fate'[k] = fate[k]
           /\ base'[k] = base[k] /\ measured'[k] = measured[k]
           /\ k \in sessions' <=> k \in sessions

\* Nothing has become of j, and it has no port it did not have.
Unmoved(j) == /\ StageOf(j)' = StageOf(j) /\ runner'[j] = runner[j]
              /\ j \in sessions' <=> j \in sessions
              /\ \A p \in Ports : InHands(j, p)' => InHands(j, p)

LEMMA JobKept == ASSUME Server, NEW k \in Jobs, JobInv(k), Undisturbed(k), Same(k), UNCHANGED mode
                 PROVE  JobInv(k)'
<1>1. Needs[k] \subseteq Ports
  BY NeedsAssumption
<1>2. StageOf(k)' = StageOf(k) /\ (Transmits(k)' => Transmits(k)) /\ (Gone(k)' <=> Gone(k))
  BY <1>1 DEF Undisturbed, Same, StageOf, Transmits, Gone
<1>3. /\ Owns(k, k)' <=> Owns(k, k)
      /\ Owns(k, k) /\ Idle(k) => Idle(k)'
  BY <1>1 DEF Undisturbed, Owns, Idle
<1>4. HoldsAll(k)'
  BY <1>3 DEF JobInv, HoldsAll, Undisturbed
<1>5. SendsAccounted(k)'
  BY <1>2 DEF JobInv, SendsAccounted, Undisturbed, Same
<1>6. (OneMode(k) /\ Alone(k) /\ Fates(k) /\ Known(k) /\ RunLost(k) /\ CountsFromZero(k))'
  BY <1>2 DEF JobInv, OneMode, Alone, Fates, Known, RunLost, CountsFromZero, Same, Off
<1>7. PrepareHolds(k)' /\ RunHolds(k)'
  BY <1>3 DEF JobInv, PrepareHolds, RunHolds, Same, Undisturbed
<1>8. CleanupClears(k)'
  <2>1. astf(k) /\ Owns(k, k)' /\ (\A p \in Needs[k] : ~loaded[p]) => \A p \in Needs[k] : ~loaded'[p]
    BY <1>1, <1>3 DEF Owns, Undisturbed
  <2>2. QED  BY <1>2, <1>3, <2>1 DEF JobInv, CleanupClears, Same, Cleanups
<1>9. QED  BY <1>4, <1>5, <1>6, <1>7, <1>8 DEF JobInv

-----------------------------------------------------------------------------
(* The steps of the coroutines *)

Kept(j) == Tasks' /\ JobInv(j)' /\ \A k \in Jobs \ {j} : Same(k)

LEMMA BeginKeeps == ASSUME Server, Tasks, NEW j \in Jobs, JobInv(j), Begin(j)
                    PROVE  Kept(j)
<1> USE DEF Begin, session, life, server
<1>1. Call(j, "prepare") /\ "prepare" \in Calls
  BY DEF Calls
<1>2. Tasks'
  BY <1>1, CallFacts DEF Tasks, Handles
<1>3. \A k \in Jobs \ {j} : Same(k)
  BY <1>1, CallFacts DEF Same
<1>4. /\ task[j] = "new"
      /\ task'[j] = "prepare"
      /\ work'[j]["prepare"] = "acquire"
      /\ \A d \in Calls \ {"prepare"} : work'[j][d] = "off"
  BY <1>1, CallFacts DEF JobInv, Alone, Off
<1>5. (HoldsAll(j) /\ SendsAccounted(j))'
  BY <1>4 DEF JobInv, HoldsAll, SendsAccounted, StageOf, Owns
<1>6. (OneMode(j) /\ Alone(j) /\ Fates(j) /\ Known(j) /\ RunLost(j))'
  BY <1>4 DEF JobInv, OneMode, Alone, Fates, Known, RunLost, Off, Calls, Cleanups, Gone
<1>7. (PrepareHolds(j) /\ CleanupClears(j) /\ RunHolds(j) /\ CountsFromZero(j))'
  <2>1. \A p \in Ports : sends[p] # j
    BY <1>4 DEF JobInv, SendsAccounted, StageOf, Fates
  <2>2. QED  BY <1>1, <1>4, <2>1, CallFacts
             DEF JobInv, PrepareHolds, CleanupClears, RunHolds, CountsFromZero, Cleanups
<1>8. QED  BY <1>2, <1>3, <1>5, <1>6, <1>7 DEF Kept, JobInv

\* A step that closes j has given its ports back.
Closed(j) == /\ fate'[j] = "closed" /\ Gone(j)
             /\ runner'[j] = IF Transmits(j) THEN "escaped" ELSE runner[j]

\* what a coroutine of j leaves to the other Jobs
Apart(j) == /\ UNCHANGED <<server, mode, toReconcile>> /\ Handles'
            /\ \A k \in Jobs \ {j} : /\ runner'[k] = runner[k] /\ fate'[k] = fate[k]
                                     /\ k \in sessions' <=> k \in sessions

\* From one call of _execute to another.
LEMMA CallKeeps ==
  ASSUME Server, Tasks, NEW j \in Jobs, JobInv(j), NEW c \in Calls, Call(j, c), Apart(j),
         task[j] \in Calls, c \notin {"prepare", task[j]},
         task[j] = "prepare" => work[j]["prepare"] = "ok",
         c = "run" => task[j] = "prepare",
         j \in sessions' => fate'[j] = "open",
         c \in {"run", "stop", "cleanup"} => j \in sessions',
         stl(j) /\ task[j] = "run" /\ work[j]["run"] \notin Over => runner'[j] = "lost",
         \/ fate'[j] = fate[j] /\ runner'[j] = runner[j]
         \/ fate'[j] = fate[j] /\ task[j] = "run" /\ runner'[j] = "lost"
         \/ Closed(j)
  PROVE  Kept(j)
<1> USE DEF Apart, server
<1>1. Tasks'
  BY CallFacts DEF Tasks
<1>2. \A k \in Jobs \ {j} : Same(k)
  BY CallFacts DEF Same
<1>3. /\ task'[j] = c /\ work'[j][c] # "off"
      /\ \A d \in Calls \ {c} : work'[j][d] \in {work[j][d], "off"}
      /\ work[j][task[j]] \in Over \cup {"sleep"} => work'[j][task[j]] = "off"
      /\ c \in Cleanups => work'[j][c] # "release" /\ (work'[j][c] = "ok" <=> j \notin sessions')
      /\ base'[j] = "zero"
  BY CallFacts DEF Cleanups
<1>4. work'[j]["prepare"] = "off" /\ (task[j] # "prepare" => work[j]["prepare"] = "off")
  BY <1>3 DEF JobInv, Alone, Calls, Over
<1>5. HoldsAll(j)'
  BY DEF JobInv, HoldsAll, Owns
<1>6. SendsAccounted(j)'
  <2>1. CASE Closed(j)
    BY <2>1 DEF JobInv, HoldsAll, SendsAccounted, Closed, Transmits, StageOf
  <2>2. CASE fate'[j] = fate[j]
    <3>1. fate[j] = "open" => StageOf(j)' = "prepared"
      BY <1>3, <2>2 DEF StageOf, Calls
    <3>2. fate[j] # "open" => StageOf(j)' = StageOf(j) /\ (runner[j] = "escaped" => runner'[j] = "escaped")
      BY <2>2 DEF StageOf, JobInv, Fates, Closed
    <3>3. runner[j] = "escaped" => fate[j] # "open"
      BY DEF JobInv, Fates
    <3>4. QED  BY <3>1, <3>2, <3>3 DEF JobInv, SendsAccounted
  <2>3. QED  BY <2>1, <2>2
<1>7. OneMode(j)'
  BY DEF JobInv, OneMode, Calls
<1>8. Alone(j)'
  <2>1. c = "run" => Off(j, Calls \ {"run"})'
    BY <1>3, <1>4 DEF JobInv, Alone, Off
  <2>2. QED  BY <1>3, <1>4, <2>1 DEF Alone, Calls
<1>9. Fates(j)'
  <2>1. c \in {"run", "stop", "cleanup"} => fate'[j] = "open"
    OBVIOUS
  <2>2. fate[j] # "lost" /\ (fate[j] = "closed" => Gone(j))
    BY DEF JobInv, Fates, Alone, Off, Calls
  <2>3. QED  BY <1>3, <2>1, <2>2 DEF JobInv, Fates, Closed, Gone, Tasks, Handles, Calls
<1>10. Known(j)'
  BY <1>3 DEF Known, Cleanups, Calls
<1>11. RunLost(j)'
  BY <1>3 DEF JobInv, RunLost, Closed, Over, Calls, stl
<1>12. (PrepareHolds(j) /\ RunHolds(j))'
  BY <1>3, <1>4, CallFacts DEF JobInv, PrepareHolds, RunHolds, Owns, Idle
<1>13. (CleanupClears(j) /\ CountsFromZero(j))'
  BY <1>3 DEF CleanupClears, CountsFromZero, Cleanups
<1>14. QED  BY <1>1, <1>2, <1>5, <1>6, <1>7, <1>8, <1>9, <1>10, <1>11, <1>12, <1>13 DEF Kept, JobInv

\* From the last call to the end of the task.
LEMMA LeaveKeeps ==
  ASSUME Server, Tasks, NEW j \in Jobs, JobInv(j), NEW confirmed, Leave(j, confirmed), Apart(j),
         task[j] \in Calls \ {"run"},
         j \in sessions' => j \in sessions /\ fate'[j] = "open",
         \/ fate'[j] = fate[j] /\ runner'[j] = runner[j] /\ task[j] # "prepare"
         \/ fate'[j] = "lost" /\ runner'[j] = runner[j] /\ task[j] = "prepare"
         \/ /\ fate'[j] = "closed" /\ runner'[j] = runner[j]
            /\ task[j] = "prepare" /\ work[j]["prepare"] = "failed"
         \/ Closed(j) /\ task[j] # "prepare"
  PROVE  Kept(j)
<1> USE DEF Apart, server
<1>1. Tasks'
  BY LeaveFacts DEF Tasks
<1>2. \A k \in Jobs \ {j} : Same(k)
  BY LeaveFacts DEF Same
<1>3. /\ task'[j] = "left"
      /\ \A d \in Calls : /\ work'[j][d] \in {work[j][d], "off"}
                          /\ work[j][d] \in Over => work'[j][d] = "off"
                          /\ work'[j][d] # "ok"
      /\ base'[j] = "zero"
  BY LeaveFacts DEF Over
<1>4. /\ task[j] # "prepare" => work'[j]["prepare"] = "off"
      /\ task[j] = "prepare" => Off(j, Calls \ {"prepare"})'
  BY <1>3 DEF JobInv, Alone, Calls, Off
<1>5. (HoldsAll(j) /\ OneMode(j))'
  BY DEF JobInv, HoldsAll, Owns, OneMode, Calls
<1>6. SendsAccounted(j)'
  <2>1. CASE Closed(j)
    BY <2>1 DEF JobInv, HoldsAll, SendsAccounted, Closed, Transmits, StageOf
  <2>2. CASE task[j] = "prepare"
    <3>1. \A p \in Ports : sends[p] # j
      BY <2>2 DEF JobInv, SendsAccounted, StageOf, Fates
    <3>2. QED  BY <3>1 DEF SendsAccounted
  <2>3. CASE fate'[j] = fate[j] /\ runner'[j] = runner[j] /\ task[j] # "prepare"
    BY <1>3, <2>3 DEF JobInv, SendsAccounted, StageOf, Calls, Fates
  <2>4. QED  BY <2>1, <2>2, <2>3
<1>7. fate[j] # "lost" /\ (fate[j] = "closed" => Gone(j)) /\ (task[j] = "prepare" => fate[j] = "open")
  BY DEF JobInv, Fates, Alone, Off, Calls
<1>8. Alone(j)'
  BY <1>3, <1>4, <1>7 DEF Alone, Calls, Over
<1>9. Fates(j)'
  BY <1>3, <1>4, <1>7 DEF JobInv, Fates, Closed, Gone, Tasks, Handles, Off, Calls, Over
<1>10. (Known(j) /\ CleanupClears(j) /\ RunHolds(j) /\ CountsFromZero(j))'
  BY <1>3 DEF Known, CleanupClears, RunHolds, CountsFromZero, Cleanups
<1>11. RunLost(j)'
  BY <1>3 DEF JobInv, RunLost, Closed, Calls, stl
<1>12. PrepareHolds(j)'
  BY <1>3 DEF JobInv, PrepareHolds, Owns, Idle, Calls
<1>13. QED  BY <1>1, <1>2, <1>5, <1>6, <1>8, <1>9, <1>10, <1>11, <1>12 DEF Kept, JobInv

LEMMA PrepareKeeps == ASSUME Server, Tasks, NEW j \in Jobs, JobInv(j), Prepare(j), UNCHANGED life
                      PROVE  Kept(j)
<1> USE DEF session, life
<1>1. ASSUME Returns(j, "prepare"), sessions' = sessions \cup {j}, UNCHANGED <<server, runner, fate>>,
             NEW c \in {"run", "stop", "fin_stop"}, Call(j, c)
      PROVE  Kept(j)
  <2>1. Apart(j) /\ c \in Calls /\ task[j] = "prepare" /\ fate[j] = "open"
    BY <1>1 DEF Apart, Tasks, Handles, Returns, Calls, JobInv, Fates
  <2>2. QED  BY <1>1, <2>1, CallKeeps DEF Returns, Calls
<1>2. ASSUME Raises(j, "prepare"), fate' = [fate EXCEPT ![j] = "closed"], Leave(j, TRUE),
             UNCHANGED <<server, session, runner>>
      PROVE  Kept(j)
  <2>1. Apart(j) /\ fate'[j] = "closed" /\ task[j] = "prepare" /\ j \notin sessions'
    BY <1>2 DEF Apart, Tasks, Handles, Raises, JobInv, Known
  <2>2. QED  BY <1>2, <2>1, LeaveKeeps DEF Raises, Calls
<1>3. QED  BY <1>1, <1>2 DEF Prepare

LEMMA RunKeeps == ASSUME Server, Tasks, NEW j \in Jobs, JobInv(j), Run(j), UNCHANGED life
                  PROVE  Kept(j)
<1>1. /\ task[j] = "run" /\ work[j]["run"] \in Over
      /\ UNCHANGED <<server, sessions, runner, fate>>
      /\ \E c \in {"stop", "fin_stop"} : Call(j, c)
  BY DEF Run, Returns, Raises, session, Over
<1>2. Apart(j) /\ fate[j] = "open" /\ j \in sessions
  BY <1>1 DEF Apart, Tasks, Handles, JobInv, Fates, Known, life
<1>3. QED  BY <1>1, <1>2, CallKeeps DEF Calls

LEMMA StopKeeps == ASSUME Server, Tasks, NEW j \in Jobs, JobInv(j), Stop(j), UNCHANGED life
                   PROVE  Kept(j)
<1>1. /\ task[j] = "stop"
      /\ UNCHANGED <<server, sessions, runner, fate>>
      /\ \E c \in {"cleanup", "fin_stop"} : Call(j, c)
  BY DEF Stop, Returns, Raises, TimesOut, Pending, session
<1>2. Apart(j) /\ fate[j] = "open" /\ j \in sessions
  BY <1>1 DEF Apart, Tasks, Handles, JobInv, Fates, Known, life
<1>3. QED  BY <1>1, <1>2, CallKeeps DEF Calls

\* A cleanup that returns for a handle that was known.
LEMMA ClosesFacts == ASSUME Tasks, NEW j \in Jobs, JobInv(j), NEW c \in Cleanups, Returns(j, c), Closes(j),
                            Forgets(j), UNCHANGED <<server, life>>, j \in sessions
                     PROVE  Closed(j) /\ Apart(j) /\ j \notin sessions'
BY DEF Closes, Forgets, Closed, Apart, JobInv, CleanupClears, Returns, Tasks, Handles, life

LEMMA CleanupKeeps == ASSUME Server, Tasks, NEW j \in Jobs, JobInv(j), Cleanup(j), UNCHANGED life
                      PROVE  Kept(j)
<1>1. CASE /\ Returns(j, "cleanup") /\ Closes(j) /\ Forgets(j) /\ UNCHANGED server
           /\ Leave(j, TRUE) \/ Call(j, "fin_stop")
  <2>1. Closed(j) /\ Apart(j) /\ j \notin sessions' /\ task[j] = "cleanup"
    BY <1>1, ClosesFacts DEF Cleanups, Returns, JobInv, Known
  <2>2. QED  BY <1>1, <2>1, CallKeeps, LeaveKeeps DEF Calls
<1>2. CASE /\ task[j] = "cleanup" /\ ForgetsAnyway(j) /\ Call(j, "fin_stop")
           /\ UNCHANGED <<server, runner, fate>>
  <2>1. Apart(j) /\ fate[j] = "open"
    BY <1>2 DEF ForgetsAnyway, Forgets, Apart, Tasks, Handles, JobInv, Fates, life
  <2>2. QED  BY <1>2, <2>1, CallKeeps DEF Calls
<1>3. QED  BY <1>1, <1>2 DEF Cleanup, Raises, TimesOut, Pending

LEMMA FinStopKeeps == ASSUME Server, Tasks, NEW j \in Jobs, JobInv(j), FinStop(j), UNCHANGED life
                      PROVE  Kept(j)
<1>1. /\ task[j] = "fin_stop" /\ Call(j, "fin_cleanup")
      /\ UNCHANGED <<server, sessions, runner, fate>>
  BY DEF FinStop, Returns, Raises, TimesOut, Pending
<1>2. Apart(j) /\ (j \in sessions => fate[j] = "open")
  BY <1>1 DEF Apart, Tasks, Handles, JobInv, Known, life
<1>3. QED  BY <1>1, <1>2, CallKeeps DEF Calls

LEMMA FinCleanupKeeps == ASSUME Server, Tasks, NEW j \in Jobs, JobInv(j), FinCleanup(j), UNCHANGED life
                         PROVE  Kept(j)
<1>1. task[j] = "fin_cleanup" /\ (j \in sessions => fate[j] = "open") /\ \E confirmed : Leave(j, confirmed)
  BY DEF FinCleanup, Returns, Raises, TimesOut, Pending, JobInv, Known
<1>2. CASE Returns(j, "fin_cleanup") /\ Closes(j) /\ Forgets(j) /\ j \in sessions /\ UNCHANGED server
  <2>1. Closed(j) /\ Apart(j) /\ j \notin sessions'
    BY <1>2, ClosesFacts DEF Cleanups
  <2>2. QED  BY <1>1, <2>1, LeaveKeeps DEF Calls
<1>3. CASE (Forgets(j) \/ ForgetsAnyway(j)) /\ UNCHANGED <<server, runner, fate>>
  <2>1. Apart(j) /\ (j \in sessions' => j \in sessions)
    BY <1>3 DEF ForgetsAnyway, Forgets, Apart, Tasks, Handles, life
  <2>2. QED  BY <1>1, <1>3, <2>1, LeaveKeeps DEF Calls
<1>4. QED  BY <1>2, <1>3 DEF FinCleanup

LEMMA CancelKeeps == ASSUME Server, Tasks, NEW j \in Jobs, JobInv(j), Cancel(j)
                     PROVE  Kept(j)
<1> USE DEF Cancel, life
<1>1. CASE task[j] = "prepare"
  <2>1. Apart(j) /\ fate'[j] = "lost" /\ j \notin sessions' /\ runner'[j] = runner[j]
    BY <1>1 DEF Apart, Tasks, Handles, JobInv, Known, session, Stops, Cleanups
  <2>2. QED  BY <1>1, <2>1, LeaveKeeps DEF Stops, Cleanups, Calls
<1>2. CASE task[j] = "run"
  <2>1. Apart(j)
    BY <1>2 DEF Apart, Tasks, Handles, session, Stops, Cleanups
  <2>2. /\ fate'[j] = "open" /\ fate[j] = "open"
        /\ \/ runner'[j] = "lost"
           \/ runner'[j] = runner[j] /\ ~(stl(j) /\ work[j]["run"] \notin Over)
    BY <1>2 DEF Tasks, Handles, JobInv, Fates, Stops, Cleanups, Pending
  <2>3. Call(j, "fin_stop")
    BY <1>2 DEF Stops, Cleanups
  <2>4. QED  BY <1>2, <2>1, <2>2, <2>3, CallKeeps DEF Calls
<1>3. CASE task[j] \in Stops \cup Cleanups
  <2>1. /\ Apart(j) /\ (j \in sessions' => j \in sessions) /\ UNCHANGED <<fate, runner>>
        /\ Call(j, "fin_stop") \/ Leave(j, FALSE)
        /\ task[j] = "fin_stop" => Leave(j, FALSE)
    BY <1>3 DEF ForgetsAnyway, Forgets, Apart, Tasks, Handles, Stops, Cleanups
  <2>2. j \in sessions => fate[j] = "open"
    BY DEF JobInv, Known
  <2>3. CASE Leave(j, FALSE)
    BY <1>3, <2>1, <2>2, <2>3, LeaveKeeps DEF Calls, Stops, Cleanups
  <2>4. CASE Call(j, "fin_stop") /\ task[j] # "fin_stop"
    BY <1>3, <2>1, <2>2, <2>4, CallKeeps DEF Calls, Stops, Cleanups
  <2>5. QED  BY <2>1, <2>3, <2>4
<1>4. QED  BY <1>1, <1>2, <1>3

-----------------------------------------------------------------------------
(* The steps of the workers *)

\* What the others count is not touched, and a measurement is made of what was
\* counted from zero.
LEMMA WorkCounts ==
  ASSUME Server, Tasks, \A k \in Jobs : JobInv(k), NEW j \in Jobs, NEW c \in Calls, Work(j, c)
  PROVE  /\ base' = [k \in Jobs |-> base'[k]] /\ measured' = [k \in Jobs |-> measured'[k]]
         /\ \A k \in Jobs \ {j} : base'[k] = base[k] /\ measured'[k] = measured[k]
         /\ CountsFromZero(j)'
<1> DEFINE l == work[j][c]
<1>1. task' = task /\ l \in LabelsOf(j, c)
  BY DEF Work, Tasks, Workers
<1>2. CASE UNCHANGED measurement
  BY <1>1, <1>2 DEF measurement, Tasks, Workers, JobInv, CountsFromZero
<1>3. CASE task[j] = "run" /\ Reads(j)
  BY <1>1, <1>3 DEF Reads, Tasks, Workers, JobInv, CountsFromZero
<1>4. ASSUME Owns(j, j), NEW counting, \A k \in counting \ {j} : task[k] = "run"
      PROVE  Disturbed(j, counting) = base
  <2>1. \A k \in Jobs : k \in counting \ {j} => Needs[k] \cap Needs[j] = {}
    BY <1>4 DEF JobInv, RunHolds, Owns
  <2>2. QED  BY <2>1 DEF Disturbed, Tasks, Workers
<1>5. CASE Sent(j, l) /\ Measures(j, c, l)
  <2>1. CASE l \in {"start", "push"}
    <3>1. Owns(j, j) /\ c = "run" /\ (task[j] = "run" => Idle(j))
      BY <1>1, <1>5, <2>1 DEF Sent, StartTraffic, PushRemote, LabelsOf, Calls, Stops, Cleanups, Over,
                              JobInv, RunHolds
    <3>2. Disturbed(j, Counting \cup {k \in {j} : task[k] = "run"}) = base
      BY <1>4, <3>1 DEF Counting
    <3>3. /\ base' = [base EXCEPT ![j] = IF Idle(j) THEN "zero" ELSE "traffic"]
          /\ measured' = [measured EXCEPT ![j] = NotMeasured]
      BY <1>5, <2>1, <3>2 DEF Measures, Counts
    <3>4. QED  BY <1>1, <3>1, <3>3 DEF Tasks, Workers, CountsFromZero
  <2>2. CASE l = "learn"
    <3>1. Owns(j, j)
      BY <1>5, <2>2 DEF Sent, StartTraffic
    <3>2. Disturbed(j, Counting) = base
      BY <1>4, <3>1 DEF Counting
    <3>3. QED  BY <1>2, <1>5, <2>2, <3>2 DEF Measures, Teaches, measurement
  <2>3. CASE l \notin {"start", "push", "learn"}
    BY <1>2, <1>3, <1>5, <2>3 DEF Measures, Read
  <2>4. QED  BY <2>1, <2>2, <2>3
<1>6. QED  BY <1>2, <1>3, <1>5
           DEF Work, Command, NothingToHalt, Waits, Wakes, Rollback, Read, measurement

\* What a command sets is in range.
LEMMA EffectTyped == ASSUME Server, NEW j \in Jobs, NEW c \in Calls, Effect(j, c)
                     PROVE  Server'
<1> USE DEF Server, Put
<1>1. CASE UNCHANGED server \/ Acquire(j) \/ Release(j, j)
  BY <1>1 DEF server, Acquire, Release
<1>2. CASE StartTraffic(j) \/ PushRemote(j) \/ StopTraffic(j, j)
  BY <1>2 DEF StartTraffic, PushRemote, StopTraffic
<1>3. CASE Load(j) \/ Unload(j) \/ Reset(j, j)
  BY <1>3 DEF Load, Unload, Reset
<1>4. QED  BY <1>1, <1>2, <1>3 DEF Effect

LEMMA WorkKeeps ==
  ASSUME Server, Tasks, \A k \in Jobs : JobInv(k), NEW j \in Jobs, NEW c \in Calls, Work(j, c)
  PROVE  Server' /\ Kept(j) /\ Unmoved(j) /\ \A k \in Jobs \ {j} : Undisturbed(k)
<1> USE DEF JobInv
<1>1. UNCHANGED <<sessions, task, runner, fate, mode, toReconcile>>
  BY DEF Work, session, life
<1>2. Effect(j, c) /\ work[j][c] \notin {"off"} \cup Over
  BY WorkMoves
<1>3. PICK l \in LabelsOf(j, c) : Moves(j, c, l)
  BY WorkMoves
<1>4. /\ work'[j][c] = l
      /\ \A d \in Calls \ {c} : work'[j][d] = work[j][d]
      /\ \A k \in Jobs \ {j} : work'[k] = work[k]
      /\ l = "off" => task[j] # c
  BY <1>3 DEF Moves, Enters, Tasks, Workers
<1>5. Tasks'
  <2>1. work' = [k \in Jobs |-> [d \in Calls |-> work'[k][d]]]
    BY <1>3 DEF Moves, Tasks, Workers
  <2>2. \A k \in Jobs, d \in Calls : work'[k][d] \in LabelsOf(k, d)
    BY <1>4 DEF Tasks, Workers
  <2>3. QED  BY <1>1, <2>1, <2>2, WorkCounts DEF Tasks, Workers, Handles
<1>6. \A k \in Jobs \ {j} : Undisturbed(k)
  BY <1>2, OthersKept DEF Undisturbed
<1>7. \A k \in Jobs \ {j} : Same(k)
  BY <1>1, <1>4, WorkCounts DEF Same
<1>8. HoldsAll(j)' /\ (c # "prepare" => (Gone(j) => Gone(j)')) /\ (c = "run" => holder' = holder)
  <2>1. CASE UNCHANGED holder
    BY <2>1 DEF HoldsAll, Owns, Gone
  <2>2. CASE Acquire(j) /\ c = "prepare"
    BY <2>2, NeedsAssumption DEF Acquire, Put, HoldsAll, Owns
  <2>3. CASE Release(j, j) /\ c # "run"
    BY <2>3, NeedsAssumption, NoneAssumption DEF Release, Put, HoldsAll, Owns, Gone
  <2>4. QED  BY <1>2, <2>1, <2>2, <2>3
             DEF Effect, server, Load, Unload, Reset, StartTraffic, StopTraffic, PushRemote, Cleanups
<1>9. (OneMode(j) /\ RunLost(j))'
  BY <1>1, <1>2, <1>4 DEF OneMode, RunLost, Calls
<1>10. Alone(j)'
  BY <1>1, <1>2, <1>4 DEF Alone, Off, Calls
<1>11. Known(j)'
  BY <1>1, <1>2, <1>4 DEF Known, Over, Cleanups, Calls
<1>12. CountsFromZero(j)'
  BY WorkCounts
<1>13. /\ c = "prepare" => Off(j, Calls \ {"prepare"}) /\ fate[j] # "closed" /\ task[j] \in {"prepare", "left"}
       /\ fate[j] = "closed" => Gone(j)
  BY <1>2 DEF Alone, Fates, Off
<1>14. Fates(j)'
  <2>1. fate[j] = "closed" => Gone(j)'
    BY <1>8, <1>13
  <2>2. Off(j, Calls \ {"prepare"}) /\ fate[j] = "lost" => c = "prepare"
    BY <1>2 DEF Off
  <2>3. fate[j] = "lost" => Off(j, Calls \ {"prepare"})'
    BY <1>4, <2>2 DEF Fates, Off
  <2>4. QED  BY <1>1, <2>1, <2>3 DEF Fates
<1>15. \/ \A p \in Ports : sends'[p] = j => sends[p] = j
       \/ c = "run" /\ Owns(j, j) /\ (stl(j) \/ StartTraffic(j)) /\ \A p \in Ports : sends'[p] = j => p \in Needs[j]
  <2>1. CASE StartTraffic(j) \/ PushRemote(j)
    BY <1>2, <2>1, NoneAssumption
    DEF Effect, server, Acquire, Release, Load, Unload, Reset, StartTraffic, StopTraffic, PushRemote, Put,
        HoldsAll, SendsAccounted
  <2>2. CASE UNCHANGED sends
    BY <2>2
  <2>3. CASE Reset(j, j) \/ StopTraffic(j, j)
    BY <2>3, NoneAssumption DEF Reset, StopTraffic, Put
  <2>4. QED  BY <1>2, <2>1, <2>2, <2>3 DEF Effect, server, Acquire, Release, Load, Unload
<1>16. SendsAccounted(j)' /\ Unmoved(j)
  <2>1. StageOf(j)' = StageOf(j)
    BY <1>1 DEF StageOf
  <2>2. ASSUME c = "run", Owns(j, j), NEW p \in Needs[j]  PROVE  StageOf(j) \in {"prepared", "lost"}
    <3>1. fate[j] # "closed"
      BY <1>13, <2>2, NeedsAssumption DEF Owns, Gone
    <3>2. task[j] \notin {"new", "prepare"}
      BY <1>2, <2>2 DEF Alone, Off, Calls
    <3>3. QED  BY <3>1, <3>2 DEF StageOf, Tasks, Handles
  <2>3. SendsAccounted(j)'
    BY <1>1, <1>15, <2>1, <2>2 DEF SendsAccounted
  <2>4. ASSUME NEW p \in Ports, InHands(j, p)'  PROVE  InHands(j, p)
    <3>1. CASE sends'[p] = j
      BY <1>15, <2>2, <3>1 DEF InHands, Owns
    <3>2. CASE holder'[p] = j /\ StageOf(j) \in {"prepared", "lost"}
      <4>1. holder[p] = j \/ (c = "prepare" /\ p \in Needs[j])
        BY <1>2, <3>2, NoneAssumption
           DEF Effect, server, Acquire, Release, Load, Unload, Reset, StartTraffic, StopTraffic, PushRemote, Put
      <4>2. c = "prepare" => StageOf(j) = "lost"
        BY <1>2, <3>2 DEF Alone, StageOf
      <4>3. QED  BY <1>2, <3>2, <4>1, <4>2 DEF InHands
    <3>3. CASE p \in Needs[j] /\ work'[j]["prepare"] # "off" /\ StageOf(j) = "lost"
      BY <1>2, <1>4, <3>3 DEF InHands, Calls
    <3>4. QED  BY <2>1, <2>4, <3>1, <3>2, <3>3 DEF InHands
  <2>5. QED  BY <1>1, <2>1, <2>3, <2>4 DEF Unmoved
<1>17. PrepareHolds(j)'
  <2>1. CASE c # "prepare"
    BY <1>2, <1>4, <2>1 DEF PrepareHolds, Alone, Off, Calls
  <2>2. CASE c = "prepare"
    <3>1. \A p \in Ports : sends'[p] # j
      BY <1>2, <1>15, <2>2 DEF PrepareHolds
    <3>2. QED  BY <1>3, <1>4, <2>2, <3>1, NeedsAssumption
       DEF PrepareHolds, Moves, Enters, Cleanups, Acquire, Reset, Load, Put, Owns, Idle
  <2>3. QED  BY <2>1, <2>2
<1>18. RunHolds(j)'
  <2>1. CASE task[j] # "run"
    BY <1>1, <2>1 DEF RunHolds
  <2>2. CASE task[j] = "run"
    <3>1. c = "run"
      BY <1>2, <2>2 DEF Alone, Off
    <3>2. l = "start" => Idle(j)'
      BY <1>3, <3>1 DEF Moves, Enters, Load, Idle
    <3>3. QED  BY <1>1, <1>4, <1>8, <2>2, <3>1, <3>2 DEF RunHolds, Owns
  <2>3. QED  BY <2>1, <2>2
<1>19. CleanupClears(j)'
  <2>1. SUFFICES ASSUME NEW d \in Cleanups, task[j] = d
                 PROVE  /\ work'[j][d] = "release" =>
                             /\ Transmits(j)' => runner[j] = "lost"
                             /\ astf(j) /\ Owns(j, j)' => \A p \in Needs[j] : ~loaded'[p]
                        /\ work'[j][d] = "ok" /\ j \in sessions =>
                             Gone(j)' /\ (Transmits(j)' => runner[j] = "lost")
    BY <1>1 DEF CleanupClears
  <2>2. c # "prepare"
    BY <1>13, <2>1 DEF Cleanups
  <2>3. Needs[j] \subseteq Ports
    BY NeedsAssumption
  <2>4. CASE c = d /\ l = "release"
    <3>1. Unload(j)
      BY <1>3, <2>1, <2>4 DEF Moves, Enters
    <3>2. QED  BY <1>4, <2>3, <2>4, <3>1, NoneAssumption DEF Unload, Put, Transmits, Idle
  <2>5. CASE c = d /\ l = "ok"
    <3>1. work[j][d] = "release" /\ Release(j, j)
      BY <1>3, <2>1, <2>5 DEF Moves, Enters
    <3>2. Gone(j)'
      BY <2>3, <3>1, NoneAssumption DEF Release, Put, HoldsAll, Gone
    <3>3. Transmits(j)' => Transmits(j)
      BY <3>1 DEF Release, Transmits
    <3>4. QED  BY <1>4, <2>1, <2>5, <3>1, <3>2, <3>3 DEF CleanupClears
  <2>6. CASE c # d
    <3>1. work'[j][d] = work[j][d] /\ d \in Calls
      BY <1>4, <2>6 DEF Cleanups, Calls
    <3>2. ASSUME work[j][d] = "release" \/ (work[j][d] = "ok" /\ j \in sessions), Transmits(j)'
          PROVE  runner[j] = "lost"
      <4>1. (Transmits(j) => runner[j] = "lost") /\ (work[j][d] = "ok" => Gone(j))
        BY <2>1, <3>2 DEF CleanupClears
      <4>2. CASE Transmits(j)
        BY <4>1, <4>2
      <4>3. CASE ~Transmits(j)
        <5>1. c = "run" /\ Owns(j, j) /\ (stl(j) \/ StartTraffic(j)) /\ \E p \in Needs[j] : p \in Ports
          BY <1>15, <2>3, <3>2, <4>3 DEF Transmits
        <5>2. work[j][d] = "release" /\ fate[j] = "open"
          BY <2>1, <2>3, <3>1, <3>2, <4>1, <5>1 DEF Gone, Owns, Known
        <5>3. stl(j)
          BY <2>1, <5>1, <5>2, AdapterOfAssumption DEF CleanupClears, StartTraffic, astf, stl
        <5>4. QED  BY <1>2, <2>1, <5>1, <5>2, <5>3 DEF RunLost, Fates, Cleanups
      <4>4. QED  BY <4>2, <4>3
    <3>3. ASSUME work[j][d] = "release", astf(j), Owns(j, j)', NEW p \in Needs[j]
          PROVE  ~loaded'[p]
      <4>1. Owns(j, j)
        BY <1>2, <2>2, <2>3, <3>3, NoneAssumption
           DEF Effect, server, Acquire, Release, Load, Unload, Reset, StartTraffic, StopTraffic, PushRemote, Put, Owns
      <4>2. ~loaded[p]
        BY <2>1, <3>3, <4>1 DEF CleanupClears
      <4>3. QED  BY <1>2, <2>2, <2>3, <3>3, <4>2
                 DEF Effect, server, Acquire, Release, Load, Unload, Reset, StartTraffic, StopTraffic, PushRemote, Put,
                     astf, stl
    <3>4. work[j][d] = "ok" /\ j \in sessions => Gone(j)'
      BY <1>8, <2>1, <2>2 DEF CleanupClears
    <3>5. QED  BY <3>1, <3>2, <3>3, <3>4
  <2>7. QED  BY <1>4, <2>1, <2>4, <2>5, <2>6
<1>20. Server'
  BY <1>2, EffectTyped
<1>21. QED  BY <1>5, <1>6, <1>7, <1>8, <1>9, <1>10, <1>11, <1>12, <1>14, <1>16, <1>17, <1>18, <1>19, <1>20 DEF Kept

-----------------------------------------------------------------------------
(* Death and recovery, and traffic that ends *)

LEMMA CrashKeeps == ASSUME IInv, Crash  PROVE  IInv'
<1> USE DEF Crash, IInv
<1>1. Server'
  BY DEF Server, server
<1>2. Tasks'
  <2>1. Workers'
    BY DEF Tasks, Workers, NoWork, LabelsOf, Begun
  <2>2. Handles'
    BY DEF Tasks, Handles, Begun
  <2>3. QED  BY <2>1, <2>2 DEF Tasks
<1>3. ASSUME NEW j \in Jobs  PROVE  JobInv(j)'
  <2>1. /\ task'[j] = IF task[j] = "new" THEN "new" ELSE "left"
        /\ fate'[j] = IF task[j] # "new" /\ fate[j] = "open" THEN "lost" ELSE fate[j]
        /\ runner'[j] = IF runner[j] = "lost" THEN "none" ELSE runner[j]
        /\ Off(j, Calls)' /\ j \notin sessions' /\ base'[j] = "zero"
    BY DEF Begun, NoWork, Off
  <2>2. task[j] = "new" => fate[j] = "open"
    BY DEF JobInv, Fates
  <2>3. SendsAccounted(j)'
    BY <2>1, <2>2 DEF JobInv, SendsAccounted, StageOf, server
  <2>4. (HoldsAll(j) /\ OneMode(j))'
    BY <2>1 DEF JobInv, HoldsAll, OneMode, Owns, server
  <2>5. (Alone(j) /\ Fates(j))'
    BY <2>1, <2>2 DEF JobInv, Alone, Fates, Off, Calls
  <2>6. (Known(j) /\ RunLost(j) /\ PrepareHolds(j) /\ CleanupClears(j) /\ RunHolds(j) /\ CountsFromZero(j))'
    BY <2>1 DEF Known, RunLost, PrepareHolds, CleanupClears, RunHolds, CountsFromZero, Off, Calls, Cleanups
  <2>7. QED  BY <2>3, <2>4, <2>5, <2>6 DEF JobInv
<1>4. Recovery'
  <2>1. \A j \in Jobs : task'[j] = "new" \/ (task'[j] = "left" /\ fate'[j] # "open")
    BY DEF Begun, Tasks, Handles
  <2>2. QED  BY <2>1 DEF Recovery
<1>5. QED  BY <1>1, <1>2, <1>3, <1>4

\* A Job while no process, or one that recovers, is there.
LEMMA AtRest ==
  ASSUME NEW k \in Jobs, JobInv(k), Off(k, Calls), task[k] \in {"new", "left"}, k \notin sessions,
         UNCHANGED <<task, work, sessions, runner, mode, measurement>>, HoldsAll(k)',
         \/ fate'[k] = fate[k] /\ \A p \in Ports : sends'[p] = k => sends[p] = k
         \/ fate'[k] = "closed" /\ task[k] = "left" /\ \A p \in Ports : sends'[p] # k
  PROVE  JobInv(k)'
<1>1. SendsAccounted(k)'
  BY DEF JobInv, SendsAccounted, StageOf
<1>2. (OneMode(k) /\ Alone(k) /\ Fates(k))'
  BY DEF JobInv, OneMode, Alone, Fates, Off, Calls
<1>3. (Known(k) /\ RunLost(k) /\ PrepareHolds(k) /\ CleanupClears(k) /\ RunHolds(k) /\ CountsFromZero(k))'
  BY DEF JobInv, Known, RunLost, PrepareHolds, CleanupClears, RunHolds, CountsFromZero, measurement, Off, Calls,
         Cleanups
<1>4. QED  BY <1>1, <1>2, <1>3 DEF JobInv

\* What a recovering Agent does, by what it changes.
LEMMA ResumeKeeps ==
  ASSUME IInv, agent # "up", Server', Recovery', fate' \in [Jobs -> {"open", "lost", "closed"}],
         toReconcile' \subseteq Jobs, UNCHANGED <<task, work, sessions, runner, mode, measurement>>,
         \A k \in Jobs :
           /\ HoldsAll(k)'
           /\ \/ fate'[k] = fate[k] /\ \A p \in Ports : sends'[p] = k => sends[p] = k
              \/ fate'[k] = "closed" /\ task[k] = "left" /\ \A p \in Ports : sends'[p] # k
  PROVE  IInv'
<1>1. \A k \in Jobs : Off(k, Calls) /\ task[k] \in {"new", "left"} /\ k \notin sessions
  BY DEF IInv, Recovery, NoWork, Off
<1>2. \A k \in Jobs : JobInv(k)'
  BY <1>1, AtRest DEF IInv
<1>3. Tasks'
  BY DEF IInv, Tasks, Workers, Handles, measurement
<1>4. QED  BY <1>2, <1>3 DEF IInv

LEMMA RecoveryKeeps == ASSUME IInv, Start \/ Recovered \/ \E j \in Jobs : Reconciles(j)
                       PROVE  IInv'
<1> USE DEF Start, Recovered, Reconciles, frame, session
<1>1. agent # "up" /\ Server'
  BY DEF IInv, Server, server
<1>2. UNCHANGED <<task, work, sessions, runner, mode, measurement, fate, server>>
  OBVIOUS
<1>3. \A k \in Jobs : HoldsAll(k)'
  BY <1>2 DEF IInv, JobInv, HoldsAll, Owns, server
<1>4. toReconcile' \subseteq Jobs
  BY DEF IInv, Tasks, Handles, Begun
<1>5. Recovery'
  <2>1. CASE Start
    BY <2>1 DEF IInv, Recovery, Begun
  <2>2. CASE Recovered
    BY <2>2 DEF IInv, Recovery
  <2>3. ASSUME NEW j \in Jobs, Reconciles(j)  PROVE  Recovery'
    BY <2>3 DEF IInv, Recovery
  <2>4. QED  BY <2>1, <2>2, <2>3
<1>6. QED  BY <1>1, <1>2, <1>3, <1>4, <1>5, ResumeKeeps DEF IInv, Tasks, Handles, server

LEMMA ReconcileKeeps ==
  ASSUME IInv, NEW j \in Jobs,
         \/ ReconcileConfirms(j) \/ ReconcileFails(j) \/ \E l \in {"acquire", "halt", "reset"} : ReconcileCommand(j, l)
  PROVE  IInv'
<1> USE DEF ReconcileConfirms, ReconcileFails, ReconcileCommand, frame, session
<1>1. /\ recon # <<>> /\ recon[1] = j
      /\ recon' # <<>> => recon'[1] = j
      /\ UNCHANGED <<task, work, sessions, runner, mode, measurement, agent, toReconcile>>
  OBVIOUS
<1>2. agent = "recovering" /\ task[j] = "left" /\ stl(j)
  BY <1>1 DEF IInv, Recovery
<1>3. \/ UNCHANGED server \/ Reclaim(j) \/ StopTraffic(Reconciler, j) \/ Reset(Reconciler, j)
      \/ Release(Reconciler, j)
  OBVIOUS
<1>4. Server'
  BY <1>3 DEF IInv, Server, server, Reclaim, StopTraffic, Reset, Release, Put
<1>5. \A k \in Jobs : HoldsAll(k)'
  <2>1. CASE UNCHANGED holder
    BY <2>1 DEF IInv, JobInv, HoldsAll, Owns
  <2>2. CASE Reclaim(j)
    BY <2>2, NeedsAssumption, ReconcilerAssumption, NoneAssumption DEF Reclaim, Put, IInv, JobInv, HoldsAll, Owns
  <2>3. CASE Release(Reconciler, j)
    BY <2>3, NeedsAssumption, ReconcilerAssumption, NoneAssumption DEF Release, Put, IInv, JobInv, HoldsAll, Owns
  <2>4. QED  BY <1>3, <2>1, <2>2, <2>3 DEF server, StopTraffic, Reset
<1>6. \A k \in Jobs, p \in Ports : sends'[p] = k => sends[p] = k
  BY <1>3, NoneAssumption DEF server, Reclaim, StopTraffic, Reset, Release, Put
<1>7. CASE ReconcileConfirms(j)
  <2>1. \A p \in Ports : sends'[p] # j
    BY <1>6, <1>7, NoneAssumption DEF Idle, IInv, JobInv, SendsAccounted
  <2>2. /\ fate' \in [Jobs -> {"open", "lost", "closed"}] /\ fate'[j] = "closed"
        /\ \A k \in Jobs \ {j} : fate'[k] = fate[k]
    BY <1>7 DEF IInv, Tasks, Handles
  <2>3. Recovery'
    BY <1>1, <1>2, <1>7, <2>2 DEF IInv, Recovery
  <2>4. QED  BY <1>1, <1>2, <1>4, <1>5, <1>6, <2>1, <2>2, <2>3, ResumeKeeps DEF IInv, Tasks, Handles
<1>8. CASE UNCHANGED fate
  <2>1. Recovery'
    BY <1>1, <1>2, <1>8 DEF IInv, Recovery
  <2>2. QED  BY <1>1, <1>2, <1>4, <1>5, <1>6, <1>8, <2>1, ResumeKeeps DEF IInv, Tasks, Handles
<1>9. QED  BY <1>7, <1>8

LEMMA EndsKeeps == ASSUME IInv, Ends  PROVE  IInv'
<1>1. PICK p \in Ports : TrafficEnds(p) /\ UNCHANGED <<session, workload, frame, life>>
  BY DEF Ends
<1>2. Server' /\ Tasks' /\ Recovery'
  BY <1>1 DEF TrafficEnds, IInv, Server, Tasks, Workers, Handles, Recovery, session, frame, life, measurement
<1>3. \A k \in Jobs : Undisturbed(k) /\ Same(k) /\ UNCHANGED mode
  BY <1>1, NoneAssumption
     DEF TrafficEnds, IInv, Server, Undisturbed, Same, session, frame, life, measurement
<1>4. QED  BY <1>2, <1>3, JobKept DEF IInv

-----------------------------------------------------------------------------
(* The invariant *)

\* The steps of the coroutine of j.
Coroutine(j) == Begin(j) \/ Step(j) \/ Cancel(j)

LEMMA CoroutineKeeps == ASSUME IInv, NEW j \in Jobs, Coroutine(j)
                        PROVE  IInv' /\ Kept(j) /\ agent = "up"
<1>1. UNCHANGED <<server, life>>
  BY DEF Coroutine, Begin, Step, Prepare, Run, Stop, Cleanup, FinStop, FinCleanup, Cancel
<1>2. Kept(j)
  BY <1>1, BeginKeeps, PrepareKeeps, RunKeeps, StopKeeps, CleanupKeeps, FinStopKeeps, FinCleanupKeeps, CancelKeeps
     DEF IInv, Coroutine, Step
<1>3. task[j] \in Calls \/ agent = "up"
  BY DEF Coroutine, Begin, Step, Prepare, Run, Stop, Cleanup, FinStop, FinCleanup, Cancel, Returns, Raises, TimesOut,
         Pending, Calls
<1>4. agent = "up" /\ toReconcile = {} /\ recon = <<>>
  BY <1>3 DEF IInv, Recovery, Calls
<1>5. \A k \in Jobs \ {j} : Undisturbed(k)
  BY <1>1 DEF Undisturbed, server
<1>6. \A k \in Jobs : JobInv(k)'
  BY <1>1, <1>2, <1>5, JobKept DEF Kept, IInv, life
<1>7. QED  BY <1>1, <1>2, <1>4, <1>6 DEF Kept, IInv, Recovery, Server, server, life

LEMMA WorkersKeep == ASSUME IInv, NEW j \in Jobs, NEW c \in Calls, Work(j, c)
                     PROVE  IInv'
<1>1. work[j][c] # "off"
  BY WorkMoves DEF IInv
<1>2. agent = "up" /\ toReconcile = {} /\ recon = <<>>
  BY <1>1 DEF IInv, Recovery, NoWork
<1>3. UNCHANGED life
  BY DEF Work
<1>4. \A k \in Jobs : JobInv(k)'
  BY <1>3, WorkKeeps, JobKept DEF IInv, Kept, life
<1>5. QED  BY <1>2, <1>3, <1>4, WorkKeeps DEF IInv, Kept, Recovery, life

\* The invariant is inductive.
LEMMA Inductive == /\ Init => IInv
                   /\ IInv /\ [Next]_vars => IInv'
<1>1. ASSUME Init  PROVE  IInv
  <2> USE <1>1 DEF Init, ServerInit, RunsInit
  <2>1. Server /\ Recovery
    BY DEF Server, Recovery
  <2>2. Tasks
    BY DEF Tasks, Workers, Handles, NoWork, LabelsOf
  <2>3. ASSUME NEW j \in Jobs  PROVE  JobInv(j)
    <3>1. (HoldsAll(j) /\ SendsAccounted(j))
      BY NoneAssumption DEF HoldsAll, SendsAccounted
    <3>2. (OneMode(j) /\ Alone(j) /\ Fates(j) /\ Known(j) /\ RunLost(j))
      BY DEF OneMode, Alone, Fates, Known, RunLost, Off, NoWork, Calls, Cleanups
    <3>3. (PrepareHolds(j) /\ CleanupClears(j) /\ RunHolds(j) /\ CountsFromZero(j))
      BY DEF PrepareHolds, CleanupClears, RunHolds, CountsFromZero, NoWork, Calls, Cleanups
    <3>4. QED  BY <3>1, <3>2, <3>3 DEF JobInv
  <2>4. QED  BY <2>1, <2>2, <2>3 DEF IInv
<1>2. ASSUME IInv, Next  PROVE  IInv'
  BY <1>2, CoroutineKeeps, WorkersKeep, RecoveryKeeps, ReconcileKeeps, CrashKeeps, EndsKeeps
     DEF Next, Coroutine, Reconcile
<1>3. ASSUME IInv, UNCHANGED vars  PROVE  IInv'
  <2>1. Server' /\ Tasks' /\ Recovery'
    BY <1>3 DEF IInv, Server, Tasks, Workers, Handles, Recovery, vars, server, session, frame, life, measurement
  <2>2. \A k \in Jobs : Undisturbed(k) /\ Same(k) /\ UNCHANGED mode
    BY <1>3 DEF Undisturbed, Same, vars, server, session, frame, life, measurement
  <2>3. QED  BY <1>3, <2>1, <2>2, JobKept DEF IInv
<1>4. QED  BY <1>1, <1>2, <1>3

THEOREM Invariant == Spec => []IInv
BY Inductive, PTL DEF Spec

\* MeasuresItsOwn: whatever a lost run has left on a port, the counters of which a run
\* makes a measurement were cleared while its ports were idle, and nobody else has sent
\* on them since (prepare, the runs and _observe_trial of RemoteTrexStlEngine, run of
\* RemoteAstfEngine).
THEOREM OwnMeasurement == Spec => []MeasuresItsOwn
<1>1. IInv => MeasuresItsOwn
  BY DEF IInv, JobInv, CountsFromZero, MeasuresItsOwn, NotMeasured
<1>2. QED  BY <1>1, Invariant, PTL

-----------------------------------------------------------------------------
(* What the Job engine takes the adapter of a kind for *)

Promise(K) == INSTANCE EnginePromise WITH
                Adapter <- K, Jobs <- Kind(K), Needs <- Of(K, Needs), traffic <- TrafficOf(K),
                sessions <- sessions \cap Kind(K), runner <- Of(K, runner),
                stage <- [j \in Kind(K) |-> StageOf(j)]

\* Ports are let go of.
LEMMA Quiet == ASSUME NEW K, \A j \in Kind(K) : SendsAccounted(j) /\ Unmoved(j)
               PROVE  Promise(K)!Next
<1> DEFINE gone == [p \in Ports |-> {j \in Kind(K) : InHands(j, p) /\ ~InHands(j, p)'}]
<1>1. gone \in [Ports -> SUBSET Promise(K)!Leaving]
  <2>1. ASSUME NEW p \in Ports, NEW j \in Kind(K), InHands(j, p)
        PROVE  j \in Promise(K)!Leaving
    BY <2>1 DEF Promise!Leaving, InHands, SendsAccounted, Of
  <2>2. QED  BY <2>1
<1>2. TrafficOf(K)' = [p \in Ports |-> TrafficOf(K)[p] \ gone[p]]
  BY DEF TrafficOf, Unmoved
<1>3. /\ (sessions \cap Kind(K))' = sessions \cap Kind(K)
      /\ Of(K, runner)' = Of(K, runner)
      /\ [j \in Kind(K) |-> StageOf(j)]' = [j \in Kind(K) |-> StageOf(j)]
  BY DEF Of, Unmoved, Kind
<1>4. Promise(K)!LetsGo
  BY <1>1, <1>2, <1>3 DEF Promise!LetsGo
<1>5. QED  BY <1>4 DEF Promise!Next

\* Jobs a step leaves alone.
Still(k) == /\ StageOf(k)' = StageOf(k) /\ runner'[k] = runner[k]
            /\ k \in sessions' <=> k \in sessions
            /\ \A p \in Ports : InHands(k, p)' <=> InHands(k, p)

LEMMA SameIsStill == ASSUME NEW k \in Jobs, Same(k), UNCHANGED server  PROVE  Still(k)
BY DEF Same, Still, StageOf, InHands, server

LEMMA SameIsUnmoved == ASSUME NEW k \in Jobs, Same(k), Undisturbed(k)  PROVE  Unmoved(k)
BY DEF Same, Unmoved, Undisturbed, StageOf, InHands

LEMMA StillIsUnmoved == ASSUME NEW k \in Jobs, Still(k)  PROVE  Unmoved(k)
BY DEF Still, Unmoved

\* What a step of j alone is to the Job engine.
LEMMA Seen ==
  ASSUME NEW K, NEW j \in Kind(K), \A k \in Kind(K) \ {j} : Still(k), NEW s, StageOf(j)' = s
  PROVE  /\ Promise(K)!Becomes(j, s)
         /\ (\A p \in Ports : InHands(j, p)' <=> InHands(j, p)) => TrafficOf(K)' = TrafficOf(K)
         /\ (\A p \in Ports : InHands(j, p)' <=> (InHands(j, p) \/ p \in Needs[j])) => Promise(K)!Occupy(j)
         /\ (\A p \in Ports : ~InHands(j, p)') => Promise(K)!Vacate(j)
         /\ Of(K, runner)' = [Of(K, runner) EXCEPT ![j] = runner'[j]]
         /\ runner'[j] = runner[j] => Of(K, runner)' = Of(K, runner)
         /\ (sessions \cap Kind(K))' = IF j \in sessions' THEN (sessions \cap Kind(K)) \cup {j}
                                       ELSE (sessions \cap Kind(K)) \ {j}
         /\ (j \in sessions' <=> j \in sessions) => (sessions \cap Kind(K))' = sessions \cap Kind(K)
<1>1. Promise(K)!Becomes(j, s)
  BY DEF Promise!Becomes, Still
<1>2. (\A p \in Ports : InHands(j, p)' <=> InHands(j, p)) => TrafficOf(K)' = TrafficOf(K)
  BY DEF TrafficOf, Still
<1>3. (\A p \in Ports : InHands(j, p)' <=> (InHands(j, p) \/ p \in Needs[j])) => Promise(K)!Occupy(j)
  BY DEF TrafficOf, Still, Promise!Occupy, Of
<1>4. (\A p \in Ports : ~InHands(j, p)') => Promise(K)!Vacate(j)
  BY DEF TrafficOf, Still, Promise!Vacate
<1>5. /\ Of(K, runner)' = [Of(K, runner) EXCEPT ![j] = runner'[j]]
      /\ runner'[j] = runner[j] => Of(K, runner)' = Of(K, runner)
  BY DEF Of, Still
<1>6. /\ (sessions \cap Kind(K))' = IF j \in sessions' THEN (sessions \cap Kind(K)) \cup {j}
                                       ELSE (sessions \cap Kind(K)) \ {j}
      /\ (j \in sessions' <=> j \in sessions) => (sessions \cap Kind(K))' = sessions \cap Kind(K)
  BY DEF Still, Kind
<1>7. QED  BY <1>1, <1>2, <1>3, <1>4, <1>5, <1>6

-----------------------------------------------------------------------------
(* Each step is one of those the Job engine knows *)

\* a coroutine of j, of the kind K, as the lemmas below take it
CoroutineOf(j, K) == /\ IInv /\ IInv' /\ UNCHANGED server /\ K = AdapterOf[j] /\ j \in Kind(K)
                     /\ \A k \in Kind(K) \ {j} : Still(k)

\* A coroutine that changes nothing the Job engine sees.
LEMMA CoroutineQuiet == ASSUME NEW j \in Jobs, NEW K, CoroutineOf(j, K), Still(j)
                        PROVE  Promise(K)!Next
BY Quiet, StillIsUnmoved DEF CoroutineOf, IInv, JobInv, Kind

\* without the handle: nobody had it
LEMMA PreparePromise == ASSUME NEW j \in Jobs, NEW K, CoroutineOf(j, K), Prepare(j)
                        PROVE  Promise(K)!Next
<1> USE DEF CoroutineOf
<1>1. /\ task[j] = "prepare" /\ fate[j] = "open" /\ StageOf(j) = "new" /\ runner'[j] = runner[j]
      /\ \A p \in Ports : sends[p] # j
  BY DEF Prepare, Returns, Raises, session, IInv, JobInv, Fates, StageOf, SendsAccounted
<1>2. CASE Returns(j, "prepare") /\ sessions' = sessions \cup {j} /\ UNCHANGED fate
           /\ \E c \in {"run", "stop", "fin_stop"} : Call(j, c)
  <2>1. StageOf(j)' = "prepared"
    BY <1>1, <1>2, CallFacts DEF StageOf, IInv, Calls
  <2>2. Owns(j, j) /\ \A p \in Ports : holder[p] = j => p \in Needs[j]
    BY <1>2 DEF Returns, IInv, JobInv, PrepareHolds, HoldsAll
  <2>3. \A p \in Ports : InHands(j, p)' <=> (InHands(j, p) \/ p \in Needs[j])
    BY <1>1, <2>1, <2>2 DEF InHands, Owns, server
  <2>4. Promise(K)!Prepared(j)
    BY <1>1, <1>2, <2>1, <2>3, Seen DEF Promise!Prepared
  <2>5. QED  BY <1>1, <2>1, <2>4, Seen DEF Promise!Prepares, Promise!Next
<1>3. CASE fate'[j] = "closed" /\ UNCHANGED session
  <2>1. StageOf(j)' = "closed"
    BY <1>3 DEF StageOf, IInv, JobInv, Fates
  <2>2. \A p \in Ports : InHands(j, p)' <=> InHands(j, p)
    BY <1>1, <2>1 DEF InHands, server
  <2>3. UNCHANGED Promise(K)!engine
    BY <1>1, <1>3, <2>1, <2>2, Seen DEF Promise!engine, session
  <2>4. QED  BY <1>1, <2>1, <2>3, Seen DEF Promise!Prepares, Promise!Next
<1>4. QED  BY <1>2, <1>3 DEF Prepare, IInv, Tasks, Handles

\* A coroutine beyond prepare that does not close the Job.
LEMMA Later == ASSUME NEW j \in Jobs, NEW K, CoroutineOf(j, K), task[j] \in Calls \ {"prepare"},
                      fate'[j] = fate[j], task'[j] \notin {"new", "prepare"}
               PROVE  /\ StageOf(j)' = StageOf(j)
                      /\ fate[j] # "closed" => StageOf(j) = "prepared" /\ fate[j] = "open"
                      /\ \A p \in Ports : InHands(j, p)' <=> InHands(j, p)
<1>1. fate[j] \in {"open", "closed"}
  BY DEF CoroutineOf, IInv, Tasks, Handles, JobInv, Fates, Calls
<1>2. StageOf(j)' = StageOf(j) /\ StageOf(j) = IF fate[j] = "open" THEN "prepared" ELSE "closed"
  BY <1>1 DEF StageOf, Calls
<1>3. QED  BY <1>1, <1>2 DEF InHands, CoroutineOf, server

\* A cleanup of a known handle that returns.
LEMMA ClosesPromise ==
  ASSUME NEW j \in Jobs, NEW K, CoroutineOf(j, K), NEW c \in Cleanups, Returns(j, c), Closes(j), Forgets(j),
         j \in sessions
  PROVE  Promise(K)!Next
<1> USE DEF CoroutineOf
<1>1. /\ StageOf(j) = "prepared" /\ Gone(j) /\ (Transmits(j) => runner[j] = "lost")
      /\ \A p \in Ports : sends[p] = j => p \in Needs[j]
  BY DEF IInv, JobInv, Known, CleanupClears, SendsAccounted, Returns, StageOf, Cleanups
<1>2. /\ fate'[j] = "closed" /\ runner'[j] = IF Transmits(j) THEN "escaped" ELSE runner[j]
      /\ j \notin sessions'
  BY DEF Closes, Forgets, IInv, Tasks, Handles
<1>3. StageOf(j)' = "closed"
  BY <1>2 DEF StageOf, IInv, JobInv, Fates
<1>4. \A p \in Ports : /\ InHands(j, p)' <=> sends[p] = j
                       /\ InHands(j, p) <=> sends[p] = j
  BY <1>1, <1>3 DEF InHands, Gone, server
<1>5. Promise(K)!CleanupReturns(j)
  <2>1. CASE Transmits(j)
    BY <1>1, <1>2, <1>3, <1>4, <2>1, Seen DEF Promise!CleanupReturns, Of
  <2>2. CASE ~Transmits(j)
    <3>1. \A p \in Ports : ~InHands(j, p)'
      BY <1>1, <1>4, <2>2 DEF Transmits
    <3>2. QED  BY <1>2, <1>3, <2>2, <3>1, Seen DEF Promise!CleanupReturns
  <2>3. QED  BY <2>1, <2>2
<1>6. QED  BY <1>1, <1>3, <1>5, Seen DEF Promise!CleansUp, Promise!Next

\* A cleanup of a known handle that raises, is cancelled or takes too long.
LEMMA ForgetsPromise ==
  ASSUME NEW j \in Jobs, NEW K, CoroutineOf(j, K), task[j] \in Cleanups, task'[j] \notin {"new", "prepare"},
         j \in sessions, ForgetsAnyway(j), fate'[j] = fate[j], runner'[j] = runner[j]
  PROVE  Promise(K)!Next
<1> USE DEF CoroutineOf
<1>1. fate[j] = "open" /\ task[j] \in Calls \ {"prepare"}
  BY DEF IInv, JobInv, Known, Cleanups, Calls
<1>2. StageOf(j) = "prepared" /\ StageOf(j)' = "prepared" /\ \A p \in Ports : InHands(j, p)' <=> InHands(j, p)
  BY <1>1, Later
<1>3. (sessions \cap Kind(K))' = IF K = "astf" THEN (sessions \cap Kind(K)) \ {j} ELSE sessions \cap Kind(K)
  BY DEF ForgetsAnyway, Forgets, astf, Kind
<1>4. Promise(K)!CleanupRaises(j)
  BY <1>2, <1>3, Seen DEF Promise!CleanupRaises
<1>5. UNCHANGED [k \in Kind(K) |-> StageOf(k)]
  BY <1>2 DEF Still
<1>6. QED  BY <1>2, <1>4, <1>5, Seen DEF Promise!CleansUp, Promise!Next

LEMMA CoroutinePromise == ASSUME NEW j \in Jobs, NEW K, CoroutineOf(j, K), Coroutine(j), Kept(j)
                          PROVE  Promise(K)!Next
<1> USE DEF CoroutineOf
<1>1. CASE Begin(j)
  <2>1. task[j] = "new" /\ task'[j] = "prepare" /\ UNCHANGED <<sessions, runner, fate, holder, sends>>
    BY <1>1, CallFacts DEF Begin, session, server, IInv, Calls
  <2>2. StageOf(j) = "new" /\ StageOf(j)' = "new"
    BY <2>1 DEF StageOf, IInv, JobInv, Fates
  <2>3. QED  BY <2>1, <2>2, CoroutineQuiet DEF Still, InHands
<1>2. CASE Prepare(j)
  BY <1>2, PreparePromise
<1>3. ASSUME NEW c \in Calls \ {"prepare"}, task[j] \in Calls \ {"prepare"}, Call(j, c) \/ \E b : Leave(j, b)
      PROVE  task'[j] \notin {"new", "prepare"}
  BY <1>3, CallFacts, LeaveFacts DEF IInv, Calls
<1>4. ASSUME task[j] \in Calls \ {"prepare"}, task'[j] \notin {"new", "prepare"},
             UNCHANGED <<sessions, runner, fate>>
      PROVE  Promise(K)!Next
  BY <1>4, Later, CoroutineQuiet DEF Still
<1>5. CASE Run(j)
  BY <1>3, <1>4, <1>5 DEF Run, Returns, Raises, session, Calls
<1>6. CASE Stop(j)
  BY <1>3, <1>4, <1>6 DEF Stop, Returns, Raises, TimesOut, Pending, session, Calls
<1>7. CASE FinStop(j)
  BY <1>3, <1>4, <1>7 DEF FinStop, Returns, Raises, TimesOut, Pending, Calls
<1>8. CASE Cleanup(j)
  <2>1. j \in sessions /\ task'[j] \notin {"new", "prepare"} /\ task[j] = "cleanup"
    BY <1>3, <1>8 DEF Cleanup, Returns, Raises, TimesOut, Pending, IInv, JobInv, Known, Calls
  <2>2. QED  BY <1>8, <2>1, ClosesPromise, ForgetsPromise DEF Cleanup, Cleanups
<1>9. CASE FinCleanup(j)
  <2>1. task[j] = "fin_cleanup" /\ task'[j] \notin {"new", "prepare"}
    BY <1>3, <1>9 DEF FinCleanup, Returns, Raises, TimesOut, Pending, Calls
  <2>2. CASE j \in sessions
    BY <1>9, <2>1, <2>2, ClosesPromise, ForgetsPromise DEF FinCleanup, Cleanups
  <2>3. CASE j \notin sessions
    <3>1. UNCHANGED <<sessions, runner, fate>>
      BY <1>9, <2>3 DEF FinCleanup, Forgets, ForgetsAnyway
    <3>2. QED  BY <1>4, <2>1, <3>1 DEF Calls
  <2>4. QED  BY <2>2, <2>3
<1>10. CASE Cancel(j)
  <2>1. CASE task[j] = "prepare"
    <3>1. /\ fate'[j] = "lost" /\ UNCHANGED <<sessions, runner>> /\ StageOf(j) = "new"
          /\ \A p \in Ports : sends[p] # j
          /\ \A p \in Ports : holder[p] = j => p \in Needs[j] /\ Owns(j, j)
      BY <1>10, <2>1 DEF Cancel, session, Stops, Cleanups, IInv, Tasks, Handles, JobInv, Fates, StageOf,
                         SendsAccounted, HoldsAll
    <3>2. StageOf(j)' = "lost"
      BY <3>1 DEF StageOf, IInv, JobInv, Fates
    <3>3. \A p \in Ports : /\ ~InHands(j, p)
                           /\ InHands(j, p)' <=> \/ holder[p] = j
                                                 \/ p \in Needs[j] /\ work'[j]["prepare"] # "off"
      BY <3>1, <3>2 DEF InHands, server
    <3>4. Promise(K)!Occupy(j) \/ TrafficOf(K)' = TrafficOf(K)
      <4>1. CASE work'[j]["prepare"] # "off" \/ \E p \in Ports : holder[p] = j
        BY <3>1, <3>2, <3>3, <4>1, Seen DEF Owns
      <4>2. CASE work'[j]["prepare"] = "off" /\ \A p \in Ports : holder[p] # j
        BY <3>2, <3>3, <4>2, Seen
      <4>3. QED  BY <4>1, <4>2
    <3>5. Promise(K)!PrepareCancelled(j)
      BY <3>1, <3>2, <3>4, Seen DEF Promise!PrepareCancelled
    <3>6. QED  BY <3>1, <3>2, <3>5, Seen DEF Promise!Prepares, Promise!Next
  <2>2. CASE task[j] = "run"
    <3>1. /\ UNCHANGED <<sessions, fate>> /\ Call(j, "fin_stop") /\ fate[j] = "open"
          /\ runner'[j] = runner[j] \/ (stl(j) /\ runner'[j] = "lost")
      BY <1>10, <2>2 DEF Cancel, session, Stops, Cleanups, IInv, Tasks, Handles, JobInv, Fates
    <3>2. /\ StageOf(j) = "prepared" /\ StageOf(j)' = "prepared"
          /\ \A p \in Ports : InHands(j, p)' <=> InHands(j, p)
      BY <1>3, <2>2, <3>1, Later DEF Calls
    <3>3. Promise(K)!RunCancelled(j)
      BY <3>1, <3>2, Seen DEF Promise!RunCancelled, stl
    <3>4. UNCHANGED [k \in Kind(K) |-> StageOf(k)]
      BY <3>2 DEF Still
    <3>5. QED  BY <3>2, <3>3, <3>4 DEF Promise!Runs, Promise!Next
  <2>3. CASE task[j] \in Stops \cup Cleanups
    <3>1. /\ UNCHANGED <<fate, runner>> /\ task'[j] \notin {"new", "prepare"}
          /\ IF task[j] \in Cleanups THEN ForgetsAnyway(j) ELSE UNCHANGED sessions
      BY <1>3, <1>10, <2>3 DEF Cancel, Stops, Cleanups, Calls
    <3>2. CASE task[j] \in Cleanups /\ j \in sessions
      BY <3>1, <3>2, ForgetsPromise
    <3>3. CASE ~(task[j] \in Cleanups /\ j \in sessions)
      <4>1. UNCHANGED sessions
        BY <3>1, <3>3 DEF ForgetsAnyway, Forgets
      <4>2. QED  BY <1>4, <2>3, <3>1, <4>1 DEF Stops, Cleanups, Calls
    <3>4. QED  BY <3>2, <3>3
  <2>4. QED  BY <1>10, <2>1, <2>2, <2>3 DEF Cancel
<1>11. QED  BY <1>1, <1>2, <1>5, <1>6, <1>7, <1>8, <1>9, <1>10 DEF Coroutine, Step

\* A step that at most takes ports from Jobs.
LEMMA ServerPromise == ASSUME NEW K, IInv, UNCHANGED <<task, work, sessions, runner, fate>>,
                              \A k \in Jobs, p \in Ports : /\ holder'[p] = k => holder[p] = k
                                                           /\ sends'[p] = k => sends[p] = k
                       PROVE  Promise(K)!Next
<1>1. \A k \in Jobs : Unmoved(k)
  BY DEF Unmoved, StageOf, InHands
<1>2. QED  BY <1>1, Quiet DEF IInv, JobInv, Kind

LEMMA CrashPromise == ASSUME NEW K, IInv, IInv', Crash  PROVE  Promise(K)!Next
<1> DEFINE J == Kind(K)
           getting == {j \in J : task[j] = "prepare"}
           gained == {j \in getting : \E p \in Ports : holder[p] = j}
           through == {j \in J : StageOf(j) = "lost" /\ \A p \in Ports : ~InHands(j, p)'}
<1>1. ASSUME NEW j \in J
      PROVE  /\ j \in getting => StageOf(j) = "new"
             /\ StageOf(j)' = IF j \in getting \/ StageOf(j) = "prepared" THEN "lost" ELSE StageOf(j)
             /\ runner'[j] = IF runner[j] = "lost" THEN "none" ELSE runner[j]
             /\ \A p \in Ports :
                  InHands(j, p)' <=> \/ InHands(j, p) /\ j \notin through
                                     \/ j \in gained /\ p \in Needs[j]
  <2>1. /\ task[j] \in {"new", "prepare"} => fate[j] = "open"
        /\ fate[j] \in {"open", "lost", "closed"}
        /\ task'[j] = IF task[j] = "new" THEN "new" ELSE "left"
        /\ fate'[j] = IF task[j] # "new" /\ fate[j] = "open" THEN "lost" ELSE fate[j]
        /\ runner'[j] = IF runner[j] = "lost" THEN "none" ELSE runner[j]
        /\ work'[j]["prepare"] = "off"
    BY DEF Kind, IInv, JobInv, Fates, Tasks, Handles, Crash, Begun, NoWork, Calls
  <2>2. StageOf(j)' = IF j \in getting \/ StageOf(j) = "prepared" THEN "lost" ELSE StageOf(j)
    BY <2>1 DEF StageOf
  <2>3. j \in getting => StageOf(j) = "new"
    BY <2>1 DEF StageOf
  <2>4. ASSUME NEW p \in Ports
        PROVE  InHands(j, p)' <=> \/ InHands(j, p) /\ j \notin through
                                  \/ j \in gained /\ p \in Needs[j]
    <3>1. InHands(j, p)' <=> sends[p] = j \/ (holder[p] = j /\ StageOf(j)' \in {"prepared", "lost"})
      BY <2>1 DEF InHands, Crash, server
    <3>2. \A q \in Ports : holder[q] = j => q \in Needs[j] /\ Owns(j, j)
      BY DEF Kind, IInv, JobInv, HoldsAll
    <3>3. StageOf(j) = "new" => \A q \in Ports : sends[q] # j
      BY DEF Kind, IInv, JobInv, SendsAccounted, Fates, StageOf
    <3>4. CASE j \in getting
      BY <2>2, <2>3, <3>1, <3>2, <3>3, <3>4 DEF InHands, Owns
    <3>5. CASE j \notin getting /\ StageOf(j) # "lost"
      BY <2>2, <3>1, <3>5 DEF InHands
    <3>6. CASE StageOf(j) = "lost"
      <4>1. j \notin getting /\ StageOf(j)' = "lost" /\ (InHands(j, p)' => InHands(j, p))
        BY <2>2, <2>3, <3>1, <3>6 DEF InHands
      <4>2. CASE j \in through
        BY <4>1, <4>2
      <4>3. CASE j \notin through
        <5>1. PICK q \in Ports : InHands(j, q)'
          BY <3>6, <4>3
        <5>2. sends[q] = j \/ holder[q] = j
          BY <2>1, <5>1 DEF InHands, Crash, server
        <5>3. work[j]["prepare"] # "off" => Owns(j, j)
          BY <3>2, <5>2 DEF Kind, IInv, JobInv, PrepareHolds
        <5>4. InHands(j, p) => InHands(j, p)'
          BY <3>1, <4>1, <5>3 DEF InHands, Owns
        <5>5. QED  BY <4>1, <4>3, <5>4
      <4>4. QED  BY <4>2, <4>3
    <3>7. QED  BY <3>4, <3>5, <3>6
  <2>5. QED  BY <2>1, <2>2, <2>3, <2>4
<1>2. getting \in SUBSET {j \in J : [k \in J |-> StageOf(k)][j] = "new"}
  BY <1>1
<1>3. through \in SUBSET {j \in J : [k \in J |-> StageOf(k)][j] = "lost"}
  OBVIOUS
<1>4. [j \in J |-> StageOf(j)]' = [j \in J |-> IF j \in getting \/ [k \in J |-> StageOf(k)][j] = "prepared"
                                               THEN "lost" ELSE [k \in J |-> StageOf(k)][j]]
  BY <1>1
<1>5. TrafficOf(K)' = [p \in Ports |-> (TrafficOf(K)[p] \ through) \cup {j \in gained : p \in Of(K, Needs)[j]}]
  <2>1. ASSUME NEW p \in Ports
        PROVE  {j \in J : InHands(j, p)'} =
                 ({j \in J : InHands(j, p)} \ through) \cup {j \in gained : p \in Of(K, Needs)[j]}
    BY <1>1 DEF Of
  <2>2. QED  BY <2>1 DEF TrafficOf
<1>6. (sessions \cap J)' = {}
  BY DEF Crash
<1>7. Of(K, runner)' = [j \in J |-> IF Of(K, runner)[j] = "lost" THEN "none" ELSE Of(K, runner)[j]]
  BY <1>1 DEF Of
<1>8. gained \in SUBSET getting
  OBVIOUS
<1>9. Promise(K)!EngineDies(getting, through)
  BY <1>5, <1>6, <1>7, <1>8 DEF Promise!EngineDies
<1>10. Promise(K)!Dies
  BY <1>2, <1>3, <1>4, <1>9 DEF Promise!Dies
<1>11. QED  BY <1>10 DEF Promise!Next

LEMMA ConfirmsPromise == ASSUME NEW K, IInv, NEW j \in Jobs, ReconcileConfirms(j)
                         PROVE  Promise(K)!Next
<1> USE DEF ReconcileConfirms
<1>1. /\ UNCHANGED <<task, work, sessions, runner, sends>> /\ fate' = [fate EXCEPT ![j] = "closed"]
      /\ \A p \in Ports : holder'[p] = IF p \in Needs[j] THEN None ELSE holder[p]
      /\ \A p \in Needs[j] : p \in Ports /\ holder[p] = Reconciler /\ sends[p] = None
  BY NeedsAssumption DEF Release, Put, Owns, Idle, session
<1>2. agent = "recovering" /\ stl(j) /\ task[j] = "left" /\ fate[j] # "open" /\ work = NoWork
  BY DEF IInv, Recovery
<1>3. \A k \in Jobs, p \in Ports : holder'[p] = k => holder[p] = k
  BY <1>1, NoneAssumption
<1>4. CASE fate[j] = "closed"
  <2>1. UNCHANGED fate
    BY <1>1, <1>4 DEF IInv, Tasks, Handles
  <2>2. QED  BY <1>1, <1>3, <2>1, ServerPromise
<1>5. CASE fate[j] = "lost"
  <2>1. \A k \in Jobs : fate'[k] = IF k = j THEN "closed" ELSE fate[k]
    BY <1>1 DEF IInv, Tasks, Handles
  <2>2. StageOf(j) = "lost" /\ StageOf(j)' = "closed"
    BY <1>1, <1>2, <1>5, <2>1 DEF StageOf
  <2>3. \A k \in Jobs \ {j} : StageOf(k)' = StageOf(k)
    BY <1>1, <2>1 DEF StageOf
  <2>4. ASSUME NEW k \in Jobs, NEW p \in Ports
        PROVE  /\ p \in Needs[j] => ~InHands(k, p)'
               /\ p \notin Needs[j] => (InHands(k, p)' <=> InHands(k, p))
    <3>1. work'[k]["prepare"] = "off" /\ work[k]["prepare"] = "off"
      BY <1>1, <1>2 DEF NoWork, Calls
    <3>2. CASE p \in Needs[j]
      BY <1>1, <3>1, <3>2, NoneAssumption DEF InHands
    <3>3. CASE p \notin Needs[j] /\ k # j
      BY <1>1, <2>3, <3>1, <3>3 DEF InHands
    <3>4. CASE p \notin Needs[j] /\ k = j
      BY <1>1, <3>1, <3>4 DEF InHands, IInv, JobInv, HoldsAll, SendsAccounted
    <3>5. QED  BY <3>2, <3>3, <3>4
  <2>5. CASE K # "stl" \/ j \notin Kind(K)
    <3>1. j \notin Kind(K)
      BY <1>2, <2>5 DEF Kind, stl
    <3>2. \A k \in Kind(K) : Unmoved(k)
      BY <1>1, <2>3, <2>4, <3>1 DEF Unmoved, Kind
    <3>3. QED  BY <3>2, Quiet DEF IInv, JobInv, Kind
  <2>6. CASE K = "stl" /\ j \in Kind(K)
    <3>1. TrafficOf(K)' = [p \in Ports |-> IF p \in Of(K, Needs)[j] THEN {} ELSE TrafficOf(K)[p]]
      BY <2>4, <2>6 DEF TrafficOf, Kind, Of
    <3>2. (sessions \cap Kind(K))' = sessions \cap Kind(K) /\ Of(K, runner)' = Of(K, runner)
      BY <1>1 DEF Of
    <3>3. Promise(K)!ReconcileConfirms(j)
      BY <2>6, <3>1, <3>2 DEF Promise!ReconcileConfirms
    <3>4. Promise(K)!Becomes(j, "closed")
      BY <2>2, <2>3, <2>6 DEF Promise!Becomes, Kind
    <3>5. QED  BY <2>2, <2>6, <3>3, <3>4 DEF Promise!Reconciled, Promise!Next
  <2>7. QED  BY <2>5, <2>6
<1>6. QED  BY <1>2, <1>4, <1>5 DEF IInv, Tasks, Handles

\* Every step.
LEMMA StepPromise == ASSUME NEW K, IInv, Next  PROVE  Promise(K)!Next
<1>1. ASSUME NEW j \in Jobs, Coroutine(j)  PROVE  Promise(K)!Next
  <2>1. IInv' /\ Kept(j) /\ UNCHANGED server
    BY <1>1, CoroutineKeeps
       DEF Coroutine, Begin, Step, Prepare, Run, Stop, Cleanup, FinStop, FinCleanup, Cancel
  <2>2. \A k \in Jobs \ {j} : Still(k)
    BY <2>1, SameIsStill DEF Kept
  <2>3. CASE j \in Kind(K)
    BY <1>1, <2>1, <2>2, <2>3, CoroutinePromise DEF CoroutineOf, Kind
  <2>4. CASE j \notin Kind(K)
    BY <2>2, <2>4, StillIsUnmoved, Quiet DEF IInv, JobInv, Kind
  <2>5. QED  BY <2>3, <2>4
<1>2. ASSUME NEW j \in Jobs, NEW c \in Calls, Work(j, c)  PROVE  Promise(K)!Next
  <2>1. \A k \in Jobs : Unmoved(k)
    BY <1>2, WorkKeeps, SameIsUnmoved DEF IInv, Kept
  <2>2. QED  BY <2>1, Quiet DEF IInv, JobInv, Kind
<1>3. CASE Start \/ Recovered \/ (\E j \in Jobs : Reconciles(j)) \/ Ends
  <2>1. UNCHANGED <<task, work, sessions, runner, fate, holder>>
    BY <1>3 DEF Start, Recovered, Reconciles, Ends, TrafficEnds, session, frame, server
  <2>2. \A k \in Jobs, p \in Ports : sends'[p] = k => sends[p] = k
    BY <1>3, NoneAssumption DEF Start, Recovered, Reconciles, Ends, TrafficEnds, server, IInv, Server
  <2>3. QED  BY <2>1, <2>2, ServerPromise
<1>4. ASSUME NEW j \in Jobs, ReconcileFails(j) \/ \E l \in {"acquire", "halt", "reset"} : ReconcileCommand(j, l)
      PROVE  Promise(K)!Next
  <2>1. UNCHANGED <<task, work, sessions, runner, fate>>
    BY <1>4 DEF ReconcileFails, ReconcileCommand, session, frame
  <2>2. \/ UNCHANGED server \/ Reclaim(j) \/ StopTraffic(Reconciler, j) \/ Reset(Reconciler, j)
        \/ Release(Reconciler, j)
    BY <1>4 DEF ReconcileFails, ReconcileCommand
  <2>3. \A k \in Jobs, p \in Ports : holder'[p] = k => holder[p] = k
    BY <2>2, NoneAssumption, ReconcilerAssumption DEF server, Reclaim, StopTraffic, Reset, Release, Put
  <2>4. \A k \in Jobs, p \in Ports : sends'[p] = k => sends[p] = k
    BY <2>2, NoneAssumption DEF server, Reclaim, StopTraffic, Reset, Release, Put
  <2>5. QED  BY <2>1, <2>3, <2>4, ServerPromise
<1>5. CASE Crash
  BY <1>5, CrashKeeps, CrashPromise
<1>6. QED  BY <1>1, <1>2, <1>3, <1>4, <1>5, ConfirmsPromise DEF Next, Coroutine, Reconcile

LEMMA InitPromise == ASSUME NEW K, Init  PROVE  Promise(K)!Init
<1>1. \A j \in Jobs : StageOf(j) = "new"
  BY DEF Init, StageOf
<1>2. \A j \in Jobs, p \in Ports : ~InHands(j, p)
  BY <1>1, NoneAssumption DEF Init, ServerInit, InHands
<1>3. TrafficOf(K) = [p \in Ports |-> {}]
  BY <1>2 DEF TrafficOf, Kind
<1>4. Of(K, runner) = [j \in Kind(K) |-> "none"] /\ sessions \cap Kind(K) = {}
  BY DEF Init, Of, Kind
<1>5. QED  BY <1>1, <1>3, <1>4 DEF Promise!Init, Promise!EngineInit, Kind

LEMMA Refinement == /\ Init => Promise("stl")!Init /\ Promise("astf")!Init
                    /\ IInv /\ [Next]_vars => /\ [Promise("stl")!Next]_(Promise("stl")!promise)
                                              /\ [Promise("astf")!Next]_(Promise("astf")!promise)
<1>1. ASSUME NEW K, UNCHANGED vars  PROVE  UNCHANGED Promise(K)!promise
  <2>1. UNCHANGED <<task, work, sessions, runner, fate, holder, sends>>
    BY <1>1 DEF vars, server, session, frame
  <2>2. \A j \in Jobs : StageOf(j)' = StageOf(j) /\ \A p \in Ports : InHands(j, p)' <=> InHands(j, p)
    BY <2>1 DEF StageOf, InHands
  <2>3. TrafficOf(K)' = TrafficOf(K) /\ [j \in Kind(K) |-> StageOf(j)]' = [j \in Kind(K) |-> StageOf(j)]
    BY <2>2 DEF TrafficOf, Kind
  <2>4. QED  BY <2>1, <2>3 DEF Promise!promise, Promise!engine, Of
<1>2. QED  BY <1>1, StepPromise, InitPromise

\* KeepsPromise: for the Jobs of either adapter each step of it, whatever it leaves to
\* worker threads, is a step the Job engine takes it for, or none it can see (prepare,
\* run, stop, cleanup and reconcile of RemoteTrexStlEngine and RemoteAstfEngine).
THEOREM PromiseKept == Spec => KeepsPromise
<1>1. Promise("stl")!Init => Stl!Init
  BY DEF Promise!Init, Promise!EngineInit, Stl!Init, Stl!EngineInit
<1>2. Promise("astf")!Init => Astf!Init
  BY DEF Promise!Init, Promise!EngineInit, Astf!Init, Astf!EngineInit
<1>3. [Promise("stl")!Next]_(Promise("stl")!promise) => [Stl!Next]_(Stl!promise)
  BY DEF
    Promise!Next, Stl!Next, Promise!Prepares, Stl!Prepares, Promise!Runs, Stl!Runs, Promise!CleansUp,
    Stl!CleansUp, Promise!Reconciled, Stl!Reconciled, Promise!LetsGo, Stl!LetsGo, Promise!Dies, Stl!Dies,
    Promise!Becomes, Stl!Becomes, Promise!Leaving, Stl!Leaving, Promise!Occupy, Stl!Occupy, Promise!Vacate,
    Stl!Vacate, Promise!Prepared, Stl!Prepared, Promise!PrepareCancelled, Stl!PrepareCancelled,
    Promise!RunCancelled, Stl!RunCancelled, Promise!CleanupReturns, Stl!CleanupReturns, Promise!CleanupRaises,
    Stl!CleanupRaises, Promise!CleanupCancelled, Stl!CleanupCancelled, Promise!ReconcileConfirms,
    Stl!ReconcileConfirms, Promise!EngineDies, Stl!EngineDies, Promise!engine, Stl!engine, Promise!promise,
    Stl!promise
<1>4. [Promise("astf")!Next]_(Promise("astf")!promise) => [Astf!Next]_(Astf!promise)
  BY DEF
    Promise!Next, Astf!Next, Promise!Prepares, Astf!Prepares, Promise!Runs, Astf!Runs, Promise!CleansUp,
    Astf!CleansUp, Promise!Reconciled, Astf!Reconciled, Promise!LetsGo, Astf!LetsGo, Promise!Dies, Astf!Dies,
    Promise!Becomes, Astf!Becomes, Promise!Leaving, Astf!Leaving, Promise!Occupy, Astf!Occupy, Promise!Vacate,
    Astf!Vacate, Promise!Prepared, Astf!Prepared, Promise!PrepareCancelled, Astf!PrepareCancelled,
    Promise!RunCancelled, Astf!RunCancelled, Promise!CleanupReturns, Astf!CleanupReturns, Promise!CleanupRaises,
    Astf!CleanupRaises, Promise!CleanupCancelled, Astf!CleanupCancelled, Promise!ReconcileConfirms,
    Astf!ReconcileConfirms, Promise!EngineDies, Astf!EngineDies, Promise!engine, Astf!engine, Promise!promise,
    Astf!promise
<1>5. QED  BY <1>1, <1>2, <1>3, <1>4, Refinement, Invariant, PTL DEF Spec, KeepsPromise, Stl!Spec, Astf!Spec
=============================================================================
