----------------------------- MODULE JobClients -----------------------------
(***************************************************************************)
(* The clients of the Jobs API against the Agent: the commands of the CLI   *)
(* that submit a Job, start a plan, wait for a result, follow the events,   *)
(* and the interrupt that cancels; and a client that follows the stream     *)
(* with Last-Event-ID over any number of broken connections.  The Agent is  *)
(* JobPromise, which JobSnapshots implements.                               *)
(***************************************************************************)
EXTENDS JobObserver, TLC

CONSTANTS Scripts,       \* what the clients are told to do: sequences of commands
          Reports,       \* the states in which the Agent reports
          MaxRevision,   \* beyond it the Agent only ends a Job
          MaxBreaks      \* connections of a following client that break

\* submit names a key and may repeat a Job; follow begins after a cursor, or now
Command == [verb : {"run", "start"}, document : Documents]
             \cup [verb : {"submit"}, document : Documents, key : Keys, retryOf : Jobs \cup {None}]
             \cup [verb : {"result", "watch", "cancel"}, job : Jobs]
             \cup [verb : {"follow"}, job : Jobs, cursor : Nat \cup {None}]

ASSUME ClientsAssumption ==
  /\ MaxRevision \in Nat /\ MaxBreaks \in Nat
  /\ Reports \subseteq JobState
  /\ Scripts \subseteq [Clients -> Seq(Command)] /\ None \notin Nat

VARIABLES verdict,       \* verdict[j]: the verdict of its result, if it has one
          cl,            \* cl[c]: the command c carries out
          got,           \* got[c]: the revisions its stream has brought
          out,           \* out[c]: how its last command ended
          script,        \* script[c]: the commands c has yet to be given
          breaks         \* breaks[c]: how many connections it has lost

clients == <<cl, got, out, script, breaks>>
vars == <<server, submissions, stream, verdict, clients>>

Verdicts == {"PASS", "FAIL", "INVALID"}   \* NO_ASSERTION goes with PASS

NoCommand == [verb |-> "none"]
Idle == [pc |-> "idle", cmd |-> NoCommand, job |-> None, seen |-> 0, since |-> 0, again |-> FALSE]
NoExit == [verb |-> "none", code |-> None, job |-> None]

Init == /\ InitSubmission
        /\ InitStreams
        /\ verdict = [j \in Jobs |-> None]
        /\ cl = [c \in Clients |-> Idle]
        /\ got = [c \in Clients |-> << >>]
        /\ out = [c \in Clients |-> NoExit]
        /\ script \in Scripts
        /\ breaks = [c \in Clients |-> 0]

-----------------------------------------------------------------------------
(* The Agent *)

\* work on a Job goes on, or ends with a result or without one
Advances(j) ==
  /\ \E s \in Reports :
       /\ snap[j].revision < MaxRevision \/ s \in Terminal
       /\ Server!Advance(j, s)
       /\ verdict' \in {[verdict EXCEPT ![j] = v] :
                          v \in IF s = "SUCCEEDED" THEN Verdicts ELSE {None}}
  /\ UNCHANGED <<submissions, stream, clients>>

\* somebody else's cancel
CancelledElsewhere(j) ==
  /\ snap[j].revision < MaxRevision
  /\ Server!Cancel(j)
  /\ UNCHANGED <<submissions, stream, verdict, clients>>

-----------------------------------------------------------------------------
(* A command begins, and ends with an exit code *)

PcIs(c, pc) == cl[c].pc = pc
VerbIn(c, verbs) == cl[c].cmd.verb \in verbs

\* the first command of c's script
Give(c) ==
  LET m == Head(script[c]) IN
  /\ PcIs(c, "idle") /\ script[c] # << >>
  /\ m.verb \in {"result", "watch", "follow", "cancel"} => m.job \in Known
  /\ script' = [script EXCEPT ![c] = Tail(@)]
  /\ cl' = [cl EXCEPT ![c] =
              [Idle EXCEPT !.cmd = m, !.job = IF "job" \in DOMAIN m THEN m.job ELSE None,
                           !.pc = CASE m.verb \in {"run", "start", "submit"} -> "post"
                                    [] m.verb \in {"result", "watch"} -> "get"
                                    [] m.verb = "cancel" -> "cancel"
                                    [] m.verb = "follow" -> "connect"]]
  /\ got' = [got EXCEPT ![c] = << >>]
  /\ out' = [out EXCEPT ![c] = NoExit]
  /\ UNCHANGED <<server, submissions, stream, verdict, breaks>>

Leave(c, code, j) ==
  /\ cl' = [cl EXCEPT ![c] = Idle]
  /\ out' = [out EXCEPT ![c] = [verb |-> cl[c].cmd.verb, code |-> code, job |-> j]]

\* mutant: a result is not looked at
ExitCodeByState(j, r) ==
  CASE Event(j, r).state = "CANCELLED" -> 130
    [] Event(j, r).state = "FAILED" -> 3
    [] OTHER -> 0

\* _exit_code of the snapshot with revision r: only a SUCCEEDED one has a result
ExitCode(j, r) ==
  IF Event(j, r).state = "CANCELLED" THEN 130
  ELSE IF Event(j, r).state # "SUCCEEDED" \/ verdict[j] = "INVALID" THEN 3
  ELSE IF verdict[j] = "FAIL" THEN 1 ELSE 0

\* the command of c ends with the snapshot with revision r as its last one
EndWith(c, j, r) == Leave(c, IF VerbIn(c, {"watch", "follow"}) THEN 0 ELSE ExitCode(j, r), j)

-----------------------------------------------------------------------------
(* Submitting *)

KeyOf(c) == CASE cl[c].cmd.verb = "run" -> FreshKey(c, Len(script[c]))
              [] cl[c].cmd.verb = "start" -> PlanKey(cl[c].cmd.document)
              [] OTHER -> cl[c].cmd.key

Posted(c) == [owner |-> PrincipalOf[c], key |-> KeyOf(c), document |-> cl[c].cmd.document,
              retryOf |-> IF "retryOf" \in DOMAIN cl[c].cmd THEN cl[c].cmd.retryOf ELSE None]

\* the answer: submit prints the id, start polls from the revision it names, and
\* run asks for the snapshot first
SubmissionAnswered(c, j) ==
  /\ PcIs(c, "post")
  /\ Stores(Posted(c), j)
  /\ answered' = answered \cup
       {[owner |-> PrincipalOf[c], key |-> KeyOf(c), document |-> cl[c].cmd.document, job |-> j]}
  /\ IF VerbIn(c, {"submit"})
     THEN Leave(c, 0, j)
     ELSE /\ cl' = [cl EXCEPT ![c].pc = IF VerbIn(c, {"start"}) THEN "poll" ELSE "get",
                              ![c].job = j, ![c].seen = snap'[j].revision,
                              ![c].since = snap'[j].revision]
          /\ UNCHANGED out
  /\ UNCHANGED <<late, stream, verdict, got, script, breaks>>

SubmissionRefused(c) ==
  /\ PcIs(c, "post")
  /\ Refuses(Posted(c))
  /\ Leave(c, 2, None)
  /\ UNCHANGED <<server, submissions, stream, verdict, got, script, breaks>>

\* The connection fails or times out (3), or the user interrupts (130): the command
\* ends, the submission may or may not have been made, or is made later.
SubmissionUnanswered(c) ==
  /\ PcIs(c, "post")
  /\ late' = late \cup {Posted(c)}
  /\ \E code \in {3, 130} : Leave(c, code, None)
  /\ UNCHANGED <<server, row, answered, stream, verdict, got, script, breaks>>

-----------------------------------------------------------------------------
(* Waiting: _get, _wait, _events, _control_wait *)

\* GET /v1/jobs/{id}; the stream begins after what it says.  A command that waits
\* again asks again.
GetsSnapshot(c) ==
  /\ PcIs(c, "get")
  /\ LET j == cl[c].job
         r == snap[j].revision
     IN /\ IF Ended(j)
           THEN EndWith(c, j, r) /\ UNCHANGED stream
           ELSE /\ cl' = [cl EXCEPT ![c].pc = "sse", ![c].seen = r]
                /\ stream' = [stream EXCEPT ![c] = Opened("events", j, r)]
                /\ UNCHANGED out
        /\ got' = [got EXCEPT ![c] = <<r>>]
  /\ UNCHANGED <<server, submissions, verdict, script, breaks>>

\* a following client resumes after the last event it has got
Resume(c) == IF got[c] = << >> THEN cl[c].cmd.cursor ELSE cl[c].seen

\* GET /v1/jobs/{id}/events with or without a cursor
Connects(c) ==
  /\ PcIs(c, "connect")
  /\ cl' = [cl EXCEPT ![c].pc = "sse"]
  /\ stream' = [stream EXCEPT ![c] =
                  Opened(IF Resume(c) = None THEN "first" ELSE "events", cl[c].job, Resume(c))]
  /\ UNCHANGED <<server, submissions, verdict, got, out, script, breaks>>

\* one event over the stream; after the last one the stream ends
StreamDelivers(c) ==
  /\ PcIs(c, "sse")
  /\ \E r \in 1 .. snap[cl[c].job].revision :
       /\ Yields(c, r)
       /\ stream' = [stream EXCEPT ![c] = AfterYield(c, r)]
       /\ got' = [got EXCEPT ![c] = Append(@, r)]
       /\ cl' = [cl EXCEPT ![c].seen = r]
  /\ UNCHANGED <<server, submissions, verdict, out, script, breaks>>

\* observe reads; the end of the stream is the end of the response
StreamReads(c) ==
  /\ PcIs(c, "sse")
  /\ ReadEvents(c) \/ CheckWaits(c) \/ CheckEnds(c)
  /\ UNCHANGED <<server, submissions, verdict, clients>>

\* the client has read the response to its end
StreamEnded(c) ==
  /\ PcIs(c, "sse") /\ stream[c] = NoStream
  /\ EndWith(c, cl[c].job, cl[c].seen)
  /\ UNCHANGED <<server, submissions, stream, verdict, got, script, breaks>>

\* the connection is gone: the CLI ends, a following client connects again
StreamBreaks(c) ==
  /\ PcIs(c, "sse")
  /\ Closed(c)
  /\ IF VerbIn(c, {"follow"})
     THEN /\ breaks[c] < MaxBreaks
          /\ breaks' = [breaks EXCEPT ![c] = @ + 1]
          /\ cl' = [cl EXCEPT ![c].pc = "connect"]
          /\ UNCHANGED out
     ELSE Leave(c, 3, None) /\ UNCHANGED breaks
  /\ UNCHANGED <<server, submissions, verdict, got, script>>

\* _control_get: a long poll begins, after the revision that was seen
Polls(c) ==
  /\ PcIs(c, "poll") /\ At(c, "none")
  /\ stream' = [stream EXCEPT ![c] = Opened("get", cl[c].job, cl[c].seen)]
  /\ UNCHANGED <<server, submissions, verdict, clients>>

\* the answer of a poll: the snapshot with revision r
Returns(c, r) ==
  LET j == cl[c].job IN
  /\ Closed(c)
  /\ IF Event(j, r).state \in Terminal
     THEN EndWith(c, j, r)
     ELSE cl' = [cl EXCEPT ![c].seen = r] /\ UNCHANGED out
  /\ UNCHANGED <<server, submissions, verdict, got, script, breaks>>

\* get_test: what is new is returned at once, or it observes
PollGets(c) ==
  /\ PcIs(c, "poll") /\ At(c, "get")
  /\ IF Current(c).revision > stream[c].cursor \/ Current(c).state \in Terminal
     THEN Returns(c, Current(c).revision)
     ELSE Goto(c, "events") /\ UNCHANGED <<server, submissions, verdict, clients>>

\* the first event that observe yields
PollYields(c) ==
  /\ PcIs(c, "poll")
  /\ \E r \in 1 .. snap[cl[c].job].revision : At(c, "yield") /\ Yields(c, r) /\ Returns(c, r)

PollReads(c) ==
  /\ PcIs(c, "poll")
  /\ \/ ReadEvents(c) \/ CheckWaits(c)
     \/ At(c, "check") /\ NothingLeft(c) /\ Goto(c, "last")
  /\ UNCHANGED <<server, submissions, verdict, clients>>

\* the time is up, in any await
PollTimesOut(c) ==
  /\ PcIs(c, "poll") /\ stream[c].pc \in {"events", "check"}
  /\ Goto(c, "last")
  /\ UNCHANGED <<server, submissions, verdict, clients>>

PollLast(c) == PcIs(c, "poll") /\ At(c, "last") /\ Returns(c, Current(c).revision)

\* a request is not answered: the command ends, the Job goes on
RequestFails(c) ==
  /\ cl[c].pc \in {"get", "poll", "cancel"}
  /\ Closed(c)
  /\ Leave(c, 3, None)
  /\ UNCHANGED <<server, submissions, verdict, got, script, breaks>>

-----------------------------------------------------------------------------
(* Cancelling *)

\* KeyboardInterrupt while run or traffic run waits
Interrupt(c) ==
  /\ cl[c].pc \in {"get", "sse", "poll"} /\ VerbIn(c, {"run", "start"}) /\ ~cl[c].again
  /\ Closed(c)
  /\ cl' = [cl EXCEPT ![c].pc = "cancel"]
  /\ UNCHANGED <<server, submissions, verdict, got, out, script, breaks>>

\* request_cancel with a request id of its own; an interrupted command waits again
Cancels(c) ==
  /\ PcIs(c, "cancel")
  /\ LET j == cl[c].job IN
     /\ IF Ended(j) THEN UNCHANGED server ELSE Server!Cancel(j)
     /\ IF VerbIn(c, {"cancel"})
        THEN Leave(c, 0, j)
        ELSE /\ cl' = [cl EXCEPT ![c].pc = IF VerbIn(c, {"run"}) THEN "get" ELSE "poll",
                                 ![c].again = TRUE, ![c].seen = cl[c].since]
             /\ UNCHANGED out
  /\ UNCHANGED <<submissions, stream, verdict, got, script, breaks>>

\* The second interrupt, or one in a command that only looks: a KeyboardInterrupt that
\* leaves the command ends the program with 130 (Typer).
InterruptAborts(c) ==
  /\ cl[c].pc \in {"get", "sse", "poll", "cancel"}
  /\ VerbIn(c, {"result", "watch"}) \/ cl[c].again \/ PcIs(c, "cancel")
  /\ Closed(c)
  /\ Leave(c, 130, None)
  /\ UNCHANGED <<server, submissions, verdict, got, script, breaks>>

-----------------------------------------------------------------------------

Agent == \/ \E j \in Jobs : Advances(j) \/ CancelledElsewhere(j)
         \/ \E s \in late : LateArrives(s) /\ UNCHANGED <<stream, verdict, clients>>

Submits(c) == \/ \E j \in Jobs : SubmissionAnswered(c, j)
              \/ SubmissionRefused(c)
              \/ SubmissionUnanswered(c)

\* what a waiting client and its coroutine do without anything going wrong
Waits(c) == \/ GetsSnapshot(c) \/ Connects(c)
            \/ StreamDelivers(c) \/ StreamReads(c) \/ StreamEnded(c)
            \/ Polls(c) \/ PollGets(c) \/ PollYields(c) \/ PollReads(c) \/ PollLast(c)

Next == \/ Agent
        \/ \E c \in Clients :
             \/ Give(c) \/ Submits(c) \/ Waits(c) \/ Cancels(c)
             \/ StreamBreaks(c) \/ PollTimesOut(c) \/ RequestFails(c)
             \/ Interrupt(c) \/ InterruptAborts(c)

\* The event loop and the worker threads go on, and so does a client that waits.
Fairness == \A c \in Clients : WF_vars(Waits(c))

Spec == Init /\ [][Next]_vars /\ Fairness

-----------------------------------------------------------------------------
(* Properties *)

Waiting(c) == cl[c].pc \in {"get", "connect", "sse", "poll"}

\* each revision once and in order
Gapless ==
  \A c \in Clients :
    /\ \A i \in 2 .. Len(got[c]) : got[c][i] = got[c][i - 1] + 1
    /\ (VerbIn(c, {"follow"}) /\ got[c] # << >> /\ cl[c].cmd.cursor # None)
         => got[c][1] = cl[c].cmd.cursor + 1

\* a stream that ends has brought the terminal snapshot, or the client knew it
EndsWithTheEnd ==
  \A c \in Clients :
    out[c].verb \in {"watch", "follow"} /\ out[c].code = 0 /\ got[c] # << >>
      => /\ Ended(out[c].job)
         /\ got[c][Len(got[c])] = snap[out[c].job].revision

\* A client that follows a Job gets each revision once and in order, and the last one
\* before the stream ends, over all the connections it loses and whatever is
\* committed between two reads of observe (jobs.py, observe; api.py, Last-Event-ID).
StreamFaithful == Gapless /\ EndsWithTheEnd

\* A command that brings the end of a Job says with its exit code what became of it, and
\* one that ends otherwise, unanswered, refused or aborted, never says that a result
\* passed or failed (cli.py, _exit_code over _wait and _control_wait; design.md, 4.2).
ExitTruthful ==
  \A c \in Clients :
    out[c].verb \in {"run", "start", "result"} =>
      /\ out[c].code \in {0, 1} => out[c].job # None
      /\ out[c].job # None =>
         LET j == out[c].job IN
         /\ Ended(j)
         /\ out[c].code = CASE snap[j].state = "CANCELLED" -> 130
                             [] snap[j].state = "SUCCEEDED" /\ verdict[j] = "PASS" -> 0
                             [] snap[j].state = "SUCCEEDED" /\ verdict[j] = "FAIL" -> 1
                             [] OTHER -> 3

\* Who waits for a Job that has ended comes to know it, however often its connection
\* breaks and its polls time out.
EndIsSeen ==
  \A c \in Clients : \A j \in Jobs :
    (Waiting(c) /\ cl[c].job = j /\ Ended(j)) ~> ~Waiting(c)
=============================================================================
