-------------------------- MODULE JobClientsProofs --------------------------
(***************************************************************************)
(* The clients come to know the truth (JobClients, with the Agent as        *)
(* JobPromise): one Job for a key, retries that follow the end of what they *)
(* repeat, streams without gaps, exit codes that say what became of the Job. *)
(* The invariant relates what a client holds (a cursor, the revisions it has *)
(* got, an exit code) to the events of the Job, of which only the last one is *)
(* terminal.                                                                *)
(***************************************************************************)
EXTENDS JobClients, TLAPS

-----------------------------------------------------------------------------
(* Types *)

AnyKey == Keys \cup {PlanKey(d) : d \in Documents} \cup {FreshKey(c, n) : c \in Clients, n \in Nat}

\* a submission, as it is sent and stored
Request == [owner : Principals, key : AnyKey, document : Documents, retryOf : Jobs \cup {None}]

Answer == [owner : Principals, key : AnyKey, document : Documents, job : Jobs]

ClientPc == {"idle", "post", "get", "connect", "sse", "poll", "cancel"}
Verb == {"none", "run", "start", "submit", "result", "watch", "cancel", "follow"}
StreamPc == {"none", "get", "first", "events", "check", "yield", "last"}

Frame == [pc : ClientPc, cmd : Command \cup {NoCommand}, job : Jobs \cup {None}, seen : Nat,
          since : Nat, again : BOOLEAN]
Stream == [pc : StreamPc, job : Jobs \cup {None}, cursor : Nat \cup {None}, upto : Nat]
Exit == [verb : Verb, code : {None, 0, 1, 2, 3, 130}, job : Jobs \cup {None}]

ServerTyped == /\ snap \in [Jobs -> Server!Snapshot] /\ log \in [Jobs -> Seq(Server!Snapshot)]
               /\ verdict \in [Jobs -> Verdicts \cup {None}]
RowsTyped == /\ row \in [Jobs -> Request \cup {NoRow}]
             /\ late \subseteq Request /\ answered \subseteq Answer
ClientsTyped == /\ cl \in [Clients -> Frame] /\ stream \in [Clients -> Stream]
                /\ got \in [Clients -> Seq(Nat)] /\ out \in [Clients -> Exit]
                /\ script \in [Clients -> Seq(Command)] /\ breaks \in [Clients -> Nat]

Types == ServerTyped /\ RowsTyped /\ ClientsTyped

-----------------------------------------------------------------------------
(* The invariant *)

\* the events of a Job are its history, and only the last one is of its end
History(j) ==
  /\ Len(log[j]) = snap[j].revision
  /\ snap[j].revision = 0 => snap[j] = Server!Absent
  /\ snap[j].revision > 0 => log[j][snap[j].revision] = snap[j] /\ snap[j].state # "ABSENT"
  /\ \A r \in 1 .. snap[j].revision - 1 : log[j][r].state \notin Terminal
  /\ snap[j].state = "SUCCEEDED" => verdict[j] \in Verdicts

\* the rows are of Jobs, one for a key, and they say what was answered
Rows ==
  /\ \A j \in Known : snap[j].revision > 0
  /\ \A i, j \in Known : row[i].owner = row[j].owner /\ row[i].key = row[j].key => i = j
  /\ \A a \in answered : /\ a.job \in Known
                         /\ row[a.job].owner = a.owner /\ row[a.job].key = a.key
                         /\ row[a.job].document = a.document
  /\ RetriesFollow

\* what a command does at each of its points
VerbsAt == [idle |-> Verb, post |-> {"run", "start", "submit"}, get |-> {"run", "result", "watch"},
            connect |-> {"follow"}, sse |-> {"run", "result", "watch", "follow"},
            poll |-> {"start"}, cancel |-> {"cancel", "run", "start"}]

InCommand(c) ==
  /\ cl[c].cmd.verb \in VerbsAt[cl[c].pc]
  /\ cl[c].pc # "idle" => out[c] = NoExit
  /\ cl[c].pc \in {"get", "connect", "sse", "poll", "cancel"}
       => cl[c].job \in Jobs /\ snap[cl[c].job].revision > 0

\* the coroutine at the other end of its request
InStream(c) ==
  /\ stream[c].pc = "none" <=> stream[c] = NoStream
  /\ cl[c].pc \notin {"sse", "poll"} => stream[c] = NoStream
  /\ cl[c].pc = "sse" => stream[c].pc \in {"none", "first", "events", "check", "yield"}
  /\ cl[c].pc = "poll" => stream[c].pc \in {"none", "get", "events", "check", "yield", "last"}
  /\ stream[c].pc # "none" => stream[c].job = cl[c].job
  /\ stream[c].pc \in {"get", "events", "check", "yield"} => stream[c].cursor \in Nat
  /\ stream[c].pc = "yield" => /\ stream[c].cursor < stream[c].upto
                               /\ stream[c].upto <= snap[cl[c].job].revision

\* what the stream has brought, and where it goes on
Brought(c) ==
  /\ \A i \in 2 .. Len(got[c]) : got[c][i] = got[c][i - 1] + 1
  /\ (VerbIn(c, {"follow"}) /\ got[c] # << >> /\ cl[c].cmd.cursor # None)
       => got[c][1] = cl[c].cmd.cursor + 1
  /\ cl[c].pc \in {"sse", "connect"} /\ got[c] # << >>
       => got[c][Len(got[c])] = cl[c].seen /\ cl[c].seen <= snap[cl[c].job].revision
  /\ cl[c].pc = "sse" /\ ~VerbIn(c, {"follow"}) => got[c] # << >>
  /\ cl[c].pc = "sse" /\ stream[c].pc \in {"events", "check", "yield"}
       => stream[c].cursor = IF got[c] # << >> THEN cl[c].seen ELSE cl[c].cmd.cursor
  /\ cl[c].pc = "sse" /\ stream[c].pc = "first"
       => got[c] = << >> /\ VerbIn(c, {"follow"}) /\ cl[c].cmd.cursor = None
  /\ cl[c].pc = "sse" /\ stream[c].pc = "none"
       => Ended(cl[c].job) /\ (got[c] # << >> => cl[c].seen = snap[cl[c].job].revision)

\* how its last command ended
EndKnown(c) ==
  out[c].verb \in {"watch", "follow"} /\ out[c].code = 0 /\ got[c] # << >>
    => /\ out[c].job \in Jobs /\ Ended(out[c].job)
       /\ got[c][Len(got[c])] = snap[out[c].job].revision
ExitTrue(c) ==
  out[c].verb \in {"run", "start", "result"} =>
    /\ out[c].code \in {0, 1} => out[c].job # None
    /\ out[c].job # None =>
       LET j == out[c].job IN
       /\ Ended(j)
       /\ out[c].code = CASE snap[j].state = "CANCELLED" -> 130
                           [] snap[j].state = "SUCCEEDED" /\ verdict[j] = "PASS" -> 0
                           [] snap[j].state = "SUCCEEDED" /\ verdict[j] = "FAIL" -> 1
                           [] OTHER -> 3
CommandEnded(c) == EndKnown(c) /\ ExitTrue(c)

ServerInv == \A j \in Jobs : History(j)
ClientInv(c) == InCommand(c) /\ InStream(c) /\ Brought(c) /\ CommandEnded(c)

Inv == Types /\ ServerInv /\ Rows /\ \A c \in Clients : ClientInv(c)

-----------------------------------------------------------------------------
(* The Agent *)

\* what a step can do to a Job, for whoever looks at it
Kept(j) ==
  /\ snap'[j].revision >= snap[j].revision
  /\ Ended(j) => snap'[j] = snap[j] /\ verdict'[j] = verdict[j]

ServerKept == ServerTyped' /\ ServerInv' /\ \A j \in Jobs : Kept(j)

\* The states of a Job are the same to the Agent.
LEMMA SameStates == Server!Terminal = Terminal /\ Server!JobState = JobState /\ Terminal \subseteq JobState
BY DEF Server!Terminal, Terminal, Server!JobState, JobState

\* A snapshot that is published is one more event, and the others stay (storage.py,
\* update_snapshot and request_cancel).
LEMMA Published ==
  ASSUME ServerTyped, ServerInv, NEW i \in Jobs, NEW s \in Server!Snapshot, Server!Publish(i, s),
         s.revision = snap[i].revision + 1, s.state # "ABSENT", ~Ended(i),
         verdict' \in [Jobs -> Verdicts \cup {None}],
         s.state = "SUCCEEDED" => verdict'[i] \in Verdicts,
         \A j \in Jobs \ {i} : verdict'[j] = verdict[j]
  PROVE  ServerKept
<1> USE DEF ServerTyped, Server!Publish
<1> DEFINE S == Server!Snapshot
<1>a. /\ snap \in [Jobs -> S] /\ log \in [Jobs -> Seq(S)] /\ s \in S
      /\ log[i] \in Seq(S)
  OBVIOUS
<1>1. snap' \in [Jobs -> Server!Snapshot] /\ log' \in [Jobs -> Seq(Server!Snapshot)]
  <2> HIDE DEF S
  <2>1. Append(log[i], s) \in Seq(S)
    BY <1>a
  <2>2. snap' \in [Jobs -> S] /\ log' \in [Jobs -> Seq(S)]
    BY <1>a, <2>1
  <2>3. QED  BY <2>2 DEF S
<1>2. \A j \in Jobs \ {i} : snap'[j] = snap[j] /\ log'[j] = log[j]
  OBVIOUS
<1> USE DEF Server!Snapshot
<1>3. \A j \in Jobs \ {i} : History(j)' /\ Kept(j)
  BY <1>2 DEF ServerInv, History, Kept, Ended
<1>4. snap'[i] = s /\ log'[i] = Append(log[i], s) /\ snap[i].revision \in Nat
  OBVIOUS
<1>5. Kept(i)
  BY <1>4 DEF Kept
<1>6. History(i)
  BY DEF ServerInv
<1>7. Len(log'[i]) = s.revision /\ log'[i][s.revision] = s
  BY <1>4, <1>6 DEF History
<1>8. ASSUME NEW r \in 1 .. s.revision - 1 PROVE log'[i][r].state \notin Terminal
  <2>1. r \in 1 .. snap[i].revision /\ log'[i][r] = log[i][r]
    BY <1>4, <1>6 DEF History
  <2>2. CASE r = snap[i].revision
    BY <1>6, <2>1, <2>2 DEF History, Ended
  <2>3. CASE r # snap[i].revision
    <3>1. r \in 1 .. snap[i].revision - 1
      BY <1>4, <2>1, <2>3
    <3>2. QED  BY <1>6, <2>1, <3>1 DEF History
  <2>4. QED  BY <2>2, <2>3
<1>9. History(i)'
  BY <1>4, <1>7, <1>8 DEF History
<1>10. QED  BY <1>1, <1>3, <1>5, <1>9 DEF ServerKept, ServerInv

\* The row of a new Job and its first event (storage.py, create_job).
LEMMA Accepted ==
  ASSUME ServerTyped, ServerInv, NEW j \in Jobs, Server!Submit(j), UNCHANGED verdict
  PROVE  ServerKept /\ snap'[j].revision > 0
<1> DEFINE s == Server!Accepted
<1>1. s \in Server!Snapshot /\ Server!Publish(j, s) /\ s.revision = 1 /\ s.state = "ACCEPTED"
  BY SameStates DEF Server!Submit, Server!Accepted, Server!Snapshot, JobState
<1>2. snap[j].revision = 0 /\ ~Ended(j)
  BY DEF Server!Submit, Server!Absent, Ended, Terminal
<1>3. ServerKept
  BY <1>1, <1>2, Published DEF ServerTyped
<1>4. QED  BY <1>1, <1>3 DEF Server!Publish, ServerTyped

\* A cancel that is committed leaves the state as it was (storage.py, request_cancel).
LEMMA Marks ==
  ASSUME ServerTyped, ServerInv, NEW j \in Jobs, Server!Cancel(j), UNCHANGED verdict
  PROVE  ServerKept
<1> DEFINE s == Server!Marked(snap[j])
<1>1. /\ s \in Server!Snapshot /\ Server!Publish(j, s) /\ s.revision = snap[j].revision + 1
      /\ s.state = snap[j].state /\ ~Ended(j)
  BY SameStates DEF Server!Cancel, Server!Marked, Server!Snapshot, ServerTyped, Ended
<1>2. snap[j].state # "ABSENT"
  BY DEF Server!Cancel, ServerInv, History, ServerTyped, Server!Snapshot
<1>3. s.state # "SUCCEEDED"
  BY <1>1 DEF Ended, Terminal
<1>4. QED  BY <1>1, <1>2, <1>3, Published DEF ServerTyped

\* Work that goes on, or ends with a verdict where it succeeded.
LEMMA AdvancesKeeps ==
  ASSUME ServerTyped, ServerInv, NEW j \in Jobs, Advances(j)
  PROVE  ServerKept
<1>1. PICK t \in Reports : /\ Server!Advance(j, t)
                           /\ verdict' \in {[verdict EXCEPT ![j] = v] : v \in IF t = "SUCCEEDED" THEN Verdicts ELSE {None}}
  BY DEF Advances
<1> DEFINE s == Server!Moved(snap[j], t)
<1>2. t \in JobState /\ t # "ABSENT"
  BY ClientsAssumption DEF JobState
<1>3. /\ s \in Server!Snapshot /\ Server!Publish(j, s) /\ s.revision = snap[j].revision + 1
      /\ s.state = t /\ ~Ended(j)
  BY <1>1, <1>2, SameStates DEF Server!Advance, Server!Moved, Server!Snapshot, ServerTyped, Ended
<1>4. /\ verdict' \in [Jobs -> Verdicts \cup {None}]
      /\ t = "SUCCEEDED" => verdict'[j] \in Verdicts
      /\ \A i \in Jobs \ {j} : verdict'[i] = verdict[i]
  BY <1>1 DEF ServerTyped
<1>5. QED  BY <1>2, <1>3, <1>4, Published

\* Nothing happens to any Job.
LEMMA ServerStays ==
  ASSUME ServerTyped, ServerInv, UNCHANGED <<server, verdict>>
  PROVE  ServerKept
<1>1. \A j \in Jobs : snap[j].revision \in Nat
  BY DEF ServerTyped, Server!Snapshot
<1>2. QED
  BY <1>1 DEF server, ServerKept, ServerTyped, ServerInv, History, Kept, Ended

-----------------------------------------------------------------------------
(* Submissions *)

\* A Job in its log is not absent, so that what is stored is a Job that was not known.
LEMMA StoresKeeps ==
  ASSUME ServerTyped, ServerInv, NEW q, NEW j \in Jobs, Stores(q, j), UNCHANGED verdict
  PROVE  ServerKept
<1>1. CASE UNCHANGED <<server, row>>
  BY <1>1, ServerStays DEF server
<1>2. CASE Create(j, q)
  BY <1>2, Accepted DEF Create
<1>3. QED  BY <1>1, <1>2 DEF Stores

\* What the transaction of create_job leaves behind for the submission it answers.
LEMMA StoredRow ==
  ASSUME ServerTyped, ServerInv, RowsTyped, Rows, NEW q \in Request, NEW j \in Jobs,
         Stores(q, j), UNCHANGED verdict
  PROVE  /\ row' \in [Jobs -> Request \cup {NoRow}]
         /\ \A i \in Known : i \in Known' /\ row'[i] = row[i]
         /\ j \in Known' /\ row'[j].owner = q.owner /\ row'[j].key = q.key
         /\ row'[j].document = q.document
         /\ \A i \in Known' : snap'[i].revision > 0
         /\ \A i, k \in Known' : row'[i].owner = row'[k].owner /\ row'[i].key = row'[k].key => i = k
         /\ RetriesFollow'
<1>1. ServerKept /\ \A i \in Jobs : snap[i].revision \in Nat /\ snap'[i].revision \in Nat
  BY StoresKeeps DEF ServerKept, ServerTyped, Server!Snapshot
<1>2. q # NoRow /\ \A x \in Request : x # NoRow
  BY SubmissionAssumption DEF Request, NoRow
<1>3. CASE j \in UnderKey(q) /\ ~Conflict(q) /\ UNCHANGED <<server, row>>
  BY <1>1, <1>3 DEF UnderKey, Conflict, Rows, RowsTyped, Known, RetriesFollow, server, Ended
<1>4. CASE UnderKey(q) = {} /\ ~RetryRefused(q) /\ NewJob(j) /\ Create(j, q)
  <2>1. /\ row' \in [Jobs -> Request \cup {NoRow}] /\ row'[j] = q
        /\ \A i \in Jobs \ {j} : row'[i] = row[i]
    BY <1>4 DEF Create, RowsTyped
  <2>2. j \notin Known /\ Known' = Known \cup {j}
    BY <1>2, <1>4, <2>1 DEF NewJob, Known
  <2>3. snap'[j].revision > 0
    BY <1>4, Accepted DEF Create
  <2>4. \A i \in Known : snap[i].revision > 0 /\ snap'[i].revision > 0
    BY <1>1 DEF Rows, ServerKept, Kept, Known
  <2>5. \A i \in Known : ~(row[i].owner = q.owner /\ row[i].key = q.key)
    BY <1>4 DEF UnderKey
  <2>6. \A i, k \in Known' : row'[i].owner = row'[k].owner /\ row'[i].key = row'[k].key => i = k
    BY <2>1, <2>2, <2>5 DEF Rows, Known
  <2>7. ~Ended(j)
    BY <1>4 DEF Create, Server!Submit, Server!Absent, Ended, Terminal
  <2>8. \A i \in Known : row[i].retryOf # None => row[i].retryOf \in Jobs
    BY <1>2 DEF Known, RowsTyped, Request
  <2>9. \A i \in Known : row[i].retryOf # None =>
           /\ Ended(row[i].retryOf)' /\ row'[i].document = row'[row[i].retryOf].document
    BY <1>1, <2>1, <2>2, <2>7, <2>8 DEF Rows, RetriesFollow, ServerKept, Kept, Ended, Known
  <2>10. q.retryOf # None => Ended(q.retryOf)' /\ q.document = row'[q.retryOf].document
    <3>1. SUFFICES ASSUME q.retryOf # None
                   PROVE  Ended(q.retryOf)' /\ q.document = row'[q.retryOf].document
      OBVIOUS
    <3>2. q.retryOf \in Known /\ Ended(q.retryOf) /\ row[q.retryOf].document = q.document
      BY <1>4, <3>1 DEF RetryRefused
    <3>3. QED  BY <1>1, <2>1, <2>2, <3>2 DEF ServerKept, Kept, Ended, Known
  <2>11. RetriesFollow'
    BY <2>1, <2>2, <2>9, <2>10 DEF RetriesFollow, Known
  <2>12. QED  BY <2>1, <2>2, <2>3, <2>4, <2>6, <2>11 DEF Known
<1>5. QED  BY <1>3, <1>4 DEF Stores

\* Rows that are not touched stay right whatever the Agent does to the Jobs.
LEMMA RowsStay ==
  ASSUME ServerTyped, RowsTyped, Rows, ServerKept, UNCHANGED <<row, answered>>
  PROVE  Rows'
<1>1. Known' = Known /\ \A j \in Jobs : snap[j].revision \in Nat /\ snap'[j].revision \in Nat
  BY DEF Known, ServerKept, ServerTyped, Server!Snapshot
<1>2. \A j \in Known : row[j].retryOf # None => row[j].retryOf \in Jobs
  BY SubmissionAssumption DEF Known, RowsTyped, Request, NoRow
<1>3. RetriesFollow'
  BY <1>1, <1>2 DEF Rows, RetriesFollow, ServerKept, Kept, Ended, Known
<1>4. QED  BY <1>1, <1>3 DEF Rows, ServerKept, Kept, Known

\* What a client posts.
LEMMA PostedRequest ==
  ASSUME Types, NEW c \in Clients, InCommand(c), PcIs(c, "post")
  PROVE  Posted(c) \in Request /\ KeyOf(c) \in AnyKey
<1> DEFINE m == cl[c].cmd
<1>1. m \in Command \cup {NoCommand} /\ m.verb \in {"run", "start", "submit"}
  BY DEF Types, ClientsTyped, Frame, InCommand, VerbsAt, PcIs
<1>2. PrincipalOf[c] \in Principals /\ Len(script[c]) \in Nat
  BY SubmissionAssumption DEF Types, ClientsTyped
<1>3. CASE m.verb = "submit"
  <2>1. m \in [verb : {"submit"}, document : Documents, key : Keys, retryOf : Jobs \cup {None}]
    BY <1>1, <1>3 DEF Command, NoCommand
  <2>2. QED  BY <1>2, <1>3, <2>1 DEF Posted, KeyOf, Request, AnyKey
<1>4. CASE m.verb \in {"run", "start"}
  <2>1. m \in [verb : {"run", "start"}, document : Documents]
    BY <1>1, <1>4 DEF Command, NoCommand
  <2>2. "retryOf" \notin DOMAIN m /\ m.document \in Documents
    BY <2>1
  <2>3. KeyOf(c) \in AnyKey
    BY <1>2, <1>4, <2>2 DEF KeyOf, AnyKey
  <2>4. QED  BY <1>2, <2>2, <2>3 DEF Posted, Request
<1>5. QED  BY <1>1, <1>3, <1>4

-----------------------------------------------------------------------------
(* What a client keeps when others move *)

\* Whatever becomes of the Jobs, what a client knows of them stays right: revisions
\* only grow, and a terminal snapshot is the last one.
LEMMA ClientStays ==
  ASSUME Types, ServerKept, NEW c \in Clients, ClientInv(c),
         cl'[c] = cl[c], stream'[c] = stream[c], got'[c] = got[c], out'[c] = out[c]
  PROVE  ClientInv(c)'
<1> DEFINE j == cl[c].job
<1>1. \A i \in Jobs : /\ snap[i].revision \in Nat /\ snap'[i].revision \in Nat
                      /\ snap'[i].revision >= snap[i].revision
                      /\ Ended(i) => snap'[i] = snap[i] /\ verdict'[i] = verdict[i]
  BY DEF ServerKept, Kept, ServerTyped, Server!Snapshot, Types
<1>2. /\ cl[c].seen \in Nat /\ out[c].job \in Jobs \cup {None} /\ stream[c].upto \in Nat
      /\ got[c] \in Seq(Nat)
  BY DEF Types, ClientsTyped, Frame, Exit, Stream
<1>3. InCommand(c)'
  BY <1>1 DEF ClientInv, InCommand
<1>4. InStream(c)'
  BY <1>1, <1>2 DEF ClientInv, InStream, InCommand
<1>5. Brought(c)'
  <2>1. cl[c].pc \in {"sse", "connect"} => j \in Jobs
    BY DEF ClientInv, InCommand
  <2>2. cl[c].pc \in {"sse", "connect"} /\ got[c] # << >> => cl[c].seen <= snap'[j].revision
    BY <1>1, <1>2, <2>1 DEF ClientInv, Brought
  <2>3. cl[c].pc = "sse" /\ Ended(j) => Ended(j)' /\ snap'[j].revision = snap[j].revision
    BY <1>1, <2>1 DEF Ended
  <2>4. QED  BY <2>2, <2>3 DEF ClientInv, Brought, VerbIn
<1>6. CommandEnded(c)'
  BY <1>1, <1>2 DEF ClientInv, CommandEnded, EndKnown, ExitTrue, Ended
<1>7. QED  BY <1>3, <1>4, <1>5, <1>6 DEF ClientInv

-----------------------------------------------------------------------------
(* The commands *)

OthersSame(c) ==
  \A d \in Clients \ {c} : /\ cl'[d] = cl[d] /\ stream'[d] = stream[d]
                           /\ got'[d] = got[d] /\ out'[d] = out[d]

Done(c) == ClientsTyped' /\ ClientInv(c)' /\ OthersSame(c)

\* A command that ends without an answer says nothing about the Job.
LEMMA LeaveDone ==
  ASSUME Types, NEW c \in Clients, ClientInv(c), cl[c].pc # "idle",
         NEW code \in {2, 3, 130}, Leave(c, code, None),
         stream' \in [Clients -> Stream], stream'[c] = NoStream,
         \A d \in Clients \ {c} : stream'[d] = stream[d],
         UNCHANGED <<got, script, breaks>>
  PROVE  Done(c)
<1>1. /\ cl' = [cl EXCEPT ![c] = Idle]
      /\ out' = [out EXCEPT ![c] = [verb |-> cl[c].cmd.verb, code |-> code, job |-> None]]
  BY DEF Leave
<1>2. cl[c].cmd.verb \in Verb
  BY DEF ClientInv, InCommand, VerbsAt, Types, ClientsTyped, Frame, Verb, ClientPc
<1>3. Idle \in Frame
  BY DEF Idle, Frame, ClientPc
<1>4. [verb |-> cl[c].cmd.verb, code |-> code, job |-> None] \in Exit
  BY <1>2 DEF Exit
<1>5. ClientsTyped' /\ OthersSame(c)
  BY <1>1, <1>3, <1>4 DEF Types, ClientsTyped, OthersSame
<1>6. cl'[c] = Idle /\ out'[c].code = code /\ out'[c].job = None
  BY <1>1 DEF Types, ClientsTyped
<1>7. InCommand(c)'
  BY <1>6 DEF InCommand, Idle, VerbsAt, NoCommand, Verb
<1>8. InStream(c)'
  BY <1>6 DEF InStream, Idle, NoStream
<1>9. Brought(c)'
  BY <1>6 DEF ClientInv, Brought, Idle, VerbIn, NoCommand
<1>10. CommandEnded(c)'
  BY <1>6 DEF CommandEnded, EndKnown, ExitTrue
<1>11. QED  BY <1>5, <1>7, <1>8, <1>9, <1>10 DEF Done, ClientInv

\* A snapshot with a terminal state is the last one.
LEMMA LastEvent ==
  ASSUME Types, ServerInv, NEW j \in Jobs, NEW r \in 1 .. snap[j].revision
  PROVE  /\ Event(j, r).state \in Terminal => r = snap[j].revision /\ Ended(j)
         /\ r = snap[j].revision => Event(j, r) = snap[j]
<1>1. snap[j].revision \in Nat /\ History(j)
  BY DEF Types, ServerTyped, Server!Snapshot, ServerInv
<1>2. QED  BY <1>1 DEF History, Event, Ended

\* A command that ends with the last snapshot of its Job says what became of the Job.
LEMMA EndDone ==
  ASSUME Types, ServerInv, NEW c \in Clients, ClientInv(c), cl[c].pc \in {"get", "sse", "poll"},
         NEW r, EndWith(c, cl[c].job, r), UNCHANGED <<server, verdict, script, breaks>>,
         Ended(cl[c].job), VerbIn(c, {"run", "start", "result"}) => r = snap[cl[c].job].revision,
         got' \in [Clients -> Seq(Nat)],
         VerbIn(c, {"watch", "follow"}) /\ got'[c] # << >>
           => got'[c][Len(got'[c])] = snap[cl[c].job].revision,
         \A k \in 2 .. Len(got'[c]) : got'[c][k] = got'[c][k - 1] + 1,
         \A d \in Clients \ {c} : got'[d] = got[d],
         stream' \in [Clients -> Stream], stream'[c] = NoStream,
         \A d \in Clients \ {c} : stream'[d] = stream[d]
  PROVE  Done(c)
<1> DEFINE j == cl[c].job
           verb == cl[c].cmd.verb
           code == IF VerbIn(c, {"watch", "follow"}) THEN 0 ELSE ExitCode(j, r)
           rec == [verb |-> verb, code |-> code, job |-> j]
<1>1. cl' = [cl EXCEPT ![c] = Idle] /\ out' = [out EXCEPT ![c] = rec]
  BY DEF EndWith, Leave
<1>2. /\ j \in Jobs /\ snap[j].revision > 0 /\ snap[j].revision \in Nat /\ History(j)
      /\ verb \in {"run", "start", "result", "watch", "follow"}
  BY DEF ClientInv, InCommand, VerbsAt, ServerInv, Types, ServerTyped, Server!Snapshot
<1>3. ASSUME verb \in {"run", "start", "result"}
      PROVE  /\ code = CASE snap[j].state = "CANCELLED" -> 130
                         [] snap[j].state = "SUCCEEDED" /\ verdict[j] = "PASS" -> 0
                         [] snap[j].state = "SUCCEEDED" /\ verdict[j] = "FAIL" -> 1
                         [] OTHER -> 3
  <2>1. r = snap[j].revision /\ Event(j, r) = snap[j]
    <3>1. r = snap[j].revision /\ r \in 1 .. snap[j].revision
      BY <1>2, <1>3 DEF VerbIn
    <3>2. QED  BY <1>2, <3>1, LastEvent
  <2>2. code = ExitCode(j, r)
    BY <1>3 DEF VerbIn
  <2>3. snap[j].state \in {"SUCCEEDED", "FAILED", "CANCELLED"}
    BY DEF Ended, Terminal
  <2>4. snap[j].state = "SUCCEEDED" => verdict[j] \in {"PASS", "FAIL", "INVALID"}
    BY <1>2 DEF History, Verdicts
  <2> HIDE DEF code
  <2>5. CASE snap[j].state = "SUCCEEDED"
    <3>1. CASE verdict[j] = "PASS"
      BY <2>1, <2>2, <2>5, <3>1 DEF ExitCode
    <3>2. CASE verdict[j] = "FAIL"
      BY <2>1, <2>2, <2>5, <3>2 DEF ExitCode
    <3>3. CASE verdict[j] = "INVALID"
      BY <2>1, <2>2, <2>5, <3>3 DEF ExitCode
    <3>4. QED  BY <2>4, <2>5, <3>1, <3>2, <3>3
  <2>6. CASE snap[j].state = "FAILED"
    <3>1. Event(j, r).state = "FAILED"
      BY <2>1, <2>6
    <3>2. code = 3
      BY <2>2, <3>1 DEF ExitCode
    <3>3. QED  BY <2>6, <3>2
  <2>7. CASE snap[j].state = "CANCELLED"
    <3>1. Event(j, r).state = "CANCELLED"
      BY <2>1, <2>7
    <3>2. code = 130
      BY <2>2, <3>1 DEF ExitCode
    <3>3. QED  BY <2>7, <3>2
  <2>8. QED  BY <2>3, <2>5, <2>6, <2>7
<1>4. code \in {0, 1, 3, 130}
  <2>1. CASE verb \in {"run", "start", "result"}
    BY <1>3, <2>1
  <2>2. CASE verb \in {"watch", "follow"}
    BY <2>2 DEF VerbIn
  <2>3. QED  BY <1>2, <2>1, <2>2
<1> HIDE DEF code
<1>5. rec \in Exit /\ Idle \in Frame
  BY <1>2, <1>4 DEF Exit, Verb, Idle, Frame, ClientPc
<1> HIDE DEF rec
<1>6. ClientsTyped' /\ OthersSame(c) /\ cl'[c] = Idle /\ out'[c] = rec
  BY <1>1, <1>5 DEF Types, ClientsTyped, OthersSame
<1>7. InCommand(c)'
  BY <1>6 DEF InCommand, Idle, VerbsAt, NoCommand, Verb
<1>8. InStream(c)'
  BY <1>6 DEF InStream, Idle, NoStream
<1>9. Brought(c)'
  BY <1>6 DEF Brought, Idle, VerbIn, NoCommand
<1>10. CommandEnded(c)'
  <2>1. out'[c].verb = verb /\ out'[c].code = code /\ out'[c].job = j /\ snap' = snap /\ verdict' = verdict
    BY <1>6 DEF rec, server
  <2>2. EndKnown(c)'
    BY <1>2, <2>1 DEF EndKnown, Ended, VerbIn
  <2>3. ExitTrue(c)'
    <3>1. j # None
      BY <1>2, SubmissionAssumption
    <3>2. QED  BY <1>3, <2>1, <3>1 DEF ExitTrue, Ended
  <2>4. QED  BY <2>2, <2>3 DEF CommandEnded
<1>11. QED  BY <1>6, <1>7, <1>8, <1>9, <1>10 DEF Done, ClientInv

\* A request that is closed is over for its client alone.
LEMMA ClosedStream ==
  ASSUME ClientsTyped, NEW c \in Clients, Closed(c)
  PROVE  /\ stream' \in [Clients -> Stream] /\ stream'[c] = NoStream
         /\ \A d \in Clients \ {c} : stream'[d] = stream[d]
<1>1. NoStream \in Stream
  BY DEF NoStream, Stream, StreamPc
<1>2. QED  BY <1>1 DEF Closed, ClientsTyped

\* A command begins with nothing brought and no exit code.
LEMMA GiveDone ==
  ASSUME Types, Rows, NEW c \in Clients, ClientInv(c), Give(c)
  PROVE  Done(c)
<1>1. script[c] \in Seq(Command) /\ script[c] # << >> /\ cl[c].pc = "idle"
  BY DEF Give, Types, ClientsTyped, PcIs
<1>2. PICK m : m = Head(script[c])
  OBVIOUS
<1>3. m \in Command /\ Tail(script[c]) \in Seq(Command)
  BY <1>1, <1>2
<1> DEFINE j == IF "job" \in DOMAIN m THEN m.job ELSE None
           pc == CASE m.verb \in {"run", "start", "submit"} -> "post"
                   [] m.verb \in {"result", "watch"} -> "get"
                   [] m.verb = "cancel" -> "cancel"
                   [] m.verb = "follow" -> "connect"
           f == [Idle EXCEPT !.cmd = m, !.job = j, !.pc = pc]
<1>4. m.verb \in {"run", "start", "submit", "result", "watch", "cancel", "follow"}
  BY <1>3 DEF Command
<1>5. m.verb \in {"result", "watch", "cancel", "follow"} => j = m.job /\ m.job \in Jobs
  BY <1>3 DEF Command
<1>6. m.verb \in {"run", "start", "submit"} => j = None
  <2>1. SUFFICES ASSUME m.verb \in {"run", "start", "submit"} PROVE j = None
    OBVIOUS
  <2>2. \/ m \in [verb : {"run", "start"}, document : Documents]
        \/ m \in [verb : {"submit"}, document : Documents, key : Keys, retryOf : Jobs \cup {None}]
    BY <1>3, <2>1 DEF Command
  <2>3. "job" \notin DOMAIN m
    BY <2>2
  <2>4. QED  BY <2>3
<1>7. j \in Jobs \cup {None}
  BY <1>4, <1>5, <1>6
<1>8. /\ m.verb \in {"run", "start", "submit"} => pc = "post"
      /\ m.verb \in {"result", "watch"} => pc = "get"
      /\ m.verb = "cancel" => pc = "cancel"
      /\ m.verb = "follow" => pc = "connect"
  BY <1>4
<1>9. cl' = [cl EXCEPT ![c] = f] /\ got' = [got EXCEPT ![c] = << >>] /\ out' = [out EXCEPT ![c] = NoExit]
      /\ script' = [script EXCEPT ![c] = Tail(@)] /\ UNCHANGED <<server, stream, breaks>>
  <2>1. cl' = [cl EXCEPT ![c] = f]
    BY <1>2 DEF Give
  <2>2. QED  BY <2>1 DEF Give
<1>10. m.verb \in {"result", "watch", "follow", "cancel"} => snap[m.job].revision > 0
  BY <1>2 DEF Give, Rows
<1> HIDE DEF j, pc
<1>11. f \in Frame /\ NoExit \in Exit
  BY <1>3, <1>4, <1>7, <1>8 DEF Frame, ClientPc, NoExit, Exit, Verb, Idle
<1>12. f.pc = pc /\ f.cmd = m /\ f.job = j
  BY DEF Idle
<1> HIDE DEF f
<1>13. ClientsTyped' /\ OthersSame(c)
  BY <1>3, <1>9, <1>11 DEF Types, ClientsTyped, OthersSame
<1>14. cl'[c] = f /\ got'[c] = << >> /\ out'[c] = NoExit /\ stream'[c] = stream[c] /\ snap' = snap
  BY <1>9 DEF Types, ClientsTyped, server
<1>15. InCommand(c)'
  BY <1>4, <1>5, <1>8, <1>10, <1>12, <1>14 DEF InCommand, VerbsAt
<1>16. InStream(c)'
  BY <1>1, <1>4, <1>8, <1>12, <1>14 DEF ClientInv, InStream, NoStream
<1>17. Brought(c)'
  BY <1>4, <1>8, <1>12, <1>14 DEF Brought
<1>18. CommandEnded(c)'
  BY <1>14 DEF CommandEnded, EndKnown, ExitTrue, NoExit
<1>19. QED  BY <1>13, <1>15, <1>16, <1>17, <1>18 DEF Done, ClientInv

\* The two ends of a submission that has no Job to name (cli.py, _submit).
LEMMA RefusedDone ==
  ASSUME Types, NEW c \in Clients, ClientInv(c), SubmissionRefused(c) \/ SubmissionUnanswered(c)
  PROVE  Done(c)
<1>1. cl[c].pc = "post" /\ stream[c] = NoStream /\ UNCHANGED <<stream, got, script, breaks>>
  BY DEF SubmissionRefused, SubmissionUnanswered, PcIs, ClientInv, InStream
<1>2. \E code \in {2, 3, 130} : Leave(c, code, None)
  BY DEF SubmissionRefused, SubmissionUnanswered
<1>3. QED  BY <1>1, <1>2, LeaveDone DEF Types, ClientsTyped

\* A request that is not answered and an interrupt that aborts (cli.py, _get, _cancel).
LEMMA FailsDone ==
  ASSUME Types, NEW c \in Clients, ClientInv(c), RequestFails(c) \/ InterruptAborts(c)
  PROVE  Done(c)
<1>1. cl[c].pc # "idle" /\ Closed(c) /\ UNCHANGED <<got, script, breaks>>
  BY DEF RequestFails, InterruptAborts
<1>2. Leave(c, 3, None) \/ Leave(c, 130, None)
  BY DEF RequestFails, InterruptAborts
<1>3. QED  BY <1>1, <1>2, LeaveDone, ClosedStream DEF Types

\* A command that only goes from one point to another, its Job and what it brought the same.
LEMMA InterruptDone ==
  ASSUME Types, NEW c \in Clients, ClientInv(c), Interrupt(c)
  PROVE  Done(c)
<1>1. cl' = [cl EXCEPT ![c].pc = "cancel"] /\ cl[c] \in Frame
      /\ cl[c].pc \in {"get", "sse", "poll"} /\ cl[c].cmd.verb \in {"run", "start"}
      /\ UNCHANGED <<server, got, out, script, breaks>>
  BY DEF Interrupt, Types, ClientsTyped, VerbIn
<1>2. /\ cl'[c] \in Frame /\ cl'[c].pc = "cancel" /\ cl'[c].cmd = cl[c].cmd /\ cl'[c].job = cl[c].job
      /\ \A d \in Clients \ {c} : cl'[d] = cl[d]
      /\ cl' \in [Clients -> Frame]
  BY <1>1 DEF Types, ClientsTyped, Frame, ClientPc
<1>3. /\ stream' \in [Clients -> Stream] /\ stream'[c] = NoStream
      /\ \A d \in Clients \ {c} : stream'[d] = stream[d]
  BY ClosedStream DEF Interrupt, Types
<1>4. ClientsTyped' /\ OthersSame(c)
  BY <1>1, <1>2, <1>3 DEF Types, ClientsTyped, OthersSame
<1>5. InCommand(c)'
  BY <1>1, <1>2 DEF ClientInv, InCommand, VerbsAt, server
<1>6. InStream(c)'
  BY <1>2, <1>3 DEF InStream, NoStream
<1>7. Brought(c)'
  BY <1>1, <1>2 DEF ClientInv, Brought, VerbIn
<1>8. CommandEnded(c)'
  BY <1>1 DEF ClientInv, InCommand, CommandEnded, EndKnown, ExitTrue, NoExit
<1>9. QED  BY <1>4, <1>5, <1>6, <1>7, <1>8 DEF Done, ClientInv

\* The first snapshot, after which the stream is opened or the command ends (cli.py,
\* watch and _wait).
LEMMA GetsDone ==
  ASSUME Types, ServerInv, NEW c \in Clients, ClientInv(c), GetsSnapshot(c)
  PROVE  Done(c)
<1> DEFINE j == cl[c].job
           r == snap[j].revision
<1>1. /\ cl[c].pc = "get" /\ j \in Jobs /\ r > 0 /\ r \in Nat /\ stream[c] = NoStream
      /\ cl[c].cmd.verb \in {"run", "result", "watch"} /\ out[c] = NoExit /\ cl[c] \in Frame
  BY DEF GetsSnapshot, PcIs, ClientInv, InCommand, InStream, VerbsAt, Types, ClientsTyped,
         ServerTyped, Server!Snapshot
<1>2. /\ got' = [got EXCEPT ![c] = <<r>>] /\ UNCHANGED <<server, submissions, verdict, script, breaks>>
  BY DEF GetsSnapshot
<1>3. /\ got' \in [Clients -> Seq(Nat)] /\ got'[c] = <<r>> /\ Len(got'[c]) = 1 /\ got'[c][1] = r
      /\ \A d \in Clients \ {c} : got'[d] = got[d]
  BY <1>1, <1>2 DEF Types, ClientsTyped
<1>4. CASE Ended(j) /\ EndWith(c, j, r) /\ UNCHANGED stream
  <2>1. \A k \in 2 .. Len(got'[c]) : got'[c][k] = got'[c][k - 1] + 1
    BY <1>3
  <2>2. stream' \in [Clients -> Stream] /\ stream'[c] = NoStream /\ got'[c][Len(got'[c])] = r
    BY <1>1, <1>3, <1>4 DEF Types, ClientsTyped
  <2>3. \A d \in Clients \ {c} : stream'[d] = stream[d]
    BY <1>4
  <2>4. QED  BY <1>1, <1>2, <1>3, <1>4, <2>1, <2>2, <2>3, EndDone
<1>5. CASE /\ ~Ended(j) /\ cl' = [cl EXCEPT ![c].pc = "sse", ![c].seen = r]
           /\ stream' = [stream EXCEPT ![c] = Opened("events", j, r)] /\ UNCHANGED out
  <2>1. /\ cl'[c] \in Frame /\ cl'[c].pc = "sse" /\ cl'[c].seen = r
        /\ cl'[c].cmd = cl[c].cmd /\ cl'[c].job = j
        /\ cl' \in [Clients -> Frame] /\ \A d \in Clients \ {c} : cl'[d] = cl[d]
    BY <1>1, <1>5 DEF Types, ClientsTyped, Frame, ClientPc
  <2>2. Opened("events", j, r) \in Stream
    BY <1>1 DEF Opened, Stream, StreamPc
  <2>3. /\ stream' \in [Clients -> Stream] /\ \A d \in Clients \ {c} : stream'[d] = stream[d]
        /\ stream'[c].pc = "events" /\ stream'[c].job = j /\ stream'[c].cursor = r
    BY <1>5, <2>2 DEF Types, ClientsTyped, Opened
  <2>4. ClientsTyped' /\ OthersSame(c)
    BY <1>2, <1>3, <1>5, <2>1, <2>3 DEF Types, ClientsTyped, OthersSame
  <2>5. InCommand(c)'
    BY <1>1, <1>2, <1>5, <2>1 DEF InCommand, VerbsAt, server
  <2>6. InStream(c)'
    BY <1>1, <2>1, <2>3 DEF InStream, NoStream
  <2>7. Brought(c)'
    BY <1>1, <1>2, <1>3, <2>1, <2>3 DEF Brought, VerbIn, server
  <2>8. CommandEnded(c)'
    BY <1>1, <1>5 DEF CommandEnded, EndKnown, ExitTrue, NoExit
  <2>9. QED  BY <2>4, <2>5, <2>6, <2>7, <2>8 DEF Done, ClientInv
<1>6. QED  BY <1>4, <1>5 DEF GetsSnapshot

\* The command follow, and where it goes on.
LEMMA FollowCommand ==
  ASSUME Types, NEW c \in Clients, cl[c].cmd.verb = "follow"
  PROVE  cl[c].cmd.cursor \in Nat \cup {None}
<1>1. cl[c].cmd \in [verb : {"follow"}, job : Jobs, cursor : Nat \cup {None}]
  <2>1. cl[c].cmd \in Command \cup {NoCommand}
    BY DEF Types, ClientsTyped, Frame
  <2>2. QED  BY <2>1 DEF Command, NoCommand
<1>2. QED  BY <1>1

\* A following client connects with the last revision it has got.
LEMMA ConnectsDone ==
  ASSUME Types, ServerInv, NEW c \in Clients, ClientInv(c), Connects(c)
  PROVE  Done(c)
<1> DEFINE j == cl[c].job
           pc == IF Resume(c) = None THEN "first" ELSE "events"
           s == Opened(pc, j, Resume(c))
<1>1. /\ cl[c].pc = "connect" /\ j \in Jobs /\ snap[j].revision > 0
      /\ cl[c].cmd.verb = "follow" /\ out[c] = NoExit /\ cl[c] \in Frame /\ cl[c].seen \in Nat
  BY DEF Connects, PcIs, ClientInv, InCommand, VerbsAt, Types, ClientsTyped, Frame
<1>2. Resume(c) \in Nat \cup {None}
  BY <1>1, FollowCommand DEF Resume
<1>3. /\ cl' = [cl EXCEPT ![c].pc = "sse"] /\ stream' = [stream EXCEPT ![c] = s]
      /\ UNCHANGED <<server, submissions, verdict, got, out, script, breaks>>
  BY DEF Connects
<1>4. /\ cl'[c] \in Frame /\ cl'[c].pc = "sse" /\ cl'[c].seen = cl[c].seen
      /\ cl'[c].cmd = cl[c].cmd /\ cl'[c].job = j
      /\ cl' \in [Clients -> Frame] /\ \A d \in Clients \ {c} : cl'[d] = cl[d]
  BY <1>1, <1>3 DEF Types, ClientsTyped, Frame, ClientPc
<1>5. s \in Stream /\ s.pc = pc /\ s.job = j /\ s.cursor = Resume(c)
  BY <1>1, <1>2 DEF Opened, Stream, StreamPc
<1> HIDE DEF s
<1>6. /\ stream' \in [Clients -> Stream] /\ \A d \in Clients \ {c} : stream'[d] = stream[d]
      /\ stream'[c] = s
  BY <1>3, <1>5 DEF Types, ClientsTyped
<1>7. ClientsTyped' /\ OthersSame(c)
  BY <1>3, <1>4, <1>6 DEF Types, ClientsTyped, OthersSame
<1>8. InCommand(c)'
  BY <1>1, <1>3, <1>4 DEF InCommand, VerbsAt, server
<1>9. InStream(c)'
  BY <1>1, <1>2, <1>4, <1>5, <1>6 DEF InStream, NoStream
<1>10. Brought(c)'
  <2>1. got[c] # << >> => Resume(c) = cl[c].seen /\ Resume(c) # None
    BY <1>1, ClientsAssumption DEF Resume
  <2>2. got[c] = << >> => Resume(c) = cl[c].cmd.cursor
    BY DEF Resume
  <2>3. QED  BY <1>1, <1>3, <1>4, <1>5, <1>6, <2>1, <2>2 DEF ClientInv, Brought, VerbIn, server
<1>11. CommandEnded(c)'
  BY <1>1, <1>3 DEF CommandEnded, EndKnown, ExitTrue, NoExit
<1>12. QED  BY <1>7, <1>8, <1>9, <1>10, <1>11 DEF Done, ClientInv

\* What is known of a client that reads its stream.
LEMMA Streaming ==
  ASSUME Types, NEW c \in Clients, ClientInv(c), cl[c].pc \in {"sse", "poll"}
  PROVE  /\ cl[c].job \in Jobs /\ snap[cl[c].job].revision \in Nat /\ snap[cl[c].job].revision > 0
         /\ cl[c] \in Frame /\ cl[c].seen \in Nat /\ stream[c] \in Stream /\ got[c] \in Seq(Nat)
         /\ out[c] = NoExit
         /\ stream[c].pc # "none" => Current(c) = snap[cl[c].job]
         /\ cl[c].cmd.verb \in {"run", "result", "watch", "follow", "start"}
BY DEF ClientInv, InCommand, InStream, VerbsAt, Types, ClientsTyped, ServerTyped, Server!Snapshot,
       Frame, Current

\* The step of an observe whose client stays where it is.
LEMMA ReadsDone ==
  ASSUME Types, NEW c \in Clients, ClientInv(c), StreamReads(c)
  PROVE  Done(c)
<1> DEFINE j == cl[c].job
           s == stream[c]
<1>1. /\ cl[c].pc = "sse" /\ UNCHANGED <<server, verdict, clients>>
      /\ ReadEvents(c) \/ CheckWaits(c) \/ CheckEnds(c)
  BY DEF StreamReads, PcIs
<1>2. /\ s.pc \in {"events", "check"} /\ s.job = j /\ s.cursor \in Nat /\ s \in Stream
      /\ Current(c) = snap[j] /\ j \in Jobs /\ snap[j].revision \in Nat /\ out[c] = NoExit
      /\ cl[c].seen \in Nat
      /\ s.cursor = IF got[c] # << >> THEN cl[c].seen ELSE cl[c].cmd.cursor
  BY <1>1, Streaming DEF ReadEvents, CheckWaits, CheckEnds, At, ClientInv, InStream, Brought
<1>3. CASE s.cursor < snap[j].revision
           /\ stream' = [stream EXCEPT ![c].pc = "yield", ![c].upto = snap[j].revision]
  <2>1. /\ stream'[c].pc = "yield" /\ stream'[c].upto = snap[j].revision
        /\ stream'[c].job = j /\ stream'[c].cursor = s.cursor /\ stream'[c] \in Stream
        /\ \A d \in Clients \ {c} : stream'[d] = stream[d]
        /\ stream' \in [Clients -> Stream]
    BY <1>2, <1>3 DEF Types, ClientsTyped, Stream, StreamPc
  <2>2. ClientsTyped' /\ OthersSame(c) /\ InCommand(c)' /\ CommandEnded(c)'
    BY <1>1, <2>1 DEF Types, ClientsTyped, OthersSame, clients, server, ClientInv, InCommand,
                      CommandEnded, EndKnown, ExitTrue, Ended
  <2>3. InStream(c)'
    <3>1. s.cursor < snap[j].revision /\ UNCHANGED <<cl, snap>>
      BY <1>1, <1>3 DEF clients, server
    <3>2. QED  BY <1>1, <1>2, <2>1, <3>1 DEF InStream, NoStream
  <2>4. Brought(c)'
    BY <1>1, <1>2, <2>1 DEF ClientInv, Brought, VerbIn, clients, server
  <2>5. QED  BY <2>2, <2>3, <2>4 DEF Done, ClientInv
<1>4. ASSUME NEW pc \in {"events", "check"}, stream' = [stream EXCEPT ![c].pc = pc]
      PROVE  Done(c)
  <2>1. /\ stream'[c].pc = pc /\ stream'[c].job = j /\ stream'[c].cursor = s.cursor
        /\ stream'[c] \in Stream /\ \A d \in Clients \ {c} : stream'[d] = stream[d]
        /\ stream' \in [Clients -> Stream]
    BY <1>2, <1>4 DEF Types, ClientsTyped, Stream, StreamPc
  <2>2. ClientsTyped' /\ OthersSame(c) /\ InCommand(c)' /\ CommandEnded(c)'
    BY <1>1, <2>1 DEF Types, ClientsTyped, OthersSame, clients, server, ClientInv, InCommand,
                      CommandEnded, EndKnown, ExitTrue, Ended
  <2>3. InStream(c)'
    BY <1>1, <1>2, <2>1 DEF InStream, NoStream, clients, server
  <2>4. Brought(c)'
    BY <1>1, <1>2, <2>1 DEF ClientInv, Brought, VerbIn, clients, server
  <2>5. QED  BY <2>2, <2>3, <2>4 DEF Done, ClientInv
<1>5. CASE CheckEnds(c)
  <2>1. /\ Ended(j) /\ snap[j].revision <= s.cursor
    BY <1>2, <1>5 DEF CheckEnds, NothingLeft, Ended
  <2>2. /\ stream' \in [Clients -> Stream] /\ stream'[c] = NoStream
        /\ \A d \in Clients \ {c} : stream'[d] = stream[d]
    BY <1>5, ClosedStream DEF CheckEnds, Types
  <2>3. ClientsTyped' /\ OthersSame(c) /\ InCommand(c)' /\ CommandEnded(c)'
    BY <1>1, <2>2 DEF Types, ClientsTyped, OthersSame, clients, server, ClientInv, InCommand,
                      CommandEnded, EndKnown, ExitTrue, Ended
  <2>4. InStream(c)'
    BY <1>1, <2>2 DEF InStream, NoStream, clients
  <2>5. got[c] # << >> => cl[c].seen = snap[j].revision
    BY <1>1, <1>2, <2>1 DEF ClientInv, Brought
  <2>6. Ended(j)' /\ UNCHANGED <<snap, cl, got>>
    BY <1>1, <2>1 DEF Ended, clients, server
  <2>7. Brought(c)'
    BY <1>1, <1>2, <2>2, <2>5, <2>6 DEF ClientInv, Brought, VerbIn, NoStream
  <2>8. QED  BY <2>3, <2>4, <2>7 DEF Done, ClientInv
<1>6. CASE ReadEvents(c)
  BY <1>2, <1>3, <1>4, <1>6 DEF ReadEvents, Goto
<1>7. CASE CheckWaits(c)
  BY <1>4, <1>7 DEF CheckWaits, Goto
<1>8. QED  BY <1>1, <1>5, <1>6, <1>7

\* One event over the stream: the next revision after the last one.
LEMMA DeliversDone ==
  ASSUME Types, ServerInv, NEW c \in Clients, ClientInv(c), StreamDelivers(c)
  PROVE  Done(c)
<1> DEFINE j == cl[c].job
           s == stream[c]
<1>1. PICK r \in 1 .. snap[j].revision :
        /\ Yields(c, r) /\ stream' = [stream EXCEPT ![c] = AfterYield(c, r)]
        /\ got' = [got EXCEPT ![c] = Append(@, r)]
        /\ cl' = [cl EXCEPT ![c].seen = r]
  BY DEF StreamDelivers
<1>2. cl[c].pc = "sse" /\ UNCHANGED <<server, verdict, out, script, breaks>>
  BY DEF StreamDelivers, PcIs
<1>3. /\ s.pc \in {"first", "yield"} /\ s.job = j /\ s \in Stream /\ Current(c) = snap[j]
      /\ j \in Jobs /\ snap[j].revision \in Nat /\ snap[j].revision > 0 /\ r \in Nat
      /\ out[c] = NoExit /\ cl[c] \in Frame /\ got[c] \in Seq(Nat) /\ cl[c].seen \in Nat
  BY <1>1, <1>2, Streaming DEF Yields, At, ClientInv, InStream
<1>4. /\ cl'[c] \in Frame /\ cl'[c].pc = "sse" /\ cl'[c].seen = r
      /\ cl'[c].cmd = cl[c].cmd /\ cl'[c].job = j
      /\ cl' \in [Clients -> Frame] /\ \A d \in Clients \ {c} : cl'[d] = cl[d]
  BY <1>1, <1>2, <1>3 DEF Types, ClientsTyped, Frame
<1>5. /\ got'[c] = Append(got[c], r) /\ got'[c] \in Seq(Nat) /\ got'[c] # << >>
      /\ Len(got'[c]) = Len(got[c]) + 1 /\ got'[c][Len(got'[c])] = r
      /\ \A k \in 1 .. Len(got[c]) : got'[c][k] = got[c][k]
      /\ got' \in [Clients -> Seq(Nat)] /\ \A d \in Clients \ {c} : got'[d] = got[d]
  BY <1>1, <1>3 DEF Types, ClientsTyped
<1>6. got[c] # << >> => s.pc = "yield" /\ r = got[c][Len(got[c])] + 1
  <2>1. SUFFICES ASSUME got[c] # << >> PROVE s.pc = "yield" /\ r = got[c][Len(got[c])] + 1
    OBVIOUS
  <2>2. s.pc = "yield"
    BY <1>2, <1>3, <2>1 DEF ClientInv, Brought
  <2>3. r = s.cursor + 1 /\ s.cursor = cl[c].seen
    BY <1>1, <1>2, <2>1, <2>2 DEF ClientInv, Brought, Yields, At
  <2>4. got[c][Len(got[c])] = cl[c].seen
    BY <1>2, <2>1 DEF ClientInv, Brought
  <2>5. QED  BY <2>2, <2>3, <2>4
<1>7. got[c] = << >> /\ VerbIn(c, {"follow"}) /\ cl[c].cmd.cursor # None => r = cl[c].cmd.cursor + 1
  BY <1>1, <1>2, <1>3 DEF ClientInv, Brought, Yields, At
<1>8. \A k \in 2 .. Len(got'[c]) : got'[c][k] = got'[c][k - 1] + 1
  <2>1. SUFFICES ASSUME NEW k \in 2 .. Len(got'[c]) PROVE got'[c][k] = got'[c][k - 1] + 1
    OBVIOUS
  <2>2. Len(got[c]) \in Nat /\ k \in Nat /\ k - 1 \in 1 .. Len(got[c])
    BY <1>3, <1>5
  <2>3. CASE k = Len(got[c]) + 1
    BY <1>3, <1>5, <1>6, <2>2, <2>3
  <2>4. CASE k # Len(got[c]) + 1
    <3>1. k \in 2 .. Len(got[c])
      BY <1>5, <2>2, <2>4
    <3>2. got[c][k] = got[c][k - 1] + 1
      BY <3>1 DEF ClientInv, Brought
    <3>3. QED  BY <1>5, <2>2, <3>1, <3>2
  <2>5. QED  BY <2>3, <2>4
<1>9. VerbIn(c, {"follow"}) /\ cl[c].cmd.cursor # None => got'[c][1] = cl[c].cmd.cursor + 1
  <2>1. CASE got[c] = << >>
    BY <1>5, <1>7, <2>1
  <2>2. CASE got[c] # << >>
    <3>1. 1 \in 1 .. Len(got[c])
      BY <1>3, <2>2
    <3>2. QED  BY <1>5, <2>2, <3>1 DEF ClientInv, Brought
  <2>3. QED  BY <2>1, <2>2
<1>10. InCommand(c)' /\ CommandEnded(c)'
  BY <1>2, <1>3, <1>4 DEF ClientInv, InCommand, VerbsAt, server, CommandEnded, EndKnown, ExitTrue, NoExit
<1>11. CASE Event(j, r).state \in Terminal
  <2>1. Ended(j) /\ r = snap[j].revision
    BY <1>3, <1>11, LastEvent
  <2>2. Closed(c)
    BY <1>1, <1>3, <1>11 DEF AfterYield, Closed
  <2>3. /\ stream' \in [Clients -> Stream] /\ stream'[c] = NoStream
        /\ \A d \in Clients \ {c} : stream'[d] = stream[d]
    BY <2>2, ClosedStream DEF Types
  <2>4. ClientsTyped' /\ OthersSame(c)
    BY <1>2, <1>4, <1>5, <2>3 DEF Types, ClientsTyped, OthersSame
  <2>5. InStream(c)'
    BY <1>4, <2>3 DEF InStream, NoStream
  <2>6. Ended(j)' /\ snap' = snap
    BY <1>2, <1>4, <2>1 DEF Ended, server
  <2>7. Brought(c)'
    <3>1. /\ Ended(cl[c].job)' /\ cl'[c].seen = snap'[cl'[c].job].revision
          /\ cl'[c].seen <= snap'[cl'[c].job].revision
          /\ got'[c][Len(got'[c])] = cl'[c].seen /\ stream'[c].pc = "none"
      BY <1>3, <1>4, <1>5, <2>1, <2>3, <2>6 DEF NoStream
    <3>2. (VerbIn(c, {"follow"}) /\ cl[c].cmd.cursor # None)' => got'[c][1] = cl'[c].cmd.cursor + 1
      BY <1>4, <1>9 DEF VerbIn
    <3>3. QED  BY <1>5, <1>8, <3>1, <3>2 DEF Brought
  <2>8. QED  BY <1>10, <2>4, <2>5, <2>7 DEF Done, ClientInv
<1>12. CASE Event(j, r).state \notin Terminal
  <2> DEFINE pc == IF At(c, "yield") /\ r < s.upto THEN "yield" ELSE "events"
  <2>1. stream' = [stream EXCEPT ![c] = [s EXCEPT !.cursor = r, !.pc = pc]]
    BY <1>1, <1>3, <1>12 DEF AfterYield
  <2>2. /\ stream' \in [Clients -> Stream] /\ stream'[c].pc = pc /\ stream'[c].job = j
        /\ stream'[c].cursor = r /\ stream'[c].upto = s.upto
        /\ \A d \in Clients \ {c} : stream'[d] = stream[d]
    BY <1>3, <2>1 DEF Types, ClientsTyped, Stream, StreamPc
  <2>3. pc = "yield" => r < s.upto /\ s.upto <= snap[j].revision
    BY <1>2 DEF ClientInv, InStream, At
  <2>4. pc \in {"yield", "events"}
    OBVIOUS
  <2> HIDE DEF pc
  <2>5. ClientsTyped' /\ OthersSame(c)
    BY <1>2, <1>4, <1>5, <2>2 DEF Types, ClientsTyped, OthersSame
  <2>6. InStream(c)'
    BY <1>2, <1>3, <1>4, <2>2, <2>3, <2>4 DEF InStream, NoStream, server
  <2>7. Brought(c)'
    BY <1>2, <1>3, <1>4, <1>5, <1>8, <1>9, <2>2, <2>4 DEF Brought, VerbIn, server
  <2>8. QED  BY <1>10, <2>5, <2>6, <2>7 DEF Done, ClientInv
<1>13. QED  BY <1>11, <1>12

\* The response is at its end, which comes after the last snapshot only.
LEMMA EndedDone ==
  ASSUME Types, ServerInv, NEW c \in Clients, ClientInv(c), StreamEnded(c)
  PROVE  Done(c)
<1>1. /\ cl[c].pc = "sse" /\ stream[c] = NoStream /\ EndWith(c, cl[c].job, cl[c].seen)
      /\ UNCHANGED <<server, stream, verdict, got, script, breaks>>
  BY DEF StreamEnded, PcIs
<1>2. /\ Ended(cl[c].job)
      /\ got[c] # << >> => cl[c].seen = snap[cl[c].job].revision
      /\ got[c] # << >> => got[c][Len(got[c])] = cl[c].seen
      /\ \A k \in 2 .. Len(got[c]) : got[c][k] = got[c][k - 1] + 1
      /\ ~VerbIn(c, {"follow"}) => got[c] # << >>
  BY <1>1 DEF ClientInv, Brought, NoStream
<1>3. VerbIn(c, {"run", "start", "result"}) => cl[c].seen = snap[cl[c].job].revision
  BY <1>2 DEF VerbIn
<1>4. /\ got' \in [Clients -> Seq(Nat)] /\ stream' \in [Clients -> Stream] /\ stream'[c] = NoStream
      /\ got' = got /\ stream' = stream
  BY <1>1 DEF Types, ClientsTyped
<1>5. VerbIn(c, {"watch", "follow"}) /\ got'[c] # << >>
        => got'[c][Len(got'[c])] = snap[cl[c].job].revision
  BY <1>2, <1>4
<1>6. \A k \in 2 .. Len(got'[c]) : got'[c][k] = got'[c][k - 1] + 1
  BY <1>2, <1>4
<1>7. QED  BY <1>1, <1>2, <1>3, <1>4, <1>5, <1>6, EndDone

\* A connection is lost: the cursor of a following client stays where its stream was.
LEMMA BreaksDone ==
  ASSUME Types, NEW c \in Clients, ClientInv(c), StreamBreaks(c)
  PROVE  Done(c)
<1>1. cl[c].pc = "sse" /\ Closed(c) /\ UNCHANGED <<server, verdict, got, script>>
  BY DEF StreamBreaks, PcIs
<1>2. /\ stream' \in [Clients -> Stream] /\ stream'[c] = NoStream
      /\ \A d \in Clients \ {c} : stream'[d] = stream[d]
  BY <1>1, ClosedStream DEF Types
<1>3. CASE ~VerbIn(c, {"follow"})
  BY <1>1, <1>2, <1>3, LeaveDone DEF StreamBreaks
<1>4. CASE VerbIn(c, {"follow"})
  <2>1. /\ breaks' = [breaks EXCEPT ![c] = @ + 1] /\ cl' = [cl EXCEPT ![c].pc = "connect"]
        /\ UNCHANGED out
    BY <1>4 DEF StreamBreaks
  <2>2. /\ cl'[c] \in Frame /\ cl'[c].pc = "connect" /\ cl'[c].seen = cl[c].seen
        /\ cl'[c].cmd = cl[c].cmd /\ cl'[c].job = cl[c].job
        /\ cl' \in [Clients -> Frame] /\ \A d \in Clients \ {c} : cl'[d] = cl[d]
    BY <2>1 DEF Types, ClientsTyped, Frame, ClientPc
  <2>8. breaks' \in [Clients -> Nat]
    BY <2>1 DEF Types, ClientsTyped
  <2>3. ClientsTyped' /\ OthersSame(c)
    BY <1>1, <1>2, <2>1, <2>2, <2>8 DEF Types, ClientsTyped, OthersSame
  <2>4. InCommand(c)' /\ InStream(c)'
    BY <1>1, <1>2, <1>4, <2>1, <2>2 DEF ClientInv, InCommand, InStream, VerbsAt, VerbIn, NoStream, server
  <2>5. Brought(c)'
    BY <1>1, <1>2, <2>2 DEF ClientInv, Brought, VerbIn, server
  <2>6. CommandEnded(c)'
    BY <1>1, <2>1 DEF ClientInv, InCommand, CommandEnded, EndKnown, ExitTrue, NoExit
  <2>7. QED  BY <2>3, <2>4, <2>5, <2>6 DEF Done, ClientInv
<1>5. QED  BY <1>3, <1>4

\* A poll that goes on in its coroutine.
LEMMA PollGoesOn ==
  ASSUME Types, NEW c \in Clients, ClientInv(c), cl[c].pc = "poll",
         UNCHANGED <<server, verdict, clients>>,
         NEW s \in Stream, stream' = [stream EXCEPT ![c] = s],
         s.job = cl[c].job, s.pc \in {"get", "events", "check", "yield", "last"},
         s.pc # "last" => s.cursor \in Nat,
         s.pc = "yield" => s.cursor < s.upto /\ s.upto <= snap[s.job].revision
  PROVE  Done(c)
<1>1. /\ stream' \in [Clients -> Stream] /\ stream'[c] = s
      /\ \A d \in Clients \ {c} : stream'[d] = stream[d]
  BY DEF Types, ClientsTyped
<1>2. ClientsTyped' /\ OthersSame(c) /\ InCommand(c)' /\ CommandEnded(c)'
  BY <1>1 DEF Types, ClientsTyped, OthersSame, clients, server, ClientInv, InCommand,
              CommandEnded, EndKnown, ExitTrue, Ended
<1>3. UNCHANGED <<snap, cl, got>>
  BY DEF server, clients
<1>4. InStream(c)'
  BY <1>1, <1>3 DEF InStream, NoStream
<1>5. Brought(c)'
  BY <1>3 DEF ClientInv, Brought, VerbIn
<1>6. QED  BY <1>2, <1>4, <1>5 DEF Done, ClientInv

\* The coroutine behind a long poll, until it has an answer (cli.py, _control_wait).
LEMMA PollsDone ==
  ASSUME Types, NEW c \in Clients, ClientInv(c), Polls(c) \/ PollReads(c) \/ PollTimesOut(c)
  PROVE  Done(c)
<1> DEFINE s == stream[c]
           r == snap[cl[c].job].revision
<1>1. cl[c].pc = "poll" /\ UNCHANGED <<server, verdict, clients>>
  BY DEF Polls, PollReads, PollTimesOut, PcIs
<1>2. s \in Stream /\ cl[c].seen \in Nat /\ cl[c].job \in Jobs /\ r \in Nat
  BY <1>1, Streaming
<1>3. CASE Polls(c)
  <2>1. Opened("get", cl[c].job, cl[c].seen) \in Stream
    BY <1>2 DEF Opened, Stream, StreamPc
  <2>2. stream' = [stream EXCEPT ![c] = Opened("get", cl[c].job, cl[c].seen)]
    BY <1>3 DEF Polls
  <2>3. QED  BY <1>1, <1>2, <2>1, <2>2, PollGoesOn DEF Opened
<1>4. ASSUME NEW pc \in {"events", "last", "check"}, Goto(c, pc), s.pc # "none",
             pc # "last" => s.cursor \in Nat
      PROVE  Done(c)
  <2> DEFINE t == [s EXCEPT !.pc = pc]
  <2>1. /\ stream' = [stream EXCEPT ![c] = t] /\ t \in Stream /\ t.pc = pc
        /\ t.cursor = s.cursor /\ t.job = s.job
    BY <1>2, <1>4 DEF Goto, Stream, StreamPc
  <2>2. s.job = cl[c].job
    BY <1>4 DEF ClientInv, InStream
  <2> HIDE DEF t
  <2>3. QED  BY <1>1, <1>4, <2>1, <2>2, PollGoesOn
<1>5. s.pc \in {"events", "check"} => s.cursor \in Nat
  BY DEF ClientInv, InStream
<1>6. CASE PollTimesOut(c)
  BY <1>4, <1>6 DEF PollTimesOut
<1>7. CASE ReadEvents(c)
  <2>1. s.pc = "events" /\ Current(c) = snap[cl[c].job] /\ s.job = cl[c].job
    BY <1>1, <1>7, Streaming DEF ReadEvents, At, ClientInv, InStream
  <2>2. CASE r > s.cursor /\ stream' = [stream EXCEPT ![c].pc = "yield", ![c].upto = r]
    <3> DEFINE t == [s EXCEPT !.pc = "yield", !.upto = r]
    <3>1. /\ stream' = [stream EXCEPT ![c] = t] /\ t \in Stream /\ t.pc = "yield"
          /\ t.cursor = s.cursor /\ t.job = cl[c].job /\ t.upto = r
      BY <1>2, <2>1, <2>2 DEF Stream, StreamPc
    <3> HIDE DEF t
    <3>2. t.cursor \in Nat /\ t.cursor < t.upto /\ t.upto <= snap[t.job].revision
      BY <1>2, <1>5, <2>1, <2>2, <3>1
    <3>3. QED  BY <1>1, <1>2, <3>1, <3>2, PollGoesOn
  <2>3. CASE Goto(c, "check")
    BY <1>4, <1>5, <2>1, <2>3
  <2>4. QED  BY <1>7, <2>1, <2>2, <2>3 DEF ReadEvents
<1>8. CASE CheckWaits(c)
  BY <1>4, <1>5, <1>8 DEF CheckWaits, At
<1>9. CASE At(c, "check") /\ NothingLeft(c) /\ Goto(c, "last")
  BY <1>4, <1>9 DEF At
<1>10. QED  BY <1>3, <1>6, <1>7, <1>8, <1>9 DEF PollReads

\* The answer of a poll: with a terminal snapshot the command ends.
LEMMA ReturnsDone ==
  ASSUME Types, ServerInv, NEW c \in Clients, ClientInv(c), cl[c].pc = "poll",
         NEW r \in 1 .. snap[cl[c].job].revision, Returns(c, r)
  PROVE  Done(c)
<1> DEFINE j == cl[c].job
<1>1. /\ Closed(c) /\ UNCHANGED <<server, verdict, got, script, breaks>>
  BY DEF Returns
<1>2. /\ j \in Jobs /\ cl[c].cmd.verb = "start" /\ cl[c] \in Frame /\ r \in Nat /\ out[c] = NoExit
  BY Streaming DEF ClientInv, InCommand, VerbsAt
<1>3. /\ stream' \in [Clients -> Stream] /\ stream'[c] = NoStream
      /\ \A d \in Clients \ {c} : stream'[d] = stream[d]
  BY <1>1, ClosedStream DEF Types
<1>4. CASE Event(j, r).state \in Terminal /\ EndWith(c, j, r)
  <2>1. Ended(j) /\ r = snap[j].revision
    BY <1>2, <1>4, LastEvent
  <2>2. got' = got /\ got' \in [Clients -> Seq(Nat)] /\ ~VerbIn(c, {"watch", "follow"})
    BY <1>1, <1>2 DEF Types, ClientsTyped, VerbIn
  <2>3. \A k \in 2 .. Len(got'[c]) : got'[c][k] = got'[c][k - 1] + 1
    BY <2>2 DEF ClientInv, Brought
  <2>4. QED  BY <1>1, <1>3, <1>4, <2>1, <2>2, <2>3, EndDone
<1>5. CASE cl' = [cl EXCEPT ![c].seen = r] /\ UNCHANGED out
  <2>1. /\ cl'[c] \in Frame /\ cl'[c].pc = "poll" /\ cl'[c].cmd = cl[c].cmd /\ cl'[c].job = j
        /\ cl' \in [Clients -> Frame] /\ \A d \in Clients \ {c} : cl'[d] = cl[d]
    BY <1>2, <1>5 DEF Types, ClientsTyped, Frame
  <2>2. ClientsTyped' /\ OthersSame(c)
    BY <1>1, <1>3, <1>5, <2>1 DEF Types, ClientsTyped, OthersSame
  <2>3. InCommand(c)' /\ InStream(c)'
    BY <1>1, <1>2, <1>3, <1>5, <2>1 DEF ClientInv, InCommand, InStream, VerbsAt, NoStream, server
  <2>4. Brought(c)'
    BY <1>1, <1>2, <1>3, <2>1 DEF ClientInv, Brought, VerbIn
  <2>5. CommandEnded(c)'
    BY <1>2, <1>5 DEF CommandEnded, EndKnown, ExitTrue, NoExit
  <2>6. QED  BY <2>2, <2>3, <2>4, <2>5 DEF Done, ClientInv
<1>6. QED  BY <1>4, <1>5 DEF Returns

\* The three ways a poll is answered (test_control.py, get_test).
LEMMA PollAnswersDone ==
  ASSUME Types, ServerInv, NEW c \in Clients, ClientInv(c),
         PollGets(c) \/ PollYields(c) \/ PollLast(c)
  PROVE  Done(c)
<1> DEFINE s == stream[c]
           j == cl[c].job
<1>1. cl[c].pc = "poll"
  BY DEF PollGets, PollYields, PollLast, PcIs
<1>2. /\ j \in Jobs /\ snap[j].revision \in 1 .. snap[j].revision /\ s \in Stream
      /\ s.pc # "none" => Current(c) = snap[j] /\ s.job = j
  BY <1>1, Streaming DEF ClientInv, InStream
<1>3. CASE PollYields(c)
  BY <1>1, <1>3, ReturnsDone DEF PollYields
<1>4. CASE PollLast(c)
  BY <1>1, <1>2, <1>4, ReturnsDone DEF PollLast, At
<1>5. CASE PollGets(c)
  <2>1. s.pc = "get" /\ s.cursor \in Nat
    BY <1>5 DEF PollGets, At, ClientInv, InStream
  <2>2. CASE Returns(c, Current(c).revision)
    BY <1>1, <1>2, <2>1, <2>2, ReturnsDone
  <2>3. CASE Goto(c, "events") /\ UNCHANGED <<server, submissions, verdict, clients>>
    <3> DEFINE t == [s EXCEPT !.pc = "events"]
    <3>1. /\ stream' = [stream EXCEPT ![c] = t] /\ t \in Stream /\ t.pc = "events"
          /\ t.cursor = s.cursor /\ t.job = s.job
      BY <1>2, <2>3 DEF Goto, Stream, StreamPc
    <3> HIDE DEF t
    <3>2. QED  BY <1>1, <1>2, <2>1, <2>3, <3>1, PollGoesOn
  <2>4. QED  BY <1>5, <2>2, <2>3 DEF PollGets
<1>6. QED  BY <1>3, <1>4, <1>5

\* A submission or a cancellation that has been answered: the command waits ...
LEMMA WaitsDone ==
  ASSUME Types, ServerKept, NEW c \in Clients, ClientInv(c), cl[c].pc \in {"post", "cancel"},
         UNCHANGED <<stream, got, out, script, breaks>>,
         NEW f \in Frame, cl' = [cl EXCEPT ![c] = f],
         f.cmd = cl[c].cmd, f.job \in Jobs, snap'[f.job].revision > 0,
         (f.pc = "get" /\ f.cmd.verb = "run") \/ (f.pc = "poll" /\ f.cmd.verb = "start")
  PROVE  Done(c)
<1>1. cl'[c] = f /\ ClientsTyped' /\ OthersSame(c)
  BY DEF Types, ClientsTyped, OthersSame
<1>2. out'[c] = NoExit /\ stream'[c] = NoStream
  BY DEF ClientInv, InCommand, InStream
<1>3. InCommand(c)' /\ InStream(c)'
  BY <1>1, <1>2 DEF InCommand, InStream, VerbsAt, NoStream
<1>4. Brought(c)'
  BY <1>1 DEF ClientInv, Brought, VerbIn
<1>5. CommandEnded(c)'
  BY <1>2 DEF CommandEnded, EndKnown, ExitTrue, NoExit
<1>6. QED  BY <1>1, <1>3, <1>4, <1>5 DEF Done, ClientInv

\* ... or it ends with it.
LEMMA AnsweredDone ==
  ASSUME Types, ServerKept, NEW c \in Clients, ClientInv(c), cl[c].pc \in {"post", "cancel"},
         cl[c].cmd.verb \in {"submit", "cancel"}, NEW j \in Jobs, Leave(c, 0, j),
         UNCHANGED <<stream, got, script, breaks>>
  PROVE  Done(c)
<1> DEFINE rec == [verb |-> cl[c].cmd.verb, code |-> 0, job |-> j]
<1>1. rec \in Exit /\ Idle \in Frame
  BY DEF Exit, Verb, Idle, Frame, ClientPc
<1>2. cl' = [cl EXCEPT ![c] = Idle] /\ out' = [out EXCEPT ![c] = rec] /\ rec.verb = cl[c].cmd.verb
  BY DEF Leave
<1> HIDE DEF rec
<1>3. cl'[c] = Idle /\ out'[c] = rec /\ ClientsTyped' /\ OthersSame(c)
  BY <1>1, <1>2 DEF Types, ClientsTyped, OthersSame
<1>4. InCommand(c)'
  BY <1>3 DEF InCommand, Idle, VerbsAt, NoCommand, Verb
<1>5. InStream(c)'
  BY <1>3 DEF ClientInv, InStream, Idle, NoStream
<1>6. Brought(c)'
  BY <1>3 DEF ClientInv, Brought, Idle, VerbIn, NoCommand
<1>7. CommandEnded(c)'
  BY <1>2, <1>3 DEF CommandEnded, EndKnown, ExitTrue
<1>8. QED  BY <1>3, <1>4, <1>5, <1>6, <1>7 DEF Done, ClientInv

\* The cancel of a command, and the one of an interrupted wait, which waits again.
LEMMA CancelsDone ==
  ASSUME Types, ServerInv, NEW c \in Clients, ClientInv(c), Cancels(c)
  PROVE  ServerKept /\ Done(c)
<1> DEFINE j == cl[c].job
           f == [cl[c] EXCEPT !.pc = IF VerbIn(c, {"run"}) THEN "get" ELSE "poll",
                              !.again = TRUE, !.seen = cl[c].since]
<1>1. /\ cl[c].pc = "cancel" /\ j \in Jobs /\ snap[j].revision > 0 /\ snap[j].revision \in Nat
      /\ cl[c].cmd.verb \in {"cancel", "run", "start"} /\ cl[c] \in Frame
      /\ UNCHANGED <<submissions, stream, verdict, got, script, breaks>>
  BY DEF Cancels, PcIs, ClientInv, InCommand, VerbsAt, Types, ClientsTyped, ServerTyped, Server!Snapshot
<1>2. ServerKept
  BY <1>1, Marks, ServerStays DEF Cancels, Types
<1>3. snap'[j].revision > 0
  BY <1>1, <1>2 DEF ServerKept, ServerTyped, Server!Snapshot, Kept
<1>4. CASE cl[c].cmd.verb = "cancel"
  BY <1>1, <1>2, <1>4, AnsweredDone DEF Cancels, VerbIn
<1>5. CASE cl[c].cmd.verb \in {"run", "start"}
  <2>1. cl' = [cl EXCEPT ![c] = f] /\ UNCHANGED out
    BY <1>5 DEF Cancels, VerbIn
  <2>2. /\ f \in Frame /\ f.cmd = cl[c].cmd /\ f.job = j
        /\ (f.pc = "get" /\ f.cmd.verb = "run") \/ (f.pc = "poll" /\ f.cmd.verb = "start")
    BY <1>1, <1>5 DEF Frame, ClientPc, VerbIn
  <2> HIDE DEF f
  <2>3. QED  BY <1>1, <1>2, <1>3, <2>1, <2>2, WaitsDone
<1>6. QED  BY <1>1, <1>2, <1>4, <1>5

\* An answered submission: the row is there before the answer is.
LEMMA SubmittedDone ==
  ASSUME Types, ServerInv, Rows, NEW c \in Clients, ClientInv(c), NEW j \in Jobs,
         SubmissionAnswered(c, j)
  PROVE  ServerKept /\ RowsTyped' /\ Rows' /\ Done(c)
<1> DEFINE q == Posted(c)
           f == [cl[c] EXCEPT !.pc = IF VerbIn(c, {"start"}) THEN "poll" ELSE "get",
                              !.job = j, !.seen = snap'[j].revision, !.since = snap'[j].revision]
           a == [owner |-> PrincipalOf[c], key |-> KeyOf(c), document |-> cl[c].cmd.document, job |-> j]
<1>1. /\ cl[c].pc = "post" /\ Stores(q, j) /\ answered' = answered \cup {a}
      /\ cl[c].cmd.verb \in {"run", "start", "submit"} /\ cl[c] \in Frame
      /\ UNCHANGED <<late, stream, verdict, got, script, breaks>>
  BY DEF SubmissionAnswered, PcIs, ClientInv, InCommand, VerbsAt, Types, ClientsTyped
<1>2. q \in Request
  BY <1>1, PostedRequest DEF PcIs, ClientInv
<1>3. q.owner = a.owner /\ q.key = a.key /\ q.document = a.document /\ a.job = j
  BY DEF Posted
<1>4. a \in Answer
  <2>1. q.owner \in Principals /\ q.key \in AnyKey /\ q.document \in Documents
    BY <1>2 DEF Request
  <2>2. QED  BY <1>3, <2>1 DEF Answer
<1> HIDE DEF q, a
<1>5. ServerKept
  BY <1>1, StoresKeeps DEF Types
<1>6. /\ row' \in [Jobs -> Request \cup {NoRow}]
      /\ \A i \in Known : i \in Known' /\ row'[i] = row[i]
      /\ j \in Known' /\ row'[j].owner = q.owner /\ row'[j].key = q.key
      /\ row'[j].document = q.document
      /\ \A i \in Known' : snap'[i].revision > 0
      /\ \A i, k \in Known' : row'[i].owner = row'[k].owner /\ row'[i].key = row'[k].key => i = k
      /\ RetriesFollow'
  BY <1>1, <1>2, StoredRow DEF Types
<1>7. RowsTyped'
  BY <1>1, <1>4, <1>6 DEF Types, RowsTyped
<1>8. Rows'
  <2>1. ASSUME NEW b \in answered
        PROVE  /\ b.job \in Known' /\ row'[b.job].owner = b.owner /\ row'[b.job].key = b.key
               /\ row'[b.job].document = b.document
    BY <1>6 DEF Rows
  <2>2. /\ a.job \in Known' /\ row'[a.job].owner = a.owner /\ row'[a.job].key = a.key
        /\ row'[a.job].document = a.document
    BY <1>3, <1>6
  <2>3. QED  BY <1>1, <1>6, <2>1, <2>2 DEF Rows
<1>9. snap'[j].revision > 0 /\ snap'[j].revision \in Nat
  BY <1>5, <1>6 DEF ServerKept, ServerTyped, Server!Snapshot
<1>10. Done(c)
  <2>1. CASE cl[c].cmd.verb = "submit"
    BY <1>1, <1>5, <2>1, AnsweredDone DEF SubmissionAnswered, VerbIn
  <2>2. CASE cl[c].cmd.verb \in {"run", "start"}
    <3>1. cl' = [cl EXCEPT ![c] = f] /\ UNCHANGED out
      BY <2>2 DEF SubmissionAnswered, VerbIn
    <3>2. /\ f \in Frame /\ f.cmd = cl[c].cmd /\ f.job = j
          /\ (f.pc = "get" /\ f.cmd.verb = "run") \/ (f.pc = "poll" /\ f.cmd.verb = "start")
      BY <1>1, <1>9, <2>2 DEF Frame, ClientPc, VerbIn
    <3> HIDE DEF f
    <3>3. QED  BY <1>1, <1>5, <1>9, <3>1, <3>2, WaitsDone
  <2>3. QED  BY <1>1, <2>1, <2>2
<1>11. QED  BY <1>5, <1>7, <1>8, <1>10

-----------------------------------------------------------------------------
(* Every step *)

\* A step of one client, with what the Agent and the rows become.
LEMMA ClientStep ==
  ASSUME Inv, NEW c \in Clients, Done(c), ServerKept, RowsTyped', Rows'
  PROVE  Inv'
<1>1. ASSUME NEW d \in Clients \ {c} PROVE ClientInv(d)'
  BY ClientStays DEF Inv, Done, OthersSame
<1>2. QED  BY <1>1 DEF Inv, Done, Types, ServerKept

\* A step of the Agent alone.
LEMMA AgentStep ==
  ASSUME Inv, UNCHANGED <<stream, clients>>, ServerKept, RowsTyped', Rows'
  PROVE  Inv'
<1>1. ASSUME NEW d \in Clients PROVE ClientInv(d)'
  BY ClientStays DEF Inv, clients
<1>2. ClientsTyped'
  BY DEF Inv, Types, ClientsTyped, clients
<1>3. QED  BY <1>1, <1>2 DEF Inv, Types, ServerKept

\* Submissions that are neither stored nor answered.
LEMMA RowsUnchanged ==
  ASSUME Inv, ServerKept, UNCHANGED <<row, answered>>, late' \subseteq Request
  PROVE  RowsTyped' /\ Rows'
BY RowsStay DEF Inv, Types, RowsTyped

\* The steps of the Agent: work, somebody else's cancel, a late submission.
LEMMA AgentMoves ==
  ASSUME Inv, Agent
  PROVE  Inv'
<1>1. CASE \E j \in Jobs : Advances(j) \/ CancelledElsewhere(j)
  <2>1. PICK j \in Jobs : Advances(j) \/ CancelledElsewhere(j)
    BY <1>1
  <2>2. ServerKept
    <3>1. CASE Advances(j)
      BY <3>1, AdvancesKeeps DEF Inv, Types
    <3>2. CASE CancelledElsewhere(j)
      BY <3>2, Marks DEF CancelledElsewhere, Inv, Types
    <3>3. QED  BY <2>1, <3>1, <3>2
  <2>3. UNCHANGED <<submissions, stream, clients>>
    BY <2>1 DEF Advances, CancelledElsewhere
  <2>4. RowsTyped' /\ Rows'
    BY <2>2, <2>3, RowsUnchanged DEF submissions, Inv, Types, RowsTyped
  <2>5. QED  BY <2>2, <2>3, <2>4, AgentStep
<1>2. CASE \E q \in late : LateArrives(q) /\ UNCHANGED <<stream, verdict, clients>>
  <2>1. PICK q \in late : LateArrives(q) /\ UNCHANGED <<stream, verdict, clients>>
    BY <1>2
  <2>2. /\ q \in Request /\ late' \subseteq Request /\ answered' = answered
    BY <2>1 DEF LateArrives, Inv, Types, RowsTyped
  <2>3. CASE UNCHANGED <<server, row>>
    <3>1. ServerKept
      BY <2>1, <2>3, ServerStays DEF Inv, Types
    <3>2. QED  BY <2>1, <2>2, <2>3, <3>1, RowsUnchanged, AgentStep
  <2>4. CASE \E j \in Jobs : Stores(q, j)
    <3>1. PICK j \in Jobs : Stores(q, j)
      BY <2>4
    <3>2. ServerKept
      BY <2>1, <3>1, StoresKeeps DEF Inv, Types
    <3>3. /\ row' \in [Jobs -> Request \cup {NoRow}]
          /\ \A i \in Known : i \in Known' /\ row'[i] = row[i]
          /\ \A i \in Known' : snap'[i].revision > 0
          /\ \A i, k \in Known' : row'[i].owner = row'[k].owner /\ row'[i].key = row'[k].key => i = k
          /\ RetriesFollow'
      BY <2>1, <2>2, <3>1, StoredRow DEF Inv, Types
    <3>4. RowsTyped' /\ Rows'
      BY <2>2, <3>3 DEF Inv, Types, RowsTyped, Rows
    <3>5. QED  BY <2>1, <3>2, <3>4, AgentStep
  <2>5. QED  BY <2>1, <2>3, <2>4 DEF LateArrives
<1>3. QED  BY <1>1, <1>2 DEF Agent

\* Whatever a client does, it knows what it should afterwards.
LEMMA ClientMoves ==
  ASSUME Inv, NEW c \in Clients,
         \/ Give(c) \/ Submits(c) \/ Waits(c) \/ Cancels(c)
         \/ StreamBreaks(c) \/ PollTimesOut(c) \/ RequestFails(c)
         \/ Interrupt(c) \/ InterruptAborts(c)
  PROVE  Inv'
<1>1. Types /\ ServerInv /\ Rows /\ ClientInv(c)
  BY DEF Inv
<1>2. ASSUME Done(c), UNCHANGED <<server, verdict, submissions>> PROVE Inv'
  <2>1. ServerKept
    BY <1>1, <1>2, ServerStays DEF Types
  <2>2. RowsTyped' /\ Rows'
    BY <1>1, <1>2, <2>1, RowsUnchanged DEF submissions, Types, RowsTyped
  <2>3. QED  BY <1>2, <2>1, <2>2, ClientStep
<1>3. CASE Give(c)
  BY <1>1, <1>2, <1>3, GiveDone DEF Give
<1>4. CASE \E j \in Jobs : SubmissionAnswered(c, j)
  BY <1>1, <1>4, SubmittedDone, ClientStep
<1>5. CASE SubmissionRefused(c)
  BY <1>1, <1>2, <1>5, RefusedDone DEF SubmissionRefused
<1>6. CASE SubmissionUnanswered(c)
  <2>1. Done(c)
    BY <1>1, <1>6, RefusedDone
  <2>2. Posted(c) \in Request
    BY <1>1, <1>6, PostedRequest DEF SubmissionUnanswered, ClientInv
  <2>3. late' \subseteq Request /\ UNCHANGED <<server, verdict, row, answered>>
    BY <1>1, <1>6, <2>2 DEF SubmissionUnanswered, Types, RowsTyped
  <2>4. ServerKept
    BY <1>1, <2>3, ServerStays DEF Types
  <2>5. QED  BY <2>1, <2>3, <2>4, RowsUnchanged, ClientStep
<1>7. CASE GetsSnapshot(c)
  BY <1>1, <1>2, <1>7, GetsDone DEF GetsSnapshot
<1>8. CASE Connects(c)
  BY <1>1, <1>2, <1>8, ConnectsDone DEF Connects
<1>9. CASE StreamDelivers(c)
  BY <1>1, <1>2, <1>9, DeliversDone DEF StreamDelivers
<1>10. CASE StreamReads(c)
  BY <1>1, <1>2, <1>10, ReadsDone DEF StreamReads
<1>11. CASE StreamEnded(c)
  BY <1>1, <1>2, <1>11, EndedDone DEF StreamEnded
<1>12. CASE StreamBreaks(c)
  BY <1>1, <1>2, <1>12, BreaksDone DEF StreamBreaks
<1>13. CASE Polls(c) \/ PollReads(c) \/ PollTimesOut(c)
  BY <1>1, <1>2, <1>13, PollsDone DEF Polls, PollReads, PollTimesOut
<1>14. CASE PollGets(c) \/ PollYields(c) \/ PollLast(c)
  BY <1>1, <1>2, <1>14, PollAnswersDone DEF PollGets, PollYields, PollLast, Returns
<1>15. CASE RequestFails(c) \/ InterruptAborts(c)
  BY <1>1, <1>2, <1>15, FailsDone DEF RequestFails, InterruptAborts
<1>16. CASE Interrupt(c)
  BY <1>1, <1>2, <1>16, InterruptDone DEF Interrupt
<1>17. CASE Cancels(c)
  <2>1. ServerKept /\ Done(c)
    BY <1>1, <1>17, CancelsDone
  <2>2. RowsTyped' /\ Rows'
    BY <1>1, <1>17, <2>1, RowsUnchanged DEF Cancels, submissions, Types, RowsTyped
  <2>3. QED  BY <2>1, <2>2, ClientStep
<1>18. QED
  BY <1>3, <1>4, <1>5, <1>6, <1>7, <1>8, <1>9, <1>10, <1>11, <1>12, <1>13, <1>14, <1>15, <1>16, <1>17
     DEF Submits, Waits

\* Nobody has been told anything yet.
LEMMA InitInv == Init => Inv
<1> SUFFICES ASSUME Init PROVE Inv
  OBVIOUS
<1> USE DEF Init, InitSubmission, InitStreams, Server!Init
<1>1. Server!Absent \in Server!Snapshot
  BY DEF Server!Absent, Server!Snapshot
<1>2. ServerTyped /\ RowsTyped
  BY <1>1 DEF ServerTyped, RowsTyped
<1>3. Idle \in Frame /\ NoStream \in Stream /\ NoExit \in Exit
  BY DEF Idle, Frame, ClientPc, NoStream, Stream, StreamPc, NoExit, Exit, Verb
<1>4. ClientsTyped
  BY <1>3, ClientsAssumption DEF ClientsTyped
<1>5. ServerInv
  BY DEF ServerInv, History, Server!Absent
<1>6. Rows
  BY DEF Rows, Known, RetriesFollow
<1>7. ASSUME NEW c \in Clients PROVE ClientInv(c)
  <2>1. cl[c] = Idle /\ stream[c] = NoStream /\ got[c] = << >> /\ out[c] = NoExit
    OBVIOUS
  <2>2. InCommand(c) /\ InStream(c)
    BY <2>1 DEF InCommand, InStream, Idle, NoCommand, VerbsAt, Verb, NoStream
  <2>3. Brought(c)
    BY <2>1 DEF Brought, Idle
  <2>4. CommandEnded(c)
    BY <2>1 DEF CommandEnded, EndKnown, ExitTrue, NoExit
  <2>5. QED  BY <2>2, <2>3, <2>4 DEF ClientInv
<1>8. QED  BY <1>2, <1>4, <1>5, <1>6, <1>7 DEF Inv, Types

\* The invariant is inductive.
LEMMA NextInv == Inv /\ [Next]_vars => Inv'
<1> SUFFICES ASSUME Inv, [Next]_vars PROVE Inv'
  OBVIOUS
<1>1. CASE Agent
  BY <1>1, AgentMoves
<1>2. CASE UNCHANGED vars
  <2>1. ServerKept
    BY <1>2, ServerStays DEF vars, Inv, Types
  <2>2. RowsTyped' /\ Rows'
    BY <1>2, <2>1, RowsUnchanged DEF vars, submissions, Inv, Types, RowsTyped
  <2>3. QED  BY <1>2, <2>1, <2>2, AgentStep DEF vars
<1>3. CASE \E c \in Clients :
             \/ Give(c) \/ Submits(c) \/ Waits(c) \/ Cancels(c)
             \/ StreamBreaks(c) \/ PollTimesOut(c) \/ RequestFails(c)
             \/ Interrupt(c) \/ InterruptAborts(c)
  BY <1>3, ClientMoves
<1>4. QED  BY <1>1, <1>2, <1>3 DEF Next

-----------------------------------------------------------------------------

\* The clients know only what is so: the invariant holds of every behaviour.
THEOREM Invariance == Spec => []Inv
BY InitInv, NextInv, PTL DEF Spec

\* However often a submission is repeated, with answers lost and older ones still on their
\* way, a principal gets one Job for a key, and it carries the document that was asked for.
THEOREM OneJobCorrect == Spec => []OneJobPerKey
<1>1. Inv => OneJobPerKey
  BY DEF Inv, Rows, OneJobPerKey
<1>2. QED  BY <1>1, Invariance, PTL

\* A Job that repeats another one carries the same document and was accepted after the other
\* had ended.
THEOREM RetriesCorrect == Spec => []RetriesFollow
<1>1. Inv => RetriesFollow
  BY DEF Inv, Rows
<1>2. QED  BY <1>1, Invariance, PTL

\* A client that follows a Job gets each revision once and in order, and the last one before
\* the stream ends, over all the connections it loses.
THEOREM StreamCorrect == Spec => []StreamFaithful
<1>1. Inv => StreamFaithful
  BY DEF Inv, ClientInv, Brought, CommandEnded, EndKnown, StreamFaithful, Gapless, EndsWithTheEnd
<1>2. QED  BY <1>1, Invariance, PTL

\* What the CLI says with its exit code is what became of the Job.
THEOREM ExitCorrect == Spec => []ExitTruthful
<1>1. Inv => ExitTruthful
  BY DEF Inv, ClientInv, CommandEnded, ExitTrue, ExitTruthful
<1>2. QED  BY <1>1, Invariance, PTL
=============================================================================
