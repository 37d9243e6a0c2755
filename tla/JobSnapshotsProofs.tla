------------------------- MODULE JobSnapshotsProofs -------------------------
(***************************************************************************)
(* JobSnapshots keeps its promise for every set of Jobs, coroutines and     *)
(* requests.  The argument rests on one fact, CopyFreshOrRefused: a copy    *)
(* whose revision is the current one IS the current snapshot, so what was   *)
(* decided on it is decided on the present.                                 *)
(***************************************************************************)
EXTENDS JobSnapshots, TLAPS

USE DEF NoCall

-----------------------------------------------------------------------------
(* Type correctness *)

\* The calls of the code have a state as target and a set of states expected.
LEMMA CallsTyped ==
  ASSUME NEW c \in Calls
  PROVE  c.target \in JobState /\ c.expected \in SUBSET JobState
BY CallsAssumption DEF CodeCalls, Expecting, JobState

\* A coroutine inside _transition has the local variables of one.
LEMMA InCall ==
  ASSUME TypeOK, NEW w \in Writers, call[w].pc # "idle"
  PROVE  call[w] \in Call
BY DEF TypeOK

\* Moving a snapshot on, or marking it, leaves a snapshot.
LEMMA SnapshotTyped ==
  ASSUME NEW s \in Snapshot, NEW t \in JobState
  PROVE  Promise!Moved(s, t) \in Snapshot /\ Promise!Marked(s) \in Snapshot
BY DEF Snapshot, Promise!Moved, Promise!Marked

\* The locals of a call stay those of a call.
LEMMA AtTyped ==
  ASSUME NEW c \in Call, NEW pc \in {"read", "update"}, NEW s \in Snapshot,
         NEW n \in 0 .. MaxTries - 1
  PROVE  At(pc, c, s, n) \in Call
BY DEF Call, At

\* A write of a snapshot keeps the types of the two tables.
LEMMA WriteTyped ==
  ASSUME TypeOK, NEW j \in Jobs, NEW s \in Snapshot, Write(j, s)
  PROVE  snap' \in [Jobs -> Snapshot] /\ log' \in [Jobs -> Seq(Snapshot)]
<1>1. snap' \in [Jobs -> Snapshot]
  BY DEF TypeOK, Write
<1>2. log[j] \in Seq(Snapshot)
  BY DEF TypeOK
<1>3. Append(log[j], s) \in Seq(Snapshot)
  BY <1>2
<1>4. log' \in [Jobs -> Seq(Snapshot)]
  BY <1>3 DEF TypeOK, Write
<1> QED BY <1>1, <1>4

LEMMA TypeInit == Init => TypeOK
BY DEF Init, TypeOK, Absent, Snapshot

LEMMA TypeNext == TypeOK /\ [Next]_vars => TypeOK'
<1> SUFFICES ASSUME TypeOK, [Next]_vars PROVE TypeOK'
  OBVIOUS
<1>1. ASSUME NEW j \in Jobs, Submit(j) PROVE TypeOK'
  <2>1. [revision |-> 1, state |-> "ACCEPTED", cancel |-> FALSE] \in Snapshot
    BY DEF JobState, Snapshot
  <2> QED BY <1>1, <2>1, WriteTyped DEF TypeOK, Submit
<1>2. ASSUME NEW j \in Jobs, NEW r \in Requests, CancelAgain(j, r) PROVE TypeOK'
  BY <1>2 DEF TypeOK, CancelAgain, vars
<1>3. ASSUME NEW j \in Jobs, NEW r \in Requests, CancelRequested(j, r) PROVE TypeOK'
  <2>1. Promise!Marked(snap[j]) \in Snapshot
    <3>1. snap[j] \in Snapshot
      BY DEF TypeOK
    <3> QED BY <3>1, SnapshotTyped DEF JobState
  <2> QED BY <1>3, <2>1, WriteTyped DEF TypeOK, CancelRequested
<1>4. ASSUME NEW w \in Writers, Transition(w) PROVE TypeOK'
  <2>1. ASSUME NEW j \in Jobs, NEW c \in Calls, Begin(w, j, c) PROVE TypeOK'
    <3>1. Absent \in Snapshot
      BY DEF Absent, Snapshot
    <3>2. [pc |-> "read", job |-> j, target |-> c.target, expected |-> c.expected,
           tries |-> 0, cur |-> Absent, abandoned |-> FALSE] \in Call
      BY <3>1, CallsTyped DEF Call, MaxTries
    <3> QED BY <2>1, <3>2 DEF TypeOK, Begin
  <2>2. CASE ReadAndReturn(w)
    BY <2>2 DEF TypeOK, ReadAndReturn
  <2>3. CASE ReadAndGoOn(w)
    <3>1. call[w] \in Call
      BY <2>3, InCall DEF ReadAndGoOn
    <3>2. snap[call[w].job] \in Snapshot /\ call[w].tries \in 0 .. MaxTries - 1
      BY <3>1 DEF TypeOK, Call
    <3>3. At("update", call[w], snap[call[w].job], call[w].tries) \in Call
      BY <3>1, <3>2, AtTyped
    <3> QED BY <2>3, <3>3 DEF TypeOK, ReadAndGoOn
  <2>4. CASE Commit(w)
    <3>1. call[w] \in Call
      BY <2>4, InCall DEF Commit
    <3>2. call[w].job \in Jobs /\ call[w].target \in JobState /\ call[w].cur \in Snapshot
      BY <3>1 DEF Call
    <3>3. Updated(call[w]) \in Snapshot
      BY <3>2, SnapshotTyped DEF Updated
    <3> QED BY <2>4, <3>2, <3>3, WriteTyped DEF TypeOK, Commit
  <2>5. CASE Conflict(w)
    <3>1. call[w] \in Call
      BY <2>5, InCall DEF Conflict
    <3>2. CASE call[w].tries + 1 = MaxTries \/ call[w].abandoned
      BY <2>5, <3>2 DEF TypeOK, Conflict
    <3>3. CASE ~(call[w].tries + 1 = MaxTries \/ call[w].abandoned)
      <4>1. call[w].cur \in Snapshot /\ call[w].tries + 1 \in 0 .. MaxTries - 1
        BY <3>1, <3>3 DEF Call, MaxTries
      <4>2. At("read", call[w], call[w].cur, call[w].tries + 1) \in Call
        BY <3>1, <4>1, AtTyped
      <4> QED BY <2>5, <3>3, <4>2 DEF TypeOK, Conflict
    <3> QED BY <3>2, <3>3
  <2>6. CASE Interrupt(w)
    <3>1. call[w] \in Call
      BY <2>6, InCall DEF Interrupt
    <3>2. [call[w] EXCEPT !.abandoned = TRUE] \in Call
      BY <3>1 DEF Call
    <3> QED BY <2>6, <3>1, <3>2 DEF TypeOK, Interrupt
  <2> QED BY <1>4, <2>1, <2>2, <2>3, <2>4, <2>5, <2>6 DEF Transition
<1>5. CASE Crash
  BY <1>5 DEF TypeOK, Crash
<1>6. CASE UNCHANGED vars
  BY <1>6 DEF TypeOK, vars
<1> QED BY <1>1, <1>2, <1>3, <1>4, <1>5, <1>6 DEF Next

\* The variables keep their types whatever the coroutines and clients do.
THEOREM TypeCorrect == Spec => []TypeOK
BY TypeInit, TypeNext, PTL DEF Spec

-----------------------------------------------------------------------------
(* What one step does to a snapshot: nothing, or one of three writes.       *)

\* the three writes, seen from the snapshot
Written(j) == \/ /\ snap[j] = Absent
                 /\ Write(j, [revision |-> 1, state |-> "ACCEPTED", cancel |-> FALSE])
              \/ /\ snap[j] # Absent
                 /\ snap[j].state \notin Terminal
                 /\ Write(j, Promise!Marked(snap[j]))
              \/ /\ snap[j] # Absent
                 /\ snap[j].state \notin Terminal
                 /\ \E t \in JobState : /\ t = "SUCCEEDED" => ~snap[j].cancel
                                        /\ Write(j, Promise!Moved(snap[j], t))

\* Commit writes a snapshot derived from the present one: the copy passed the
\* revision test, so it is the present one (update_snapshot, WHERE revision = ?).
LEMMA CommitWrites ==
  ASSUME TypeOK, CopyFreshOrRefused, NEW w \in Writers, Commit(w)
  PROVE  Written(call[w].job)
<1> DEFINE j == call[w].job
<1>1. call[w] \in Call /\ j \in Jobs /\ call[w].target \in JobState
  BY InCall DEF Commit, Call
<1>2. /\ ~Refuses(call[w], call[w].cur)
      /\ call[w].cur # Absent
      /\ call[w].cur = snap[j]
  BY DEF CopyFreshOrRefused, Commit
<1>3. /\ snap[j] # Absent
      /\ snap[j].state \notin Terminal
      /\ call[w].target = "SUCCEEDED" => ~snap[j].cancel
  BY <1>2 DEF Refuses
<1>4. Write(j, Promise!Moved(snap[j], call[w].target))
  BY <1>2 DEF Commit, Updated
<1> QED BY <1>1, <1>3, <1>4 DEF Written

\* Every step leaves the tables alone or makes one of the three writes.
LEMMA StepWrites ==
  ASSUME TypeOK, CopyFreshOrRefused, [Next]_vars
  PROVE  UNCHANGED <<snap, log>> \/ \E j \in Jobs : Written(j)
<1>1. ASSUME NEW j \in Jobs, Submit(j) PROVE Written(j)
  BY <1>1 DEF Submit, Written
<1>2. ASSUME NEW j \in Jobs, NEW r \in Requests, CancelRequested(j, r) PROVE Written(j)
  BY <1>2 DEF CancelRequested, Written
<1>3. ASSUME NEW w \in Writers, Commit(w) PROVE \E j \in Jobs : Written(j)
  <2>1. call[w].job \in Jobs
    BY <1>3, InCall DEF Commit, Call
  <2> QED BY <1>3, <2>1, CommitWrites
<1>4. ASSUME NEW w \in Writers, Transition(w), ~Commit(w) PROVE UNCHANGED <<snap, log>>
  BY <1>4 DEF Transition, Begin, ReadAndReturn, ReadAndGoOn, Conflict, Interrupt
<1>5. ASSUME NEW j \in Jobs, NEW r \in Requests, CancelAgain(j, r)
      PROVE  UNCHANGED <<snap, log>>
  BY <1>5 DEF CancelAgain, vars
<1>6. ASSUME Crash \/ UNCHANGED vars PROVE UNCHANGED <<snap, log>>
  BY <1>6 DEF Crash, vars
<1> QED BY <1>1, <1>2, <1>3, <1>4, <1>5, <1>6 DEF Next

-----------------------------------------------------------------------------
(* CopyFreshOrRefused *)

\* A revision never goes back, and two snapshots of a Job with the same
\* revision are the same.
LEMMA RevisionGrows ==
  ASSUME TypeOK, NEW j \in Jobs, Written(j), NEW k \in Jobs
  PROVE  \/ snap'[k] = snap[k]
         \/ snap[k].revision < snap'[k].revision
<1>1. CASE k # j
  BY <1>1 DEF TypeOK, Written, Write
<1>2. CASE k = j
  <2>1. snap[j] \in Snapshot
    BY DEF TypeOK
  <2>2. snap[j].revision \in Nat
    BY <2>1 DEF Snapshot
  <2>3. \/ snap[j] = Absent /\ snap'[j].revision = 1
        \/ snap'[j].revision = snap[j].revision + 1
    <3>1. ASSUME NEW t, Write(j, t) PROVE snap'[j] = t
      BY <3>1 DEF TypeOK, Write
    <3>2. CASE snap[j] = Absent
               /\ Write(j, [revision |-> 1, state |-> "ACCEPTED", cancel |-> FALSE])
      BY <3>1, <3>2
    <3>3. CASE Write(j, Promise!Marked(snap[j]))
      BY <3>1, <3>3 DEF Promise!Marked
    <3>4. ASSUME NEW t \in JobState, Write(j, Promise!Moved(snap[j], t))
          PROVE  snap'[j].revision = snap[j].revision + 1
      BY <3>1, <3>4 DEF Promise!Moved
    <3> QED BY <3>2, <3>3, <3>4 DEF Written
  <2> QED BY <1>2, <2>2, <2>3 DEF Absent
<1> QED BY <1>1, <1>2

LEMMA CopyInit == Init => CopyFreshOrRefused
BY DEF Init, CopyFreshOrRefused

LEMMA CopyNext == TypeOK /\ TypeOK' /\ CopyFreshOrRefused /\ [Next]_vars => CopyFreshOrRefused'
<1> SUFFICES ASSUME TypeOK, TypeOK', CopyFreshOrRefused, [Next]_vars,
                    NEW v \in Writers, call'[v].pc = "update"
             PROVE  /\ ~Refuses(call'[v], call'[v].cur)
                    /\ call'[v].cur # Absent
                    /\ call'[v].cur.revision <= snap'[call'[v].job].revision
                    /\ call'[v].cur.revision = snap'[call'[v].job].revision
                         => call'[v].cur = snap'[call'[v].job]
  BY DEF CopyFreshOrRefused, Refuses
<1> DEFINE Same == /\ call[v].pc = "update"
                   /\ call'[v].job = call[v].job
                   /\ call'[v].cur = call[v].cur
                   /\ call'[v].target = call[v].target
                   /\ call'[v].expected = call[v].expected
\* v keeps its copy, and the snapshot stays or moves to a later revision
<1>1. CASE Same
  <2>1. call[v] \in Call /\ call[v].job \in Jobs /\ call[v].cur.revision \in Nat
    BY <1>1, InCall DEF Call, Snapshot
  <2>2. snap[call[v].job].revision \in Nat /\ snap'[call[v].job].revision \in Nat
    BY <2>1 DEF TypeOK, Snapshot
  <2>3. \/ snap'[call[v].job] = snap[call[v].job]
        \/ snap[call[v].job].revision < snap'[call[v].job].revision
    BY <2>1, StepWrites, RevisionGrows
  <2>4. /\ ~Refuses(call[v], call[v].cur)
        /\ call[v].cur # Absent
        /\ call[v].cur.revision <= snap[call[v].job].revision
        /\ call[v].cur.revision = snap[call[v].job].revision => call[v].cur = snap[call[v].job]
    BY <1>1 DEF CopyFreshOrRefused
  <2>5. ~Refuses(call'[v], call'[v].cur)
    BY <1>1, <2>4 DEF Refuses
  <2> QED BY <1>1, <2>1, <2>2, <2>3, <2>4, <2>5
\* v has just read it
<1>2. CASE ReadAndGoOn(v)
  <2>1. call[v] \in Call /\ call[v].job \in Jobs
    BY <1>2, InCall DEF ReadAndGoOn, Call
  <2>2. snap[call[v].job] \in Snapshot /\ snap' = snap
    BY <1>2, <2>1 DEF TypeOK, ReadAndGoOn
  <2>3. call'[v] = At("update", call[v], snap[call[v].job], call[v].tries)
    BY <1>2 DEF TypeOK, ReadAndGoOn
  <2>4. /\ call'[v].cur = snap[call[v].job]
        /\ call'[v].job = call[v].job
        /\ call'[v].target = call[v].target
        /\ call'[v].expected = call[v].expected
    BY <2>3 DEF At
  <2>5. ~Refuses(call[v], snap[call[v].job])
    BY <1>2 DEF ReadAndGoOn
  <2>6. ~Refuses(call'[v], call'[v].cur)
    BY <2>4, <2>5 DEF Refuses
  <2>7. snap[call[v].job] # Absent
    <3>1. call[v].expected \in SUBSET JobState
      BY <2>1 DEF Call
    <3>2. snap[call[v].job].state \in JobState
      BY <2>5, <3>1 DEF Refuses
    <3> QED BY <3>2 DEF Absent, JobState
  <2>8. snap[call[v].job].revision \in Nat
    BY <2>2 DEF Snapshot
  <2> QED BY <2>2, <2>4, <2>6, <2>7, <2>8
\* nothing else brings v to its update
<1>3. Same \/ ReadAndGoOn(v)
  <2>1. ASSUME NEW w \in Writers, Transition(w), v # w PROVE call'[v] = call[v]
    BY <2>1 DEF TypeOK, Transition, Begin, ReadAndReturn, ReadAndGoOn, Commit, Conflict,
                Interrupt
  <2>2. ASSUME Transition(v), ~ReadAndGoOn(v) PROVE Same
    <3>1. CASE \E j \in Jobs, c \in Calls : Begin(v, j, c)
      BY <3>1 DEF TypeOK, Begin
    <3>2. CASE ReadAndReturn(v) \/ Commit(v)
      BY <3>2 DEF TypeOK, ReadAndReturn, Commit
    <3>3. CASE Conflict(v)
      BY <3>3 DEF TypeOK, Conflict, At
    <3>4. CASE Interrupt(v)
      <4>1. call[v] \in Call
        BY <3>4, InCall DEF Interrupt
      <4> QED BY <3>4, <4>1 DEF TypeOK, Interrupt, Call
    <3> QED BY <2>2, <3>1, <3>2, <3>3, <3>4 DEF Transition
  <2>3. ASSUME UNCHANGED call PROVE Same
    BY <2>3
  <2>4. ASSUME Crash PROVE FALSE
    BY <2>4 DEF Crash
  <2>5. ASSUME NEW j \in Jobs, Submit(j) \/ \E r \in Requests : CancelAgain(j, r)
                                                               \/ CancelRequested(j, r)
        PROVE  UNCHANGED call
    BY <2>5 DEF Submit, CancelAgain, CancelRequested, vars
  <2> QED BY <2>1, <2>2, <2>3, <2>4, <2>5 DEF Next, vars
<1> QED BY <1>1, <1>2, <1>3

\* What _transition is about to write was decided on the present snapshot, or
\* the revision test will refuse it.
THEOREM CopySafe == Spec => []CopyFreshOrRefused
<1>1. Init => TypeOK /\ CopyFreshOrRefused
  BY TypeInit, CopyInit
<1>2. TypeOK /\ CopyFreshOrRefused /\ [Next]_vars => (TypeOK /\ CopyFreshOrRefused)'
  BY TypeNext, CopyNext
<1> QED BY <1>1, <1>2, PTL DEF Spec

-----------------------------------------------------------------------------
(* The event log *)

LEMMA LogInit == Init => EventLogComplete
BY DEF Init, EventLogComplete, Absent

LEMMA LogNext == TypeOK /\ CopyFreshOrRefused /\ EventLogComplete /\ [Next]_vars
                   => EventLogComplete'
<1> SUFFICES ASSUME TypeOK, CopyFreshOrRefused, EventLogComplete, [Next]_vars
             PROVE  EventLogComplete'
  OBVIOUS
<1>1. CASE UNCHANGED <<snap, log>>
  BY <1>1 DEF EventLogComplete
<1>2. ASSUME NEW j \in Jobs, Written(j) PROVE EventLogComplete'
  <2>1. PICK s : Write(j, s) /\ s.revision = snap[j].revision + 1
    <3>1. CASE snap[j] = Absent
               /\ Write(j, [revision |-> 1, state |-> "ACCEPTED", cancel |-> FALSE])
      <4>1. snap[j].revision = 0
        BY <3>1 DEF Absent
      <4>2. [revision |-> 1, state |-> "ACCEPTED", cancel |-> FALSE].revision
              = snap[j].revision + 1
        BY <4>1
      <4> QED BY <3>1, <4>2
    <3>2. CASE Write(j, Promise!Marked(snap[j]))
      <4>1. Promise!Marked(snap[j]).revision = snap[j].revision + 1
        BY DEF Promise!Marked
      <4> QED BY <3>2, <4>1
    <3>3. ASSUME NEW t \in JobState, Write(j, Promise!Moved(snap[j], t))
          PROVE  \E s : Write(j, s) /\ s.revision = snap[j].revision + 1
      <4>1. Promise!Moved(snap[j], t).revision = snap[j].revision + 1
        BY DEF Promise!Moved
      <4> QED BY <3>3, <4>1
    <3> QED BY <1>2, <3>1, <3>2, <3>3 DEF Written
  <2>2. /\ snap'[j] = s /\ log'[j] = Append(log[j], s)
        /\ \A k \in Jobs : k # j => snap'[k] = snap[k] /\ log'[k] = log[k]
    BY <2>1 DEF TypeOK, Write
  <2>3. log[j] \in Seq(Snapshot) /\ snap[j].revision \in Nat
    BY DEF TypeOK, Snapshot
  <2>4. Len(log[j]) = snap[j].revision /\ \A i \in 1 .. Len(log[j]) : log[j][i].revision = i
    BY DEF EventLogComplete
  <2>5. /\ Len(log'[j]) = Len(log[j]) + 1
        /\ log'[j][Len(log[j]) + 1] = s
        /\ \A i \in 1 .. Len(log[j]) : log'[j][i] = log[j][i]
    BY <2>2, <2>3
  <2>6. /\ Len(log'[j]) = snap'[j].revision
        /\ \A i \in 1 .. Len(log'[j]) : log'[j][i].revision = i
        /\ log'[j][Len(log'[j])] = snap'[j]
    BY <2>1, <2>2, <2>3, <2>4, <2>5
  <2>7. ASSUME NEW k \in Jobs, k # j
        PROVE  /\ Len(log'[k]) = snap'[k].revision
               /\ \A i \in 1 .. Len(log'[k]) : log'[k][i].revision = i
               /\ snap'[k] # Absent => log'[k][Len(log'[k])] = snap'[k]
    BY <2>2, <2>7 DEF EventLogComplete
  <2> QED BY <2>6, <2>7 DEF EventLogComplete, Absent
<1> QED BY <1>1, <1>2, StepWrites

\* The event log has no gap and ends in the snapshot.
THEOREM LogSafe == Spec => []EventLogComplete
<1> DEFINE IInv == TypeOK /\ CopyFreshOrRefused /\ EventLogComplete
<1>1. Init => IInv
  BY TypeInit, CopyInit, LogInit
<1>2. IInv /\ [Next]_vars => IInv'
  BY TypeNext, CopyNext, LogNext
<1> QED BY <1>1, <1>2, PTL DEF Spec

-----------------------------------------------------------------------------
(* The promise *)

\* A cancel intent outlives every write.
THEOREM CancelKept == Spec => CancelNeverLost
<1>1. TypeOK /\ CopyFreshOrRefused /\ [Next]_vars
        => [\A j \in Jobs : snap[j].cancel => snap'[j].cancel]_vars
  <2> SUFFICES ASSUME TypeOK, CopyFreshOrRefused, [Next]_vars,
                      NEW k \in Jobs, snap[k].cancel
               PROVE  snap'[k].cancel
    OBVIOUS
  <2>1. ASSUME NEW j \in Jobs, Written(j) PROVE snap'[k].cancel
    <3>1. CASE k # j
      BY <2>1, <3>1 DEF TypeOK, Written, Write
    <3>2. CASE k = j
      <4>1. ASSUME NEW t, Write(j, t) PROVE snap'[j] = t
        BY <4>1 DEF TypeOK, Write
      <4>2. snap[j] # Absent
        BY <3>2 DEF Absent
      <4>3. CASE Write(j, Promise!Marked(snap[j]))
        BY <3>2, <4>1, <4>3 DEF Promise!Marked
      <4>4. ASSUME NEW t \in JobState, Write(j, Promise!Moved(snap[j], t))
            PROVE  snap'[k].cancel
        BY <3>2, <4>1, <4>4 DEF Promise!Moved
      <4> QED BY <2>1, <4>2, <4>3, <4>4 DEF Written
    <3> QED BY <3>1, <3>2
  <2> QED BY <2>1, StepWrites
<1> QED BY <1>1, TypeCorrect, CopySafe, PTL DEF Spec, CancelNeverLost

\* A terminal snapshot is final and a cancelled Job never succeeds.
THEOREM CancelDecides == Spec => CancelWins
<1> DEFINE Wins(j) ==
      /\ snap[j].state \in Terminal => snap'[j] = snap[j]
      /\ snap'[j].state = "SUCCEEDED" /\ snap[j].cancel => snap[j].state = "SUCCEEDED"
<1>1. TypeOK /\ CopyFreshOrRefused /\ [Next]_vars => [\A j \in Jobs : Wins(j)]_vars
  <2> SUFFICES ASSUME TypeOK, CopyFreshOrRefused, [Next]_vars, NEW k \in Jobs
               PROVE  Wins(k)
    OBVIOUS
  <2>1. CASE snap'[k] = snap[k]
    BY <2>1
  <2>2. ASSUME NEW j \in Jobs, Written(j) PROVE Wins(k)
    <3>1. CASE k # j
      BY <2>2, <3>1 DEF TypeOK, Written, Write
    <3>2. CASE k = j
      <4>1. ASSUME NEW t, Write(j, t) PROVE snap'[j] = t
        BY <4>1 DEF TypeOK, Write
      <4>2. CASE snap[j] = Absent
                 /\ Write(j, [revision |-> 1, state |-> "ACCEPTED", cancel |-> FALSE])
        BY <3>2, <4>1, <4>2 DEF Absent, Terminal
      <4>3. CASE snap[j].state \notin Terminal /\ Write(j, Promise!Marked(snap[j]))
        BY <3>2, <4>1, <4>3 DEF Promise!Marked, Terminal
      <4>4. ASSUME NEW t \in JobState, snap[j].state \notin Terminal,
                   t = "SUCCEEDED" => ~snap[j].cancel, Write(j, Promise!Moved(snap[j], t))
            PROVE  Wins(k)
        BY <3>2, <4>1, <4>4 DEF Promise!Moved, Terminal
      <4> QED BY <2>2, <4>2, <4>3, <4>4 DEF Written
    <3> QED BY <3>1, <3>2
  <2> QED BY <2>1, <2>2, StepWrites
<1> QED BY <1>1, TypeCorrect, CopySafe, PTL DEF Spec, CancelWins

\* The two together: a cancel that was committed is neither forgotten nor overruled
\* (_transition against request_cancel).
THEOREM CancelSafe == Spec => CancelHonoured
BY CancelKept, CancelDecides DEF CancelHonoured

\* Every behaviour of the coroutines, with all their interleavings,
\* interruptions and crashes, is one the promise allows.
THEOREM Implements == Spec => KeepsPromise
<1>1. Init => Promise!Init
  BY DEF Init, Promise!Init, Absent, Promise!Absent
<1>2. TypeOK /\ CopyFreshOrRefused /\ [Next]_vars => [Promise!Next]_(Promise!vars)
  <2> SUFFICES ASSUME TypeOK, CopyFreshOrRefused, [Next]_vars
               PROVE  [Promise!Next]_(Promise!vars)
    OBVIOUS
  <2> USE DEF Write, Promise!Publish, Absent, Promise!Absent, Terminal, Promise!Terminal,
              JobState, Promise!JobState
  <2>1. CASE UNCHANGED <<snap, log>>
    BY <2>1 DEF Promise!vars
  <2>2. ASSUME NEW j \in Jobs, Written(j) PROVE Promise!Next
    <3>1. CASE snap[j] = Absent
               /\ Write(j, [revision |-> 1, state |-> "ACCEPTED", cancel |-> FALSE])
      BY <3>1 DEF Promise!Next, Promise!Submit, Promise!Accepted
    <3>2. CASE /\ snap[j] # Absent /\ snap[j].state \notin Terminal
               /\ Write(j, Promise!Marked(snap[j]))
      BY <3>2 DEF Promise!Next, Promise!Cancel
    <3>3. ASSUME NEW t \in JobState, snap[j] # Absent, snap[j].state \notin Terminal,
                 t = "SUCCEEDED" => ~snap[j].cancel, Write(j, Promise!Moved(snap[j], t))
          PROVE  Promise!Next
      BY <3>3 DEF Promise!Next, Promise!Advance
    <3> QED BY <2>2, <3>1, <3>2, <3>3 DEF Written
  <2> QED BY <2>1, <2>2, StepWrites
<1> QED BY <1>1, <1>2, TypeCorrect, CopySafe, PTL DEF Spec, KeepsPromise, Promise!Spec
=============================================================================
