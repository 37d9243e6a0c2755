---------------------------- MODULE JobSnapshots ----------------------------
(***************************************************************************)
(* How a snapshot really changes.  Coroutines of the Agent (the scheduler,  *)
(* a Job's task, a progress report, an abandoned one whose database worker  *)
(* goes on) call TestJobs._transition, which reads the snapshot in one      *)
(* transaction, decides on the copy, and writes the copy back in another    *)
(* one, "WHERE revision = ?".  Between the two anyone may have written; the *)
(* cancel API writes in a single transaction at any time.                   *)
(***************************************************************************)
EXTENDS Integers, Sequences, JobStates

CONSTANTS Jobs,          \* the Jobs that may be submitted
          Writers,       \* coroutines that may be inside _transition
          Requests,      \* cancelRequestIds clients use
          Calls,         \* the (target, expected states) the callers ask for
          MaxRevision    \* beyond it only calls that end the Job are begun

VARIABLES snap,          \* jobs.snapshot_json, as far as it matters here
          log,           \* job_events
          requests,      \* cancel_requests: the ids recorded for each Job
          call           \* call[w]: the local variables of w's _transition

vars == <<snap, log, requests, call>>

Promise == INSTANCE JobPromise

\* the fields of a JobSnapshot decisions are taken on
Snapshot == [revision : Nat, state : JobState \cup {"ABSENT"}, cancel : BOOLEAN]

\* no row yet
Absent == [revision |-> 0, state |-> "ABSENT", cancel |-> FALSE]

-----------------------------------------------------------------------------
(* The calls of _transition in jobs.py: an unrestricted one, or one that    *)
(* expects a state, given or read just before (_phase, _finish_cancel).     *)

Expecting(targets, states) ==
  {[target |-> t, expected |-> {s}] : t \in targets, s \in states}

CodeCalls ==
  Expecting({"VALIDATING"}, {"ACCEPTED"})
    \cup Expecting({"WAITING_FOR_PORTS"}, {"VALIDATING"})
    \cup Expecting({"PREPARING"}, {"WAITING_FOR_PORTS"})
    \cup Expecting({"WARMING_UP", "RUNNING", "DRAINING", "COLLECTING", "FAILED"}, JobState)
    \cup Expecting({"SUCCEEDED", "CANCELLED"}, {"COLLECTING"})
    \cup {[target |-> "FAILED", expected |-> JobState]}

ASSUME CallsAssumption == Calls \subseteq CodeCalls
ASSUME MaxRevisionAssumption == MaxRevision \in Nat

\* for _ in range(3)
MaxTries == 3

NoCall == [pc |-> "idle"]

Call == [pc : {"read", "update"}, job : Jobs, target : JobState,
         expected : SUBSET JobState, tries : 0 .. MaxTries - 1, cur : Snapshot,
         abandoned : BOOLEAN]

\* the locals of c once it is at pc for the n-th time with the copy s
At(pc, c, s, n) == [pc |-> pc, job |-> c.job, target |-> c.target, expected |-> c.expected,
                    tries |-> n, cur |-> s, abandoned |-> c.abandoned]

Init == /\ snap = [j \in Jobs |-> Absent]
        /\ log = [j \in Jobs |-> << >>]
        /\ requests = [j \in Jobs |-> {}]
        /\ call = [w \in Writers |-> NoCall]

-----------------------------------------------------------------------------
(* Transactions of the store. *)

\* mutant: an event only when the state changes
WriteStateEvents(j, s) ==
  /\ snap' = [snap EXCEPT ![j] = s]
  /\ log' = IF s.state = snap[j].state THEN log ELSE [log EXCEPT ![j] = Append(@, s)]

\* UPDATE jobs ... and INSERT INTO job_events, in one transaction
Write(j, s) == /\ snap' = [snap EXCEPT ![j] = s]
               /\ log' = [log EXCEPT ![j] = Append(@, s)]

\* create_job of a new Job: the row and its first event
Submit(j) ==
  /\ snap[j] = Absent
  /\ Write(j, [revision |-> 1, state |-> "ACCEPTED", cancel |-> FALSE])
  /\ UNCHANGED <<requests, call>>

\* request_cancel of a known request, or of a terminal Job: nothing is written
CancelAgain(j, r) ==
  /\ snap[j] # Absent
  /\ r \in requests[j] \/ snap[j].state \in Terminal
  /\ UNCHANGED vars

\* mutant: the intent is set without a new revision
CancelRequestedQuietly(j, r) ==
  /\ snap[j] # Absent
  /\ snap[j].state \notin Terminal
  /\ r \notin requests[j]
  /\ requests' = [requests EXCEPT ![j] = @ \cup {r}]
  /\ snap' = [snap EXCEPT ![j].cancel = TRUE]
  /\ UNCHANGED <<log, call>>

\* request_cancel: the request and the intent, on the snapshot as it is now
CancelRequested(j, r) ==
  /\ snap[j] # Absent
  /\ snap[j].state \notin Terminal
  /\ r \notin requests[j]
  /\ snap[j].revision < MaxRevision
  /\ requests' = [requests EXCEPT ![j] = @ \cup {r}]
  /\ Write(j, Promise!Marked(snap[j]))
  /\ UNCHANGED call

-----------------------------------------------------------------------------
(* _transition *)

Begin(w, j, c) ==
  /\ call[w] = NoCall
  /\ snap[j] # Absent
  /\ snap[j].revision < MaxRevision \/ c.target \in Terminal
  /\ call' = [call EXCEPT ![w] =
                [pc |-> "read", job |-> j, target |-> c.target, expected |-> c.expected,
                 tries |-> 0, cur |-> Absent, abandoned |-> FALSE]]
  /\ UNCHANGED <<snap, log, requests>>

\* mutant: the cancel intent is not looked at
RefusesStateOnly(c, s) == s.state \in Terminal \/ s.state \notin c.expected

\* The three early returns: a terminal Job, an unexpected state, a success
\* after a cancel intent.
Refuses(c, s) == \/ s.state \in Terminal
                 \/ s.state \notin c.expected
                 \/ c.target = "SUCCEEDED" /\ s.cancel

ReadAndReturn(w) ==
  /\ call[w].pc = "read"
  /\ Refuses(call[w], snap[call[w].job])
  /\ call' = [call EXCEPT ![w] = NoCall]
  /\ UNCHANGED <<snap, log, requests>>

ReadAndGoOn(w) ==
  /\ call[w].pc = "read"
  /\ ~Refuses(call[w], snap[call[w].job])
  /\ call' = [call EXCEPT ![w] = At("update", @, snap[call[w].job], @.tries)]
  /\ UNCHANGED <<snap, log, requests>>

\* mutant: the revision is not incremented
UpdatedInPlace(c) == [revision |-> c.cur.revision, state |-> c.target, cancel |-> c.cur.cancel]

Updated(c) == Promise!Moved(c.cur, c.target)

\* update_snapshot matched one row
Commit(w) ==
  /\ call[w].pc = "update"
  /\ snap[call[w].job].revision = call[w].cur.revision
  /\ Write(call[w].job, Updated(call[w]))
  /\ call' = [call EXCEPT ![w] = NoCall]
  /\ UNCHANGED requests

\* mutant: one round too many
ConflictOnceMore(w) ==
  /\ call[w].pc = "update"
  /\ snap[call[w].job].revision # call[w].cur.revision
  /\ call' = [call EXCEPT ![w] =
                IF @.tries = MaxTries \/ @.abandoned
                THEN NoCall
                ELSE At("read", @, @.cur, @.tries + 1)]
  /\ UNCHANGED <<snap, log, requests>>

\* update_snapshot matched none: RevisionConflict, and another round unless
\* it was the last or nobody waits for the worker any more
Conflict(w) ==
  /\ call[w].pc = "update"
  /\ snap[call[w].job].revision # call[w].cur.revision
  /\ call' = [call EXCEPT ![w] =
                IF @.tries + 1 = MaxTries \/ @.abandoned
                THEN NoCall
                ELSE At("read", @, @.cur, @.tries + 1)]
  /\ UNCHANGED <<snap, log, requests>>

\* The coroutine is cancelled.  to_thread does not cancel its worker: a read
\* is simply lost, an update that was handed over is still carried out.
Interrupt(w) ==
  /\ \/ /\ call[w].pc = "read"
        /\ call' = [call EXCEPT ![w] = NoCall]
     \/ /\ call[w].pc = "update"
        /\ ~call[w].abandoned
        /\ call' = [call EXCEPT ![w].abandoned = TRUE]
  /\ UNCHANGED <<snap, log, requests>>

\* The process dies: what is committed stays, every coroutine is gone.
Crash ==
  /\ \E w \in Writers : call[w] # NoCall
  /\ call' = [w \in Writers |-> NoCall]
  /\ UNCHANGED <<snap, log, requests>>

Transition(w) == \/ \E j \in Jobs, c \in Calls : Begin(w, j, c)
                 \/ ReadAndReturn(w)
                 \/ ReadAndGoOn(w)
                 \/ Commit(w)
                 \/ Conflict(w)
                 \/ Interrupt(w)

Next == \/ \E j \in Jobs : Submit(j)
        \/ \E j \in Jobs, r \in Requests : CancelAgain(j, r) \/ CancelRequested(j, r)
        \/ \E w \in Writers : Transition(w)
        \/ Crash

Spec == Init /\ [][Next]_vars

-----------------------------------------------------------------------------
(* Properties *)

TypeOK == /\ snap \in [Jobs -> Snapshot]
          /\ log \in [Jobs -> Seq(Snapshot)]
          /\ requests \in [Jobs -> SUBSET Requests]
          /\ call \in [Writers -> Call \cup {NoCall}]

\* The event log is complete and in step with the snapshot: event i carries
\* revision i and the last one is the snapshot (storage.py, update_snapshot and
\* request_cancel; a client resumes from any revision without a gap).
EventLogComplete ==
  \A j \in Jobs :
    /\ Len(log[j]) = snap[j].revision
    /\ \A i \in 1 .. Len(log[j]) : log[j][i].revision = i
    /\ snap[j] # Absent => log[j][Len(log[j])] = snap[j]

\* A copy _transition is about to write back either is the snapshot or will be
\* refused by the revision test, and what was decided on it was decided on a
\* snapshot that allowed it (jobs.py, the checks before update_snapshot).
CopyFreshOrRefused ==
  \A w \in Writers :
    call[w].pc = "update" =>
      /\ ~Refuses(call[w], call[w].cur)
      /\ call[w].cur # Absent
      /\ call[w].cur.revision <= snap[call[w].job].revision
      /\ call[w].cur.revision = snap[call[w].job].revision => call[w].cur = snap[call[w].job]

\* A cancel intent is never lost: no write, and in particular none from a copy
\* read before the cancel, clears it.
CancelNeverLost == [][\A j \in Jobs : snap[j].cancel => snap'[j].cancel]_vars

\* A Job that carries a committed cancel intent does not become SUCCEEDED, and
\* a terminal snapshot is final (the two checks in _transition on a stale copy).
CancelWins ==
  [][\A j \in Jobs :
       /\ snap[j].state \in Terminal => snap'[j] = snap[j]
       /\ snap'[j].state = "SUCCEEDED" /\ snap[j].cancel => snap[j].state = "SUCCEEDED"]_vars

\* Both: a cancel that was committed is neither forgotten nor overruled (jobs.py,
\* _transition against request_cancel).
CancelHonoured == CancelNeverLost /\ CancelWins

\* All of it together: whatever interleaving of coroutines, interruptions and
\* crashes, a client sees what JobPromise promises.
KeepsPromise == Promise!Spec
=============================================================================
