---------------------------- MODULE JobObserver ----------------------------
(***************************************************************************)
(* TestJobs.observe as a coroutine per request, behind the SSE stream of    *)
(* GET /v1/jobs/{id}/events and behind the long poll of get_test.  It reads *)
(* the events after its cursor in one transaction and the snapshot in       *)
(* another one, and between all of them the Job goes on.                    *)
(***************************************************************************)
EXTENDS Submission

VARIABLE stream          \* stream[c]: the coroutine that serves c's request

NoStream == [pc |-> "none", job |-> None, cursor |-> None, upto |-> 0]

\* pc: "get" is get_test's own read, "first" the one of observe without a
\* cursor, "events" and "check" the two of its loop, "yield" the walk over the
\* events read, up to revision upto; "last" is get_test after its time-out.
Opened(pc, j, cursor) == [pc |-> pc, job |-> j, cursor |-> cursor, upto |-> 0]

\* the event with revision r of Job j
Event(j, r) == log[j][r]
Current(c) == snap[stream[c].job]

InitStreams == stream = [c \in Clients |-> NoStream]

At(c, pc) == stream[c].pc = pc
Goto(c, pc) == stream' = [stream EXCEPT ![c].pc = pc]
Closed(c) == stream' = [stream EXCEPT ![c] = NoStream]

\* The next revision c's stream yields: the current snapshot without a cursor,
\* later the events one by one.
Yields(c, r) == \/ At(c, "first") /\ r = Current(c).revision
                \/ At(c, "yield") /\ r = stream[c].cursor + 1

\* what is left of the stream once it has yielded the revision r
AfterYield(c, r) ==
  LET s == stream[c] IN
  IF Event(s.job, r).state \in Terminal THEN NoStream
  ELSE [s EXCEPT !.cursor = r,
                 !.pc = IF At(c, "yield") /\ r < s.upto THEN "yield" ELSE "events"]

\* mutant: revision >= ?
ReadEventsFrom(c) ==
  /\ At(c, "events")
  /\ IF Current(c).revision > stream[c].cursor
     THEN stream' = [stream EXCEPT ![c].pc = "yield", ![c].upto = Current(c).revision,
                                   ![c].cursor = IF @ = 0 THEN 0 ELSE @ - 1]
     ELSE Goto(c, "check")

\* events_after: all of them in one transaction
ReadEvents(c) ==
  /\ At(c, "events")
  /\ IF Current(c).revision > stream[c].cursor
     THEN stream' = [stream EXCEPT ![c].pc = "yield", ![c].upto = Current(c).revision]
     ELSE Goto(c, "check")

\* mutant: revision < cursor
NothingLeftBelow(c) == Current(c).state \in Terminal /\ Current(c).revision < stream[c].cursor

NothingLeft(c) == Current(c).state \in Terminal /\ Current(c).revision <= stream[c].cursor

\* get_snapshot after a read without events.  The stream ends, or waits for a
\* notification, a tenth of a second at most, and reads again.
CheckEnds(c) == At(c, "check") /\ NothingLeft(c) /\ Closed(c)
CheckWaits(c) == At(c, "check") /\ ~NothingLeft(c) /\ Goto(c, "events")
=============================================================================
