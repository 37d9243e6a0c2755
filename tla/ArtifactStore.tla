---------------------------- MODULE ArtifactStore ----------------------------
(***************************************************************************)
(* The content-addressed store of Result Bundles (artifacts.py): a file per *)
(* digest, registered in the table artifacts with the time it is retained   *)
(* until.  Writes of Jobs and the operator's cleanup exclude each other by  *)
(* an asyncio lock.  A cancelled Job leaves the lock at once, though; the   *)
(* worker thread that writes its file or its row goes on without it.        *)
(***************************************************************************)
EXTENDS Integers, Sequences

CONSTANTS Digests,     \* contents, named by their digests
          Writers,     \* Jobs that build a Result Bundle
          Contents,    \* Contents[w]: the contents of w's bundle, in order
          Cleaner,     \* the cleanup, as a holder of the lock
          None

ASSUME ContentsAssumption == Contents \in [Writers -> Seq(Digests)]
ASSUME CleanerAssumption == Cleaner \notin Writers /\ None \notin Writers \cup {Cleaner}

VARIABLES file,        \* "none", "fresh", or "old": past the orphan grace period
          row,         \* "none", "live", or "expired": past retain_until
          lock,        \* who holds _lock
          pc,          \* where a writer is
          n,           \* which of its contents it is writing
          sweep,       \* where the cleanup is
          apply,       \* not dry_run
          strays,      \* delete_orphans
          doomed,      \* the expired digests it has yet to delete
          known,       \* the registered digests, as it has read them
          orphans,     \* the orphan files it has yet to delete
          at,          \* the digest whose file it has just deleted
          raced        \* a cleanup began while an abandoned worker was at the digest

writers == <<pc, n>>
cleanup == <<sweep, apply, strays, doomed, known, orphans, at>>
vars == <<file, row, lock, writers, cleanup, raced>>

WriterPc == {"idle", "file", "record", "lost_file", "lost_record", "over", "done"}
SweepPc == {"idle", "list", "registered", "scan", "expired", "forget", "orphans"}

TypeOK == /\ file \in [Digests -> {"none", "fresh", "old"}]
          /\ row \in [Digests -> {"none", "live", "expired"}]
          /\ lock \in Writers \cup {Cleaner, None}
          /\ pc \in [Writers -> WriterPc]
          /\ n \in [Writers -> Nat] /\ \A w \in Writers : n[w] \in 1..Len(Contents[w]) + 1
          /\ sweep \in SweepPc
          /\ apply \in BOOLEAN /\ strays \in BOOLEAN
          /\ doomed \in SUBSET Digests
          /\ known \in SUBSET Digests
          /\ orphans \in SUBSET Digests
          /\ at \in Digests \cup {None}
          /\ raced \in [Digests -> BOOLEAN]

NoCleanup == /\ sweep = "idle" /\ apply = FALSE /\ strays = FALSE
             /\ doomed = {} /\ known = {} /\ orphans = {} /\ at = None

Init == /\ file = [d \in Digests |-> "none"]
        /\ row = [d \in Digests |-> "none"]
        /\ lock = None
        /\ pc = [w \in Writers |-> "idle"]
        /\ n = [w \in Writers |-> 1]
        /\ NoCleanup
        /\ raced = [d \in Digests |-> FALSE]

-----------------------------------------------------------------------------
(* build_result_bundle: one write after the other *)

HasNext(w) == n[w] <= Len(Contents[w])
Content(w) == Contents[w][n[w]]

\* _write_atomic: a file that is there is left as it is, its age included
WriteContent(d) == file' = [file EXCEPT ![d] = IF @ = "none" THEN "fresh" ELSE @]

\* record_artifact: a new row, or the later of the two times
RecordContent(d) == row' = [row EXCEPT ![d] = "live"]

\* mutant: a write does not wait for the lock
BeginWriteAnyway(w) ==
  /\ pc[w] = "idle" /\ HasNext(w)
  /\ lock' = w
  /\ pc' = [pc EXCEPT ![w] = "file"]
  /\ UNCHANGED <<file, row, n, cleanup, raced>>

BeginWrite(w) ==
  /\ pc[w] = "idle" /\ HasNext(w)
  /\ lock = None
  /\ lock' = w
  /\ pc' = [pc EXCEPT ![w] = "file"]
  /\ UNCHANGED <<file, row, n, cleanup, raced>>

WriteFile(w) ==
  /\ pc[w] = "file"
  /\ WriteContent(Content(w))
  /\ pc' = [pc EXCEPT ![w] = "record"]
  /\ UNCHANGED <<row, lock, n, cleanup, raced>>

\* mutant: the next content is skipped
RecordAndSkip(w) ==
  /\ pc[w] = "record"
  /\ RecordContent(Content(w))
  /\ lock' = None
  /\ n' = [n EXCEPT ![w] = @ + 2]
  /\ pc' = [pc EXCEPT ![w] = "idle"]
  /\ UNCHANGED <<file, cleanup, raced>>

Record(w) ==
  /\ pc[w] = "record"
  /\ RecordContent(Content(w))
  /\ lock' = None
  /\ n' = [n EXCEPT ![w] = @ + 1]
  /\ pc' = [pc EXCEPT ![w] = "idle"]
  /\ UNCHANGED <<file, cleanup, raced>>

BundleDone(w) ==
  /\ pc[w] = "idle" /\ ~HasNext(w)
  /\ pc' = [pc EXCEPT ![w] = "done"]
  /\ UNCHANGED <<file, row, lock, n, cleanup, raced>>

\* the disk is full, the database refuses: the Job fails
WriteRaises(w) ==
  /\ pc[w] \in {"file", "record"}
  /\ lock' = None
  /\ pc' = [pc EXCEPT ![w] = "over"]
  /\ UNCHANGED <<file, row, n, cleanup, raced>>

\* The Job's task is cancelled.  The lock is free from now on; what a worker
\* thread was given is still done.
CancelWrite(w) ==
  /\ \/ pc[w] = "idle" /\ pc' = [pc EXCEPT ![w] = "over"] /\ UNCHANGED lock
     \/ pc[w] = "file" /\ pc' = [pc EXCEPT ![w] = "lost_file"] /\ lock' = None
     \/ pc[w] = "record" /\ pc' = [pc EXCEPT ![w] = "lost_record"] /\ lock' = None
  /\ UNCHANGED <<file, row, n, cleanup, raced>>

\* the Jobs whose worker goes on without them
Lost == {w \in Writers : pc[w] \in {"lost_file", "lost_record"}}

LostWorker(w) ==
  /\ \/ pc[w] = "lost_file" /\ WriteContent(Content(w)) /\ UNCHANGED row
     \/ pc[w] = "lost_record" /\ RecordContent(Content(w)) /\ UNCHANGED file
  /\ pc' = [pc EXCEPT ![w] = "over"]
  /\ UNCHANGED <<lock, n, cleanup, raced>>

Write(w) == \/ BeginWrite(w) \/ WriteFile(w) \/ Record(w) \/ BundleDone(w)
            \/ WriteRaises(w) \/ CancelWrite(w) \/ LostWorker(w)

-----------------------------------------------------------------------------
(* cleanup *)

StartCleanup ==
  /\ sweep = "idle" /\ lock = None
  /\ lock' = Cleaner
  /\ apply' \in BOOLEAN /\ strays' \in BOOLEAN
  /\ sweep' = "list"
  /\ raced' = [d \in Digests |-> raced[d] \/ \E w \in Lost : Content(w) = d]
  /\ UNCHANGED <<file, row, writers, doomed, known, orphans, at>>

ListExpired ==
  /\ sweep = "list"
  /\ doomed' = {d \in Digests : row[d] = "expired"}
  /\ sweep' = "registered"
  /\ UNCHANGED <<file, row, lock, writers, apply, strays, known, orphans, at, raced>>

ListRegistered ==
  /\ sweep = "registered"
  /\ known' = {d \in Digests : row[d] # "none"}
  /\ sweep' = "scan"
  /\ UNCHANGED <<file, row, lock, writers, apply, strays, doomed, orphans, at, raced>>

\* mutant: the grace period is not looked at
OrphansOfAnyAge == {d \in Digests : file[d] # "none" /\ d \notin known}

\* _orphan_files
OrphanFiles == {d \in Digests : file[d] = "old" /\ d \notin known}

\* a dry run goes no further
ScanFiles ==
  /\ sweep = "scan"
  /\ orphans' = OrphanFiles
  /\ sweep' = IF apply THEN "expired" ELSE "orphans"
  /\ UNCHANGED <<file, row, lock, writers, apply, strays, doomed, known, at, raced>>

\* unlink(missing_ok=True), then DELETE ... WHERE retain_until < now
Unlink(d) ==
  /\ sweep = "expired" /\ d \in doomed
  /\ file' = [file EXCEPT ![d] = "none"]
  /\ at' = d /\ doomed' = doomed \ {d}
  /\ sweep' = "forget"
  /\ UNCHANGED <<row, lock, writers, apply, strays, known, orphans, raced>>

UnlinkFails(d) ==
  /\ sweep = "expired" /\ d \in doomed
  /\ doomed' = doomed \ {d}
  /\ UNCHANGED <<file, row, lock, writers, sweep, apply, strays, known, orphans, at, raced>>

\* mutant: DELETE without "AND retain_until < ?"
ForgetAnyway ==
  /\ sweep = "forget"
  /\ row' = [row EXCEPT ![at] = "none"]
  /\ at' = None
  /\ sweep' = "expired"
  /\ UNCHANGED <<file, lock, writers, apply, strays, doomed, known, orphans, raced>>

Forget ==
  /\ sweep = "forget"
  /\ row' = [row EXCEPT ![at] = IF @ = "expired" THEN "none" ELSE @]
  /\ at' = None
  /\ sweep' = "expired"
  /\ UNCHANGED <<file, lock, writers, apply, strays, doomed, known, orphans, raced>>

ExpiredDone ==
  /\ sweep = "expired" /\ doomed = {}
  /\ sweep' = "orphans"
  /\ UNCHANGED <<file, row, lock, writers, apply, strays, doomed, known, orphans, at, raced>>

UnlinkOrphan(d) ==
  /\ sweep = "orphans" /\ apply /\ strays /\ d \in orphans
  /\ file' = [file EXCEPT ![d] = "none"] \/ UNCHANGED file
  /\ orphans' = orphans \ {d}
  /\ UNCHANGED <<row, lock, writers, sweep, apply, strays, doomed, known, at, raced>>

EndCleanup ==
  /\ sweep = "orphans"
  /\ apply /\ strays => orphans = {}
  /\ lock' = None
  /\ sweep' = "idle" /\ apply' = FALSE /\ strays' = FALSE
  /\ doomed' = {} /\ known' = {} /\ orphans' = {} /\ at' = None
  /\ UNCHANGED <<file, row, writers, raced>>

Cleanup == \/ StartCleanup \/ ListExpired \/ ListRegistered \/ ScanFiles
           \/ \E d \in Digests : Unlink(d) \/ UnlinkFails(d) \/ UnlinkOrphan(d)
           \/ Forget \/ ExpiredDone \/ EndCleanup

-----------------------------------------------------------------------------
(* Time and the end of the process *)

\* A cleanup compares with one instant, the one it began at: what runs out
\* later makes no difference to it.  A write is short: it is over before the
\* grace period and the retention of what it writes are.
Age(d) ==
  /\ lock = None /\ Lost = {}
  /\ \/ file[d] = "fresh" /\ file' = [file EXCEPT ![d] = "old"] /\ UNCHANGED row
     \/ row[d] = "live" /\ row' = [row EXCEPT ![d] = "expired"] /\ UNCHANGED file
  /\ UNCHANGED <<lock, writers, cleanup, raced>>

Crash ==
  /\ lock # None \/ Lost # {}
  /\ lock' = None
  /\ pc' = [w \in Writers |-> IF pc[w] = "done" \/ (pc[w] = "idle" /\ n[w] = 1)
                             THEN pc[w] ELSE "over"]
  /\ sweep' = "idle" /\ apply' = FALSE /\ strays' = FALSE
  /\ doomed' = {} /\ known' = {} /\ orphans' = {} /\ at' = None
  /\ UNCHANGED <<file, row, n, raced>>

Next == \/ \E w \in Writers : Write(w)
        \/ Cleanup
        \/ \E d \in Digests : Age(d)
        \/ Crash

Spec == Init /\ [][Next]_vars

-----------------------------------------------------------------------------
(* Properties *)

\* A digest that is registered and retained has its file (artifacts.py: write before
\* record, and a cleanup that looks at both under the lock of the writes), unless a
\* worker abandoned by a cancelled Job, which no longer has the lock, met a cleanup.
RetainedUnlessRaced == \A d \in Digests : row[d] = "live" => file[d] # "none" \/ raced[d]

\* The retention of a digest ends with its time only: no cleanup drops a
\* registration that was extended after the cleanup had listed it
\* (forget_expired_artifact tests retain_until again).
RetentionHonoured == [][\A d \in Digests : row[d] = "live" => row'[d] # "none"]_vars

\* A cleanup drops a registration only when the file is gone, so that no file is
\* left which a later cleanup without delete_orphans would never find
\* (docs/operations.md: if the deletion fails, the registration remains).
ForgottenWithFile ==
  [][\A d \in Digests : row[d] = "expired" /\ row'[d] = "none"
                          => file[d] = "none" \/ raced[d]]_vars

\* A young file without a registration, as a write or a crash leaves it, is not
\* deleted (_orphan_files, the grace period).
YoungFilesKept ==
  [][\A d \in Digests : file[d] = "fresh" /\ file'[d] = "none" => row[d] # "none" \/ raced[d]]_vars

\* Both: a cleanup leaves nothing behind that no later one would find, and spares what
\* is being written (artifacts.py, cleanup and _orphan_files).
CleanupSpares == ForgottenWithFile /\ YoungFilesKept
=============================================================================
