------------------------- MODULE ArtifactStoreProofs -------------------------
(***************************************************************************)
(* For any contents, any number of Jobs that share them and any cleanup: a   *)
(* registered digest has its file, and a cleanup takes only what it may.     *)
(***************************************************************************)
EXTENDS ArtifactStore, TLAPS

\* The lock is what its holder says: a Job in one of its two awaits, or the cleanup.
Locked == /\ \A w \in Writers : pc[w] \in {"file", "record"} <=> lock = w
          /\ sweep # "idle" <=> lock = Cleaner

\* A Job that writes has something to write.
Writing == \A w \in Writers : pc[w] \notin {"idle", "over", "done"} => HasNext(w)

\* What is about to be registered has its file.
FileFirst == \A w \in Writers : pc[w] \in {"record", "lost_record"}
                                  => file[Content(w)] # "none" \/ raced[Content(w)]

\* While a cleanup is under way, abandoned workers are at digests that it met.
LostRaced == sweep # "idle" => \A w \in Lost : raced[Content(w)]

\* What the cleanup has read is still so, except where an abandoned worker wrote.
ReadStands ==
  /\ sweep \in {"idle", "list"} => doomed = {}
  /\ sweep \in {"idle", "list", "registered", "scan"} => orphans = {}
  /\ \A d \in doomed : row[d] = "expired" \/ raced[d]
  /\ sweep = "scan" => \A d \in Digests \ known : row[d] = "none" \/ raced[d]
  /\ \A d \in orphans : (row[d] = "none" /\ file[d] = "old") \/ raced[d]
  /\ sweep = "forget" => /\ at \in Digests \ doomed
                         /\ file[at] = "none" \/ raced[at]

IInv == /\ TypeOK /\ Locked /\ Writing /\ FileFirst /\ LostRaced /\ ReadStands
        /\ RetainedUnlessRaced

-----------------------------------------------------------------------------
(* Steps *)

\* A bundle is a sequence of contents.
LEMMA Bundle == \A w \in Writers : Contents[w] \in Seq(Digests) /\ Len(Contents[w]) \in Nat
<1>1. TAKE w \in Writers
<1>2. Contents[w] \in Seq(Digests)  BY ContentsAssumption
<1>3. QED  BY <1>2

\* What a Job writes is a content.
LEMMA ContentTyped ==
  TypeOK /\ Writing => \A w \in Writers :
    pc[w] \in {"file", "record", "lost_file", "lost_record"} => Content(w) \in Digests
<1>1. SUFFICES ASSUME TypeOK, Writing, NEW w \in Writers,
                      pc[w] \in {"file", "record", "lost_file", "lost_record"}
               PROVE  Content(w) \in Digests
  OBVIOUS
<1>2. n[w] \in 1..Len(Contents[w])
  BY <1>1, Bundle DEF TypeOK, Writing, HasNext
<1>3. QED  BY <1>2, Bundle DEF Content

\* Every step keeps the types; a write needs that there is something to write.
LEMMA TypeStep == TypeOK /\ Writing /\ [Next]_vars => TypeOK'
<1>1. HAVE TypeOK /\ Writing /\ [Next]_vars
<1>BeginWrite. ASSUME NEW w \in Writers, BeginWrite(w) PROVE  TypeOK'
  BY <1>BeginWrite, <1>1 DEF BeginWrite, cleanup, TypeOK, WriterPc
<1>WriteFile. ASSUME NEW w \in Writers, WriteFile(w) PROVE  TypeOK'
  BY <1>WriteFile, <1>1 DEF WriteFile, WriteContent, cleanup, TypeOK, WriterPc
<1>Record. ASSUME NEW w \in Writers, Record(w) PROVE  TypeOK'
  <2>1. n[w] + 1 \in 1..Len(Contents[w]) + 1
    BY <1>Record, <1>1, Bundle DEF Record, TypeOK, Writing, HasNext
  <2>2. /\ n' \in [Writers -> Nat]
        /\ \A v \in Writers : n'[v] \in 1..Len(Contents[v]) + 1
    BY <1>Record, <1>1, <2>1 DEF Record, TypeOK
  <2>3. row' \in [Digests -> {"none", "live", "expired"}]
    BY <1>Record, <1>1 DEF Record, RecordContent, TypeOK
  <2>4. pc' \in [Writers -> WriterPc]
    BY <1>Record, <1>1 DEF Record, TypeOK, WriterPc
  <2>5. QED  BY <1>Record, <1>1, <2>2, <2>3, <2>4 DEF Record, cleanup, TypeOK
<1>BundleDone. ASSUME NEW w \in Writers, BundleDone(w) PROVE  TypeOK'
  BY <1>BundleDone, <1>1 DEF BundleDone, cleanup, TypeOK, WriterPc
<1>WriteRaises. ASSUME NEW w \in Writers, WriteRaises(w) PROVE  TypeOK'
  BY <1>WriteRaises, <1>1 DEF WriteRaises, cleanup, TypeOK, WriterPc
<1>CancelWrite. ASSUME NEW w \in Writers, CancelWrite(w) PROVE  TypeOK'
  BY <1>CancelWrite, <1>1 DEF CancelWrite, cleanup, TypeOK, WriterPc
<1>LostWorker. ASSUME NEW w \in Writers, LostWorker(w) PROVE  TypeOK'
  <2>1. pc' \in [Writers -> WriterPc]
    BY <1>LostWorker, <1>1 DEF LostWorker, TypeOK, WriterPc
  <2>2. CASE pc[w] = "lost_file"
    <3>1. file' \in [Digests -> {"none", "fresh", "old"}]
      BY <1>LostWorker, <1>1 DEF LostWorker, WriteContent, TypeOK
    <3>2. QED  BY <1>LostWorker, <1>1, <2>1, <2>2, <3>1 DEF LostWorker, cleanup, TypeOK
  <2>3. CASE pc[w] = "lost_record"
    <3>1. row' \in [Digests -> {"none", "live", "expired"}]
      BY <1>LostWorker, <1>1 DEF LostWorker, RecordContent, TypeOK
    <3>2. QED  BY <1>LostWorker, <1>1, <2>1, <2>3, <3>1 DEF LostWorker, cleanup, TypeOK
  <2>4. QED  BY <1>LostWorker, <2>2, <2>3 DEF LostWorker
<1>StartCleanup. ASSUME StartCleanup PROVE  TypeOK'
  BY <1>StartCleanup, <1>1 DEF StartCleanup, writers, TypeOK, SweepPc
<1>ListExpired. ASSUME ListExpired PROVE  TypeOK'
  BY <1>ListExpired, <1>1 DEF ListExpired, writers, TypeOK, SweepPc
<1>ListRegistered. ASSUME ListRegistered PROVE  TypeOK'
  BY <1>ListRegistered, <1>1 DEF ListRegistered, writers, TypeOK, SweepPc
<1>ScanFiles. ASSUME ScanFiles PROVE  TypeOK'
  BY <1>ScanFiles, <1>1 DEF ScanFiles, OrphanFiles, writers, TypeOK, SweepPc
<1>Unlink. ASSUME NEW d \in Digests, Unlink(d) PROVE  TypeOK'
  BY <1>Unlink, <1>1 DEF Unlink, writers, TypeOK, SweepPc
<1>UnlinkFails. ASSUME NEW d \in Digests, UnlinkFails(d) PROVE  TypeOK'
  BY <1>UnlinkFails, <1>1 DEF UnlinkFails, writers, TypeOK
<1>UnlinkOrphan. ASSUME NEW d \in Digests, UnlinkOrphan(d) PROVE  TypeOK'
  BY <1>UnlinkOrphan, <1>1 DEF UnlinkOrphan, writers, TypeOK
<1>Forget. ASSUME Forget PROVE  TypeOK'
  BY <1>Forget, <1>1 DEF Forget, writers, TypeOK, SweepPc
<1>ExpiredDone. ASSUME ExpiredDone PROVE  TypeOK'
  BY <1>ExpiredDone, <1>1 DEF ExpiredDone, writers, TypeOK, SweepPc
<1>EndCleanup. ASSUME EndCleanup PROVE  TypeOK'
  BY <1>EndCleanup, <1>1 DEF EndCleanup, writers, TypeOK, SweepPc
<1>Age. ASSUME NEW d \in Digests, Age(d) PROVE  TypeOK'
  BY <1>Age, <1>1 DEF Age, writers, cleanup, TypeOK
<1>Crash. ASSUME Crash PROVE  TypeOK'
  BY <1>Crash, <1>1 DEF Crash, TypeOK, WriterPc, SweepPc
<1>Stutter. CASE UNCHANGED vars
  BY <1>Stutter, <1>1 DEF vars, writers, cleanup, TypeOK
<1> QED
  BY <1>1, <1>BeginWrite, <1>WriteFile, <1>Record, <1>BundleDone, <1>WriteRaises,
     <1>CancelWrite, <1>LostWorker, <1>StartCleanup, <1>ListExpired, <1>ListRegistered,
     <1>ScanFiles, <1>Unlink, <1>UnlinkFails, <1>UnlinkOrphan, <1>Forget, <1>ExpiredDone,
     <1>EndCleanup, <1>Age, <1>Crash, <1>Stutter
     DEF Next, Write, Cleanup

\* Every step leaves the lock with its holder.
LEMMA LockStep == IInv /\ [Next]_vars => Locked'
<1>1. HAVE IInv /\ [Next]_vars
<1>BeginWrite. ASSUME NEW w \in Writers, BeginWrite(w) PROVE  Locked'
  BY <1>BeginWrite, <1>1, CleanerAssumption DEF BeginWrite, cleanup, IInv, TypeOK, Locked
<1>WriteFile. ASSUME NEW w \in Writers, WriteFile(w) PROVE  Locked'
  BY <1>WriteFile, <1>1 DEF WriteFile, cleanup, IInv, Locked
<1>Record. ASSUME NEW w \in Writers, Record(w) PROVE  Locked'
  BY <1>Record, <1>1, CleanerAssumption DEF Record, cleanup, IInv, TypeOK, Locked
<1>BundleDone. ASSUME NEW w \in Writers, BundleDone(w) PROVE  Locked'
  BY <1>BundleDone, <1>1 DEF BundleDone, cleanup, IInv, Locked
<1>WriteRaises. ASSUME NEW w \in Writers, WriteRaises(w) PROVE  Locked'
  BY <1>WriteRaises, <1>1, CleanerAssumption DEF WriteRaises, cleanup, IInv, TypeOK, Locked
<1>CancelWrite. ASSUME NEW w \in Writers, CancelWrite(w) PROVE  Locked'
  <2>1. ASSUME NEW v \in Writers PROVE  pc'[v] \in {"file", "record"} <=> lock' = v
    BY <1>CancelWrite, <1>1, CleanerAssumption DEF CancelWrite, IInv, TypeOK, Locked
  <2>2. sweep' # "idle" <=> lock' = Cleaner
    BY <1>CancelWrite, <1>1, CleanerAssumption DEF CancelWrite, cleanup, IInv, Locked
  <2>3. QED  BY <2>1, <2>2 DEF Locked
<1>LostWorker. ASSUME NEW w \in Writers, LostWorker(w) PROVE  Locked'
  BY <1>LostWorker, <1>1 DEF LostWorker, cleanup, IInv, Locked
<1>StartCleanup. ASSUME StartCleanup PROVE  Locked'
  BY <1>StartCleanup, <1>1, CleanerAssumption DEF StartCleanup, writers, IInv, Locked
<1>ListExpired. ASSUME ListExpired PROVE  Locked'
  BY <1>ListExpired, <1>1 DEF ListExpired, writers, IInv, Locked
<1>ListRegistered. ASSUME ListRegistered PROVE  Locked'
  BY <1>ListRegistered, <1>1 DEF ListRegistered, writers, IInv, Locked
<1>ScanFiles. ASSUME ScanFiles PROVE  Locked'
  BY <1>ScanFiles, <1>1 DEF ScanFiles, writers, IInv, Locked
<1>Unlink. ASSUME NEW d \in Digests, Unlink(d) PROVE  Locked'
  BY <1>Unlink, <1>1 DEF Unlink, writers, IInv, Locked
<1>Forget. ASSUME Forget PROVE  Locked'
  BY <1>Forget, <1>1 DEF Forget, writers, IInv, Locked
<1>ExpiredDone. ASSUME ExpiredDone PROVE  Locked'
  BY <1>ExpiredDone, <1>1 DEF ExpiredDone, writers, IInv, Locked
<1>EndCleanup. ASSUME EndCleanup PROVE  Locked'
  BY <1>EndCleanup, <1>1, CleanerAssumption DEF EndCleanup, writers, IInv, Locked
<1>Crash. ASSUME Crash PROVE  Locked'
  BY <1>Crash, CleanerAssumption DEF Crash, Locked
<1>Other. ASSUME \/ (\E d \in Digests : UnlinkFails(d))
                \/ (\E d \in Digests : UnlinkOrphan(d))
                \/ (\E d \in Digests : Age(d))
          PROVE  Locked'
  BY <1>Other, <1>1 DEF UnlinkFails, UnlinkOrphan, Age, writers, cleanup, IInv, Locked
<1>Stutter. CASE UNCHANGED vars
  BY <1>Stutter, <1>1 DEF vars, writers, cleanup, IInv, Locked
<1> QED
  BY <1>1, <1>BeginWrite, <1>WriteFile, <1>Record, <1>BundleDone, <1>WriteRaises,
     <1>CancelWrite, <1>LostWorker, <1>StartCleanup, <1>ListExpired, <1>ListRegistered,
     <1>ScanFiles, <1>Unlink, <1>Forget, <1>ExpiredDone, <1>EndCleanup, <1>Crash, <1>Other,
     <1>Stutter
     DEF Next, Write, Cleanup

\* Every step leaves a writer with something to write.
LEMMA WritingStep == IInv /\ [Next]_vars => Writing'
<1>1. HAVE IInv /\ [Next]_vars
<1>BeginWrite. ASSUME NEW w \in Writers, BeginWrite(w) PROVE  Writing'
  BY <1>BeginWrite, <1>1 DEF BeginWrite, HasNext, IInv, Writing
<1>Record. ASSUME NEW w \in Writers, Record(w) PROVE  Writing'
  BY <1>Record, <1>1 DEF Record, IInv, TypeOK, Writing, HasNext
<1>Crash. ASSUME Crash PROVE  Writing'
  BY <1>Crash DEF Crash, Writing
<1>Writer. ASSUME NEW w \in Writers,
                 \/ WriteFile(w)
                 \/ BundleDone(w)
                 \/ WriteRaises(w)
                 \/ CancelWrite(w)
                 \/ LostWorker(w)
           PROVE  Writing'
  BY <1>Writer, <1>1
     DEF WriteFile, BundleDone, HasNext, WriteRaises, CancelWrite, LostWorker, IInv, TypeOK,
         Writing
<1>Other. ASSUME \/ StartCleanup
                \/ ListExpired
                \/ ListRegistered
                \/ ScanFiles
                \/ (\E d \in Digests : Unlink(d))
                \/ (\E d \in Digests : UnlinkFails(d))
                \/ (\E d \in Digests : UnlinkOrphan(d))
                \/ Forget
                \/ ExpiredDone
                \/ EndCleanup
                \/ (\E d \in Digests : Age(d))
          PROVE  Writing'
  BY <1>Other, <1>1
     DEF StartCleanup, ListExpired, ListRegistered, ScanFiles, Unlink, UnlinkFails,
         UnlinkOrphan, Forget, ExpiredDone, EndCleanup, Age, writers, IInv, Writing, HasNext
<1>Stutter. CASE UNCHANGED vars
  BY <1>Stutter, <1>1 DEF vars, writers, IInv, Writing, HasNext
<1> QED
  BY <1>1, <1>BeginWrite, <1>Record, <1>Crash, <1>Writer, <1>Other, <1>Stutter
     DEF Next, Write, Cleanup

\* Every step leaves a file for what is about to be registered.
LEMMA FileFirstStep == IInv /\ [Next]_vars => FileFirst'
<1>1. HAVE IInv /\ [Next]_vars
<1>BeginWrite. ASSUME NEW w \in Writers, BeginWrite(w) PROVE  FileFirst'
  BY <1>BeginWrite, <1>1 DEF BeginWrite, IInv, Content, FileFirst
<1>WriteFile. ASSUME NEW w \in Writers, WriteFile(w) PROVE  FileFirst'
  <2>1. Content(w) \in Digests
    BY <1>WriteFile, <1>1, ContentTyped DEF WriteFile, IInv
  <2>2. file'[Content(w)] # "none"
    BY <1>WriteFile, <1>1, <2>1 DEF WriteFile, WriteContent, IInv, TypeOK
  <2>3. \A d \in Digests : file[d] # "none" => file'[d] # "none"
    BY <1>WriteFile DEF WriteFile, WriteContent
  <2>4. ASSUME NEW v \in Writers, pc'[v] \in {"record", "lost_record"}
        PROVE  file'[Content(v)] # "none" \/ raced[Content(v)]
    <3>1. CASE v = w
      BY <2>2, <3>1
    <3>2. CASE v # w
      <4>1. pc[v] = pc'[v]
        BY <1>WriteFile, <3>2 DEF WriteFile
      <4>2. Content(v) \in Digests
        BY <1>1, <2>4, <4>1, ContentTyped DEF IInv
      <4>3. QED  BY <1>1, <2>3, <2>4, <4>1, <4>2 DEF IInv, FileFirst
    <3>3. QED  BY <3>1, <3>2
  <2>5. QED  BY <1>WriteFile, <2>4 DEF WriteFile, FileFirst, Content
<1>Record. ASSUME NEW w \in Writers, Record(w) PROVE  FileFirst'
  BY <1>Record, <1>1 DEF Record, IInv, TypeOK, Content, FileFirst
<1>BundleDone. ASSUME NEW w \in Writers, BundleDone(w) PROVE  FileFirst'
  BY <1>BundleDone, <1>1 DEF BundleDone, IInv, Content, FileFirst
<1>WriteRaises. ASSUME NEW w \in Writers, WriteRaises(w) PROVE  FileFirst'
  BY <1>WriteRaises, <1>1 DEF WriteRaises, IInv, Content, FileFirst
<1>CancelWrite. ASSUME NEW w \in Writers, CancelWrite(w) PROVE  FileFirst'
  BY <1>CancelWrite, <1>1 DEF CancelWrite, IInv, TypeOK, Content, FileFirst
<1>LostWorker. ASSUME NEW w \in Writers, LostWorker(w) PROVE  FileFirst'
  <2>1. Content(w) \in Digests
    BY <1>LostWorker, <1>1, ContentTyped DEF LostWorker, IInv
  <2>2. \A d \in Digests : file[d] # "none" => file'[d] # "none"
    BY <1>LostWorker, <1>1 DEF LostWorker, WriteContent, IInv, TypeOK
  <2>3. ASSUME NEW v \in Writers, pc'[v] \in {"record", "lost_record"}
        PROVE  file'[Content(v)] # "none" \/ raced[Content(v)]
    <3>1. pc[v] = pc'[v]
      BY <1>LostWorker, <2>3 DEF LostWorker
    <3>2. Content(v) \in Digests
      BY <1>1, <2>3, <3>1, ContentTyped DEF IInv
    <3>3. QED  BY <1>1, <2>2, <2>3, <3>1, <3>2 DEF IInv, FileFirst
  <2>4. QED  BY <1>LostWorker, <2>3 DEF LostWorker, FileFirst, Content
<1>StartCleanup. ASSUME StartCleanup PROVE  FileFirst'
  <2>1. \A d \in Digests : raced[d] => raced'[d]
    BY <1>StartCleanup, <1>1 DEF StartCleanup, IInv, TypeOK
  <2>2. ASSUME NEW v \in Writers, pc[v] \in {"record", "lost_record"}
        PROVE  file[Content(v)] # "none" \/ raced'[Content(v)]
    <3>1. Content(v) \in Digests
      BY <1>1, <2>2, ContentTyped DEF IInv
    <3>2. QED  BY <1>1, <2>1, <2>2, <3>1 DEF IInv, FileFirst
  <2>3. QED  BY <1>StartCleanup, <2>2 DEF StartCleanup, writers, FileFirst, Content
<1>Unlink. ASSUME NEW d \in Digests, Unlink(d) PROVE  FileFirst'
  BY <1>Unlink, <1>1, CleanerAssumption
     DEF Unlink, writers, IInv, Locked, Content, FileFirst, LostRaced, Lost
<1>UnlinkOrphan. ASSUME NEW d \in Digests, UnlinkOrphan(d) PROVE  FileFirst'
  BY <1>UnlinkOrphan, <1>1, CleanerAssumption
     DEF UnlinkOrphan, writers, IInv, Locked, Content, FileFirst, LostRaced, Lost
<1>Crash. ASSUME Crash PROVE  FileFirst'
  BY <1>Crash DEF Crash, FileFirst
<1>Other. ASSUME \/ ListExpired
                \/ ListRegistered
                \/ ScanFiles
                \/ (\E d \in Digests : UnlinkFails(d))
                \/ Forget
                \/ ExpiredDone
                \/ EndCleanup
                \/ (\E d \in Digests : Age(d))
          PROVE  FileFirst'
  BY <1>Other, <1>1, CleanerAssumption
     DEF ListExpired, ListRegistered, ScanFiles, UnlinkFails, Forget, ExpiredDone, EndCleanup,
         Age, Lost, writers, IInv, Locked, Content, FileFirst, LostRaced
<1>Stutter. CASE UNCHANGED vars
  BY <1>Stutter, <1>1 DEF vars, writers, IInv, Content, FileFirst
<1> QED
  BY <1>1, <1>BeginWrite, <1>WriteFile, <1>Record, <1>BundleDone, <1>WriteRaises,
     <1>CancelWrite, <1>LostWorker, <1>StartCleanup, <1>Unlink, <1>UnlinkOrphan, <1>Crash,
     <1>Other, <1>Stutter
     DEF Next, Write, Cleanup

\* Every step marks the digests where a cleanup meets an abandoned worker.
LEMMA LostRacedStep == IInv /\ [Next]_vars => LostRaced'
<1>1. HAVE IInv /\ [Next]_vars
<1>BeginWrite. ASSUME NEW w \in Writers, BeginWrite(w) PROVE  LostRaced'
  BY <1>BeginWrite, <1>1 DEF BeginWrite, cleanup, IInv, Content, LostRaced, Lost
<1>WriteFile. ASSUME NEW w \in Writers, WriteFile(w) PROVE  LostRaced'
  BY <1>WriteFile, <1>1 DEF WriteFile, cleanup, IInv, Content, LostRaced, Lost
<1>Record. ASSUME NEW w \in Writers, Record(w) PROVE  LostRaced'
  BY <1>Record, <1>1 DEF Record, cleanup, IInv, Content, LostRaced, Lost
<1>BundleDone. ASSUME NEW w \in Writers, BundleDone(w) PROVE  LostRaced'
  BY <1>BundleDone, <1>1 DEF BundleDone, cleanup, IInv, Content, LostRaced, Lost
<1>WriteRaises. ASSUME NEW w \in Writers, WriteRaises(w) PROVE  LostRaced'
  BY <1>WriteRaises, <1>1 DEF WriteRaises, cleanup, IInv, Content, LostRaced, Lost
<1>CancelWrite. ASSUME NEW w \in Writers, CancelWrite(w) PROVE  LostRaced'
  BY <1>CancelWrite, <1>1, CleanerAssumption
     DEF CancelWrite, cleanup, IInv, TypeOK, Locked, Content, LostRaced, Lost
<1>LostWorker. ASSUME NEW w \in Writers, LostWorker(w) PROVE  LostRaced'
  BY <1>LostWorker, <1>1 DEF LostWorker, cleanup, IInv, Content, LostRaced, Lost
<1>StartCleanup. ASSUME StartCleanup PROVE  LostRaced'
  <2>1. ASSUME NEW v \in Lost PROVE  raced'[Content(v)]
    <3>1. Content(v) \in Digests
      BY <1>1, <2>1, ContentTyped DEF IInv, Lost
    <3>2. QED  BY <1>StartCleanup, <2>1, <3>1 DEF StartCleanup
  <2>2. QED  BY <1>StartCleanup, <2>1 DEF StartCleanup, writers, LostRaced, Lost, Content
<1>Other. ASSUME \/ ListExpired
                \/ ListRegistered
                \/ ScanFiles
                \/ (\E d \in Digests : Unlink(d))
                \/ (\E d \in Digests : UnlinkFails(d))
                \/ (\E d \in Digests : UnlinkOrphan(d))
                \/ Forget
                \/ ExpiredDone
                \/ EndCleanup
                \/ (\E d \in Digests : Age(d))
                \/ Crash
          PROVE  LostRaced'
  BY <1>Other, <1>1
     DEF ListExpired, ListRegistered, ScanFiles, Unlink, UnlinkFails, UnlinkOrphan, Forget,
         ExpiredDone, EndCleanup, Age, Lost, Crash, writers, IInv, Content, LostRaced
<1>Stutter. CASE UNCHANGED vars
  BY <1>Stutter, <1>1 DEF vars, writers, cleanup, IInv, Content, LostRaced, Lost
<1> QED
  BY <1>1, <1>BeginWrite, <1>WriteFile, <1>Record, <1>BundleDone, <1>WriteRaises,
     <1>CancelWrite, <1>LostWorker, <1>StartCleanup, <1>Other, <1>Stutter
     DEF Next, Write, Cleanup

\* Every step leaves what the cleanup has read true.
LEMMA ReadStandsStep == IInv /\ [Next]_vars => ReadStands'
<1>1. HAVE IInv /\ [Next]_vars
<1>WriteFile. ASSUME NEW w \in Writers, WriteFile(w) PROVE  ReadStands'
  BY <1>WriteFile, <1>1, CleanerAssumption DEF WriteFile, cleanup, IInv, Locked, ReadStands
<1>Record. ASSUME NEW w \in Writers, Record(w) PROVE  ReadStands'
  BY <1>Record, <1>1, CleanerAssumption DEF Record, cleanup, IInv, Locked, ReadStands
<1>LostWorker. ASSUME NEW w \in Writers, LostWorker(w) PROVE  ReadStands'
  BY <1>LostWorker, <1>1
     DEF LostWorker, WriteContent, RecordContent, cleanup, IInv, TypeOK, LostRaced, Lost,
         ReadStands
<1>StartCleanup. ASSUME StartCleanup PROVE  ReadStands'
  BY <1>StartCleanup, <1>1 DEF StartCleanup, IInv, ReadStands
<1>ScanFiles. ASSUME ScanFiles PROVE  ReadStands'
  BY <1>ScanFiles, <1>1 DEF ScanFiles, OrphanFiles, IInv, ReadStands
<1>Unlink. ASSUME NEW d \in Digests, Unlink(d) PROVE  ReadStands'
  BY <1>Unlink, <1>1 DEF Unlink, IInv, TypeOK, ReadStands
<1>UnlinkOrphan. ASSUME NEW d \in Digests, UnlinkOrphan(d) PROVE  ReadStands'
  BY <1>UnlinkOrphan, <1>1 DEF UnlinkOrphan, IInv, TypeOK, ReadStands
<1>Forget. ASSUME Forget PROVE  ReadStands'
  BY <1>Forget, <1>1 DEF Forget, IInv, ReadStands
<1>Writer. ASSUME NEW w \in Writers,
                 \/ BeginWrite(w)
                 \/ BundleDone(w)
                 \/ WriteRaises(w)
                 \/ CancelWrite(w)
           PROVE  ReadStands'
  BY <1>Writer, <1>1
     DEF BeginWrite, BundleDone, WriteRaises, CancelWrite, cleanup, IInv, ReadStands
<1>Other. ASSUME \/ ListExpired
                \/ ListRegistered
                \/ (\E d \in Digests : UnlinkFails(d))
                \/ ExpiredDone
                \/ EndCleanup
                \/ (\E d \in Digests : Age(d))
                \/ Crash
          PROVE  ReadStands'
  BY <1>Other, <1>1
     DEF ListExpired, ListRegistered, UnlinkFails, ExpiredDone, EndCleanup, Age, Crash, cleanup,
         IInv, TypeOK, ReadStands
<1>Stutter. CASE UNCHANGED vars
  BY <1>Stutter, <1>1 DEF vars, cleanup, IInv, ReadStands
<1> QED
  BY <1>1, <1>WriteFile, <1>Record, <1>LostWorker, <1>StartCleanup, <1>ScanFiles, <1>Unlink,
     <1>UnlinkOrphan, <1>Forget, <1>Writer, <1>Other, <1>Stutter
     DEF Next, Write, Cleanup

\* Every step leaves a registered and retained digest its file.
LEMMA RetainedStep == IInv /\ [Next]_vars => RetainedUnlessRaced'
<1>1. HAVE IInv /\ [Next]_vars
<1>WriteFile. ASSUME NEW w \in Writers, WriteFile(w) PROVE  RetainedUnlessRaced'
  BY <1>WriteFile, <1>1 DEF WriteFile, WriteContent, IInv, RetainedUnlessRaced
<1>Record. ASSUME NEW w \in Writers, Record(w) PROVE  RetainedUnlessRaced'
  BY <1>Record, <1>1 DEF Record, RecordContent, IInv, FileFirst, RetainedUnlessRaced
<1>LostWorker. ASSUME NEW w \in Writers, LostWorker(w) PROVE  RetainedUnlessRaced'
  BY <1>LostWorker, <1>1
     DEF LostWorker, WriteContent, RecordContent, IInv, TypeOK, FileFirst, RetainedUnlessRaced
<1>StartCleanup. ASSUME StartCleanup PROVE  RetainedUnlessRaced'
  BY <1>StartCleanup, <1>1 DEF StartCleanup, IInv, RetainedUnlessRaced
<1>Unlink. ASSUME NEW d \in Digests, Unlink(d) PROVE  RetainedUnlessRaced'
  BY <1>Unlink, <1>1 DEF Unlink, IInv, ReadStands, RetainedUnlessRaced
<1>UnlinkOrphan. ASSUME NEW d \in Digests, UnlinkOrphan(d) PROVE  RetainedUnlessRaced'
  BY <1>UnlinkOrphan, <1>1 DEF UnlinkOrphan, IInv, TypeOK, ReadStands, RetainedUnlessRaced
<1>Forget. ASSUME Forget PROVE  RetainedUnlessRaced'
  BY <1>Forget, <1>1 DEF Forget, IInv, RetainedUnlessRaced
<1>Writer. ASSUME NEW w \in Writers,
                 \/ BeginWrite(w)
                 \/ BundleDone(w)
                 \/ WriteRaises(w)
                 \/ CancelWrite(w)
           PROVE  RetainedUnlessRaced'
  BY <1>Writer, <1>1
     DEF BeginWrite, BundleDone, WriteRaises, CancelWrite, IInv, RetainedUnlessRaced
<1>Other. ASSUME \/ ListExpired
                \/ ListRegistered
                \/ ScanFiles
                \/ (\E d \in Digests : UnlinkFails(d))
                \/ ExpiredDone
                \/ EndCleanup
                \/ (\E d \in Digests : Age(d))
                \/ Crash
          PROVE  RetainedUnlessRaced'
  BY <1>Other, <1>1
     DEF ListExpired, ListRegistered, ScanFiles, UnlinkFails, ExpiredDone, EndCleanup, Age,
         Crash, IInv, TypeOK, RetainedUnlessRaced
<1>Stutter. CASE UNCHANGED vars
  BY <1>Stutter, <1>1 DEF vars, IInv, RetainedUnlessRaced
<1> QED
  BY <1>1, <1>WriteFile, <1>Record, <1>LostWorker, <1>StartCleanup, <1>Unlink, <1>UnlinkOrphan,
     <1>Forget, <1>Writer, <1>Other, <1>Stutter
     DEF Next, Write, Cleanup

-----------------------------------------------------------------------------
(* Theorems *)

\* The invariant holds at first.
LEMMA InvInit == Init => IInv
<1>1. SUFFICES ASSUME Init PROVE IInv
  OBVIOUS
<1>2. TypeOK
  <2>1. n \in [Writers -> Nat] /\ \A w \in Writers : n[w] \in 1..Len(Contents[w]) + 1
    BY <1>1, Bundle DEF Init
  <2>2. QED  BY <1>1, <2>1 DEF Init, NoCleanup, TypeOK, WriterPc, SweepPc
<1>3. Locked
  <2>1. ASSUME NEW w \in Writers PROVE  pc[w] \in {"file", "record"} <=> lock = w
    BY <1>1, CleanerAssumption DEF Init
  <2>2. sweep # "idle" <=> lock = Cleaner
    BY <1>1, CleanerAssumption DEF Init, NoCleanup
  <2>3. QED  BY <2>1, <2>2 DEF Locked
<1>4. Writing /\ FileFirst
  BY <1>1 DEF Init, Writing, FileFirst
<1>5. LostRaced /\ ReadStands /\ RetainedUnlessRaced
  BY <1>1 DEF Init, NoCleanup, LostRaced, ReadStands, RetainedUnlessRaced
<1>6. QED  BY <1>2, <1>3, <1>4, <1>5 DEF IInv

\* The invariant is preserved by every step.
LEMMA InvStep == IInv /\ [Next]_vars => IInv'
BY TypeStep, LockStep, WritingStep, FileFirstStep, LostRacedStep, ReadStandsStep, RetainedStep
   DEF IInv

LEMMA InvAlways == Spec => []IInv
BY InvInit, InvStep, PTL DEF Spec

\* The lock, the table and the workers of artifacts.py keep their types.
THEOREM TypeCorrect == Spec => []TypeOK
<1>1. IInv => TypeOK  BY DEF IInv
<1>2. QED  BY <1>1, InvAlways, PTL

\* A registered and retained digest has its file, whatever Jobs share it and
\* whenever cleanups, cancels and crashes happen, except where a worker that a
\* cancelled Job left behind met a cleanup.
THEOREM RetainedSafe == Spec => []RetainedUnlessRaced
<1>1. IInv => RetainedUnlessRaced  BY DEF IInv
<1>2. QED  BY <1>1, InvAlways, PTL

\* A registration that is retained is not dropped, also when it was extended after
\* the cleanup had listed it (forget_expired_artifact).
THEOREM RetentionSafe == Spec => RetentionHonoured
<1>1. IInv /\ [Next]_vars => [\A d \in Digests : row[d] = "live" => row'[d] # "none"]_vars
  <2>1. SUFFICES ASSUME IInv, Next, NEW d \in Digests, row[d] = "live"
                 PROVE  row'[d] # "none"
    BY DEF vars
  <2>2. ASSUME NEW w \in Writers, Write(w) PROVE  row'[d] # "none"
    BY <2>1, <2>2
       DEF IInv, TypeOK, Write, BeginWrite, WriteFile, Record, BundleDone, WriteRaises,
       CancelWrite, LostWorker, RecordContent
  <2>3. ASSUME Cleanup PROVE  row'[d] # "none"
    BY <2>1, <2>3 DEF IInv, TypeOK, Cleanup, StartCleanup, ListExpired, ListRegistered, ScanFiles,
       Unlink, UnlinkFails, UnlinkOrphan, Forget, ExpiredDone, EndCleanup
  <2>4. ASSUME (\E e \in Digests : Age(e)) \/ Crash PROVE  row'[d] # "none"
    BY <2>1, <2>4 DEF IInv, TypeOK, Age, Crash
  <2>5. QED  BY <2>1, <2>2, <2>3, <2>4 DEF Next
<1>2. QED  BY <1>1, InvAlways, PTL DEF Spec, RetentionHonoured

\* A cleanup forgets a digest only after its file is gone.
THEOREM ForgetSafe == Spec => ForgottenWithFile
<1>1. IInv /\ [Next]_vars => [\A d \in Digests : row[d] = "expired" /\ row'[d] = "none"
                                 => file[d] = "none" \/ raced[d]]_vars
  <2>1. SUFFICES ASSUME IInv, Next, NEW d \in Digests, row[d] = "expired", row'[d] = "none"
                 PROVE  file[d] = "none" \/ raced[d]
    BY DEF vars
  <2>2. ASSUME NEW w \in Writers, Write(w) PROVE  FALSE
    BY <2>1, <2>2
       DEF IInv, TypeOK, Write, BeginWrite, WriteFile, Record, BundleDone, WriteRaises,
       CancelWrite, LostWorker, RecordContent
  <2>3. ASSUME Forget PROVE  file[d] = "none" \/ raced[d]
    BY <2>1, <2>3 DEF IInv, Forget, ReadStands
  <2>4. ASSUME Cleanup, ~Forget PROVE  FALSE
    BY <2>1, <2>4 DEF Cleanup, StartCleanup, ListExpired, ListRegistered, ScanFiles, Unlink,
       UnlinkFails, UnlinkOrphan, ExpiredDone, EndCleanup
  <2>5. ASSUME (\E e \in Digests : Age(e)) \/ Crash PROVE  FALSE
    BY <2>1, <2>5 DEF IInv, TypeOK, Age, Crash
  <2>6. QED  BY <2>1, <2>2, <2>3, <2>4, <2>5 DEF Next
<1>2. QED  BY <1>1, InvAlways, PTL DEF Spec, ForgottenWithFile

\* A file younger than the grace period goes only with its own registration.
THEOREM YoungSafe == Spec => YoungFilesKept
<1>1. IInv /\ [Next]_vars => [\A d \in Digests : file[d] = "fresh" /\ file'[d] = "none"
                                 => row[d] # "none" \/ raced[d]]_vars
  <2>1. SUFFICES ASSUME IInv, Next, NEW d \in Digests, file[d] = "fresh", file'[d] = "none"
                 PROVE  row[d] # "none" \/ raced[d]
    BY DEF vars
  <2>2. ASSUME NEW w \in Writers, Write(w) PROVE  FALSE
    BY <2>1, <2>2
       DEF IInv, TypeOK, Write, BeginWrite, WriteFile, Record, BundleDone, WriteRaises,
       CancelWrite, LostWorker, WriteContent
  <2>3. ASSUME NEW e \in Digests, Unlink(e) PROVE  row[d] # "none" \/ raced[d]
    BY <2>1, <2>3 DEF IInv, Unlink, ReadStands
  <2>4. ASSUME NEW e \in Digests, UnlinkOrphan(e) PROVE  row[d] # "none" \/ raced[d]
    BY <2>1, <2>4 DEF IInv, TypeOK, UnlinkOrphan, ReadStands
  <2>5. ASSUME StartCleanup \/ ListExpired \/ ListRegistered \/ ScanFiles \/ Forget
               \/ ExpiredDone \/ EndCleanup \/ \E e \in Digests : UnlinkFails(e)
        PROVE  FALSE
    BY <2>1, <2>5 DEF StartCleanup, ListExpired, ListRegistered, ScanFiles, UnlinkFails, Forget,
       ExpiredDone, EndCleanup
  <2>6. ASSUME (\E e \in Digests : Age(e)) \/ Crash PROVE  FALSE
    BY <2>1, <2>6 DEF IInv, TypeOK, Age, Crash
  <2>7. QED  BY <2>1, <2>2, <2>3, <2>4, <2>5, <2>6 DEF Next, Cleanup
<1>2. QED  BY <1>1, InvAlways, PTL DEF Spec, YoungFilesKept

\* The two together: a cleanup leaves nothing behind and spares what is being written
\* (artifacts.py, cleanup and _orphan_files).
THEOREM CleanupSafe == Spec => CleanupSpares
BY ForgetSafe, YoungSafe DEF CleanupSpares
=============================================================================
