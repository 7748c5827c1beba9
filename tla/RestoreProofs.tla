----------------------------- MODULE RestoreProofs -----------------------------
(***************************************************************************)
(* Theorems about Restore, for any files, media, contents, requests and     *)
(* bounds.                                                                  *)
(*                                                                          *)
(* First what can leave a restore active without a thread: only an entry    *)
(* without its record, and a restart.  The invariant that carries it is     *)
(* about the queue, not the job: every handler but the second half of       *)
(* add_file_to_restore_queue puts records in it that are there, and every   *)
(* handler that deletes a record takes it out.                              *)
(*                                                                          *)
(* Then that what a restore takes out of the queue is at the destination.   *)
(* The library is always such as the archiver leaves it (WorldOK), so that  *)
(* the plan has one version of each file; each entry that is not excused    *)
(* has a version of all of its content that is to be read yet, or is there  *)
(* (Owed); and a version that is written over whatever was there leaves     *)
(* exactly its content (WrittenCopy).                                       *)
(***************************************************************************)
EXTENDS Restore, FiniteSetTheorems, WellFoundedInduction, TLAPS

-----------------------------------------------------------------------------
(* Entries and their records                                                *)

\* The worker is a record with these fields, whatever they hold.
IsRun(w) ==
  w = [pc |-> w.pc, read |-> w.read, plan |-> w.plan, todo |-> w.todo,
       medium |-> w.medium, archive |-> w.archive, size |-> w.size]

\* Every entry has its record, unless one was made for a record that was gone.
EntriesHaveRecords == orphaned \/ cart \subseteq rows

IInv == orphaned \in BOOLEAN /\ IsRun(worker) /\ EntriesHaveRecords /\ StuckOnlyByOrphan

\* What was backed up before has its record, and no restore runs.
LEMMA InitIInv == Init => IInv
<1> SUFFICES ASSUME Init PROVE IInv
  OBVIOUS
<1>1. cart \subseteq rows
  BY RestoreConstants DEF Init
<1>2. IsRun(worker) /\ job = "none"
  BY DEF Init, IsRun, NoRun
<1> QED
  BY <1>1, <1>2 DEF Init, IInv, EntriesHaveRecords, StuckOnlyByOrphan

\* A step of the thread that does not end it leaves it a record that is not idle.
LEMMA Moved ==
  ASSUME IsRun(worker), NEW p, worker' = [worker EXCEPT !.pc = p]
  PROVE  IsRun(worker') /\ worker'.pc = p
BY DEF IsRun

\* The queue handlers: only AddFileInsert may find the record gone.
LEMMA QueueSteps ==
  ASSUME IInv, \/ ClearQueue \/ AddFileInsert
               \/ \E F \in Requests : AddDirectory(F) \/ AddBatch(F)
               \/ \E f \in File : AddFileCheck(f) \/ RemoveItem(f)
  PROVE  IInv'
<1>1. UNCHANGED <<rows, job, worker>>
  BY DEF ClearQueue, AddFileInsert, AddDirectory, AddBatch, AddFileCheck, RemoveItem,
         EditQueue, records, run
<1>2. /\ orphaned' \in BOOLEAN /\ (orphaned => orphaned')
      /\ EntriesHaveRecords'
  <2>1. CASE AddFileInsert
    BY <2>1 DEF AddFileInsert, records, IInv, EntriesHaveRecords
  <2>2. CASE ~AddFileInsert
    BY <2>2 DEF ClearQueue, AddDirectory, AddBatch, AddFileCheck, RemoveItem,
            EditQueue, records, IInv, EntriesHaveRecords
  <2> QED
    BY <2>1, <2>2
<1> QED
  BY <1>1, <1>2 DEF IInv, IsRun, StuckOnlyByOrphan

\* The discrepancy handlers: a record that goes takes its entry with it, and
\* only records are queued.
LEMMA RecordSteps ==
  ASSUME IInv, \/ \E F \in Requests : \/ Confirm(F) \/ Dismiss(F) \/ DeleteRecord(F)
                                      \/ BatchResolve(F)
               \/ \E f \in File : UndoDismiss(f)
  PROVE  IInv'
<1>1. UNCHANGED <<orphaned, job, worker>>
  BY DEF Confirm, Dismiss, DeleteRecord, BatchResolve, UndoDismiss, EditRecords, run
<1>2. EntriesHaveRecords'
  BY <1>1 DEF Confirm, Dismiss, DeleteRecord, BatchResolve, UndoDismiss, IInv,
              EntriesHaveRecords
<1> QED
  BY <1>1, <1>2 DEF IInv, IsRun, StuckOnlyByOrphan

\* The world changes neither queue nor records; a restart settles no row, but
\* the row it leaves is told apart.
LEMMA WorldKeeps ==
  ASSUME IInv, WorldSteps
  PROVE  IInv'
<1>1. CASE Restart
  <2>1. UNCHANGED <<rows, cart, orphaned>> /\ worker' = NoRun /\ job' # "active"
    BY <1>1 DEF Restart, Ends, records
  <2> QED
    BY <2>1 DEF IInv, IsRun, NoRun, EntriesHaveRecords, StuckOnlyByOrphan
<1>2. CASE ~Restart
  <2>1. UNCHANGED <<rows, cart, orphaned, job, worker>>
    BY <1>2 DEF WorldSteps, FileModified, BackUp, DeleteMedium, Attach, Swap, Exchange,
                records, queue, run
  <2> QED
    BY <2>1 DEF IInv, IsRun, EntriesHaveRecords, StuckOnlyByOrphan
<1> QED
  BY <1>1, <1>2

\* The thread: whatever ends it settles its row, but for LoadRaises, which an
\* entry without a record takes.
LEMMA WorkerKeeps ==
  ASSUME IInv, WorkerSteps
  PROVE  IInv'
<1> USE DEF IInv, EntriesHaveRecords, StuckOnlyByOrphan
<1>1. UNCHANGED <<rows, orphaned>>
  BY DEF WorkerSteps, WorkerStep, records, LoadNothing, LoadRaises, LoadPlan, SkipMedium,
         TakeMedium, WaitOver, Identified, Mismatch, TakeArchive, MediumDone, ReadTar,
         ReadObject, ReadFails, LastCheck, EmptyQueue, Complete
<1>2. cart' \in {cart, {}}
  BY DEF WorkerSteps, LoadNothing, LoadRaises, LoadPlan, SkipMedium,
         TakeMedium, WaitOver, Identified, Mismatch, TakeArchive, MediumDone, ReadTar,
         ReadObject, ReadFails, LastCheck, EmptyQueue, Complete
<1>3. EntriesHaveRecords'
  BY <1>1, <1>2
<1>4. SUFFICES IsRun(worker') /\ StuckOnlyByOrphan'
  BY <1>1, <1>3
<1>5. IsRun(NoRun) /\ NoRun.pc = "idle"
  BY DEF IsRun, NoRun
<1>6. CASE LoadRaises
  BY <1>1, <1>5, <1>6 DEF LoadRaises, Ends
<1>7. CASE LoadNothing \/ Mismatch \/ ReadFails \/ Complete \/ (LastCheck /\ JobCancelled)
  <2>1. worker' = NoRun /\ job' # "active"
    BY <1>7 DEF LoadNothing, Mismatch, ReadFails, Complete, LastCheck, Fails, Ends, JobCancelled
  <2> QED
    BY <2>1, <1>5
<1>8. CASE LoadPlan
  BY <1>8 DEF LoadPlan, NoRun, IsRun
<1>9. CASE \/ (LastCheck /\ ~JobCancelled) \/ EmptyQueue \/ WaitOver \/ Identified \/ MediumDone
  <2>1. \E p \in {"clearing", "emptied", "identifying", "archives", "media"} :
          worker' = [worker EXCEPT !.pc = p]
    BY <1>9 DEF LastCheck, EmptyQueue, WaitOver, Identified, MediumDone, At
  <2>2. PICK p \in {"clearing", "emptied", "identifying", "archives", "media"} :
          worker' = [worker EXCEPT !.pc = p]
    BY <2>1
  <2> QED
    BY <2>2, Moved
<1>10. CASE \/ \E m \in Medium : SkipMedium(m) \/ TakeMedium(m)
            \/ \E n \in {v.archive : v \in worker.todo} : TakeArchive(n)
            \/ ReadTar \/ ReadObject
  <2>1. CASE \E m \in Medium : SkipMedium(m)
    BY <2>1 DEF SkipMedium, IsRun, WorkerStep
  <2>2. CASE \E m \in Medium : TakeMedium(m)
    BY <2>2 DEF TakeMedium, IsRun
  <2>3. CASE \E n \in {v.archive : v \in worker.todo} : TakeArchive(n)
    BY <2>3 DEF TakeArchive, IsRun
  <2>4. CASE ReadTar \/ ReadObject
    <3>1. worker' = [worker EXCEPT !.pc = "archives", !.todo = worker.todo \ Targets]
      BY <2>4 DEF ReadTar, ReadObject
    <3> QED
      BY <3>1 DEF IsRun
  <2> QED
    BY <1>10, <2>1, <2>2, <2>3, <2>4
<1> QED
  BY <1>6, <1>7, <1>8, <1>9, <1>10 DEF WorkerSteps

\* Starting and cancelling a restore.
LEMMA JobSteps ==
  ASSUME IInv, TriggerRestore \/ CancelRestore
  PROVE  IInv'
<1>1. UNCHANGED <<rows, cart, orphaned>>
  BY DEF TriggerRestore, CancelRestore, records, queue
<1>2. CASE TriggerRestore
  <2>1. IsRun(worker') /\ worker'.pc = "started"
    BY <1>2 DEF TriggerRestore, NoRun, IsRun
  <2> QED
    BY <1>1, <2>1 DEF IInv, EntriesHaveRecords, StuckOnlyByOrphan
<1>3. CASE CancelRestore
  BY <1>1, <1>3 DEF CancelRestore, IInv, IsRun, EntriesHaveRecords, StuckOnlyByOrphan
<1> QED
  BY <1>2, <1>3

\* The invariant is inductive.
LEMMA NextIInv == IInv /\ [Next]_vars => IInv'
<1> SUFFICES ASSUME IInv, [Next]_vars PROVE IInv'
  OBVIOUS
<1>1. CASE WorkerSteps
  BY <1>1, WorkerKeeps
<1>2. CASE UserSteps
  BY <1>2, QueueSteps, RecordSteps, JobSteps DEF UserSteps
<1>3. CASE WorldSteps
  BY <1>3, WorldKeeps
<1>4. CASE UNCHANGED vars
  BY <1>4 DEF vars, IInv, IsRun, EntriesHaveRecords, StuckOnlyByOrphan
<1> QED
  BY <1>1, <1>2, <1>3, <1>4 DEF Next

\* Only an orphaned entry leaves a restore active without a thread.
THEOREM StuckOnlyByOrphanHolds == Spec => []StuckOnlyByOrphan
<1>1. IInv => StuckOnlyByOrphan
  BY DEF IInv
<1> QED
  BY InitIInv, NextIInv, <1>1, PTL DEF Spec

\* As long as no entry has been made for a record that was gone, every entry of
\* the queue has its record: nothing else can make run_restore raise.
THEOREM EntriesHaveRecordsHolds == Spec => []EntriesHaveRecords
<1>1. IInv => EntriesHaveRecords
  BY DEF IInv
<1> QED
  BY InitIInv, NextIInv, <1>1, PTL DEF Spec

-----------------------------------------------------------------------------
(* Versions and bytes                                                       *)

\* What the destination is made of.
Byte == ((DOMAIN SizeOf) \X Nat) \union {Zero}

\* A version names a range of a content and, if it is a fragment, its batch.
VersionOK(v) ==
  /\ v.file \in File /\ v.medium \in Medium /\ v.content \in DOMAIN SizeOf
  /\ v.split \in BOOLEAN /\ (v.split => v.splitId # 0)
  /\ v.lo \in Nat /\ v.hi \in Nat /\ v.at \in Nat

\* There are finitely many, and of one file a batch has one fragment.
VersionsOK ==
  /\ IsFiniteSet(versions)
  /\ \A v \in versions : VersionOK(v)
  /\ \A v, w \in versions :
       v.file = w.file /\ v.split /\ w.splitId = v.splitId => w = v

\* What an object is.
ObjectOK(o) ==
  /\ o.content \in DOMAIN SizeOf /\ o.lo \in Nat /\ o.hi \in Nat /\ o.lo <= o.hi
  /\ o.split \/ Whole(o)

\* Of finitely many versions one was made last.
LEMMA HasLatest ==
  ASSUME NEW V, IsFiniteSet(V), V # {}, \A v \in V : v.at \in Nat
  PROVE  \E v \in V : \A w \in V : w.at <= v.at
<1> DEFINE Later(v) == {w \in V : v.at < w.at}
           Laters == {Later(v) : v \in V}
<1>1. \A v \in V : Later(v) \in SUBSET V /\ IsFiniteSet(Later(v))
  BY FS_Subset
<1>2. Laters \subseteq FiniteSubsetsOf(V) /\ Laters # {}
  BY <1>1 DEF FiniteSubsetsOf
<1>3. PICK x \in Laters : \A y \in Laters : <<y, x>> \notin StrictSubsetOrdering(V)
  <2> HIDE DEF Laters
  <2> QED
    BY <1>2, FS_StrictSubsetOrderingWellFounded, WFMin
<1>4. PICK v \in V : x = Later(v)
  OBVIOUS
<1>5. ASSUME NEW w \in V, ~(w.at <= v.at)
      PROVE  FALSE
  <2>1. v.at \in Nat /\ w.at \in Nat
    OBVIOUS
  <2>2. v.at < w.at
    BY <1>5, <2>1
  <2>3. Later(w) \subseteq Later(v)
    BY <2>2, <2>1
  <2>4. w \in Later(v) /\ w \notin Later(w)
    BY <2>2, <2>1
  <2>5. <<Later(w), Later(v)>> \in StrictSubsetOrdering(V)
    BY <1>1, <2>3, <2>4 DEF StrictSubsetOrdering
  <2> QED
    BY <1>3, <1>4, <2>5
<1> QED
  BY <1>5

\* A file that is backed up has a latest version, which is one of its own.
LEMMA LatestIs ==
  ASSUME VersionsOK, NEW f, Backed(f)
  PROVE  Latest(f) \in versions /\ Latest(f).file = f
<1>1. VersionsOf(f) \in SUBSET versions
  BY DEF VersionsOf
<1>2. IsFiniteSet(VersionsOf(f)) /\ VersionsOf(f) # {}
  BY <1>1, FS_Subset DEF VersionsOK, Backed
<1>3. \A v \in VersionsOf(f) : v.at \in Nat
  BY <1>1 DEF VersionsOK, VersionOK
<1>4. \E v \in VersionsOf(f) : \A w \in VersionsOf(f) : w.at <= v.at
  BY <1>2, <1>3, HasLatest
<1>5. Latest(f) \in VersionsOf(f)
  BY <1>4 DEF Latest
<1> QED
  BY <1>5 DEF VersionsOf

\* The version made last is the only one that is chosen, a fragment or not.
LEMMA ChosenIs ==
  ASSUME VersionsOK, NEW f, Backed(f)
  PROVE  Chosen(f) = {Latest(f)}
<1>1. Latest(f) \in versions /\ Latest(f).file = f
  BY LatestIs
<1>2. CASE Latest(f).split
  <2>1. \A v \in VersionsOf(f) : v.splitId = Latest(f).splitId => v = Latest(f)
    BY <1>1, <1>2 DEF VersionsOf, VersionsOK
  <2>2. Latest(f) \in VersionsOf(f)
    BY <1>1 DEF VersionsOf
  <2> QED
    BY <1>2, <2>1, <2>2 DEF Chosen
<1>3. CASE ~Latest(f).split
  BY <1>3 DEF Chosen
<1> QED
  BY <1>2, <1>3

\* A new version is stamped with a number.
LEMMA StampIs ==
  ASSUME VersionsOK
  PROVE  Stamp \in Nat
<1> DEFINE T == {0} \union {v.at : v \in versions}
<1>1. \A v \in versions : v.at \in Nat
  BY DEF VersionsOK, VersionOK
<1>2. \E x \in T : \A y \in T : x >= y
  <2>1. CASE versions = {}
    BY <2>1
  <2>2. CASE versions # {}
    <3>1. PICK v \in versions : \A w \in versions : w.at <= v.at
      BY <1>1, <2>2, HasLatest DEF VersionsOK
    <3>2. v.at \in T /\ v.at >= 0 /\ \A w \in versions : v.at >= w.at
      BY <1>1, <3>1
    <3> QED
      BY <3>2
  <2> QED
    BY <2>1, <2>2
<1>3. Max(T) \in T
  BY <1>2 DEF Max
<1>4. Max(T) \in Nat
  BY <1>1, <1>3
<1> QED
  BY <1>4 DEF Stamp

\* What the chosen version covers when it is all there is and nothing is missing.
LEMMA NotIncomplete ==
  ASSUME VersionsOK, NEW f, Backed(f), ~Incomplete(f)
  PROVE  Whole(Latest(f))
<1> DEFINE v == Latest(f)
           n == SizeOf[v.content]
<1>1. VersionOK(v) /\ Chosen(f) = {v}
  BY LatestIs, ChosenIs DEF VersionsOK
<1>2. v.lo \in Nat /\ v.hi \in Nat /\ n \in Nat \ {0}
  BY <1>1, RestoreConstants DEF VersionOK
<1>3. v.lo + 1 .. v.hi = 1 .. n
  BY <1>1 DEF Incomplete
<1> HIDE DEF v, n
<1>4. 1 \in v.lo + 1 .. v.hi /\ n \in v.lo + 1 .. v.hi
  BY <1>2, <1>3
<1>5. v.lo = 0 /\ n <= v.hi /\ v.hi \in v.lo + 1 .. v.hi
  BY <1>2, <1>4
<1>6. v.hi <= n
  BY <1>2, <1>3, <1>5
<1> QED
  BY <1>2, <1>5, <1>6 DEF Whole, v, n

\* The larger of two.
LEMMA MaxTwo ==
  ASSUME NEW a \in Nat, NEW b \in Nat
  PROVE  Max({a, b}) = IF a >= b THEN a ELSE b
BY DEF Max

\* The bytes of an object are a sequence as long as its range.
LEMMA BytesIs ==
  ASSUME NEW o, o.content \in DOMAIN SizeOf, o.lo \in Nat, o.hi \in Nat, o.lo <= o.hi
  PROVE  Bytes(o) \in Seq(Byte) /\ Len(Bytes(o)) = o.hi - o.lo
<1> DEFINE n == o.hi - o.lo
<1>1. n \in Nat
  OBVIOUS
<1>2. \A i \in 1 .. n : <<o.content, o.lo + i>> \in Byte
  BY DEF Byte
<1>3. Bytes(o) \in [1 .. n -> Byte]
  BY <1>2 DEF Bytes
<1> HIDE DEF n
<1>4. Bytes(o) \in Seq(Byte) /\ Len(Bytes(o)) = n
  BY <1>1, <1>3
<1> QED
  BY <1>4 DEF n

\* A hole is a sequence.
LEMMA HoleIs ==
  ASSUME NEW n \in Nat
  PROVE  Hole(n) \in Seq(Byte) /\ Len(Hole(n)) = n
<1>1. Hole(n) \in [1 .. n -> Byte]
  BY DEF Hole, Byte
<1> QED
  BY <1>1

\* Writing into a file leaves a file.
LEMMA OverlayIs ==
  ASSUME NEW old \in Seq(Byte), NEW new \in Seq(Byte), NEW offset \in Nat
  PROVE  Overlay(old, offset, new) \in Seq(Byte)
<1> DEFINE n == IF new = <<>> THEN Len(old) ELSE Max({Len(old), offset + Len(new)})
           F(i) == IF i > offset /\ i <= offset + Len(new) THEN new[i - offset]
                   ELSE IF i <= Len(old) THEN old[i] ELSE Zero
<1>1. Len(old) \in Nat /\ Len(new) \in Nat
  OBVIOUS
<1>2. n \in Nat
  BY <1>1, MaxTwo
<1>3. \A i \in 1 .. n : F(i) \in Byte
  <2> SUFFICES ASSUME NEW i \in 1 .. n PROVE F(i) \in Byte
    OBVIOUS
  <2>0. i \in Nat /\ i >= 1
    BY <1>2
  <2>1. CASE i > offset /\ i <= offset + Len(new)
    <3>1. i - offset \in 1 .. Len(new)
      BY <1>1, <2>0, <2>1
    <3>2. new[i - offset] \in Byte
      BY <3>1
    <3> QED
      BY <3>2, <2>1
  <2>2. CASE ~(i > offset /\ i <= offset + Len(new)) /\ i <= Len(old)
    <3>1. i \in 1 .. Len(old)
      BY <1>1, <2>0, <2>2
    <3>2. old[i] \in Byte
      BY <3>1
    <3> QED
      BY <3>2, <2>2
  <2>3. CASE ~(i > offset /\ i <= offset + Len(new)) /\ ~(i <= Len(old))
    BY <2>3 DEF Byte
  <2> QED
    BY <2>1, <2>2, <2>3
<1>4. Overlay(old, offset, new) = [i \in 1 .. n |-> F(i)]
  BY DEF Overlay
<1> HIDE DEF n, F
<1>5. [i \in 1 .. n |-> F(i)] \in [1 .. n -> Byte]
  BY <1>3
<1> QED
  BY <1>2, <1>4, <1>5

\* What is no shorter than the file replaces all of it.
LEMMA OverlayAll ==
  ASSUME NEW old \in Seq(Byte), NEW new \in Seq(Byte), new # <<>>, Len(old) <= Len(new)
  PROVE  Overlay(old, 0, new) = new
<1>1. Len(old) \in Nat /\ Len(new) \in Nat
  OBVIOUS
<1>2. Max({Len(old), 0 + Len(new)}) = Len(new)
  BY <1>1, MaxTwo
<1> DEFINE F(i) == IF i > 0 /\ i <= 0 + Len(new) THEN new[i - 0]
                   ELSE IF i <= Len(old) THEN old[i] ELSE Zero
<1>3. Overlay(old, 0, new) = [i \in 1 .. Len(new) |-> F(i)]
  BY <1>2 DEF Overlay
<1>4. \A i \in 1 .. Len(new) : F(i) = new[i]
  BY <1>1
<1>5. new = [i \in 1 .. Len(new) |-> new[i]]
  OBVIOUS
<1> HIDE DEF F
<1> QED
  BY <1>3, <1>4, <1>5

-----------------------------------------------------------------------------
(* The library                                                              *)

\* Every object is a fragment or a whole file.
ShelfOK ==
  /\ shelf = [m \in Medium |-> shelf[m]]
  /\ \A m \in Medium : \A n \in DOMAIN shelf[m] : \A o \in shelf[m][n] : ObjectOK(o)

\* An object in the place of a version that has all of a content, and that is of
\* this content, has all of it too.
ObjectsServe(V) ==
  \A v \in V : v.medium \in Disk /\ v.archive \in DOMAIN shelf[v.medium] /\ Whole(v) =>
    \A o \in shelf[v.medium][v.archive] : o.content = v.content => Whole(o)

\* The library is such as the archiver leaves it.
WorldOK ==
  /\ content \in [File -> DOMAIN SizeOf]
  /\ VersionsOK /\ ShelfOK /\ ObjectsServe(versions)

\* The plan has one version of a file, and objects in its places that serve it.
PlanOK ==
  /\ worker.todo \subseteq worker.plan
  /\ \A v \in worker.plan : VersionOK(v)
  /\ \A v, w \in worker.plan : v.file = w.file => v = w
  /\ worker.plan # {} => worker.size \in [File -> Nat]
  /\ ObjectsServe(worker.plan)
  /\ worker.pc = "clearing" => worker.todo = {}

\* The destination has files of bytes.
DestOK == DOMAIN dest \subseteq File /\ \A f \in DOMAIN dest : dest[f] \in Seq(Byte)

\* What a version that has all of a content is restored to.
Copy(v) == Bytes([content |-> v.content, lo |-> 0, hi |-> SizeOf[v.content]])

\* Each entry that was read is excused, or has a version of all of its content
\* that is still to be read, or is there.
Owed ==
  \A f \in worker.read \ excused : \E v \in worker.plan :
    /\ v.file = f /\ Whole(v)
    /\ v \in worker.todo \/ (f \in DOMAIN dest /\ dest[f] = Copy(v))

\* Where it begins.
LEMMA InitWorld == Init => WorldOK
<1> SUFFICES ASSUME Init PROVE WorldOK
  OBVIOUS
<1>0. versions = Library /\ shelf = Shelf /\ content = Current
  BY DEF Init
<1>1. content \in [File -> DOMAIN SizeOf]
  BY <1>0, LibraryConstants
<1>2. \A v \in Library : VersionOK(v)
  BY RestoreConstants, LibraryConstants DEF VersionOK
<1>3. VersionsOK
  BY <1>0, <1>2, LibraryConstants DEF VersionsOK
<1>4. ShelfOK
  BY <1>0, LibraryConstants DEF ShelfOK, ObjectOK
<1>5. ObjectsServe(versions)
  <2> SUFFICES ASSUME NEW v \in Library, v.medium \in Disk, v.archive \in DOMAIN Shelf[v.medium],
                      Whole(v), NEW o \in Shelf[v.medium][v.archive], o.content = v.content
               PROVE  Whole(o)
    BY <1>0 DEF ObjectsServe
  <2>1. v.medium \in Medium
    BY <1>2 DEF VersionOK
  <2>2. v.lo = o.lo /\ v.hi = o.hi
    BY <2>1, LibraryConstants
  <2> QED
    BY <2>2 DEF Whole
<1> QED
  BY <1>1, <1>3, <1>4, <1>5 DEF WorldOK

\* What a backup leaves on the medium.
LEMMA BackUpShelf ==
  ASSUME WorldOK, rows \subseteq File, NEW f \in File, NEW m \in Medium, BackUp(f, m)
  PROVE  /\ ShelfOK'
         /\ \A k \in Medium \ {m} : shelf'[k] = shelf[k]
         /\ \A k \in DOMAIN shelf'[m] : (k \in DOMAIN shelf[m] /\ shelf'[m][k] = shelf[m][k])
                                        \/ \A o \in shelf'[m][k] : Whole(o)
<1> DEFINE n == ArchiveFor(m, f)
           c == content[f]
           o == [file |-> f, content |-> c, split |-> FALSE, lo |-> 0, hi |-> SizeOf[c]]
           S == [k \in DOMAIN shelf[m] \union {n} |-> IF k = n THEN {o} ELSE shelf[m][k]]
<1>1. shelf' = [shelf EXCEPT ![m] = S]
  BY DEF BackUp
<1>2. c \in DOMAIN SizeOf /\ SizeOf[c] \in Nat
  BY RestoreConstants DEF WorldOK
<1>3. ObjectOK(o) /\ Whole(o)
  BY <1>2 DEF ObjectOK, Whole
<1>4. /\ DOMAIN S = DOMAIN shelf[m] \union {n}
      /\ \A k \in DOMAIN S : S[k] = {o} \/ (k \in DOMAIN shelf[m] /\ S[k] = shelf[m][k])
  OBVIOUS
<1> HIDE DEF n, c, o, S
<1>5. /\ shelf' = [k \in Medium |-> shelf'[k]]
      /\ shelf'[m] = S
      /\ \A k \in Medium \ {m} : shelf'[k] = shelf[k]
  BY <1>1 DEF WorldOK, ShelfOK
<1>6. \A k \in DOMAIN S : \A x \in S[k] : ObjectOK(x)
  BY <1>3, <1>4 DEF WorldOK, ShelfOK
<1>7. \A j \in Medium : \A k \in DOMAIN shelf'[j] : \A x \in shelf'[j][k] : ObjectOK(x)
  BY <1>5, <1>6 DEF WorldOK, ShelfOK
<1>8. ShelfOK'
  BY <1>5, <1>7 DEF ShelfOK, ObjectOK, Whole
<1>9. \A k \in DOMAIN S : (k \in DOMAIN shelf[m] /\ S[k] = shelf[m][k])
                          \/ \A x \in S[k] : Whole(x)
  BY <1>3, <1>4
<1> QED
  BY <1>5, <1>8, <1>9

\* A backup overwrites an object with a whole file.
LEMMA StillServe ==
  ASSUME WorldOK, rows \subseteq File, NEW f \in File, NEW m \in Medium, BackUp(f, m),
         NEW V, ObjectsServe(V), \A v \in V : v.medium \in Medium
  PROVE  \A v \in V : v.medium \in Disk /\ v.archive \in DOMAIN shelf'[v.medium] /\ Whole(v) =>
           \A o \in shelf'[v.medium][v.archive] : o.content = v.content => Whole(o)
<1> SUFFICES ASSUME NEW v \in V, v.medium \in Disk, v.archive \in DOMAIN shelf'[v.medium],
                    Whole(v), NEW o \in shelf'[v.medium][v.archive], o.content = v.content
             PROVE  Whole(o)
  OBVIOUS
<1>1. CASE v.medium # m
  BY <1>1, BackUpShelf DEF ObjectsServe
<1>2. CASE v.medium = m
  <2>1. CASE \A x \in shelf'[m][v.archive] : Whole(x)
    BY <1>2, <2>1
  <2>2. CASE v.archive \in DOMAIN shelf[m] /\ shelf'[m][v.archive] = shelf[m][v.archive]
    BY <1>2, <2>2 DEF ObjectsServe
  <2> QED
    BY <1>2, <2>1, <2>2, BackUpShelf
<1> QED
  BY <1>1, <1>2

\* The versions after a backup.
LEMMA BackUpVersions ==
  ASSUME WorldOK, rows \subseteq File, NEW f \in File, NEW m \in Medium, BackUp(f, m)
  PROVE  /\ VersionsOK'
         /\ \A v \in versions' : v \in versions \/ (v.file = f /\ v.medium = m)
         /\ ObjectsServe(versions)'
<1> DEFINE n == ArchiveFor(m, f)
           c == content[f]
           x == [file |-> f, content |-> c, split |-> FALSE, splitId |-> 0, lo |-> 0,
                 hi |-> SizeOf[c], medium |-> m, archive |-> n, at |-> Stamp]
<1>1. versions' = versions \union {x}
  BY DEF BackUp
<1>2. c \in DOMAIN SizeOf /\ SizeOf[c] \in Nat
  BY RestoreConstants DEF WorldOK
<1>3. Stamp \in Nat
  BY StampIs DEF WorldOK
<1>4. VersionOK(x) /\ x.file = f /\ x.medium = m /\ ~x.split /\ x.splitId = 0 /\ x.archive = n
  BY <1>2, <1>3 DEF VersionOK
<1> DEFINE o == [file |-> f, content |-> c, split |-> FALSE, lo |-> 0, hi |-> SizeOf[c]]
<1>5. shelf'[m][n] = {o}
  <2>1. shelf' = [shelf EXCEPT ![m] = [k \in DOMAIN shelf[m] \union {n} |->
                                        IF k = n THEN {o} ELSE shelf[m][k]]]
    BY DEF BackUp
  <2>2. m \in DOMAIN shelf
    BY DEF WorldOK, ShelfOK
  <2> HIDE DEF o, n, c
  <2> QED
    BY <2>1, <2>2
<1>6. \A y \in shelf'[m][n] : Whole(y)
  BY <1>5 DEF Whole
<1> HIDE DEF n, c, x, o
<1>7. IsFiniteSet(versions')
  BY <1>1, FS_AddElement DEF WorldOK, VersionsOK
<1>8. \A v \in versions' : VersionOK(v)
  BY <1>1, <1>4 DEF WorldOK, VersionsOK
<1>9. \A v, w \in versions' : v.file = w.file /\ v.split /\ w.splitId = v.splitId => w = v
  <2> SUFFICES ASSUME NEW v \in versions', NEW w \in versions',
                      v.file = w.file, v.split, w.splitId = v.splitId
               PROVE  w = v
    OBVIOUS
  <2>1. v \in versions /\ v.splitId # 0
    BY <1>1, <1>4 DEF WorldOK, VersionsOK, VersionOK
  <2>2. w \in versions
    BY <1>1, <1>4, <2>1
  <2> QED
    BY <2>1, <2>2 DEF WorldOK, VersionsOK
<1>10. VersionsOK'
  BY <1>7, <1>8, <1>9 DEF VersionsOK, VersionOK
<1>11. \A v \in versions : v.medium \in Medium
  BY DEF WorldOK, VersionsOK, VersionOK
<1>12. ObjectsServe(versions)'
  <2> SUFFICES ASSUME NEW v \in versions', v.medium \in Disk,
                      v.archive \in DOMAIN shelf'[v.medium], Whole(v),
                      NEW y \in shelf'[v.medium][v.archive], y.content = v.content
               PROVE  Whole(y)
    BY DEF ObjectsServe, Whole
  <2>1. CASE v \in versions
    BY <1>11, <2>1, StillServe DEF WorldOK
  <2>2. CASE v = x
    BY <1>4, <1>6, <2>2
  <2> QED
    BY <1>1, <2>1, <2>2
<1> QED
  BY <1>1, <1>4, <1>10, <1>12

\* Fewer versions, with nothing else changed.
LEMMA FewerVersions ==
  ASSUME WorldOK, UNCHANGED <<content, shelf>>, versions' \subseteq versions
  PROVE  WorldOK'
<1>1. IsFiniteSet(versions')
  BY FS_Subset DEF WorldOK, VersionsOK
<1>2. VersionsOK'
  BY <1>1 DEF WorldOK, VersionsOK, VersionOK
<1>3. ObjectsServe(versions)'
  BY DEF WorldOK, ObjectsServe, Whole
<1>4. ShelfOK'
  BY DEF WorldOK, ShelfOK, ObjectOK, Whole
<1> QED
  BY <1>2, <1>3, <1>4 DEF WorldOK

\* Everything but a scan and a backup.
LEMMA OthersKeepWorld ==
  ASSUME [Next]_vars,
         ~\E f \in File : FileModified(f) \/ \E m \in Medium : BackUp(f, m)
  PROVE  UNCHANGED <<content, shelf>> /\ versions' \subseteq versions
<1>1. CASE WorkerSteps
  BY <1>1 DEF WorkerSteps, WorkerStep, records, hw, LoadNothing, LoadRaises, LoadPlan,
         SkipMedium, TakeMedium, WaitOver, Identified, Mismatch, TakeArchive, MediumDone,
         ReadTar, ReadObject, ReadFails, LastCheck, EmptyQueue, Complete
<1>2. CASE UserSteps
  BY <1>2 DEF UserSteps, ClearQueue, AddFileInsert, AddFileCheck, RemoveItem, UndoDismiss,
         AddDirectory, AddBatch, Confirm, Dismiss, DeleteRecord, BatchResolve,
         TriggerRestore, CancelRestore, EditQueue, EditRecords, records, hw
<1>3. CASE WorldSteps
  BY <1>3 DEF WorldSteps, DeleteMedium, Attach, Swap, Exchange, Restart, records, hw
<1>4. CASE UNCHANGED vars
  BY <1>4 DEF vars
<1> QED
  BY <1>1, <1>2, <1>3, <1>4 DEF Next

\* The library stays as the archiver leaves it.
LEMMA WorldKept ==
  ASSUME WorldOK, rows \subseteq File, [Next]_vars
  PROVE  WorldOK'
<1>1. CASE ~\E f \in File : FileModified(f) \/ \E m \in Medium : BackUp(f, m)
  BY <1>1, OthersKeepWorld, FewerVersions
<1>2. ASSUME NEW f \in File, FileModified(f)
      PROVE  WorldOK'
  <2>1. UNCHANGED <<versions, shelf>>
    BY <1>2 DEF FileModified, hw
  <2>2. content' \in [File -> DOMAIN SizeOf]
    BY <1>2, LibraryConstants DEF FileModified, WorldOK
  <2> QED
    BY <2>1, <2>2 DEF WorldOK, VersionsOK, VersionOK, ShelfOK, ObjectOK, ObjectsServe, Whole
<1>3. ASSUME NEW f \in File, NEW m \in Medium, BackUp(f, m)
      PROVE  WorldOK'
  <2>1. content' = content
    BY <1>3 DEF BackUp
  <2> QED
    BY <1>3, <2>1, BackUpShelf, BackUpVersions DEF WorldOK
<1> QED
  BY <1>1, <1>2, <1>3

-----------------------------------------------------------------------------
(* Records, queue, media and job                                            *)

\* Versions and marks belong to records.
RecordsOK ==
  /\ rows \subseteq File /\ deleted \subseteq rows /\ acked \subseteq rows
  /\ \A v \in versions : v.file \in rows /\ v.medium \in media

\* Entries are files.
QueueOK == cart \subseteq File /\ adding \in File \union {None}

\* The drive takes one tape.
OneTape == \A t, u \in online \intersect Tape : t = u

\* A worker has a job that is active or was cancelled.
JobOK ==
  /\ job \in {"none", "active", "killed", "cancelled", "failed", "completed"}
  /\ worker.pc # "idle" => job \in {"active", "cancelled"}

\* What TypeOK says, but for the plan and the destination.
BooksOK == RecordsOK /\ QueueOK /\ OneTape /\ JobOK

\* Where it begins.
LEMMA InitBooks == Init => BooksOK
<1> SUFFICES ASSUME Init PROVE BooksOK
  OBVIOUS
<1>1. RecordsOK
  BY RestoreConstants DEF Init, RecordsOK
<1>2. QueueOK
  BY RestoreConstants DEF Init, QueueOK
<1>3. OneTape
  BY RestoreConstants DEF Init, OneTape
<1>4. JobOK
  BY DEF Init, JobOK, NoRun
<1> QED
  BY <1>1, <1>2, <1>3, <1>4 DEF BooksOK

\* The queue handlers and the discrepancy screen.
LEMMA HandlersKeepBooks ==
  ASSUME BooksOK,
         \/ ClearQueue \/ AddFileInsert
         \/ \E f \in File : AddFileCheck(f) \/ RemoveItem(f) \/ UndoDismiss(f)
         \/ \E F \in Requests : AddDirectory(F) \/ AddBatch(F) \/ Confirm(F) \/ Dismiss(F)
                                \/ DeleteRecord(F) \/ BatchResolve(F)
  PROVE  BooksOK'
<1>1. UNCHANGED <<media, online, job, worker>>
  BY DEF ClearQueue, AddFileInsert, AddFileCheck, RemoveItem, UndoDismiss, AddDirectory,
         AddBatch, Confirm, Dismiss, DeleteRecord, BatchResolve, EditQueue, EditRecords, hw, run
<1>2. RecordsOK' /\ QueueOK'
  <2>1. CASE ClearQueue \/ AddFileInsert \/ \E f \in File : AddFileCheck(f) \/ RemoveItem(f)
    BY <1>1, <2>1 DEF BooksOK, RecordsOK, QueueOK, ClearQueue, AddFileInsert, AddFileCheck,
                      RemoveItem, EditQueue, records
  <2>2. CASE \E f \in File : UndoDismiss(f)
    BY <1>1, <2>2 DEF BooksOK, RecordsOK, QueueOK, UndoDismiss, EditRecords
  <2>3. CASE \E F \in Requests : AddDirectory(F) \/ AddBatch(F)
    BY <1>1, <2>3 DEF BooksOK, RecordsOK, QueueOK, AddDirectory, AddBatch, EditQueue, records
  <2>4. CASE \E F \in Requests : Confirm(F) \/ Dismiss(F)
    BY <1>1, <2>4 DEF BooksOK, RecordsOK, QueueOK, Confirm, Dismiss, EditRecords
  <2>5. CASE \E F \in Requests : DeleteRecord(F)
    BY <1>1, <2>5 DEF BooksOK, RecordsOK, QueueOK, DeleteRecord, EditRecords
  <2>6. CASE \E F \in Requests : BatchResolve(F)
    BY <1>1, <2>6 DEF BooksOK, RecordsOK, QueueOK, BatchResolve, EditRecords
  <2> QED
    BY <2>1, <2>2, <2>3, <2>4, <2>5, <2>6
<1> QED
  BY <1>1, <1>2 DEF BooksOK, OneTape, JobOK

\* Disks and tapes come and go.
LEMMA MediaKeepBooks ==
  ASSUME BooksOK, NEW m \in Medium, Attach(m) \/ Swap(m)
  PROVE  BooksOK'
<1>1. UNCHANGED <<rows, deleted, acked, versions, media, cart, adding, job, worker>>
  BY DEF Attach, Swap, Exchange, records, queue, run
<1>2. OneTape'
  <2>1. CASE online' = online \ {m}
    BY <2>1 DEF BooksOK, OneTape
  <2>2. CASE online' = Attached(m)
    BY <2>2, RestoreConstants DEF Attached, BooksOK, OneTape, Medium
  <2> QED
    BY <2>1, <2>2 DEF Attach, Swap, Exchange
<1> QED
  BY <1>1, <1>2 DEF BooksOK, RecordsOK, QueueOK, JobOK

\* The other steps of the world.
LEMMA WorldKeepsBooks ==
  ASSUME BooksOK, WorldOK, WorldSteps
  PROVE  BooksOK'
<1>1. ASSUME NEW f \in File, FileModified(f) PROVE BooksOK'
  BY <1>1 DEF FileModified, hw, queue, run, BooksOK, RecordsOK, QueueOK, OneTape, JobOK
<1>2. ASSUME NEW f \in File, NEW m \in Medium, BackUp(f, m) PROVE BooksOK'
  <2>1. /\ UNCHANGED <<rows, deleted, acked, media, online, cart, adding, job, worker>>
        /\ f \in rows /\ m \in media
    BY <1>2 DEF BackUp, queue, run
  <2>2. \A v \in versions' : v \in versions \/ (v.file = f /\ v.medium = m)
    BY <1>2, BackUpVersions DEF BooksOK, RecordsOK
  <2> QED
    BY <2>1, <2>2 DEF BooksOK, RecordsOK, QueueOK, OneTape, JobOK
<1>3. ASSUME NEW m \in Medium, DeleteMedium(m) PROVE BooksOK'
  BY <1>3 DEF DeleteMedium, queue, run, BooksOK, RecordsOK, QueueOK, OneTape, JobOK
<1>4. ASSUME Restart PROVE BooksOK'
  <2>1. /\ UNCHANGED <<rows, deleted, acked, versions, media, online, cart>>
        /\ adding' = None /\ worker' = NoRun /\ job' \in {job, "killed"}
    BY <1>4 DEF Restart, Ends, records, hw
  <2> QED
    BY <2>1 DEF BooksOK, RecordsOK, QueueOK, OneTape, JobOK, NoRun
<1> QED
  BY <1>1, <1>2, <1>3, <1>4, MediaKeepBooks DEF WorldSteps

\* The thread.
LEMMA WorkerKeepsBooks ==
  ASSUME BooksOK, IsRun(worker), WorkerSteps
  PROVE  BooksOK'
<1>1. UNCHANGED <<rows, deleted, acked, versions, media, online, adding>> /\ worker.pc # "idle"
  BY DEF WorkerSteps, WorkerStep, records, hw, LoadNothing, LoadRaises, LoadPlan, SkipMedium,
         TakeMedium, WaitOver, Identified, Mismatch, TakeArchive, MediumDone, ReadTar,
         ReadObject, ReadFails, LastCheck, EmptyQueue, Complete
<1>2. cart' \in {cart, {}}
  BY DEF WorkerSteps, LoadNothing, LoadRaises, LoadPlan, SkipMedium,
         TakeMedium, WaitOver, Identified, Mismatch, TakeArchive, MediumDone, ReadTar,
         ReadObject, ReadFails, LastCheck, EmptyQueue, Complete
<1>3. \/ worker' = NoRun /\ job' \in {job, "cancelled", "failed", "completed"}
      \/ job' = job
  BY DEF WorkerSteps, LoadNothing, LoadRaises, LoadPlan, SkipMedium,
         TakeMedium, WaitOver, Identified, Mismatch, TakeArchive, MediumDone, ReadTar,
         ReadObject, ReadFails, LastCheck, EmptyQueue, Complete, Fails, Ends, JobCancelled
<1>4. JobOK'
  BY <1>1, <1>3 DEF BooksOK, JobOK, NoRun
<1> QED
  BY <1>1, <1>2, <1>4 DEF BooksOK, RecordsOK, QueueOK, OneTape

\* Starting and cancelling a restore.
LEMMA JobKeepsBooks ==
  ASSUME BooksOK, TriggerRestore \/ CancelRestore
  PROVE  BooksOK'
BY DEF TriggerRestore, CancelRestore, records, hw, queue, BooksOK, RecordsOK, QueueOK,
       OneTape, JobOK

\* Every step.
LEMMA BooksKept ==
  ASSUME BooksOK, WorldOK, IsRun(worker), [Next]_vars
  PROVE  BooksOK'
<1>1. CASE UserSteps
  BY <1>1, HandlersKeepBooks, JobKeepsBooks DEF UserSteps
<1>2. CASE UNCHANGED vars
  BY <1>2 DEF vars, BooksOK, RecordsOK, QueueOK, OneTape, JobOK
<1> QED
  BY <1>1, <1>2, WorkerKeepsBooks, WorldKeepsBooks DEF Next

-----------------------------------------------------------------------------
(* The run                                                                  *)

\* The restore, and what it leaves at the destination.
RunOK == PlanOK /\ DestOK /\ Owed

\* Where no restore has read the queue there is nothing to say of it.
LEMMA FreshRun ==
  ASSUME WorldOK, DestOK, dest' = dest, UNCHANGED shelf,
         \E p \in {"idle", "started"} : worker' = [NoRun EXCEPT !.pc = p]
  PROVE  RunOK'
<1>1. /\ worker'.todo = {} /\ worker'.plan = {} /\ worker'.read = {}
      /\ worker'.pc # "clearing"
  BY DEF NoRun
<1>2. PlanOK'
  BY <1>1 DEF PlanOK, ObjectsServe
<1>3. DestOK' /\ Owed'
  BY <1>1 DEF DestOK, Owed
<1> QED
  BY <1>2, <1>3 DEF RunOK

\* What others do to the library, while the thread and the destination stay.
LEMMA OutsideKeepsRun ==
  ASSUME WorldOK, RunOK, rows \subseteq File, [Next]_vars, UNCHANGED <<worker, dest, excused>>
  PROVE  RunOK'
<1>1. ObjectsServe(worker.plan)'
  <2>1. CASE ~\E f \in File : FileModified(f) \/ \E m \in Medium : BackUp(f, m)
    BY <2>1, OthersKeepWorld DEF RunOK, PlanOK, ObjectsServe, Whole
  <2>2. CASE \E f \in File : FileModified(f)
    BY <2>2 DEF FileModified, hw, RunOK, PlanOK, ObjectsServe, Whole
  <2>3. ASSUME NEW f \in File, NEW m \in Medium, BackUp(f, m)
        PROVE  ObjectsServe(worker.plan)'
    <3>1. \A v \in worker.plan : v.medium \in Medium
      BY DEF RunOK, PlanOK, VersionOK
    <3> QED
      BY <2>3, <3>1, StillServe DEF RunOK, PlanOK, ObjectsServe, Whole
  <2> QED
    BY <2>1, <2>2, <2>3
<1>2. PlanOK'
  BY <1>1 DEF RunOK, PlanOK, VersionOK
<1>3. DestOK' /\ Owed'
  BY DEF RunOK, DestOK, Owed, Whole, Copy, Bytes
<1> QED
  BY <1>2, <1>3 DEF RunOK

\* A step of the thread that only moves it on.
LEMMA MovesKeepRun ==
  ASSUME WorldOK, RunOK, UNCHANGED <<dest, excused, shelf>>,
         worker'.read = worker.read, worker'.plan = worker.plan, worker'.todo = worker.todo,
         worker'.size = worker.size, worker'.pc = "clearing" => worker.todo = {}
  PROVE  RunOK'
<1>1. PlanOK'
  BY DEF RunOK, PlanOK, ObjectsServe, Whole, VersionOK
<1>2. DestOK'
  BY DEF RunOK, DestOK
<1>3. Owed'
  BY DEF RunOK, Owed, Whole, Copy
<1> QED
  BY <1>1, <1>2, <1>3 DEF RunOK

\* The plan has one version of each file that is to be restored.
LEMMA PlanIs ==
  ASSUME WorldOK, NEW v \in UNION {Chosen(f) : f \in ToRestore}
  PROVE  v \in versions /\ v.file \in ToRestore /\ v = Latest(v.file)
<1>1. PICK f \in ToRestore : v \in Chosen(f)
  OBVIOUS
<1>2. Backed(f)
  BY DEF ToRestore
<1>3. v = Latest(f)
  BY <1>1, <1>2, ChosenIs DEF WorldOK
<1>4. Latest(f) \in versions /\ Latest(f).file = f
  BY <1>2, LatestIs DEF WorldOK
<1> QED
  BY <1>3, <1>4

\* The plan is made: what is not excused is still to be done.
LEMMA LoadPlanKeepsRun ==
  ASSUME WorldOK, RunOK, LoadPlan
  PROVE  RunOK'
<1> DEFINE plan == UNION {Chosen(f) : f \in ToRestore}
<1>1. /\ worker'.plan = plan /\ worker'.todo = plan /\ worker'.read = cart
      /\ worker'.size = [f \in File |-> SizeOf[content[f]]] /\ worker'.pc = "media"
      /\ excused' = (cart \ ToRestore) \union {f \in ToRestore : Incomplete(f)}
      /\ UNCHANGED <<dest, shelf>>
  BY DEF LoadPlan, NoRun, WorkerStep, hw
<1>2. \A v \in plan : v \in versions /\ v.file \in ToRestore /\ v = Latest(v.file)
  BY PlanIs
<1>3. \A f \in ToRestore : Latest(f) \in plan /\ Latest(f).file = f
  <2> SUFFICES ASSUME NEW f \in ToRestore PROVE Latest(f) \in plan /\ Latest(f).file = f
    OBVIOUS
  <2>1. Backed(f)
    BY DEF ToRestore
  <2> QED
    BY <2>1, LatestIs, ChosenIs DEF WorldOK
<1> HIDE DEF plan
<1>4. worker'.size \in [File -> Nat]
  BY <1>1, RestoreConstants DEF WorldOK
<1>5. \A v \in plan : VersionOK(v)
  BY <1>2 DEF WorldOK, VersionsOK
<1>6. ObjectsServe(worker.plan)'
  BY <1>1, <1>2 DEF WorldOK, ObjectsServe, Whole
<1>7. \A v, w \in plan : v.file = w.file => v = w
  BY <1>2
<1>8. PlanOK'
  BY <1>1, <1>4, <1>5, <1>6, <1>7 DEF PlanOK, VersionOK
<1>9. Owed'
  <2> SUFFICES ASSUME NEW f \in cart, f \notin excused'
               PROVE  Latest(f) \in plan /\ Latest(f).file = f /\ Whole(Latest(f))
    BY <1>1 DEF Owed, Whole
  <2>1. f \in ToRestore /\ ~Incomplete(f)
    BY <1>1
  <2>2. Backed(f)
    BY <2>1 DEF ToRestore
  <2> QED
    BY <1>3, <2>1, <2>2, NotIncomplete DEF WorldOK
<1>10. DestOK'
  BY <1>1 DEF RunOK, DestOK
<1> QED
  BY <1>8, <1>9, <1>10 DEF RunOK

\* A medium that is gone: its files are excused.
LEMMA SkipKeepsRun ==
  ASSUME RunOK, IsRun(worker), NEW m \in Medium, SkipMedium(m)
  PROVE  RunOK'
<1>1. /\ worker'.plan = worker.plan /\ worker'.read = worker.read /\ worker'.pc = worker.pc
      /\ worker'.size = worker.size /\ worker'.todo = worker.todo \ On(m)
      /\ worker.pc = "media"
      /\ excused' = excused \union {v.file : v \in On(m)}
      /\ UNCHANGED <<dest, shelf>>
  BY DEF SkipMedium, IsRun, WorkerStep, hw, Excuse
<1>2. PlanOK'
  BY <1>1 DEF RunOK, PlanOK, ObjectsServe, Whole, VersionOK
<1>3. Owed'
  <2> SUFFICES ASSUME NEW f \in worker.read \ excused'
               PROVE  \E v \in worker.plan :
                        /\ v.file = f /\ Whole(v)
                        /\ v \in worker'.todo \/ (f \in DOMAIN dest /\ dest[f] = Copy(v))
    BY <1>1 DEF Owed, Whole, Copy, Bytes
  <2>1. PICK v \in worker.plan :
          /\ v.file = f /\ Whole(v)
          /\ v \in worker.todo \/ (f \in DOMAIN dest /\ dest[f] = Copy(v))
    BY <1>1 DEF RunOK, Owed
  <2>2. v \notin On(m)
    BY <1>1, <2>1
  <2> QED
    BY <1>1, <2>1, <2>2
<1>4. DestOK'
  BY <1>1 DEF RunOK, DestOK
<1> QED
  BY <1>2, <1>3, <1>4 DEF RunOK

-----------------------------------------------------------------------------
(* Reading                                                                  *)

\* What can be read is what the archiver has left there.
LEMMA FoundOK ==
  ASSUME WorldOK, worker.medium \in Medium, NEW o \in Found
  PROVE  ObjectOK(o)
<1>1. PICK k \in Source : worker.archive \in DOMAIN shelf[k] /\ o \in shelf[k][worker.archive]
  BY DEF Found
<1>2. k \in Medium
  BY <1>1 DEF Source, Medium
<1> QED
  BY <1>1, <1>2 DEF WorldOK, ShelfOK

\* Writing a version leaves a file of bytes.
LEMMA WrittenIs ==
  ASSUME RunOK, NEW v \in worker.plan, NEW bytes \in Seq(Byte)
  PROVE  Written(v, bytes) \in Seq(Byte)
<1>1. VersionOK(v) /\ worker.size \in [File -> Nat]
  BY DEF RunOK, PlanOK
<1>2. Opened(v) \in Seq(Byte)
  <2>1. CASE WritesOver(v)
    BY <2>1 DEF Opened, WritesOver, RunOK, DestOK
  <2>2. CASE ~WritesOver(v) /\ v.split
    BY <1>1, <2>2, HoleIs DEF Opened, VersionOK
  <2>3. CASE ~WritesOver(v) /\ ~v.split
    BY <1>1, <2>3 DEF Opened, VersionOK
  <2> QED
    BY <1>1, <2>1, <2>2, <2>3 DEF VersionOK
<1>3. CASE v.split
  BY <1>1, <1>2, <1>3, OverlayIs DEF Written, VersionOK
<1>4. CASE ~v.split
  BY <1>1, <1>2, <1>4, OverlayIs DEF Written, VersionOK
<1> QED
  BY <1>1, <1>3, <1>4 DEF VersionOK

\* All of a content over a file that is not longer leaves the content.
LEMMA WrittenCopy ==
  ASSUME RunOK, NEW v \in worker.plan, Whole(v), NEW o, ObjectOK(o), Whole(o), ~Spoilt(v, o)
  PROVE  Written(v, Bytes(o)) = Copy(v)
<1>1. VersionOK(v) /\ worker.size \in [File -> Nat]
  BY DEF RunOK, PlanOK
<1>2. o.content = v.content /\ o.lo = 0 /\ o.hi = SizeOf[v.content]
  BY DEF Spoilt, Whole
<1>3. Bytes(o) = Copy(v)
  BY <1>2 DEF Bytes, Copy
<1>4. SizeOf[v.content] \in Nat \ {0}
  BY <1>1, RestoreConstants DEF VersionOK
<1>5. Bytes(o) \in Seq(Byte) /\ Len(Bytes(o)) = SizeOf[v.content]
  <2>1. Len(Bytes(o)) = o.hi - o.lo /\ Bytes(o) \in Seq(Byte)
    BY BytesIs DEF ObjectOK
  <2> QED
    BY <1>2, <1>4, <2>1
<1>6. Bytes(o) # <<>>
  <2>1. Len(<<>>) = 0
    OBVIOUS
  <2> QED
    BY <1>4, <1>5, <2>1
<1>7. Opened(v) \in Seq(Byte) /\ Len(Opened(v)) <= SizeOf[v.content]
  <2>1. CASE WritesOver(v)
    <3>1. Opened(v) = dest[v.file] /\ dest[v.file] \in Seq(Byte)
      BY <2>1 DEF Opened, WritesOver, RunOK, DestOK
    <3>2. ~(Len(dest[v.file]) > SizeOf[v.content])
      BY <2>1 DEF Spoilt
    <3> QED
      BY <1>4, <3>1, <3>2
  <2>2. CASE ~WritesOver(v) /\ v.split
    <3>1. Opened(v) = Hole(SizeOf[v.content])
      BY <1>1, <2>2 DEF Opened, Spoilt
    <3> QED
      BY <1>4, <3>1, HoleIs
  <2>3. CASE ~WritesOver(v) /\ ~v.split
    <3>1. Opened(v) = <<>>
      BY <1>1, <2>3 DEF Opened, VersionOK
    <3> QED
      BY <1>4, <3>1
  <2> QED
    BY <1>1, <2>1, <2>2, <2>3 DEF VersionOK
<1>8. Written(v, Bytes(o)) = Overlay(Opened(v), 0, Bytes(o))
  <2>1. (IF v.split THEN v.lo ELSE 0) = 0
    BY DEF Whole
  <2> QED
    BY <2>1 DEF Written
<1>9. Overlay(Opened(v), 0, Bytes(o)) = Bytes(o)
  BY <1>4, <1>5, <1>6, <1>7, OverlayAll
<1> QED
  BY <1>3, <1>8, <1>9

\* A read that writes the versions of V, and excuses what it does not write whole.
LEMMA ReadKeepsRun ==
  ASSUME RunOK, IsRun(worker), UNCHANGED shelf,
         NEW V \in SUBSET Targets,
         worker' = [worker EXCEPT !.pc = "archives", !.todo = worker.todo \ Targets],
         excused \subseteq excused',
         DOMAIN dest' = (DOMAIN dest) \union {v.file : v \in V},
         \A f \in DOMAIN dest' : dest'[f] \in Seq(Byte),
         \A f \in DOMAIN dest : (\A v \in V : v.file # f) => dest'[f] = dest[f],
         \A v \in Targets : Whole(v) /\ v.file \notin excused' =>
           v \in V /\ dest'[v.file] = Copy(v)
  PROVE  RunOK'
<1>1. /\ worker'.plan = worker.plan /\ worker'.read = worker.read /\ worker'.pc = "archives"
      /\ worker'.size = worker.size /\ worker'.todo = worker.todo \ Targets
  BY DEF IsRun
<1>2. PlanOK'
  BY <1>1 DEF RunOK, PlanOK, ObjectsServe, Whole, VersionOK
<1>3. Targets \subseteq worker.plan
  BY DEF Targets, On, RunOK, PlanOK
<1>4. DestOK'
  BY <1>3 DEF RunOK, DestOK, PlanOK, VersionOK
<1>5. ASSUME NEW f \in worker.read, f \notin excused'
      PROVE  \E v \in worker.plan : /\ v.file = f /\ Whole(v)
                                    /\ \/ v \in worker.todo \ Targets
                                       \/ f \in DOMAIN dest' /\ dest'[f] = Copy(v)
  <2>1. PICK v \in worker.plan : /\ v.file = f /\ Whole(v)
                                 /\ v \in worker.todo \/ (f \in DOMAIN dest /\ dest[f] = Copy(v))
    BY <1>5 DEF RunOK, Owed
  <2>2. CASE v \in Targets
    <3>1. v \in V /\ dest'[v.file] = Copy(v)
      BY <1>5, <2>1, <2>2
    <3> QED
      BY <2>1, <3>1
  <2>3. CASE v \notin Targets /\ v \notin worker.todo
    <3>1. \A w \in V : w.file # f
      BY <1>3, <2>1, <2>3 DEF RunOK, PlanOK
    <3> QED
      BY <2>1, <2>3, <3>1
  <2> QED
    BY <2>1, <2>2, <2>3
<1>6. Owed'
  BY <1>1, <1>5 DEF Owed, Whole, Copy
<1> QED
  BY <1>2, <1>4, <1>6 DEF RunOK

\* A tar: each version is found under its name, and has the range of its member.
LEMMA ReadTarKeepsRun ==
  ASSUME WorldOK, RunOK, IsRun(worker), ReadTar
  PROVE  RunOK'
<1> DEFINE wanted == {v \in Targets : Member(v) # {}}
           from   == [v \in wanted |-> CHOOSE o \in Member(v) : TRUE]
<1>1. PICK V \in SUBSET wanted :
        /\ WriteAll(V, from)
        /\ Excuse((Targets \ V) \union {v \in V : Spoilt(v, from[v])})
  BY DEF ReadTar
<1>2. /\ worker' = [worker EXCEPT !.pc = "archives", !.todo = worker.todo \ Targets]
      /\ worker.medium \in Medium /\ UNCHANGED shelf
  BY DEF ReadTar, WorkerStep, hw, Medium
<1>3. Targets \subseteq worker.plan /\ V \subseteq Targets
  BY DEF Targets, On, RunOK, PlanOK
<1>4. \A v \in V : from[v] \in Member(v) /\ from[v] \in Found /\ ObjectOK(from[v])
  <2>1. \A v \in V : from[v] \in Member(v)
    OBVIOUS
  <2> QED
    BY <1>2, <2>1, FoundOK DEF Member
<1>5. \A v \in V : Bytes(from[v]) \in Seq(Byte)
  BY <1>4, BytesIs DEF ObjectOK
<1>6. \A v \in V : (CHOOSE w \in V : w.file = v.file) = v
  BY <1>3 DEF RunOK, PlanOK
<1> HIDE DEF wanted, from
<1>7. /\ DOMAIN dest' = (DOMAIN dest) \union {v.file : v \in V}
      /\ \A v \in V : dest'[v.file] = Written(v, Bytes(from[v]))
      /\ \A f \in DOMAIN dest : (\A v \in V : v.file # f) => dest'[f] = dest[f]
  BY <1>1, <1>6 DEF WriteAll
<1>8. \A f \in DOMAIN dest' : dest'[f] \in Seq(Byte)
  BY <1>3, <1>5, <1>7, WrittenIs DEF RunOK, DestOK
<1>9. ASSUME NEW v \in Targets, Whole(v), v.file \notin excused'
      PROVE  v \in V /\ dest'[v.file] = Copy(v)
  <2>1. v \in V /\ ~Spoilt(v, from[v])
    BY <1>1, <1>9 DEF Excuse
  <2>2. from[v].content = v.content
    BY <2>1 DEF Spoilt
  <2>3. Whole(from[v])
    <3>1. CASE v.split
      BY <1>4, <1>9, <2>1, <2>2, <3>1 DEF Member, Whole
    <3>2. CASE ~v.split
      BY <1>4, <2>1, <3>2 DEF Member, ObjectOK
    <3> QED
      BY <3>1, <3>2
  <2> QED
    BY <1>3, <1>4, <1>7, <1>9, <2>1, <2>3, WrittenCopy
<1>10. excused \subseteq excused'
  BY <1>1 DEF Excuse
<1> QED
  BY <1>2, <1>3, <1>7, <1>8, <1>9, <1>10, ReadKeepsRun

\* An object: the first file has it all, the others are excused.
LEMMA ReadObjectKeepsRun ==
  ASSUME WorldOK, RunOK, IsRun(worker), ReadObject
  PROVE  RunOK'
<1>1. PICK V \in SUBSET Targets, first \in Targets, o \in Found :
        LET rest == V \ {first} IN
        /\ dest' = [f \in (DOMAIN dest) \union {v.file : v \in V} |->
                     IF first \in V /\ f = first.file THEN Written(first, Bytes(o))
                     ELSE IF \E v \in rest : v.file = f /\ ~WritesOver(v) THEN <<>>
                     ELSE dest[f]]
        /\ Excuse((Targets \ {first}) \union {v \in {first} : v \notin V \/ Spoilt(v, o)})
  BY DEF ReadObject
<1>2. /\ worker' = [worker EXCEPT !.pc = "archives", !.todo = worker.todo \ Targets]
      /\ worker.medium \in Disk /\ worker.medium \in Medium /\ UNCHANGED shelf
  BY DEF ReadObject, WorkerStep, hw, Medium
<1>3. Targets \subseteq worker.plan
  BY DEF Targets, On, RunOK, PlanOK
<1>4. ObjectOK(o)
  BY <1>2, FoundOK
<1>5. Bytes(o) \in Seq(Byte)
  BY <1>4, BytesIs DEF ObjectOK
<1>6. Written(first, Bytes(o)) \in Seq(Byte)
  BY <1>3, <1>5, WrittenIs
<1>7. /\ DOMAIN dest' = (DOMAIN dest) \union {v.file : v \in V}
      /\ first \in V => dest'[first.file] = Written(first, Bytes(o))
  BY <1>1
<1>8. \A f \in DOMAIN dest' : dest'[f] \in Seq(Byte)
  <2> SUFFICES ASSUME NEW f \in DOMAIN dest' PROVE dest'[f] \in Seq(Byte)
    OBVIOUS
  <2>1. \/ dest'[f] = Written(first, Bytes(o))
        \/ dest'[f] = <<>>
        \/ f \in DOMAIN dest /\ dest'[f] = dest[f]
    BY <1>1 DEF WritesOver
  <2>2. <<>> \in Seq(Byte)
    OBVIOUS
  <2>3. \A g \in DOMAIN dest : dest[g] \in Seq(Byte)
    BY DEF RunOK, DestOK
  <2> QED
    BY <1>6, <2>1, <2>2, <2>3
<1>9. ASSUME NEW f \in DOMAIN dest, \A v \in V : v.file # f
      PROVE  dest'[f] = dest[f]
  <2>1. ~(first \in V /\ f = first.file) /\ ~\E v \in V \ {first} : v.file = f /\ ~WritesOver(v)
    BY <1>9
  <2> QED
    BY <1>1, <2>1
<1>10. ASSUME NEW v \in Targets, Whole(v), v.file \notin excused'
       PROVE  v \in V /\ dest'[v.file] = Copy(v)
  <2>1. v = first /\ first \in V /\ ~Spoilt(first, o)
    BY <1>1, <1>10 DEF Excuse
  <2>2. o.content = v.content
    BY <2>1 DEF Spoilt
  <2>3. worker.medium \in online /\ o \in shelf[worker.medium][worker.archive]
        /\ worker.archive \in DOMAIN shelf[worker.medium]
    BY <1>2, RestoreConstants DEF Found, Source
  <2>4. v.medium = worker.medium /\ v.archive = worker.archive
    BY DEF Targets, On
  <2>5. Whole(o)
    BY <1>2, <1>3, <1>10, <2>2, <2>3, <2>4 DEF RunOK, PlanOK, ObjectsServe
  <2> QED
    BY <1>3, <1>4, <1>7, <1>10, <2>1, <2>5, WrittenCopy
<1>11. excused \subseteq excused'
  BY <1>1 DEF Excuse
<1> QED
  BY <1>2, <1>7, <1>8, <1>9, <1>10, <1>11, ReadKeepsRun

-----------------------------------------------------------------------------
(* The invariant, and what follows from it                                  *)

\* The other steps of the thread only move it on or end it.
LEMMA WorkerKeepsRun ==
  ASSUME WorldOK, RunOK, IsRun(worker), WorkerSteps
  PROVE  RunOK'
<1>1. CASE LoadNothing \/ LoadRaises \/ Mismatch \/ ReadFails \/ Complete
           \/ (LastCheck /\ JobCancelled)
  <2>1. worker' = NoRun /\ UNCHANGED <<dest, shelf>>
    BY <1>1 DEF LoadNothing, LoadRaises, Mismatch, ReadFails, Complete, LastCheck, Fails, Ends,
                JobCancelled, WorkerStep, hw
  <2>2. NoRun = [NoRun EXCEPT !.pc = "idle"]
    BY DEF NoRun
  <2> QED
    BY <2>1, <2>2, FreshRun DEF RunOK
<1>2. CASE \/ (LastCheck /\ ~JobCancelled) \/ EmptyQueue \/ WaitOver \/ Identified \/ MediumDone
  <2>1. UNCHANGED <<dest, excused, shelf>>
    BY <1>2 DEF LastCheck, EmptyQueue, WaitOver, Identified, MediumDone, WorkerStep, hw
  <2>2. \/ LastCheck /\ worker.todo = {} /\ worker' = [worker EXCEPT !.pc = "clearing"]
        \/ \E p \in {"emptied", "identifying", "archives", "media"} :
             worker' = [worker EXCEPT !.pc = p]
    BY <1>2 DEF LastCheck, EmptyQueue, WaitOver, Identified, MediumDone, At
  <2>3. /\ worker'.read = worker.read /\ worker'.plan = worker.plan
        /\ worker'.todo = worker.todo /\ worker'.size = worker.size
    BY <2>2 DEF IsRun
  <2>4. worker'.pc = "clearing" => worker.todo = {}
    BY <2>2 DEF IsRun
  <2> QED
    BY <2>1, <2>3, <2>4, MovesKeepRun
<1>3. CASE \/ \E m \in Medium : TakeMedium(m)
           \/ \E n \in {v.archive : v \in worker.todo} : TakeArchive(n)
  <2>1. UNCHANGED <<dest, excused, shelf>>
    BY <1>3 DEF TakeMedium, TakeArchive, WorkerStep, hw
  <2>2. /\ worker'.read = worker.read /\ worker'.plan = worker.plan
        /\ worker'.todo = worker.todo /\ worker'.size = worker.size
        /\ worker'.pc # "clearing"
    BY <1>3 DEF TakeMedium, TakeArchive, IsRun
  <2> QED
    BY <2>1, <2>2, MovesKeepRun
<1> QED
  BY <1>1, <1>2, <1>3, LoadPlanKeepsRun, SkipKeepsRun, ReadTarKeepsRun, ReadObjectKeepsRun
     DEF WorkerSteps

\* Every step.
LEMMA RunKept ==
  ASSUME WorldOK, RunOK, IsRun(worker), rows \subseteq File, [Next]_vars
  PROVE  RunOK'
<1>1. CASE WorkerSteps
  BY <1>1, WorkerKeepsRun
<1>2. CASE TriggerRestore
  <2>1. worker' = [NoRun EXCEPT !.pc = "started"] /\ UNCHANGED <<dest, shelf>>
    BY <1>2 DEF TriggerRestore, hw
  <2> QED
    BY <2>1, FreshRun DEF RunOK
<1>3. CASE Restart
  <2>1. worker' = NoRun /\ UNCHANGED <<dest, shelf>>
    BY <1>3 DEF Restart, Ends, hw
  <2>2. NoRun = [NoRun EXCEPT !.pc = "idle"]
    BY DEF NoRun
  <2> QED
    BY <2>1, <2>2, FreshRun DEF RunOK
<1>4. CASE UserSteps /\ ~TriggerRestore
  <2>1. UNCHANGED <<worker, dest, excused>>
    BY <1>4 DEF UserSteps, ClearQueue, AddFileInsert, AddFileCheck, RemoveItem, UndoDismiss,
           AddDirectory, AddBatch, Confirm, Dismiss, DeleteRecord, BatchResolve, CancelRestore,
           EditQueue, EditRecords, run
  <2> QED
    BY <2>1, OutsideKeepsRun
<1>5. CASE WorldSteps /\ ~Restart
  <2>1. UNCHANGED <<worker, dest, excused>>
    BY <1>5 DEF WorldSteps, FileModified, BackUp, DeleteMedium, Attach, Swap, Exchange, run
  <2> QED
    BY <2>1, OutsideKeepsRun
<1>6. CASE UNCHANGED vars
  <2>1. UNCHANGED <<worker, dest, excused>>
    BY <1>6 DEF vars
  <2> QED
    BY <2>1, OutsideKeepsRun
<1> QED
  BY <1>1, <1>2, <1>3, <1>4, <1>5, <1>6 DEF Next

\* The inductive invariant.
Sound == IInv /\ BooksOK /\ WorldOK /\ RunOK

\* It holds where nothing has been read,
LEMMA InitSound == Init => Sound
<1> SUFFICES ASSUME Init PROVE Sound
  OBVIOUS
<1>1. WorldOK /\ IInv /\ BooksOK
  BY InitWorld, InitIInv, InitBooks
<1>2. /\ worker.todo = {} /\ worker.plan = {} /\ worker.read = {} /\ worker.pc = "idle"
      /\ DOMAIN dest = {}
  BY DEF Init, NoRun, NoFile
<1>3. RunOK
  BY <1>2 DEF RunOK, PlanOK, ObjectsServe, DestOK, Owed
<1> QED
  BY <1>1, <1>3 DEF Sound

\* and every step keeps it.
LEMMA NextSound == Sound /\ [Next]_vars => Sound'
<1> SUFFICES ASSUME Sound, [Next]_vars PROVE Sound'
  OBVIOUS
<1>1. IsRun(worker) /\ rows \subseteq File
  BY DEF Sound, IInv, BooksOK, RecordsOK
<1>2. IInv'
  BY NextIInv DEF Sound
<1>3. BooksOK'
  BY <1>1, BooksKept DEF Sound
<1>4. WorldOK'
  BY <1>1, WorldKept DEF Sound
<1>5. RunOK'
  BY <1>1, RunKept DEF Sound
<1> QED
  BY <1>2, <1>3, <1>4, <1>5 DEF Sound

\* Every variable keeps its type, versions and marks belong to records, and a
\* worker has a job.
THEOREM TypeCorrect == Spec => []TypeOK
<1>1. Sound => TypeOK
  <2> SUFFICES ASSUME Sound PROVE TypeOK
    OBVIOUS
  <2>1. Cardinality(online \intersect Tape) <= 1
    <3>1. CASE online \intersect Tape = {}
      BY <3>1, FS_EmptySet
    <3>2. ASSUME NEW t \in online \intersect Tape
          PROVE  Cardinality(online \intersect Tape) <= 1
      <4>1. online \intersect Tape = {t}
        BY DEF Sound, BooksOK, OneTape
      <4>2. Cardinality({t}) = 1
        BY FS_Singleton
      <4> QED
        BY <4>1, <4>2
    <3> QED
      BY <3>1, <3>2
  <2>2. /\ rows \subseteq File /\ deleted \subseteq rows /\ acked \subseteq rows
        /\ \A v \in versions : v.file \in rows /\ v.medium \in media
        /\ cart \subseteq File /\ adding \in File \union {None}
    BY DEF Sound, BooksOK, RecordsOK, QueueOK
  <2>3. /\ job \in {"none", "active", "killed", "cancelled", "failed", "completed"}
        /\ worker.pc # "idle" => job \in {"active", "cancelled"}
    BY DEF Sound, BooksOK, JobOK
  <2>4. worker.todo \subseteq worker.plan /\ DOMAIN dest \subseteq File
    BY DEF Sound, RunOK, PlanOK, DestOK
  <2> QED
    BY <2>1, <2>2, <2>3, <2>4 DEF TypeOK
<1> QED
  BY InitSound, NextSound, <1>1, PTL DEF Spec

\* When a restore empties the queue, every entry it has read is at the destination,
\* byte for byte and no longer, but for those that are excused.
THEOREM EmptiedMeansRestoredHolds == Spec => []EmptiedMeansRestored
<1>1. Sound => EmptiedMeansRestored
  <2> SUFFICES ASSUME Sound, worker.pc = "clearing",
                      NEW f \in cart \intersect worker.read, f \notin excused
               PROVE  Restored(f)
    BY DEF EmptiedMeansRestored
  <2>1. worker.todo = {}
    BY DEF Sound, RunOK, PlanOK
  <2>2. PICK v \in worker.plan : v.file = f /\ f \in DOMAIN dest /\ dest[f] = Copy(v)
    BY <2>1 DEF Sound, RunOK, Owed
  <2> QED
    BY <2>2 DEF Restored, Copy
<1> QED
  BY InitSound, NextSound, <1>1, PTL DEF Spec

\* A restore asks for a file on the medium that the manifest counts it on: a split
\* file has one fragment in each batch, so that only its last fragment is asked for.
THEOREM WaitsForManifestHolds == Spec => WaitsForManifest
<1>1. Sound /\ [Next]_vars =>
        [LoadPlan => \A v \in worker'.plan : <<v.file, v.medium>> \in ManifestRows]_vars
  <2> SUFFICES ASSUME Sound, LoadPlan, NEW v \in worker'.plan
               PROVE  <<v.file, v.medium>> \in ManifestRows
    OBVIOUS
  <2>1. v \in UNION {Chosen(f) : f \in ToRestore} /\ cart \subseteq rows
    BY DEF LoadPlan, NoRun
  <2>2. v.file \in ToRestore /\ v = Latest(v.file)
    BY <2>1, PlanIs DEF Sound
  <2>3. v.file \in (cart \intersect rows) \ deleted /\ Backed(v.file)
    BY <2>1, <2>2 DEF ToRestore
  <2> QED
    BY <2>2, <2>3 DEF ManifestRows
<1> QED
  BY InitSound, NextSound, <1>1, PTL DEF Spec, WaitsForManifest
=============================================================================
