------------------------------- MODULE Archive -------------------------------
(***************************************************************************)
(* The archiver of TapeHoard: what is on the source disk, what the index   *)
(* believes, what is on the media, and the backup jobs that move bytes and *)
(* rows between the three.                                                 *)
(*                                                                         *)
(* A content stands for one state of a file (its bytes, size and mtime):   *)
(* byte i of content c is <<c, i>>, and the SHA-256 of a file is its       *)
(* content.  A slot is what FileVersion.file_number holds: the number of a *)
(* tar archive on a tape, the name of an object elsewhere.                 *)
(*                                                                         *)
(* One backup action is one stretch of run_backup between two points where *)
(* another thread can be seen: the database is read when a batch is        *)
(* assembled and when a chunk is prepared, the disk when it is filtered    *)
(* and when it is written, and rows are inserted only when the chunk is    *)
(* committed.  Scans are one step here; module Scanner opens them up.      *)
(***************************************************************************)
EXTENDS Integers, Sequences, FiniteSets, FiniteSetsExt, SequencesExt

CONSTANTS
  File, Medium, Content, Worker,
  Gone,          \* no file, no row, no hash
  Pad,           \* the null byte RangeFile pads with
  Size,          \* [Content -> Nat]
  Capacity,      \* [Medium -> Nat]
  MinFragment,   \* smallest fragment worth writing (100 MB in the code)
  Target,        \* the redundancy_target setting
  RandomAccess,  \* the media written file by file; the others are tapes
  Streaming,     \* tape_write_strategy is "stream", not "stage"
  CommitsWipe,   \* the media for which initialize_media reaches a commit
  Events,        \* what may happen around the backups
  Quiet,         \* media are only administered while no backup runs
  MaxCommits, MaxMembers, MaxWrites   \* bounds: see Begin, WriteFile and UpdateMedia

ASSUME ArchiveConstants ==
  /\ IsFiniteSet(File) /\ IsFiniteSet(Medium) /\ Gone \notin Content
  /\ Size \in [Content -> Nat]
  /\ Capacity \in [Medium -> Nat \ {0}]
  /\ Target \in Nat \ {0} /\ MinFragment \in Nat \ {0}
  /\ MaxCommits \in Nat /\ MaxMembers \in Nat /\ MaxWrites \in Nat
  /\ RandomAccess \subseteq Medium /\ CommitsWipe \subseteq Medium
  /\ Streaming \in BOOLEAN /\ Quiet \in BOOLEAN
  /\ Events \subseteq {"write", "remove", "retire", "delete", "wipe",
                       "cancel", "crash", "fault"}

VARIABLES
  disk,        \* [File -> Content or Gone]: the source directories
  indexed,     \* FilesystemState.size and mtime, as the content they describe
  hash,        \* FilesystemState.sha256_hash
  deleted,     \* FilesystemState.is_deleted
  redundancy,  \* FilesystemState.redundancy_count, kept by two triggers
  versions,    \* the rows of file_versions
  coverage,    \* the rows of file_media_coverage
  used,        \* StorageMedia.bytes_used
  mstatus,     \* StorageMedia.status, or "deleted"
  store,       \* what is on each medium: slot -> set of members
  job,         \* one run of run_backup per worker
  txn,         \* the number of the next commit that inserts rows
  writes       \* writes to the source disk so far

disks == <<disk, writes>>
index == <<indexed, hash, deleted>>
rows  == <<versions, coverage, redundancy, txn>>
media == <<used, mstatus>>
vars  == <<disk, indexed, hash, deleted, redundancy, versions, coverage, used,
           mstatus, store, job, txn, writes>>

-----------------------------------------------------------------------------
(* Bytes, members and rows.                                                 *)

\* RangeFile pads a file that has shrunk, to keep the tar aligned.
ReadRange(c, lo, hi) ==
  [i \in 1 .. (hi - lo) |-> IF lo + i <= Size[c] THEN <<c, lo + i>> ELSE Pad]

Bytes(c) == ReadRange(c, 0, Size[c])

Length(x) == x.hi - x.lo

VersionsOf(f) == {v \in versions : v.file = f}

\* coverage_subquery: the ranges are added up, wherever they lie.
CoveredBytes(f) ==
  Cardinality(UNION {{v} \X (v.lo + 1 .. v.hi) : v \in VersionsOf(f)})

SizeOf(f) == Size[indexed[f]]

Idle == [pc |-> "idle"]

Init ==
  /\ disk \in [File -> Content]
  /\ indexed    = [f \in File |-> Gone]
  /\ hash       = [f \in File |-> Gone]
  /\ deleted    = [f \in File |-> FALSE]
  /\ redundancy = [f \in File |-> 0]
  /\ versions   = {}
  /\ coverage   = {}
  /\ used       = [m \in Medium |-> 0]
  /\ mstatus    = [m \in Medium |-> "active"]
  /\ store      = [m \in Medium |-> <<>>]
  /\ job        = [w \in Worker |-> Idle]
  /\ txn    = 1
  /\ writes     = 0

-----------------------------------------------------------------------------
(* The source disk and the scanner.                                         *)

WriteFile(f, c) ==
  /\ "write" \in Events /\ writes < MaxWrites
  /\ disk[f] # c
  /\ disk'   = [disk EXCEPT ![f] = c]
  /\ writes' = writes + 1
  /\ job'    = [w \in Worker |->
                 IF job[w].pc = "idle" THEN Idle
                 ELSE [job[w] EXCEPT !.touched = @ \union {f}]]
  /\ UNCHANGED <<index, rows, media, store>>

RemoveFile(f) ==
  /\ "remove" \in Events /\ disk[f] # Gone
  /\ writes < MaxWrites
  /\ disk'   = [disk EXCEPT ![f] = Gone]
  /\ writes' = writes + 1
  /\ UNCHANGED <<index, rows, media, store, job>>

\* scan_sources: upsert what is there, mark as deleted what is not.  A row
\* that is deleted stays deleted when its file is seen again.
Scan ==
  /\ indexed' = [f \in File |-> IF disk[f] # Gone THEN disk[f] ELSE indexed[f]]
  /\ hash'    = [f \in File |-> IF disk[f] \in {Gone, indexed[f]} THEN hash[f] ELSE Gone]
  /\ deleted' = [f \in File |-> deleted[f] \/ (disk[f] = Gone /\ indexed[f] # Gone)]
  /\ UNCHANGED <<disks, rows, media, store, job>>

\* run_hashing, one file.
HashFile(f) ==
  /\ indexed[f] # Gone /\ hash[f] = Gone /\ ~deleted[f]
  /\ IF disk[f] = Gone
     THEN deleted' = [deleted EXCEPT ![f] = TRUE] /\ UNCHANGED hash
     ELSE hash' = [hash EXCEPT ![f] = disk[f]] /\ UNCHANGED deleted
  /\ UNCHANGED <<disks, indexed, rows, media, store, job>>

-----------------------------------------------------------------------------
(* Choosing the batch: assemble_backup_batch.                               *)

Archivable(f) == indexed[f] # Gone /\ ~deleted[f]

OnMedium(f, m) == (\E v \in VersionsOf(f) : v.medium = m) \/ <<f, m>> \in coverage

UnbackedNonempty(f) == Archivable(f) /\ CoveredBytes(f) < SizeOf(f)

\* get_unbacked_files compares with "<", so an empty file comes up only while
\* it has no version.
Unbacked(f) ==
  /\ Archivable(f)
  /\ CoveredBytes(f) < SizeOf(f) \/ VersionsOf(f) = {}

FirstTime(m) ==
  {f \in File : Unbacked(f) /\ ~OnMedium(f, m) /\ redundancy[f] < Target}

RedundantInclusive(m) ==
  {f \in File : Archivable(f) /\ redundancy[f] \in 1 .. Target /\ <<f, m>> \notin coverage}

\* _get_redundant_candidates
Redundant(m) ==
  {f \in File : /\ Archivable(f)
                /\ 1 <= redundancy[f] /\ redundancy[f] < Target
                /\ <<f, m>> \notin coverage}

ItemFromStart(f, lo, hi, copy) ==
  [file |-> f, lo |-> 0, hi |-> hi - lo, copy |-> copy,
   split |-> ~copy /\ (lo > 0 \/ hi < SizeOf(f)),
   whole |-> lo = 0 /\ hi = SizeOf(f), of |-> indexed[f], hash |-> hash[f]]

Item(f, lo, hi, copy) ==
  [file |-> f, lo |-> lo, hi |-> hi, copy |-> copy,
   split |-> ~copy /\ (lo > 0 \/ hi < SizeOf(f)),
   whole |-> lo = 0 /\ hi = SizeOf(f), of |-> indexed[f], hash |-> hash[f]]

Take(batch, item) ==
  [batch EXCEPT !.items = Append(@, item), !.size = @ + Length(item)]

\* The scanner saw an empty file and there are bytes in it now.
GrownFromEmpty(f) == disk[f] # Gone /\ Size[disk[f]] > 0

\* Phase 1.  A file is split only when it is larger than a whole medium, and
\* then nothing is added after the fragment.
AddFirstTime(m, room, batch, f) ==
  LET lo   == CoveredBytes(f)
      hi   == SizeOf(f)
      left == room - batch.size
  IN  IF batch.shut \/ left <= 0 THEN [batch EXCEPT !.shut = TRUE]
      ELSE IF hi = 0
           THEN IF GrownFromEmpty(f) THEN batch ELSE Take(batch, Item(f, 0, 0, FALSE))
      ELSE IF hi - lo <= left THEN Take(batch, Item(f, lo, hi, FALSE))
      ELSE IF hi > Capacity[m] /\ left >= MinFragment
           THEN [Take(batch, Item(f, lo, lo + left, FALSE)) EXCEPT !.shut = TRUE]
      ELSE batch

\* Phase 2.  A redundant copy is whole or is not made.
AddCopy(room, batch, f) ==
  IF \/ SizeOf(f) > room - batch.size
     \/ room <= batch.size
     \/ \E i \in DOMAIN batch.items : batch.items[i].file = f
  THEN batch
  ELSE Take(batch, Item(f, 0, SizeOf(f), TRUE))

\* The queries state no order: first and second are orders of the rows.
Batch(m, room, first, second) ==
  LET n == Len(first)
      batch[i \in 0 .. n + Len(second)] ==
        IF i = 0 THEN [items |-> <<>>, size |-> 0, shut |-> FALSE]
        ELSE IF i <= n THEN AddFirstTime(m, room, batch[i - 1], first[i])
        ELSE AddCopy(room, batch[i - 1], second[i - n])
  IN  batch[IF Target > 1 THEN n + Len(second) ELSE n].items

-----------------------------------------------------------------------------
(* A backup job: run_backup, one worker.                                    *)

Step(w, pc) == [job[w] EXCEPT !.pc = pc]

\* trigger_backup and run_system_archival ask for an active medium; nothing
\* asks again.  The media row is loaded here, bytes_used with it.
Begin(w, m) ==
  /\ job[w].pc = "idle" /\ mstatus[m] = "active"
  /\ txn <= MaxCommits /\ Cardinality(DOMAIN store[m]) < MaxMembers
  /\ job' = [job EXCEPT ![w] =
       [pc |-> "assemble", medium |-> m, base |-> used[m], batch |-> 0,
        items |-> <<>>, chunk |-> <<>>, first |-> TRUE, created |-> FALSE,
        pending |-> {}, cover |-> {}, bytes |-> 0,
        skipped |-> {}, touched |-> {}, cancelled |-> FALSE]]
  /\ UNCHANGED <<disks, index, rows, media, store>>

\* The items that are in S, in their order.
Select(items, S) ==
  LET kept[i \in 0 .. Len(items)] ==
        IF i = 0 THEN <<>>
        ELSE IF items[i] \in S THEN Append(kept[i - 1], items[i])
        ELSE kept[i - 1]
  IN  kept[Len(items)]

\* Empty items go to the front, so that they never make an archive of their own.
EmptyFirst(items) ==
  LET empty == {x \in ToSet(items) : Length(x) = 0} IN
  Select(items, empty) \o Select(items, ToSet(items) \ empty)

\* batch_versions_created starts at 0 for every batch.
NewBatch(w, items) ==
  [job[w] EXCEPT !.pc = "chunk", !.items = EmptyFirst(items), !.batch = <<w, txn>>,
                 !.first = TRUE, !.created = FALSE]

Assemble(w) ==
  LET m == job[w].medium IN
  /\ job[w].pc = "assemble"
  /\ \E first \in SetToSeqs(FirstTime(m)), second \in SetToSeqs(Redundant(m)) :
       LET items == Batch(m, Capacity[m] - job[w].base, first, second) IN
       job' = [job EXCEPT ![w] = IF items = <<>> THEN Idle ELSE NewBatch(w, items)]
  /\ UNCHANGED <<disks, index, rows, media, store>>

\* A commit expires every loaded row, so a later chunk sees the index anew.
Reloaded(item) ==
  [item EXCEPT !.whole = item.lo = 0 /\ item.hi = SizeOf(item.file),
               !.of = indexed[item.file], !.hash = hash[item.file]]

\* A version of the same range of a file with the same hash, on any medium.
Dupes(item) ==
  {v \in versions : /\ ~item.copy /\ item.hash # Gone
                    /\ hash[v.file] = item.hash
                    /\ v.lo = item.lo /\ v.hi = item.hi}

Link(item, v) ==
  [file |-> item.file, medium |-> v.medium, slot |-> v.slot, lo |-> item.lo,
   hi |-> item.hi, split |-> v.split, batch |-> v.batch, of |-> item.hash, txn |-> 0]

\* _filter_unstable_files: what is missing or was written since the job began.
Unstable(w) == job[w].touched \union {f \in File : disk[f] = Gone}

\* The first part of the chunk loop: deduplicate, then drop what was skipped
\* before and what is unstable now.  A chunk with nothing to write is
\* committed for its links alone.
Prepare(w, n) ==
  LET j      == job[w]
      m      == j.medium
      chunk  == IF j.first THEN SubSeq(j.items, 1, n)
                ELSE [i \in 1 .. n |-> Reloaded(j.items[i])]
      linked == {x \in ToSet(chunk) : Dupes(x) # {}}
      rest   == Select(chunk, {x \in ToSet(chunk) \ linked : x.file \notin j.skipped})
      write  == Select(rest, {x \in ToSet(rest) : x.file \notin Unstable(w)})
  IN
  /\ j.pc = "chunk" /\ ~j.cancelled /\ n <= Len(j.items)
  /\ j.first \/ mstatus[m] # "deleted"
  /\ IF m \in RandomAccess THEN n = Len(j.items)
     ELSE \A i \in n + 1 .. Len(j.items) : Length(j.items[i]) > 0
  /\ \E v \in [linked -> versions] :
       /\ \A x \in linked : v[x] \in Dupes(x)
       /\ job' = [job EXCEPT ![w] =
            [j EXCEPT !.pc      = IF write = <<>> THEN "commit" ELSE "write",
                      !.items   = SubSeq(@, n + 1, Len(@)),
                      !.chunk   = write,
                      !.first   = FALSE,
                      !.base    = IF j.first THEN @ ELSE used[m],
                      !.created = @ \/ linked # {},
                      !.skipped = @ \union ({x.file : x \in ToSet(rest)} \intersect Unstable(w)),
                      !.pending = {Link(x, v[x]) : x \in linked}]]
  /\ UNCHANGED <<disks, index, rows, media, store>>

Member(item) ==
  [file |-> item.file, lo |-> item.lo, hi |-> item.hi, split |-> item.split,
   bytes |-> ReadRange(disk[item.file], item.lo, item.hi)]

\* tar reads a whole file as long as it is by now.
WholeMember(item) == [Member(item) EXCEPT !.bytes = Bytes(disk[item.file])]

Present(items) == Select(items, {x \in ToSet(items) : disk[x.file] # Gone})

TotalLength(items) ==
  Cardinality(UNION {{x} \X (x.lo + 1 .. x.hi) : x \in ToSet(items)})

Row(w, item, slot) ==
  [file |-> item.file, medium |-> job[w].medium, slot |-> slot, lo |-> item.lo,
   hi |-> item.hi, split |-> item.split,
   batch |-> IF item.split THEN job[w].batch ELSE <<>>, of |-> item.of, txn |-> 0]

\* What a writer leaves in the session: a row for each of the items in "for",
\* and coverage (_record_coverage) for all of the chunk that is whole.
Written(w, for, bytes) ==
  [job[w] EXCEPT !.pc      = "commit",
                 !.created = @ \/ for # {},
                 !.pending = @ \union for,
                 !.cover   = {x.file : x \in {y \in ToSet(job[w].chunk) : y.whole}},
                 !.bytes   = bytes]

\* How many items are reached before a cancellation is seen.
Reached(w) == IF job[w].cancelled THEN 0 .. Len(job[w].chunk) ELSE {Len(job[w].chunk)}

\* write_file_direct: one object per name, and a name is written over.
ObjectName(item) == IF item.split THEN <<item.file, item.lo, item.hi>> ELSE <<item.file>>

Replace(objects, slot, members) ==
  [n \in DOMAIN objects \union {slot} |-> IF n = slot THEN members ELSE objects[n]]

\* A batch has one item of a file, so that no name comes twice.
CopyTo(objects, items) ==
  LET names == {ObjectName(x) : x \in ToSet(items)} IN
  [n \in DOMAIN objects \union names |->
     IF n \in names THEN {Member(x) : x \in {y \in ToSet(items) : ObjectName(y) = n}}
     ELSE objects[n]]

CopyFiles(w) ==
  LET j == job[w] IN
  /\ j.pc = "write" /\ j.medium \in RandomAccess
  /\ \E n \in Reached(w) :
       LET done == Present(SubSeq(j.chunk, 1, n)) IN
       /\ store' = [store EXCEPT ![j.medium] = CopyTo(@, done)]
       /\ job'   = [job EXCEPT ![w] =
                     Written(w, {Row(w, x, ObjectName(x)) : x \in ToSet(done)}, TotalLength(done))]
  /\ UNCHANGED <<disks, index, rows, media>>

\* The archives of a tape are numbered in the order they are written.
NextArchive(m) == <<Cardinality(DOMAIN store[m]) + 1>>

AppendBeforeMark(m, members) ==
  store' = [store EXCEPT ![m] = Replace(@, <<Cardinality(DOMAIN @)>>, members)]

AppendArchive(m, members) ==
  store' = [store EXCEPT ![m] = Replace(@, NextArchive(m), members)]

\* Every item of the chunk gets a row, whether it reached the tape or not.
StreamArchive(w) ==
  LET j == job[w]
      m == j.medium
  IN
  /\ j.pc = "write" /\ m \notin RandomAccess /\ Streaming
  /\ \E n \in Reached(w) :
       AppendArchive(m, {Member(x) : x \in ToSet(Present(SubSeq(j.chunk, 1, n)))})
  /\ job' = [job EXCEPT ![w] =
              Written(w, {Row(w, x, NextArchive(m)) : x \in ToSet(j.chunk)},
                      TotalLength(j.chunk))]
  /\ UNCHANGED <<disks, index, rows, media>>

\* The tar binary packs a chunk of whole files; when one is a fragment, or is
\* missing and makes tar fail, the chunk is built as for a stream.
StagedMembers(items) ==
  LET files == ToSet(Present(items)) IN
  IF files = ToSet(items) /\ ~\E x \in files : x.split
  THEN {WholeMember(x) : x \in files}
  ELSE {Member(x) : x \in files}

TotalBytes(members) == Cardinality(UNION {{x} \X DOMAIN x.bytes : x \in members})

\* The staging area holds the whole archive before the tape moves, so a
\* cancellation leaves the tape alone.
StageArchive(w) ==
  LET j       == job[w]
      m       == j.medium
      members == StagedMembers(j.chunk)
  IN
  /\ j.pc = "write" /\ m \notin RandomAccess /\ ~Streaming /\ ~j.cancelled
  /\ AppendArchive(m, members)
  /\ job' = [job EXCEPT ![w] =
              Written(w, {Row(w, x, NextArchive(m)) : x \in ToSet(j.chunk)},
                      TotalBytes(members))]
  /\ UNCHANGED <<disks, index, rows, media>>

DropStaged(w) ==
  /\ job[w].pc = "write" /\ job[w].cancelled
  /\ job[w].medium \notin RandomAccess /\ ~Streaming
  /\ job' = [job EXCEPT ![w] = Step(w, "chunk")]
  /\ UNCHANGED <<disks, index, rows, media, store>>

\* The medium gives out in the middle of an item: what was written stays, the
\* session is dropped and the job has failed.
WriteFault(w) ==
  LET j == job[w]
      m == j.medium
      torn(x) == [Member(x) EXCEPT !.bytes = <<>>]
  IN
  /\ "fault" \in Events /\ j.pc = "write"
  /\ \E n \in 1 .. Len(j.chunk) :
       LET done == Present(SubSeq(j.chunk, 1, n - 1))
           last == j.chunk[n]
       IN  /\ disk[last.file] # Gone
           /\ IF m \in RandomAccess
              THEN store' = [store EXCEPT ![m] =
                              Replace(CopyTo(@, done), ObjectName(last), {torn(last)})]
              ELSE AppendArchive(m, {Member(x) : x \in ToSet(done)} \union {torn(last)})
  /\ job' = [job EXCEPT ![w] = Idle]
  /\ UNCHANGED <<disks, index, rows, media>>

\* The rows of a session get their number when they are inserted.
Stamp(set) == {[r EXCEPT !.txn = txn] : r \in set}

\* INSERT OR IGNORE, and trg_coverage_insert for each row that is new.
AddCoverage(pairs) ==
  /\ coverage'   = coverage \union pairs
  /\ redundancy' = [f \in File |->
                     redundancy[f] + Cardinality({p \in pairs \ coverage : p[1] = f})]

\* The checkpoint after each chunk.  When the media row is gone the UPDATE of
\* bytes_used hits no row, and the whole session is rolled back.
Commit(w) ==
  LET j == job[w]
      m == j.medium
  IN
  /\ j.pc = "commit"
  /\ IF mstatus[m] = "deleted" /\ j.bytes > 0
     THEN /\ job' = [job EXCEPT ![w] = Idle]
          /\ UNCHANGED <<rows, used>>
     ELSE /\ versions' = versions \union Stamp(j.pending)
          /\ AddCoverage({<<f, m>> : f \in j.cover})
          /\ used' = [used EXCEPT ![m] = IF j.bytes > 0 THEN j.base + j.bytes ELSE @]
          /\ txn'  = IF j.pending = {} THEN txn ELSE txn + 1
          /\ job'  = [job EXCEPT ![w] =
                       [j EXCEPT !.pc = "chunk", !.chunk = <<>>, !.pending = {},
                                 !.cover = {}, !.bytes = 0]]
  /\ UNCHANGED <<disks, index, mstatus, store>>

LastBatchIfFull(j, full) == j.cancelled \/ full

\* A job ends with a batch that was cancelled, got nothing done or filled the medium.
LastBatch(j, full) == j.cancelled \/ ~j.created \/ full

\* The end of a batch.  Links that a cancelled chunk has left in the session
\* go in with the final commit; a job that got nothing done stops; a full
\* medium is marked; otherwise another batch is chosen.
EndBatch(w) ==
  LET j    == job[w]
      m    == j.medium
      full == 100 * used[m] >= 98 * Capacity[m] /\ mstatus[m] = "active"
  IN
  /\ j.pc = "chunk" /\ (j.items = <<>> \/ j.cancelled)
  /\ IF mstatus[m] = "deleted"
     THEN /\ job' = [job EXCEPT ![w] = Idle]
          /\ UNCHANGED <<versions, txn, mstatus>>
     ELSE /\ versions' = versions \union Stamp(j.pending)
          /\ txn'      = IF j.pending = {} THEN txn ELSE txn + 1
          /\ mstatus'  = IF full /\ j.created /\ ~j.cancelled
                         THEN [mstatus EXCEPT ![m] = "full"] ELSE mstatus
          /\ job'      = [job EXCEPT ![w] =
                           IF LastBatch(j, full) THEN Idle
                           ELSE [j EXCEPT !.pc = "assemble", !.base = used[m]]]
  /\ UNCHANGED <<disks, index, coverage, redundancy, used, store>>

\* The media row is gone when the next chunk looks at it: the job fails.
MediumLost(w) ==
  /\ job[w].pc = "chunk" /\ job[w].items # <<>> /\ ~job[w].cancelled
  /\ ~job[w].first /\ mstatus[job[w].medium] = "deleted"
  /\ job' = [job EXCEPT ![w] = Idle]
  /\ UNCHANGED <<disks, index, rows, media, store>>

WorkerStep(w) ==
  \/ Assemble(w)
  \/ \E n \in 1 .. Cardinality(File) : Prepare(w, n)
  \/ CopyFiles(w)
  \/ StreamArchive(w)
  \/ StageArchive(w)
  \/ DropStaged(w)
  \/ Commit(w)
  \/ EndBatch(w)
  \/ MediumLost(w)

Cancel(w) ==
  /\ "cancel" \in Events /\ job[w].pc # "idle" /\ ~job[w].cancelled
  /\ job' = [job EXCEPT ![w].cancelled = TRUE]
  /\ UNCHANGED <<disks, index, rows, media, store>>

\* The process is killed: sessions are gone, the rest stays.
Crash ==
  /\ "crash" \in Events /\ \E w \in Worker : job[w].pc # "idle"
  /\ job' = [w \in Worker |-> Idle]
  /\ UNCHANGED <<disks, index, rows, media, store>>

-----------------------------------------------------------------------------
(* Administration of the media: api/inventory.py.                           *)

NoJobRuns == \A w \in Worker : job[w].pc = "idle"

Allowed(event) == event \in Events /\ (Quiet => NoJobRuns)

PurgeRowsOnly(m) ==
  /\ versions' = {v \in versions : v.medium # m}
  /\ UNCHANGED <<coverage, redundancy>>

PurgeCountsAll(m) ==
  /\ versions'   = {v \in versions : v.medium # m}
  /\ coverage'   = {p \in coverage : p[2] # m}
  /\ redundancy' = [f \in File |-> redundancy[f] - 1]

\* trg_coverage_delete keeps the count.
Purge(m) ==
  /\ versions'   = {v \in versions : v.medium # m}
  /\ coverage'   = {p \in coverage : p[2] # m}
  /\ redundancy' = [f \in File |->
                     IF <<f, m>> \in coverage THEN redundancy[f] - 1 ELSE redundancy[f]]

\* update_media writes any status; RETIRED (as FAILED) purges, and bytes_used
\* keeps its value.
UpdateMedia(m, s) ==
  /\ Allowed("retire") /\ mstatus[m] \notin {s, "deleted"}
  /\ txn <= MaxCommits
  /\ mstatus' = [mstatus EXCEPT ![m] = s]
  /\ IF s = "RETIRED" THEN Purge(m) ELSE UNCHANGED <<versions, coverage, redundancy>>
  /\ UNCHANGED <<disks, index, txn, used, store, job>>

DeleteMedia(m) ==
  /\ Allowed("delete") /\ mstatus[m] # "deleted"
  /\ mstatus' = [mstatus EXCEPT ![m] = "deleted"]
  /\ Purge(m)
  /\ UNCHANGED <<disks, index, txn, used, store, job>>

\* initialize_media wipes the hardware, then purges; but the handler reaches a
\* commit only for some kinds of media, and the session of the others is
\* closed with the purge undone.
InitializeMedia(m) ==
  /\ Allowed("wipe") /\ mstatus[m] # "deleted" /\ store[m] # <<>>
  /\ store' = [store EXCEPT ![m] = <<>>]
  /\ IF m \in CommitsWipe
     THEN Purge(m) /\ used' = [used EXCEPT ![m] = 0]
     ELSE UNCHANGED <<versions, coverage, redundancy, used>>
  /\ UNCHANGED <<disks, index, txn, mstatus, job>>

Next ==
  \/ Scan
  \/ \E f \in File : \/ \E c \in Content : WriteFile(f, c)
                     \/ RemoveFile(f)
                     \/ HashFile(f)
  \/ \E w \in Worker : \/ \E m \in Medium : Begin(w, m)
                       \/ WorkerStep(w)
                       \/ WriteFault(w)
                       \/ Cancel(w)
  \/ Crash
  \/ \E m \in Medium : \/ \E s \in {"active", "RETIRED"} : UpdateMedia(m, s)
                       \/ DeleteMedia(m)
                       \/ InitializeMedia(m)

\* A worker runs on; scans, users and disks do as they like.
Fairness == \A w \in Worker : WF_vars(WorkerStep(w))

Spec     == Init /\ [][Next]_vars
FairSpec == Spec /\ Fairness

\* ... but for the schedules: scans come round, and so does an automatic
\* backup to each of the active media.
Schedules == WF_vars(Scan) /\ \A w \in Worker, m \in Medium : SF_vars(Begin(w, m))

ScheduledSpec == FairSpec /\ Schedules

-----------------------------------------------------------------------------
(* Properties                                                               *)

Contents == Content \union {Gone}

TypeOK ==
  /\ disk \in [File -> Contents] /\ indexed \in [File -> Contents]
  /\ hash \in [File -> Contents] /\ deleted \in [File -> BOOLEAN]
  /\ redundancy \in [File -> 0 .. Cardinality(Medium)]
  /\ \A v \in versions : /\ v.file \in File /\ v.medium \in Medium /\ v.of \in Content
                          /\ v.lo \in Nat /\ v.hi \in Nat
  /\ coverage \subseteq File \X Medium
  /\ used \in [Medium -> Nat]
  /\ mstatus \in [Medium -> {"active", "full", "RETIRED", "deleted"}]
  /\ txn \in Nat \ {0} /\ writes \in 0 .. MaxWrites
  /\ \A w \in Worker :
       job[w].pc \in {"idle", "assemble", "chunk", "write", "commit"}

Members(v) == IF v.slot \in DOMAIN store[v.medium] THEN store[v.medium][v.slot] ELSE {}

\* The slot of a version holds that range of the content the index had when
\* the version was recorded.
Held(v) ==
  \E x \in Members(v) :
    x.lo = v.lo /\ x.hi = v.hi /\ x.bytes = ReadRange(v.of, v.lo, v.hi)

\* While no source file changes, every row of file_versions points at bytes
\* that are there: a crash or a cancellation between the write and the commit, a
\* purge under a running job and a link to another file's copy leave no row
\* without its bytes.  Nor does a fault of the medium, as long as no other
\* backup and no purge comes between the choice of a batch and its commit.
RowsHoldContent == \A v \in versions : Held(v)

\* The media with a whole copy of what the index now says f is.
WholeCopies(f) ==
  {m \in Medium : \E v \in VersionsOf(f) :
     v.medium = m /\ v.lo = 0 /\ v.hi = SizeOf(f) /\ v.of = indexed[f] /\ Held(v)}

\* The ledger that coverage rows and the counting triggers implement: between
\* any two commits, purges, faults and crashes the claims of the index are backed
\* and counted, and a medium's are taken back together with its rows.
Kept == INSTANCE Ledger WITH
          copies <- {p \in File \X Medium : p[2] \in WholeCopies(p[1])},
          claims <- coverage,
          count  <- redundancy
KeepsLedger == Kept!Spec

\* A file that get_unbacked_files no longer returns has every one of its bytes
\* in some version: adding up the lengths of the ranges may stand for looking
\* at where they lie, as long as nothing is purged.
CoveredMeansEveryByte ==
  \A f \in File :
    (Archivable(f) /\ VersionsOf(f) # {} /\ ~Unbacked(f)) =>
      \A i \in 1 .. SizeOf(f) : \E v \in VersionsOf(f) : v.lo < i /\ i <= v.hi

\* One job at a time never makes more copies than the target asks for.
NoSpareCopies ==
  \A f \in File : Cardinality({p \in coverage : p[1] = f}) <= Target

\* Every byte of what the index says f is can be read back.
Safe(f) ==
  LET held == {v \in VersionsOf(f) : v.of = indexed[f] /\ Held(v)} IN
  IF SizeOf(f) = 0 THEN held # {}
  ELSE \A i \in 1 .. SizeOf(f) : \E v \in held : v.lo < i /\ i <= v.hi

\* No file falls between the two phases of the selection: while some of its
\* bytes are on no medium, every medium it is not on yet is offered it.  This
\* ties the covered bytes, the coverage rows and the trigger's count to what
\* is really stored.
NoFileForgotten ==
  \A f \in File : Archivable(f) /\ ~Safe(f) =>
    \A m \in Medium : ~OnMedium(f, m) => f \in FirstTime(m)

\* A medium that was taken out of service holds nothing as far as the index
\* knows: no row, no coverage and, through links, no other file's row.
RetiredHoldNothing ==
  \A m \in Medium : mstatus[m] \in {"RETIRED", "deleted"} =>
    /\ \A v \in versions : v.medium # m
    /\ \A p \in coverage : p[2] # m

\* A job always comes to its end: skipping, linking, splitting and copying
\* cannot make the batch loop choose the same work for ever.
JobEnds == \A w \in Worker : job[w].pc # "idle" ~> job[w].pc = "idle"

\* With the schedules on and room on the media, every file ends up safe: the
\* phases of the selection, the links and the skips leave nothing out for good.
EveryFileSafe == <>[](\A f \in File : indexed[f] # Gone /\ Safe(f))

=============================================================================
