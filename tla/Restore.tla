------------------------------- MODULE Restore -------------------------------
(***************************************************************************)
(* The recovery queue of TapeHoard, the discrepancy screen that feeds it,   *)
(* and the restore that empties it.                                         *)
(*                                                                          *)
(* A restore reads the queue once, chooses the latest version of each file  *)
(* (with the other fragments of its split), and goes from medium to medium, *)
(* waiting for each to come online.  Disks hold an object per name, tapes a *)
(* tar per file number, all tapes share one drive.  It writes over whatever *)
(* earlier attempts have left at the destination, and empties the queue at  *)
(* its end.  Meanwhile users queue, dismiss and delete records, exchange    *)
(* media, and files are backed up again.                                    *)
(*                                                                          *)
(* The bytes of a content are <<content, 1>>, <<content, 2>>, and so on. The *)
(* guard on active restores and the job row are those of Jobs.              *)
(***************************************************************************)
EXTENDS Naturals, Sequences, FiniteSets, FiniteSetsExt, Functions

CONSTANTS
  File,      \* the rows of filesystem_state
  Tape, Disk,
  SizeOf,    \* content |-> length
  Current,   \* file |-> the content on the source when its record was made
  Library,   \* the versions of before, and
  Shelf,     \* what is stored for them: medium |-> (archive |-> members)
  NewContent,\* file |-> the content it may be modified to
  Requests,  \* what requests name: sets of files, and {f} for one file
  MaxEdits,  \* bound on what users and backups do
  MaxSwaps,  \* bound on exchanged media
  MaxFaults  \* bound on cancellations and restarts

Medium == Tape \union Disk
None   == "none"

\* A version: the row of file_versions, and the content it was made from.
\* An object or member: the name it has, and the bytes from lo to hi.
ASSUME RestoreConstants ==
  /\ MaxEdits \in Nat /\ MaxSwaps \in Nat /\ MaxFaults \in Nat
  /\ Tape \intersect Disk = {}
  /\ \A c \in DOMAIN SizeOf : SizeOf[c] \in Nat \ {0}
  /\ \A v \in Library : v.file \in File /\ v.medium \in Medium /\ v.content \in DOMAIN SizeOf

\* What the archiver has left: a batch has a split_id of its own and one fragment
\* of a file; an object is the fragment its name says or a whole file, and what
\* is linked to it by deduplication is the same range of the same content.
Whole(o) == o.lo = 0 /\ o.hi = SizeOf[o.content]

ASSUME LibraryConstants ==
  /\ IsFiniteSet(Library)
  /\ \A v \in Library : /\ v.split \in BOOLEAN
                        /\ v.split => v.splitId # 0
                        /\ v.lo \in Nat /\ v.hi \in Nat /\ v.at \in Nat
  /\ \A v, w \in Library :
       v.file = w.file /\ v.split /\ w.splitId = v.splitId => w = v
  /\ Shelf = [m \in Medium |-> Shelf[m]]
  /\ \A m \in Medium : \A n \in DOMAIN Shelf[m] : \A o \in Shelf[m][n] :
       /\ o.content \in DOMAIN SizeOf /\ o.lo \in Nat /\ o.hi \in Nat /\ o.lo <= o.hi
       /\ o.split \/ Whole(o)
       /\ \A v \in Library :
            m \in Disk /\ v.medium = m /\ v.archive = n /\ v.content = o.content
            => v.lo = o.lo /\ v.hi = o.hi
  /\ Current \in [File -> DOMAIN SizeOf]
  /\ \A f \in DOMAIN NewContent : NewContent[f] \in DOMAIN SizeOf

VARIABLES
  rows,      \* filesystem_state: the records there are
  deleted,   \* is_deleted
  acked,     \* missing_acknowledged_at is set
  content,   \* what the last scan has seen of each file: its size is the row's
  versions,  \* file_versions
  media,     \* storage_media: the media that are registered
  shelf,     \* what is on the media
  online,    \* the disks that are mounted and the tape that is in the drive
  cart,      \* restore_cart: ids of records
  adding,    \* add_file_to_restore_queue, between its check and its INSERT
  job,       \* the job row of the restore
  worker,    \* its thread
  dest,      \* the destination: file |-> bytes
  edits, swaps, faults,
  excused,   \* observed: files this restore reads or writes something else for
  orphaned   \* observed: an entry was made for a record that was gone

records == <<rows, deleted, acked, content, versions>>
hw      == <<media, shelf, online>>
queue   == <<cart, adding, orphaned>>
run     == <<job, worker, dest, excused>>
vars    == <<rows, deleted, acked, content, versions, media, shelf, online, cart, adding,
             job, worker, dest, edits, swaps, faults, excused, orphaned>>

NoRun  == [pc |-> "idle", read |-> {}, plan |-> {}, todo |-> {}, medium |-> None,
           archive |-> 0, size |-> SizeOf]
NoFile == [f \in {} |-> <<>>]

Init ==
  /\ rows = File /\ deleted = {} /\ acked = {}
  /\ content  = Current
  /\ versions = Library
  /\ media  = Medium
  /\ shelf  = Shelf
  /\ online = Disk
  /\ cart = {v.file : v \in Library} /\ adding = None
  /\ job = "none" /\ worker = NoRun
  /\ dest = NoFile
  /\ edits = 0 /\ swaps = 0 /\ faults = 0
  /\ excused = {} /\ orphaned = FALSE

VersionsOf(f) == {v \in versions : v.file = f}
Backed(f)     == VersionsOf(f) # {}

-----------------------------------------------------------------------------
(* The queue handlers.                                                      *)

Edit == edits < MaxEdits /\ edits' = edits + 1

EditQueue ==
  /\ Edit
  /\ UNCHANGED <<records, hw, run, swaps, faults, orphaned>>

ClearQueue ==
  /\ EditQueue
  /\ cart # {} /\ cart' = {}
  /\ UNCHANGED adding

\* One statement: every record under the path that has versions, deleted or not.
AddDirectory(F) ==
  /\ EditQueue
  /\ cart' = cart \union {f \in F \intersect rows : Backed(f)}
  /\ UNCHANGED adding

\* batch_add_to_restore_queue
AddBatch(F) ==
  /\ EditQueue
  /\ cart' = cart \union {f \in (F \intersect rows) \ deleted : Backed(f)}
  /\ UNCHANGED adding

\* add_file_to_restore_queue: the checks, and INSERT OR IGNORE.
AddFileCheck(f) ==
  /\ EditQueue
  /\ adding = None
  /\ f \in rows \ deleted /\ Backed(f)
  /\ adding' = f
  /\ UNCHANGED <<cart>>

AddFileInsert ==
  /\ adding # None
  /\ cart'   = cart \union {adding}
  /\ adding' = None
  /\ orphaned' = (orphaned \/ adding \notin rows)
  /\ UNCHANGED <<records, hw, run, edits, swaps, faults>>

RemoveItem(f) ==
  /\ EditQueue
  /\ f \in cart
  /\ cart' = cart \ {f}
  /\ UNCHANGED adding

-----------------------------------------------------------------------------
(* The discrepancy handlers, for the ids or the prefix of the request.      *)

EditRecords ==
  /\ Edit
  /\ UNCHANGED <<content, hw, adding, orphaned, run, swaps, faults>>

Confirm(F) ==
  /\ EditRecords
  /\ deleted' = deleted \union (F \intersect rows)
  /\ UNCHANGED <<rows, acked, versions, cart>>

Dismiss(F) ==
  /\ EditRecords
  /\ acked' = acked \union (F \intersect rows)
  /\ UNCHANGED <<rows, deleted, versions, cart>>

UndoDismiss(f) ==
  /\ EditRecords
  /\ f \in acked /\ acked' = acked \ {f}
  /\ UNCHANGED <<rows, deleted, versions, cart>>

DeleteRecordKeepsVersions(F) ==
  /\ EditRecords
  /\ rows'    = rows \ F
  /\ deleted' = deleted \ F
  /\ acked'   = acked \ F
  /\ cart'    = cart \ F
  /\ UNCHANGED versions

DeleteRecordKeepsEntry(F) ==
  /\ EditRecords
  /\ rows'     = rows \ F
  /\ deleted'  = deleted \ F
  /\ acked'    = acked \ F
  /\ versions' = {v \in versions : v.file \notin F}
  /\ UNCHANGED <<cart>>

\* The record goes, with its queue entry and its versions.
DeleteRecord(F) ==
  /\ EditRecords
  /\ rows'     = rows \ F
  /\ deleted'  = deleted \ F
  /\ acked'    = acked \ F
  /\ versions' = {v \in versions : v.file \notin F}
  /\ cart'     = cart \ F

\* Records with versions are queued, the others are given up.
BatchResolve(F) ==
  LET chosen == F \intersect rows
      lost   == {f \in chosen : ~Backed(f)}
  IN
  /\ EditRecords
  /\ cart'     = cart \union (chosen \ lost)
  /\ deleted'  = deleted \union lost
  /\ acked'    = acked \union lost
  /\ UNCHANGED <<rows, versions>>

-----------------------------------------------------------------------------
(* The world: scans, backups, media.                                        *)

\* A scan finds the file changed; its size is in the row at once.
FileModified(f) ==
  /\ Edit
  /\ f \in rows \intersect DOMAIN NewContent /\ content[f] # NewContent[f]
  /\ content' = [content EXCEPT ![f] = NewContent[f]]
  /\ UNCHANGED <<rows, deleted, acked, versions, hw, queue, run, swaps, faults>>

Stamp == 1 + Max({0} \union {v.at : v \in versions})
LastArchive(m) == Max({0} \union DOMAIN shelf[m])

\* The archiver writes it in one piece: to a tape as the next archive, to a
\* disk over the object of its name if there is one.
ArchiveFor(m, f) ==
  LET own == {n \in DOMAIN shelf[m] :
                \E o \in shelf[m][n] : o.file = f /\ ~o.split}
  IN  IF m \in Disk /\ own # {} THEN Max(own) ELSE 1 + LastArchive(m)

BackUp(f, m) ==
  LET n == ArchiveFor(m, f)
      c == content[f]
      o == [file |-> f, content |-> c, split |-> FALSE, lo |-> 0, hi |-> SizeOf[c]]
  IN
  /\ Edit
  /\ f \in rows \ deleted /\ m \in media \intersect online
  /\ \A v \in VersionsOf(f) : v.content # c
  /\ shelf' = [shelf EXCEPT ![m] =
                 [k \in DOMAIN shelf[m] \union {n} |-> IF k = n THEN {o} ELSE shelf[m][k]]]
  /\ versions' = versions \union
       {[file |-> f, content |-> c, split |-> FALSE, splitId |-> 0, lo |-> 0, hi |-> SizeOf[c],
         medium |-> m, archive |-> n, at |-> Stamp]}
  /\ UNCHANGED <<rows, deleted, acked, content, media, online, queue, run, swaps, faults>>

\* delete_media; what is on it remains there.
DeleteMedium(m) ==
  /\ Edit
  /\ m \in media /\ media' = media \ {m}
  /\ versions' = {v \in versions : v.medium # m}
  /\ UNCHANGED <<rows, deleted, acked, content, shelf, online, queue, run, swaps, faults>>

\* Disks are attached and detached, the drive takes one tape.
Attached(m) == IF m \in Tape THEN (online \ Tape) \union {m} ELSE online \union {m}

Exchange(S) ==
  /\ online' = S
  /\ UNCHANGED <<records, media, shelf, queue, run, edits, faults>>

Attach(m) ==
  /\ m \notin online
  /\ m \in Tape => online \intersect Tape = {}
  /\ Exchange(Attached(m))
  /\ UNCHANGED swaps

Swap(m) ==
  /\ swaps < MaxSwaps /\ swaps' = swaps + 1
  /\ \/ m \in online /\ Exchange(online \ {m})
     \/ m \in Tape \ online /\ online \intersect Tape # {} /\ Exchange(Attached(m))

-----------------------------------------------------------------------------
(* trigger_restore and run_restore                                          *)

TriggerRestore ==
  /\ job \notin {"active", "killed"} /\ worker.pc = "idle"
  /\ cart # {}
  /\ job' = "active"
  /\ worker' = [NoRun EXCEPT !.pc = "started"]
  /\ UNCHANGED <<records, hw, queue, dest, edits, swaps, faults, excused>>

\* The version made last and, if it is a fragment, those with its split_id.  The
\* archiver takes a new split_id for each batch, and a batch has one fragment of
\* a file: only the last fragment is chosen.
LatestFirst(f) == CHOOSE v \in VersionsOf(f) : \A w \in VersionsOf(f) : v.at <= w.at
Latest(f)      == CHOOSE v \in VersionsOf(f) : \A w \in VersionsOf(f) : w.at <= v.at
ChosenFirst(f) == {LatestFirst(f)}

Chosen(f) ==
  IF Latest(f).split
  THEN {v \in VersionsOf(f) : v.splitId = Latest(f).splitId}
  ELSE {Latest(f)}

\* Some of its fragments are not chosen, or were on a medium that is deleted.
Incomplete(f) ==
  UNION {v.lo + 1 .. v.hi : v \in Chosen(f)} # 1 .. SizeOf[Latest(f).content]

ToRestore == {f \in cart \ (deleted \union acked) : Backed(f)}

\* get_restore_manifest counts, by medium, the latest version of each file that
\* is not deleted.
ManifestRows ==
  {<<f, Latest(f).medium>> : f \in {g \in (cart \intersect rows) \ deleted : Backed(g)}}

WorkerStep ==
  /\ worker.pc # "idle"
  /\ UNCHANGED <<records, hw, adding, orphaned, edits, swaps, faults>>

At(pc) == worker' = [worker EXCEPT !.pc = pc]
Ends(status) == job' = status /\ worker' = NoRun /\ excused' = {}

LoadNothing ==
  /\ WorkerStep
  /\ worker.pc = "started" /\ cart = {}
  /\ Ends("completed")
  /\ UNCHANGED <<cart, dest>>

\* An entry without a record: the exception leaves run_restore, and the job.
LoadRaises ==
  /\ WorkerStep
  /\ worker.pc = "started" /\ cart # {} /\ ~(cart \subseteq rows)
  /\ Ends(job)
  /\ UNCHANGED <<cart, dest>>

LoadPlan ==
  LET plan == UNION {Chosen(f) : f \in ToRestore} IN
  /\ WorkerStep
  /\ worker.pc = "started" /\ cart # {} /\ cart \subseteq rows
  /\ worker' = [NoRun EXCEPT !.pc = "media", !.read = cart,
                             !.plan = plan, !.todo = plan,
                             !.size = [f \in File |-> SizeOf[content[f]]]]
  /\ excused' = (cart \ ToRestore) \union {f \in ToRestore : Incomplete(f)}
  /\ UNCHANGED <<job, cart, dest>>

JobCancelled == job = "cancelled"

On(m) == {v \in worker.todo : v.medium = m}

Excuse(V) == excused' = excused \union {v.file : v \in V}

\* The next medium: one that is no longer registered is passed over.
SkipMediumForever(m) ==
  /\ WorkerStep
  /\ worker.pc = "media" /\ ~JobCancelled /\ On(m) # {} /\ m \notin media
  /\ Excuse(On(m))
  /\ UNCHANGED <<worker, job, cart, dest>>

SkipMedium(m) ==
  /\ WorkerStep
  /\ worker.pc = "media" /\ ~JobCancelled /\ On(m) # {} /\ m \notin media
  /\ worker' = [worker EXCEPT !.todo = @ \ On(m)]
  /\ Excuse(On(m))
  /\ UNCHANGED <<job, cart, dest>>

TakeMedium(m) ==
  /\ WorkerStep
  /\ worker.pc = "media" /\ ~JobCancelled /\ On(m) # {} /\ m \in media
  /\ worker' = [worker EXCEPT !.pc = "waiting", !.medium = m]
  /\ UNCHANGED <<job, cart, dest, excused>>

\* check_online says that there is a tape, not which; a disk has its own path.
Ready(m) == IF m \in Tape THEN online \intersect Tape # {} ELSE m \in online

WaitOver ==
  /\ WorkerStep
  /\ worker.pc = "waiting" /\ (Ready(worker.medium) \/ JobCancelled)
  /\ At("identifying")
  /\ UNCHANGED <<job, cart, dest, excused>>

Identified ==
  /\ WorkerStep
  /\ worker.pc = "identifying" /\ worker.medium \in online
  /\ At("archives")
  /\ UNCHANGED <<job, cart, dest, excused>>

Fails == Ends(IF JobCancelled THEN "cancelled" ELSE "failed")

Mismatch ==
  /\ WorkerStep
  /\ worker.pc = "identifying" /\ worker.medium \notin online
  /\ Fails
  /\ UNCHANGED <<cart, dest>>

TakeArchive(n) ==
  /\ WorkerStep
  /\ worker.pc = "archives" /\ ~JobCancelled
  /\ \E v \in On(worker.medium) : v.archive = n
  /\ worker' = [worker EXCEPT !.pc = "reading", !.archive = n]
  /\ UNCHANGED <<job, cart, dest, excused>>

MediumDone ==
  /\ WorkerStep
  /\ worker.pc = "archives" /\ (On(worker.medium) = {} \/ JobCancelled)
  /\ At("media")
  /\ UNCHANGED <<job, cart, dest, excused>>

-----------------------------------------------------------------------------
(* Reading an archive and writing the files it is for.                      *)

Targets == {v \in On(worker.medium) : v.archive = worker.archive}

\* The medium the bytes come from: whatever tape is in the drive.
Source == IF worker.medium \in Tape THEN online \intersect Tape
          ELSE online \intersect {worker.medium}
Found  == UNION {shelf[m][worker.archive] :
                   m \in {k \in Source : worker.archive \in DOMAIN shelf[k]}}

Zero     == <<"zero", 0>>
Bytes(o) == [i \in 1..(o.hi - o.lo) |-> <<o.content, o.lo + i>>]
Hole(n)  == [i \in 1..n |-> Zero]

\* seek and write into what is there; nothing is cut off, a gap is a hole.
Overlay(old, offset, new) ==
  [i \in 1..(IF new = <<>> THEN Len(old) ELSE Max({Len(old), offset + Len(new)})) |->
     IF i > offset /\ i <= offset + Len(new) THEN new[i - offset]
     ELSE IF i <= Len(old) THEN old[i] ELSE Zero]

\* A file that exists is opened "r+b", a new one "wb": only then is it given
\* the size its row had when the queue was read.
WritesOver(v) == v.file \in DOMAIN dest
Opened(v) == IF WritesOver(v) THEN dest[v.file]
             ELSE IF v.split THEN Hole(worker.size[v.file]) ELSE <<>>

Written(v, bytes) == Overlay(Opened(v), IF v.split THEN v.lo ELSE 0, bytes)

\* The member of a tar that has the name of v.
Member(v) == {o \in Found : /\ o.file = v.file /\ o.split = v.split
                            /\ v.split => o.lo = v.lo /\ o.hi = v.hi}

\* Bytes that are not those of v, or a file whose length they cannot set.
Spoilt(v, o) ==
  \/ o.content # v.content
  \/ v.split /\ ~WritesOver(v) /\ worker.size[v.file] # SizeOf[v.content]
  \/ WritesOver(v) /\ Len(dest[v.file]) > SizeOf[v.content]

\* Files written by one archive, at most one for each of V.
WriteAll(V, from) ==
  dest' = [f \in DOMAIN dest \union {v.file : v \in V} |->
            IF \E v \in V : v.file = f
            THEN LET v == CHOOSE w \in V : w.file = f
                 IN  Written(v, Bytes(from[v]))
            ELSE dest[f]]

\* A tar: the members that are wanted; the others are only logged.  A
\* cancellation stops it between two members.
ReadTar ==
  LET wanted == {v \in Targets : Member(v) # {}}
      from   == [v \in wanted |-> CHOOSE o \in Member(v) : TRUE]
  IN
  /\ WorkerStep
  /\ worker.pc = "reading" /\ worker.medium \in Tape
  /\ wanted # {}
  /\ \E V \in SUBSET wanted :
       /\ V = wanted \/ JobCancelled
       /\ WriteAll(V, from)
       /\ Excuse((Targets \ V) \union {v \in V : Spoilt(v, from[v])})
  /\ worker' = [worker EXCEPT !.pc = "archives", !.todo = @ \ Targets]
  /\ UNCHANGED <<job, cart>>

\* An object: the first file takes all of the stream, the others find it empty,
\* unless a cancellation comes before them.
ReadObject ==
  /\ WorkerStep
  /\ worker.pc = "reading" /\ worker.medium \in Disk
  /\ Found # {}
  /\ \E V \in SUBSET Targets, first \in Targets, o \in Found :
       LET rest == V \ {first} IN
       /\ V = Targets \/ (JobCancelled /\ (first \in V \/ V = {}))
       /\ dest' = [f \in DOMAIN dest \union {v.file : v \in V} |->
                    IF first \in V /\ f = first.file THEN Written(first, Bytes(o))
                    ELSE IF \E v \in rest : v.file = f /\ ~WritesOver(v) THEN <<>>
                    ELSE dest[f]]
       /\ Excuse((Targets \ {first}) \union {v \in {first} : v \notin V \/ Spoilt(v, o)})
  /\ worker' = [worker EXCEPT !.pc = "archives", !.todo = @ \ Targets]
  /\ UNCHANGED <<job, cart>>

\* No such archive, the medium is gone, or a tar with none of the files.
ReadFails ==
  /\ WorkerStep
  /\ worker.pc = "reading"
  /\ Found = {} \/ (worker.medium \in Tape /\ \A v \in Targets : Member(v) = {})
  /\ Fails
  /\ UNCHANGED <<cart, dest>>

-----------------------------------------------------------------------------
(* The end.                                                                 *)

LastCheckLess ==
  /\ WorkerStep
  /\ worker.pc = "media" /\ (worker.todo = {} \/ JobCancelled)
  /\ At("clearing") /\ UNCHANGED <<job, excused>>
  /\ UNCHANGED <<cart, dest>>

LastCheck ==
  /\ WorkerStep
  /\ worker.pc = "media" /\ (worker.todo = {} \/ JobCancelled)
  /\ IF JobCancelled THEN Ends(job) ELSE At("clearing") /\ UNCHANGED <<job, excused>>
  /\ UNCHANGED <<cart, dest>>

\* The whole queue is deleted, then the job completes.
EmptyQueue ==
  /\ WorkerStep
  /\ worker.pc = "clearing"
  /\ cart' = {}
  /\ worker' = [worker EXCEPT !.pc = "emptied"]
  /\ UNCHANGED <<job, dest, excused>>

Complete ==
  /\ WorkerStep
  /\ worker.pc = "emptied"
  /\ Ends(IF JobCancelled THEN "cancelled" ELSE "completed")
  /\ UNCHANGED <<cart, dest>>

Fault == faults < MaxFaults /\ faults' = faults + 1

CancelRestore ==
  /\ Fault
  /\ job \in {"active", "killed"} /\ job' = "cancelled"
  /\ UNCHANGED <<records, hw, queue, worker, dest, edits, swaps, excused>>

\* The thread is gone.  Nothing in main.py settles its row, which counts as
\* active ("killed") until it is cancelled; the queue and the destination remain.
Restart ==
  /\ Fault
  /\ Ends(IF job = "active" THEN "killed" ELSE job)
  /\ adding' = None
  /\ UNCHANGED <<records, hw, cart, orphaned, dest, edits, swaps>>

-----------------------------------------------------------------------------
WorkerSteps ==
  \/ LoadNothing \/ LoadRaises \/ LoadPlan
  \/ \E m \in Medium : SkipMedium(m) \/ TakeMedium(m)
  \/ WaitOver \/ Identified \/ Mismatch
  \/ \E n \in {v.archive : v \in worker.todo} : TakeArchive(n)
  \/ MediumDone \/ ReadTar \/ ReadObject \/ ReadFails
  \/ LastCheck \/ EmptyQueue \/ Complete

UserSteps ==
  \/ ClearQueue \/ AddFileInsert
  \/ \E f \in {g \in File : {g} \in Requests} :
       AddFileCheck(f) \/ RemoveItem(f) \/ UndoDismiss(f)
  \/ \E F \in Requests :
       AddDirectory(F) \/ AddBatch(F) \/ Confirm(F) \/ Dismiss(F) \/ DeleteRecord(F)
       \/ BatchResolve(F)
  \/ TriggerRestore \/ CancelRestore

WorldSteps ==
  \/ \E f \in File : FileModified(f) \/ \E m \in Medium : BackUp(f, m)
  \/ \E m \in Medium : DeleteMedium(m) \/ Attach(m) \/ Swap(m)
  \/ Restart

Next == WorkerSteps \/ UserSteps \/ WorldSteps

\* The thread goes on, and users put media where none are.
Fairness ==
  /\ WF_vars(WorkerSteps)
  /\ \A m \in Disk : SF_vars(Attach(m))
  /\ WF_vars(\E m \in Tape : Attach(m))

Spec == Init /\ [][Next]_vars /\ Fairness

-----------------------------------------------------------------------------
(* Properties                                                               *)

\* Types; versions and marks belong to records, versions are on registered media,
\* and a worker has a job that is active or was cancelled.
TypeOK ==
  /\ rows \subseteq File /\ deleted \subseteq rows /\ acked \subseteq rows
  /\ \A v \in versions : v.file \in rows /\ v.medium \in media
  /\ cart \subseteq File /\ adding \in File \union {None}
  /\ Cardinality(online \intersect Tape) <= 1
  /\ job \in {"none", "active", "killed", "cancelled", "failed", "completed"}
  /\ worker.pc # "idle" => job \in {"active", "cancelled"}
  /\ worker.todo \subseteq worker.plan
  /\ DOMAIN dest \subseteq File

Restored(f) ==
  \E v \in worker.plan :
    /\ v.file = f /\ f \in DOMAIN dest
    /\ dest[f] = Bytes([content |-> v.content, lo |-> 0, hi |-> SizeOf[v.content]])

\* When a restore empties the queue, every entry it has read is at the
\* destination, byte for byte and no longer, over whatever earlier attempts left
\* there.  Excused are the entries it passed over (deleted, dismissed or without
\* versions), those for which it was given other bytes (a medium deleted or
\* exchanged, an object overwritten, a file linked to the archive of another),
\* split files of which it takes the last fragment only, and those whose length
\* it does not set (a longer file at the destination, a split file whose row has
\* another size by now).
EmptiedMeansRestored ==
  worker.pc = "clearing" =>
    \A f \in cart \intersect worker.read : f \in excused \/ Restored(f)

\* Only an entry that has lost its record, by a deletion between the check and
\* the insertion of add_file_to_restore_queue, leaves a restore active that no
\* thread works on (and no further restore can start), but for a restart.
StuckOnlyByOrphan ==
  job = "active" /\ worker.pc = "idle" => orphaned

\* The restore asks for a file on the medium that the manifest, read at the same
\* time, counts it on.
WaitsForManifest ==
  [][LoadPlan => \A v \in worker'.plan : <<v.file, v.medium>> \in ManifestRows]_vars

\* Multi-part files are recorded "for reassembly upon restore": a restore that
\* empties the queue has put a split file together again if the index names
\* fragments for all of its bytes.
SplitFilesReturn ==
  worker.pc = "clearing" =>
    \A f \in (cart \intersect worker.read) \ (deleted \union acked) :
      LET last == Latest(f)
          fragments == {v \in VersionsOf(f) : v.split /\ v.content = last.content}
      IN  /\ Backed(f) /\ last.split
          /\ UNION {v.lo + 1 .. v.hi : v \in fragments} = 1 .. SizeOf[last.content]
          => Restored(f)

\* A restore that has started comes to an end, whichever media are put in.
RestoreEnds == worker.pc # "idle" ~> worker.pc = "idle"
=============================================================================
