------------------------------- MODULE Scanner -------------------------------
(***************************************************************************)
(* The scanner of TapeHoard and its hasher: two kinds of threads that write *)
(* the same rows of the index and tell each other with two flags whether    *)
(* there is more to come.                                                   *)
(*                                                                          *)
(* A scan walks the source, writes size and mtime in batches and marks what *)
(* is missing; a hasher looks for rows without a hash, reads the files and  *)
(* writes the hashes a batch at a time.  Each thread has a session of its   *)
(* own: it reads rows, works on them for a while, and writes the columns it *)
(* has changed.  Both flags are tested and then set.                        *)
(*                                                                          *)
(* A version stands for one state of a file (its bytes, size and mtime):    *)
(* every write makes a new one, and the hash of a file is its version.      *)
(* Ignored rows and rows deleted by hand are left out.                      *)
(***************************************************************************)
EXTENDS Naturals, FiniteSets, FiniteSetsExt

CONSTANTS
  File,
  Scanning,    \* threads that may be inside scan_sources
  Hashing,     \* threads that may be inside run_hashing
  Unreadable,  \* files that exist and that open refuses
  BatchSize,   \* of the scanner's commits (1000 in the code)
  FetchLimit,  \* of the hasher's query (400 in the code)
  MaxChanges,  \* bound on what happens to the source
  MaxFaults    \* bound on cancellations, failures and restarts

ASSUME ScannerConstants ==
  /\ BatchSize \in Nat \ {0} /\ FetchLimit \in Nat \ {0}
  /\ MaxChanges \in Nat /\ MaxFaults \in Nat
  /\ Unreadable \subseteq File

VARIABLES
  version,    \* the last state of each file on disk
  present,    \* whether the file is there
  seen,       \* FilesystemState.size and mtime, 0 where there is no row
  hash,       \* FilesystemState.sha256_hash, 0 for none
  deleted,    \* FilesystemState.is_deleted
  isRunning,  \* ScannerService.is_running
  isHashing,  \* ScannerService.is_hashing
  scan,       \* the scanner threads
  hasher,     \* the hasher threads
  changes, faults,  \* counters for the two bounds
  vanished,   \* observed: the files that have been away
  raced       \* observed: the files written while a hasher held their row

source == <<version, present, changes, vanished>>
index  == <<seen, hash, deleted>>
flags  == <<isRunning, isHashing>>
vars   == <<version, present, seen, hash, deleted, isRunning, isHashing, scan,
            hasher, changes, faults, vanished, raced>>

NoFiles == [f \in {} |-> 0]

\* after: the scans that took their timestamp later.  stamped: the rows whose
\* last_seen_timestamp is not before this scan's own.
NewScan ==
  [pc |-> "idle", todo |-> {}, batch |-> NoFiles, loaded |-> NoFiles, missing |-> {},
   kept |-> {}, stamped |-> {}, after |-> {}, cancelled |-> FALSE]

\* alone: no other hasher has been inside at the same time.
NewHasher ==
  [pc |-> "idle", status |-> "none", cancelled |-> FALSE, batch |-> {}, held |-> {},
   failed |-> {}, gone |-> {}, hashes |-> NoFiles, alone |-> TRUE]

Init ==
  /\ version = [f \in File |-> 1]
  /\ present \in [File -> BOOLEAN]
  /\ seen    = [f \in File |-> 0]
  /\ hash    = [f \in File |-> 0]
  /\ deleted = [f \in File |-> FALSE]
  /\ isRunning = FALSE /\ isHashing = FALSE
  /\ scan   = [s \in Scanning |-> NewScan]
  /\ hasher = [h \in Hashing |-> NewHasher]
  /\ changes = 0 /\ faults = 0
  /\ vanished = {} /\ raced = {}

InBatch(f) == \E h \in Hashing : f \in hasher[h].batch

-----------------------------------------------------------------------------
(* The source disk.                                                         *)

Change(f) ==
  /\ changes < MaxChanges
  /\ changes' = changes + 1
  /\ UNCHANGED <<index, flags, scan, hasher, faults>>

WriteFile(f) ==
  /\ Change(f)
  /\ version' = [version EXCEPT ![f] = changes + 2]
  /\ present' = [present EXCEPT ![f] = TRUE]
  /\ raced'   = IF InBatch(f) THEN raced \union {f} ELSE raced
  /\ UNCHANGED vanished

\* The file is removed, or the disk it is on is.
RemoveFile(f) ==
  /\ Change(f)
  /\ present[f]
  /\ present'  = [present EXCEPT ![f] = FALSE]
  /\ vanished' = vanished \union {f}
  /\ UNCHANGED <<version, raced>>

\* The disk is mounted again: the file is as it was.
ReturnFile(f) ==
  /\ Change(f)
  /\ ~present[f]
  /\ present' = [present EXCEPT ![f] = TRUE]
  /\ UNCHANGED <<version, vanished, raced>>

-----------------------------------------------------------------------------
(* scan_sources                                                             *)

Started(s) == scan[s].pc \notin {"idle", "entered"}

ScanAt(s, pc) == [scan EXCEPT ![s].pc = pc]

\* The test of is_running.  A scan that finds it set returns.
ScanTest(s) ==
  /\ scan[s].pc = "idle" /\ ~isRunning
  /\ scan' = ScanAt(s, "entered")
  /\ UNCHANGED <<source, index, flags, hasher, faults, raced>>

\* The thread that runs run_hashing; if none is free here, and a hasher is at
\* work, the thread would find the flag set and return.
SpawnHasher ==
  \/ \E h \in Hashing :
       hasher[h].pc = "idle" /\ hasher' = [hasher EXCEPT ![h].pc = "spawned"]
  \/ /\ isHashing /\ \A h \in Hashing : hasher[h].pc # "idle"
     /\ UNCHANGED hasher

\* The flag goes up, the timestamp is taken and the hasher is started.
ScanStart(s) ==
  /\ scan[s].pc = "entered"
  /\ isRunning' = TRUE
  /\ scan' = [t \in Scanning |->
               IF t = s THEN [NewScan EXCEPT !.pc = "walking", !.todo = File,
                                             !.cancelled = scan[s].cancelled]
               ELSE IF Started(t) THEN [scan[t] EXCEPT !.after = @ \union {s}]
               ELSE scan[t]]
  /\ SpawnHasher
  /\ UNCHANGED <<source, index, isHashing, faults, raced>>

BatchOf(s) == DOMAIN scan[s].batch

\* os.stat of one file of the walk.
Stat(s, f) ==
  /\ scan[s].pc = "walking" /\ f \in scan[s].todo
  /\ Cardinality(BatchOf(s)) < BatchSize
  /\ scan' = [scan EXCEPT ![s].todo = @ \ {f},
       ![s].batch = IF present[f]
                    THEN [g \in BatchOf(s) \union {f} |-> IF g = f THEN version[f] ELSE @[g]]
                    ELSE @]
  /\ UNCHANGED <<source, index, flags, hasher, faults, raced>>

\* A cancelled scan walks no further, and still writes its last batch.
StopWalk(s) ==
  /\ scan[s].pc = "walking" /\ scan[s].cancelled /\ scan[s].todo # {}
  /\ scan' = [scan EXCEPT ![s].todo = {}]
  /\ UNCHANGED <<source, index, flags, hasher, faults, raced>>

\* _sync_metadata_batch, its query.
SyncRead(s) ==
  /\ scan[s].pc = "walking" /\ BatchOf(s) # {}
  /\ Cardinality(BatchOf(s)) = BatchSize \/ scan[s].todo = {}
  /\ scan' = [scan EXCEPT ![s].pc = "syncing",
       ![s].loaded = [f \in BatchOf(s) |-> [seen |-> seen[f], hash |-> hash[f]]]]
  /\ UNCHANGED <<source, index, flags, hasher, faults, raced>>

\* The rows of files bear the timestamp of s from now on.
Stamp(s, files, then) ==
  [t \in Scanning |->
    [(IF t = s THEN then ELSE scan[t]) EXCEPT !.stamped =
       IF ~Started(t) THEN @
       ELSE IF t = s \/ s \in scan[t].after THEN @ \union files ELSE @ \ files]]

\* Metadata that changed since the row was loaded.
Changed(s) == {f \in BatchOf(s) : scan[s].loaded[f].seen # scan[s].batch[f]}

\* Another scan has inserted the same path in the meantime.
Conflict(s) == \E f \in BatchOf(s) : scan[s].loaded[f].seen = 0 /\ seen[f] # 0

SyncKeepsHash(s) ==
  /\ scan[s].pc = "syncing" /\ ~Conflict(s)
  /\ seen' = [f \in File |-> IF f \in Changed(s) THEN scan[s].batch[f] ELSE seen[f]]
  /\ scan' = Stamp(s, BatchOf(s), [scan[s] EXCEPT !.pc = "walking", !.batch = NoFiles,
                                                  !.loaded = NoFiles])
  /\ raced' = {f \in raced : hash[f] # 0 \/ InBatch(f)}
  /\ UNCHANGED <<source, hash, deleted, flags, hasher, faults>>

\* ... and its commit.  Only the columns that differ from what was loaded are
\* written: a hash that was empty when the row was loaded is not reset.
SyncCommit(s) ==
  /\ scan[s].pc = "syncing" /\ ~Conflict(s)
  /\ seen' = [f \in File |-> IF f \in Changed(s) THEN scan[s].batch[f] ELSE seen[f]]
  /\ hash' = [f \in File |-> IF f \in Changed(s) /\ scan[s].loaded[f].hash # 0
                             THEN 0 ELSE hash[f]]
  /\ scan' = Stamp(s, BatchOf(s), [scan[s] EXCEPT !.pc = "walking", !.batch = NoFiles,
                                                  !.loaded = NoFiles])
  /\ raced' = {f \in raced : hash'[f] # 0 \/ InBatch(f)}
  /\ UNCHANGED <<source, deleted, flags, hasher, faults>>

StaleUnlooked(s) ==
  /\ scan[s].pc = "walking" /\ scan[s].todo = {} /\ BatchOf(s) = {} /\ ~scan[s].cancelled
  /\ LET stale == {f \in File : seen[f] # 0 /\ ~deleted[f] /\ f \notin scan[s].stamped} IN
     scan' = [scan EXCEPT ![s].pc = "marking", ![s].missing = stale]
  /\ UNCHANGED <<source, index, flags, hasher, faults, raced>>

\* The rows that no scan has stamped since this one began are looked up on
\* disk one by one, and written together.
StaleLook(s) ==
  /\ scan[s].pc = "walking" /\ scan[s].todo = {} /\ BatchOf(s) = {} /\ ~scan[s].cancelled
  /\ LET stale == {f \in File : seen[f] # 0 /\ ~deleted[f] /\ f \notin scan[s].stamped} IN
     scan' = [scan EXCEPT ![s].pc = "marking", ![s].missing = {f \in stale : ~present[f]},
                          ![s].kept = {f \in stale : present[f]}]
  /\ UNCHANGED <<source, index, flags, hasher, faults, raced>>

StaleSkip(s) ==
  /\ scan[s].pc = "walking" /\ scan[s].todo = {} /\ BatchOf(s) = {} /\ scan[s].cancelled
  /\ scan' = [scan EXCEPT ![s] = [NewScan EXCEPT !.pc = "ending"]]
  /\ UNCHANGED <<source, index, flags, hasher, faults, raced>>

StaleCommit(s) ==
  /\ scan[s].pc = "marking"
  /\ deleted' = [f \in File |-> deleted[f] \/ f \in scan[s].missing]
  /\ scan' = Stamp(s, scan[s].kept, [NewScan EXCEPT !.pc = "ending"])
  /\ UNCHANGED <<source, seen, hash, flags, hasher, faults, raced>>

\* An error rolls the open batch back; so does a conflict.
ScanFails(s) ==
  /\ scan[s].pc \in {"walking", "syncing", "marking"}
  /\ \/ scan[s].pc = "syncing" /\ Conflict(s) /\ UNCHANGED faults
     \/ faults < MaxFaults /\ faults' = faults + 1
  /\ scan' = [scan EXCEPT ![s] = [NewScan EXCEPT !.pc = "ending"]]
  /\ UNCHANGED <<source, index, flags, hasher, raced>>

ScanEndKeepsFlag(s) ==
  /\ scan[s].pc = "ending"
  /\ scan' = [scan EXCEPT ![s] = NewScan]
  /\ UNCHANGED <<source, index, flags, hasher, faults, raced>>

ScanEnd(s) ==
  /\ scan[s].pc = "ending"
  /\ isRunning' = FALSE
  /\ scan' = [scan EXCEPT ![s] = NewScan]
  /\ UNCHANGED <<source, index, isHashing, hasher, faults, raced>>

CancelScan(s) ==
  /\ scan[s].pc \in {"entered", "walking", "syncing"} /\ ~scan[s].cancelled
  /\ faults < MaxFaults /\ faults' = faults + 1
  /\ scan' = [scan EXCEPT ![s].cancelled = TRUE]
  /\ UNCHANGED <<source, index, flags, hasher, raced>>

-----------------------------------------------------------------------------
(* run_hashing                                                              *)

HasherAt(h, pc) == [hasher EXCEPT ![h].pc = pc]

Inside(h) == hasher[h].pc \in {"query", "empty", "hashing", "ending", "leaving"}

\* trigger_indexing, which looks at the flag before it starts a thread.
TriggerIndexing(h) ==
  /\ hasher[h].pc = "idle" /\ ~isHashing
  /\ hasher' = HasherAt(h, "spawned")
  /\ UNCHANGED <<source, index, flags, scan, faults, raced>>

HasherTest(h) ==
  /\ hasher[h].pc = "spawned"
  /\ hasher' = HasherAt(h, IF isHashing THEN "idle" ELSE "entered")
  /\ UNCHANGED <<source, index, flags, scan, faults, raced>>

\* The flag goes up and a HASH row is created and started.
HasherStart(h) ==
  /\ hasher[h].pc = "entered"
  /\ isHashing' = TRUE
  /\ LET others == {g \in Hashing \ {h} : Inside(g)} IN
     hasher' = [g \in Hashing |->
       IF g = h THEN [NewHasher EXCEPT !.pc = "query", !.status = "RUNNING",
                                       !.alone = others = {}]
       ELSE IF g \in others THEN [hasher[g] EXCEPT !.alone = FALSE]
       ELSE hasher[g]]
  /\ UNCHANGED <<source, index, isRunning, scan, faults, raced>>

Targets == {f \in File : seen[f] # 0 /\ hash[f] = 0 /\ ~deleted[f]}

\* The head of the loop and its query, which states no order.
HasherQuery(h) ==
  /\ hasher[h].pc = "query"
  /\ IF ~isHashing \/ (Targets # {} /\ hasher[h].cancelled) THEN hasher' = HasherAt(h, "ending")
     ELSE IF Targets = {} THEN hasher' = HasherAt(h, "empty")
     ELSE \E batch \in kSubset(Min({FetchLimit, Cardinality(Targets)}), Targets) :
            hasher' = [hasher EXCEPT ![h].pc = "hashing", ![h].batch = batch, ![h].held = batch,
                                     ![h].hashes = [f \in batch |-> 0]]
  /\ UNCHANGED <<source, index, flags, scan, faults, raced>>

HasherEmptyReturns(h) ==
  /\ hasher[h].pc = "empty"
  /\ hasher' = HasherAt(h, IF isRunning THEN "query" ELSE "leaving")
  /\ UNCHANGED <<source, index, flags, scan, faults, raced>>

\* Nothing was found: done, unless a scan is under way.
HasherEmpty(h) ==
  /\ hasher[h].pc = "empty"
  /\ hasher' = HasherAt(h, IF isRunning THEN "query" ELSE "ending")
  /\ UNCHANGED <<source, index, flags, scan, faults, raced>>

\* compute_sha256 has read the file.
HashFile(h, f) ==
  /\ hasher[h].pc = "hashing" /\ f \in hasher[h].held /\ isHashing
  /\ present[f] /\ f \notin Unreadable
  /\ hasher' = [hasher EXCEPT ![h].held = @ \ {f}, ![h].hashes[f] = version[f]]
  /\ UNCHANGED <<source, index, flags, scan, faults, raced>>

\* compute_sha256 could not, or was told to stop: None.
HashFails(h, f) ==
  /\ hasher[h].pc = "hashing" /\ f \in hasher[h].held /\ isHashing
  /\ ~present[f] \/ f \in Unreadable \/ hasher[h].cancelled
  /\ hasher' = [hasher EXCEPT ![h].held = @ \ {f}, ![h].failed = @ \union {f}]
  /\ UNCHANGED <<source, index, flags, scan, faults, raced>>

\* A file without a hash is looked up on disk; if it is there, it stays a target.
LookUp(h, f) ==
  /\ hasher[h].pc = "hashing" /\ f \in hasher[h].failed
  /\ hasher' = [hasher EXCEPT ![h].failed = @ \ {f},
                              ![h].gone = IF present[f] THEN @ ELSE @ \union {f}]
  /\ UNCHANGED <<source, index, flags, scan, faults, raced>>

\* The flag was lowered: what is left of the batch is dropped.
HasherStops(h) ==
  /\ hasher[h].pc = "hashing" /\ hasher[h].held \union hasher[h].failed # {} /\ ~isHashing
  /\ hasher' = [hasher EXCEPT ![h].held = {}, ![h].failed = {}]
  /\ UNCHANGED <<source, index, flags, scan, faults, raced>>

EndBatchKeepsGone(h, pc) ==
  hasher' = [hasher EXCEPT ![h].pc = pc, ![h].batch = {}, ![h].hashes = NoFiles]

EndBatch(h, pc) ==
  hasher' = [hasher EXCEPT ![h].pc = pc, ![h].batch = {}, ![h].gone = {}, ![h].hashes = NoFiles]

\* Only the hash or is_deleted is written, whatever a scan did to the row.
HasherCommit(h) ==
  /\ hasher[h].pc = "hashing" /\ hasher[h].held = {} /\ hasher[h].failed = {}
  /\ LET found == {f \in hasher[h].batch : hasher[h].hashes[f] # 0} IN
     hash' = [f \in File |-> IF f \in found THEN hasher[h].hashes[f] ELSE hash[f]]
  /\ deleted' = [f \in File |-> deleted[f] \/ f \in hasher[h].gone]
  /\ EndBatch(h, "query")
  /\ UNCHANGED <<source, seen, flags, scan, faults, raced>>

\* The commit fails: rolled back, and the loop is left.
HasherCommitFails(h) ==
  /\ hasher[h].pc = "hashing" /\ hasher[h].held = {} /\ hasher[h].failed = {}
  /\ faults < MaxFaults /\ faults' = faults + 1
  /\ EndBatch(h, "ending")
  /\ UNCHANGED <<source, index, flags, scan, raced>>

\* The row is completed only while the flag is still up.
HasherEnd(h) ==
  /\ hasher[h].pc = "ending"
  /\ hasher' = [hasher EXCEPT ![h].pc = "leaving",
       ![h].status = IF ~hasher[h].cancelled /\ isHashing THEN "COMPLETED" ELSE @]
  /\ UNCHANGED <<source, index, flags, scan, faults, raced>>

HasherLeaveKeepsFlag(h) ==
  /\ hasher[h].pc = "leaving"
  /\ hasher' = HasherAt(h, "idle")
  /\ UNCHANGED <<source, index, flags, scan, faults, raced>>

\* The flag is lowered, whoever has set it.  (A row that is settled is not kept
\* any longer.)
HasherLeave(h) ==
  /\ hasher[h].pc = "leaving"
  /\ isHashing' = FALSE
  /\ hasher' = [hasher EXCEPT ![h] =
       IF @.status = "RUNNING" THEN [@ EXCEPT !.pc = "idle"] ELSE NewHasher]
  /\ UNCHANGED <<source, index, isRunning, scan, faults, raced>>

CancelHasher(h) ==
  /\ hasher[h].status = "RUNNING" /\ hasher[h].pc # "idle"
  /\ faults < MaxFaults /\ faults' = faults + 1
  /\ hasher' = [hasher EXCEPT ![h].status = "FAILED", ![h].cancelled = TRUE]
  /\ UNCHANGED <<source, index, flags, scan, raced>>

-----------------------------------------------------------------------------
\* The process is killed and started again: threads, flags and what was not
\* committed are lost.
Restart ==
  /\ faults < MaxFaults /\ faults' = faults + 1
  /\ isRunning' = FALSE /\ isHashing' = FALSE
  /\ scan'   = [s \in Scanning |-> NewScan]
  /\ hasher' = [h \in Hashing |-> NewHasher]
  /\ UNCHANGED <<source, index, raced>>

ScanStep(s) ==
  \/ ScanStart(s) \/ StopWalk(s) \/ SyncRead(s) \/ SyncCommit(s) \/ StaleLook(s)
  \/ StaleSkip(s) \/ StaleCommit(s) \/ ScanFails(s) \/ ScanEnd(s)
  \/ \E f \in File : Stat(s, f)

HasherStep(h) ==
  \/ HasherTest(h) \/ HasherStart(h) \/ HasherQuery(h) \/ HasherEmpty(h)
  \/ HasherStops(h) \/ HasherCommit(h) \/ HasherCommitFails(h) \/ HasherEnd(h)
  \/ HasherLeave(h)
  \/ \E f \in File : HashFile(h, f) \/ HashFails(h, f) \/ LookUp(h, f)

SourceStep(f) == WriteFile(f) \/ RemoveFile(f) \/ ReturnFile(f)

Next ==
  \/ \E f \in File : SourceStep(f)
  \/ \E s \in Scanning : ScanTest(s) \/ ScanStep(s) \/ CancelScan(s)
  \/ \E h \in Hashing : TriggerIndexing(h) \/ HasherStep(h) \/ CancelHasher(h)
  \/ Restart

Spec == Init /\ [][Next]_vars

\* Threads run on; a schedule starts a scan again and again.  (ScanStart is
\* strongly fair because only the bound on hashers can stand in its way.)
FairSpec ==
  /\ Spec
  /\ \A s \in Scanning : WF_vars(ScanStep(s)) /\ SF_vars(ScanStart(s)) /\ WF_vars(ScanTest(s))
  /\ \A h \in Hashing : WF_vars(HasherStep(h))

-----------------------------------------------------------------------------
(* Properties                                                               *)

TypeOK ==
  /\ version \in [File -> Nat \ {0}] /\ present \in [File -> BOOLEAN]
  /\ seen \in [File -> Nat] /\ hash \in [File -> Nat] /\ deleted \in [File -> BOOLEAN]
  /\ isRunning \in BOOLEAN /\ isHashing \in BOOLEAN
  /\ changes \in 0 .. MaxChanges /\ faults \in 0 .. MaxFaults
  /\ vanished \subseteq File /\ raced \subseteq File
  /\ \A s \in Scanning :
       /\ scan[s].pc \in {"idle", "entered", "walking", "syncing", "marking", "ending"}
       /\ BatchOf(s) \subseteq File
  /\ \A h \in Hashing :
       /\ hasher[h].pc \in {"idle", "spawned", "entered"} \/ Inside(h)
       /\ hasher[h].held \union hasher[h].failed \union hasher[h].gone
            \subseteq hasher[h].batch
       /\ DOMAIN hasher[h].hashes = hasher[h].batch

\* A hash that is not that of the size and mtime beside it is one that the next
\* scan finds out, because the file is no longer as the row says: two sessions
\* that write columns of one row never make a wrong pair look right.  The only
\* exception is a file that was written while a hasher had its row in hand.
WrongHashesShow ==
  \A f \in File :
    hash[f] \notin {0, seen[f]} => version[f] # seen[f] \/ f \in raced

\* Neither the walk, nor a batch of an older scan, nor a hash that could not be
\* computed makes a file count as missing that has been there all the time.
DeletedWasAway == \A f \in File : deleted[f] => f \in vanished

\* The HASH row of a hasher that had the flag for itself is settled when the
\* thread is gone.
HashRowSettles ==
  \A h \in Hashing :
    hasher[h].pc = "idle" /\ hasher[h].status = "RUNNING" => ~hasher[h].alone

\* The last change of every file that stays is seen and hashed in the end,
\* although the flags are tested before they are set and a hasher may leave while
\* a scan hands it work.  Only two hashers that overlap again and again, each
\* lowering the flag of the other before it has hashed anything, can go on for ever.
ChangesAreHashed ==
  \A f \in File :
    <>[](present[f] /\ ~deleted[f] /\ Cardinality({h \in Hashing : Inside(h)}) <= 1)
      => <>[](seen[f] = version[f] /\ (hash[f] = version[f] \/ f \in raced))

\* What README.md calls discrepancy detection: a file that is gone for good is
\* found to be missing.
RemovedIsNoticed ==
  \A f \in File : <>[](~present[f]) => <>[](seen[f] # 0 => deleted[f])

=============================================================================
