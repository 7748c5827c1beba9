----------------------------- MODULE ScannerProofs -----------------------------
(***************************************************************************)
(* What two kinds of threads that write columns of one row can do to it,    *)
(* for any files, threads, batch sizes and bounds.                          *)
(*                                                                          *)
(* The steps are many and what they do to one file is little: the effects   *)
(* of every step on a file, on what a scan holds of it and on what a hasher *)
(* holds of it are three formulas, and the invariants follow from them.     *)
(***************************************************************************)
EXTENDS Scanner, TLAPS

-----------------------------------------------------------------------------
(* Types                                                                    *)

Value  == Nat \ {0}
Loaded == [seen : Nat, hash : Nat]

\* Functions on some of the files.
OnFiles(S) == UNION {[D -> S] : D \in SUBSET File}

ScanPc   == {"idle", "entered", "walking", "syncing", "marking", "ending"}
HasherPc == {"idle", "spawned", "entered", "query", "empty", "hashing", "ending", "leaving"}
Status   == {"none", "RUNNING", "COMPLETED", "FAILED"}

ScanRun ==
  [pc : ScanPc,
   todo : SUBSET File, batch : OnFiles(Value), loaded : OnFiles(Loaded),
   missing : SUBSET File, kept : SUBSET File, stamped : SUBSET File,
   after : SUBSET Scanning, cancelled : BOOLEAN]

HasherRun ==
  [pc : HasherPc, status : Status, cancelled : BOOLEAN,
   batch : SUBSET File, held : SUBSET File, failed : SUBSET File, gone : SUBSET File,
   hashes : OnFiles(Nat), alone : BOOLEAN]

SourceOK ==
  /\ version \in [File -> Value] /\ present \in [File -> BOOLEAN]
  /\ changes \in 0 .. MaxChanges /\ faults \in 0 .. MaxFaults
  /\ vanished \subseteq File /\ raced \subseteq File

IndexOK ==
  /\ seen \in [File -> Nat] /\ hash \in [File -> Nat] /\ deleted \in [File -> BOOLEAN]
  /\ isRunning \in BOOLEAN /\ isHashing \in BOOLEAN

ScansOK == scan \in [Scanning -> ScanRun]

\* A session holds the rows it has loaded.
SessionOK(s) == scan[s].pc = "syncing" => DOMAIN scan[s].loaded = BatchOf(s)

HashersOK == hasher \in [Hashing -> HasherRun]

\* A hasher has rows in hand only while it hashes.
BatchOK(r) ==
  /\ r.held \union r.failed \union r.gone \subseteq r.batch
  /\ DOMAIN r.hashes = r.batch
  /\ r.pc # "hashing" => r.batch = {}

Types ==
  /\ SourceOK /\ IndexOK /\ ScansOK /\ HashersOK
  /\ \A s \in Scanning : SessionOK(s)
  /\ \A h \in Hashing : BatchOK(hasher[h])

\* A function on some of the files, and one more.
LEMMA OnFilesType ==
  ASSUME NEW S, NEW f \in OnFiles(S)
  PROVE  DOMAIN f \in SUBSET File /\ f \in [DOMAIN f -> S]
BY DEF OnFiles

LEMMA OnFilesIntro ==
  ASSUME NEW S, NEW D \in SUBSET File, NEW f \in [D -> S]
  PROVE  f \in OnFiles(S)
BY DEF OnFiles

LEMMA Empty == \A S : NoFiles \in OnFiles(S) /\ DOMAIN NoFiles = {}
BY DEF OnFiles, NoFiles

LEMMA NewRuns == NewScan \in ScanRun /\ NewHasher \in HasherRun
BY Empty, Zenon DEF NewScan, NewHasher, ScanRun, HasherRun, ScanPc, HasherPc, Status

\* An assignment to a field of a scan leaves it one.
LEMMA ScanFields ==
  ASSUME NEW r \in ScanRun
  PROVE  /\ \A x \in ScanPc : [r EXCEPT !.pc = x] \in ScanRun
         /\ \A x \in SUBSET File : [r EXCEPT !.todo = x] \in ScanRun
         /\ \A x \in OnFiles(Value) : [r EXCEPT !.batch = x] \in ScanRun
         /\ \A x \in OnFiles(Loaded) : [r EXCEPT !.loaded = x] \in ScanRun
         /\ \A x \in SUBSET File : [r EXCEPT !.missing = x] \in ScanRun
         /\ \A x \in SUBSET File : [r EXCEPT !.kept = x] \in ScanRun
         /\ \A x \in SUBSET File : [r EXCEPT !.stamped = x] \in ScanRun
         /\ \A x \in SUBSET Scanning : [r EXCEPT !.after = x] \in ScanRun
         /\ \A x \in BOOLEAN : [r EXCEPT !.cancelled = x] \in ScanRun
<1>1. ASSUME NEW x \in ScanPc PROVE [r EXCEPT !.pc = x] \in ScanRun
  BY DEF ScanRun
<1>2. ASSUME NEW x \in SUBSET File PROVE [r EXCEPT !.todo = x] \in ScanRun
  BY DEF ScanRun
<1>3. ASSUME NEW x \in OnFiles(Value) PROVE [r EXCEPT !.batch = x] \in ScanRun
  BY DEF ScanRun
<1>4. ASSUME NEW x \in OnFiles(Loaded) PROVE [r EXCEPT !.loaded = x] \in ScanRun
  BY DEF ScanRun
<1>5. ASSUME NEW x \in SUBSET File PROVE [r EXCEPT !.missing = x] \in ScanRun
  BY DEF ScanRun
<1>6. ASSUME NEW x \in SUBSET File PROVE [r EXCEPT !.kept = x] \in ScanRun
  BY DEF ScanRun
<1>7. ASSUME NEW x \in SUBSET File PROVE [r EXCEPT !.stamped = x] \in ScanRun
  BY DEF ScanRun
<1>8. ASSUME NEW x \in SUBSET Scanning PROVE [r EXCEPT !.after = x] \in ScanRun
  BY DEF ScanRun
<1>9. ASSUME NEW x \in BOOLEAN PROVE [r EXCEPT !.cancelled = x] \in ScanRun
  BY DEF ScanRun
<1> QED
  BY <1>1, <1>2, <1>3, <1>4, <1>5, <1>6, <1>7, <1>8, <1>9

\* An assignment to a field of a hasher leaves it one.
LEMMA HasherFields ==
  ASSUME NEW r \in HasherRun
  PROVE  /\ \A x \in HasherPc : [r EXCEPT !.pc = x] \in HasherRun
         /\ \A x \in Status : [r EXCEPT !.status = x] \in HasherRun
         /\ \A x \in BOOLEAN : [r EXCEPT !.cancelled = x] \in HasherRun
         /\ \A x \in SUBSET File : [r EXCEPT !.batch = x] \in HasherRun
         /\ \A x \in SUBSET File : [r EXCEPT !.held = x] \in HasherRun
         /\ \A x \in SUBSET File : [r EXCEPT !.failed = x] \in HasherRun
         /\ \A x \in SUBSET File : [r EXCEPT !.gone = x] \in HasherRun
         /\ \A x \in OnFiles(Nat) : [r EXCEPT !.hashes = x] \in HasherRun
         /\ \A x \in BOOLEAN : [r EXCEPT !.alone = x] \in HasherRun
<1>1. ASSUME NEW x \in HasherPc PROVE [r EXCEPT !.pc = x] \in HasherRun
  BY DEF HasherRun
<1>2. ASSUME NEW x \in Status PROVE [r EXCEPT !.status = x] \in HasherRun
  BY DEF HasherRun
<1>3. ASSUME NEW x \in BOOLEAN PROVE [r EXCEPT !.cancelled = x] \in HasherRun
  BY DEF HasherRun
<1>4. ASSUME NEW x \in SUBSET File PROVE [r EXCEPT !.batch = x] \in HasherRun
  BY DEF HasherRun
<1>5. ASSUME NEW x \in SUBSET File PROVE [r EXCEPT !.held = x] \in HasherRun
  BY DEF HasherRun
<1>6. ASSUME NEW x \in SUBSET File PROVE [r EXCEPT !.failed = x] \in HasherRun
  BY DEF HasherRun
<1>7. ASSUME NEW x \in SUBSET File PROVE [r EXCEPT !.gone = x] \in HasherRun
  BY DEF HasherRun
<1>8. ASSUME NEW x \in OnFiles(Nat) PROVE [r EXCEPT !.hashes = x] \in HasherRun
  BY DEF HasherRun
<1>9. ASSUME NEW x \in BOOLEAN PROVE [r EXCEPT !.alone = x] \in HasherRun
  BY DEF HasherRun
<1> QED
  BY <1>1, <1>2, <1>3, <1>4, <1>5, <1>6, <1>7, <1>8, <1>9

\* No thread runs and nothing is indexed at first.
LEMMA InitTypes == Init => Types
<1> SUFFICES ASSUME Init PROVE Types
  OBVIOUS
<1>1. changes \in 0 .. MaxChanges /\ faults \in 0 .. MaxFaults
  BY ScannerConstants DEF Init
<1>2. version \in [File -> Value]
  BY DEF Init, Value
<1>3. present \in [File -> BOOLEAN]
  BY DEF Init
<1>4. seen \in [File -> Nat] /\ hash \in [File -> Nat] /\ deleted \in [File -> BOOLEAN]
  BY DEF Init
<1>5. SourceOK /\ IndexOK
  BY <1>1, <1>2, <1>3, <1>4 DEF Init, SourceOK, IndexOK
<1>6. ScansOK /\ HashersOK
  BY NewRuns DEF Init, ScansOK, HashersOK
<1>7. \A s \in Scanning : SessionOK(s)
  BY DEF Init, NewScan, SessionOK
<1>8. \A h \in Hashing : BatchOK(hasher[h])
  BY Empty DEF Init, NewHasher, BatchOK
<1> QED
  BY <1>5, <1>6, <1>7, <1>8 DEF Types

\* Steps of the source disk.
LEMMA SourceTypes ==
  ASSUME Types, NEW f \in File, SourceStep(f)
  PROVE  Types'
<1>1. /\ changes' \in 0 .. MaxChanges /\ changes' = changes + 1
      /\ UNCHANGED <<index, flags, scan, hasher, faults>>
  BY ScannerConstants DEF Types, SourceOK, SourceStep, WriteFile, RemoveFile, ReturnFile, Change
<1>2. version' \in [File -> Value]
  BY DEF Types, SourceOK, Value, SourceStep, WriteFile, RemoveFile, ReturnFile
<1>3. present' \in [File -> BOOLEAN]
  BY DEF Types, SourceOK, SourceStep, WriteFile, RemoveFile, ReturnFile
<1>4. vanished' \subseteq File /\ raced' \subseteq File
  BY DEF Types, SourceOK, SourceStep, WriteFile, RemoveFile, ReturnFile
<1> QED
  BY <1>1, <1>2, <1>3, <1>4
     DEF Types, SourceOK, IndexOK, ScansOK, HashersOK, SessionOK, BatchOK, BatchOf, index, flags

\* A step of the scans that leaves the hashers alone.
LEMMA ScanFrame ==
  ASSUME Types, UNCHANGED <<version, present, changes, vanished, deleted, hasher>>,
         ScansOK', \A s \in Scanning : SessionOK(s)',
         seen' \in [File -> Nat], hash' \in [File -> Nat], raced' \in SUBSET raced,
         isRunning' \in BOOLEAN, isHashing' = isHashing, faults' \in 0 .. MaxFaults
  PROVE  Types'
BY DEF Types, SourceOK, IndexOK, HashersOK, BatchOK

\* The steps of a scan that write nothing.
LEMMA ScanMoves ==
  ASSUME Types, NEW s \in Scanning,
         ScanTest(s) \/ StopWalk(s) \/ SyncRead(s) \/ StaleLook(s) \/ StaleSkip(s)
           \/ ScanFails(s) \/ ScanEnd(s) \/ CancelScan(s)
  PROVE  Types'
<1>1. UNCHANGED <<version, present, changes, vanished, index, isHashing, hasher, raced>>
  BY DEF source, flags,
     ScanTest, StopWalk, SyncRead, StaleLook, StaleSkip, ScanFails, ScanEnd, CancelScan
<1>2. faults' \in 0 .. MaxFaults
  <2>1. UNCHANGED faults \/ (faults < MaxFaults /\ faults' = faults + 1)
    BY DEF ScanTest, StopWalk, SyncRead, StaleLook, StaleSkip, ScanFails, ScanEnd, CancelScan
  <2> QED
    BY <2>1, ScannerConstants DEF Types, SourceOK
<1>3. isRunning' \in BOOLEAN
  BY DEF Types, IndexOK, flags,
     ScanTest, StopWalk, SyncRead, StaleLook, StaleSkip, ScanFails, ScanEnd, CancelScan
<1>4. scan \in [Scanning -> ScanRun]
  BY DEF Types, ScansOK
<1>5. \E n \in ScanRun : /\ scan' = [scan EXCEPT ![s] = n]
                         /\ n.pc = "syncing" => DOMAIN n.loaded = DOMAIN n.batch
  <2>1. CASE ScanTest(s)
    <3> DEFINE n == [scan[s] EXCEPT !.pc = "entered"]
    <3>1. n \in ScanRun /\ n.pc = "entered"
      BY <1>4 DEF ScanRun, ScanPc
    <3>2. scan' = [scan EXCEPT ![s] = n]
      BY <1>4, <2>1 DEF ScanTest, ScanAt
    <3> QED
      BY <3>1, <3>2
  <2>2. CASE StopWalk(s)
    <3> DEFINE n == [scan[s] EXCEPT !.todo = {}]
    <3>1. n \in ScanRun /\ n.pc = "walking"
      BY <1>4, <2>2 DEF ScanRun, StopWalk
    <3>2. scan' = [scan EXCEPT ![s] = n]
      BY <1>4, <2>2 DEF StopWalk
    <3> QED
      BY <3>1, <3>2
  <2>3. CASE CancelScan(s)
    <3> DEFINE n == [scan[s] EXCEPT !.cancelled = TRUE]
    <3>1. n \in ScanRun
      BY <1>4, ScanFields
    <3>2. n.pc = scan[s].pc /\ n.loaded = scan[s].loaded /\ n.batch = scan[s].batch
      BY <1>4 DEF ScanRun
    <3>3. scan' = [scan EXCEPT ![s] = n]
      BY <1>4, <2>3 DEF CancelScan
    <3> QED
      BY <3>1, <3>2, <3>3 DEF Types, SessionOK, BatchOf
  <2>4. CASE SyncRead(s)
    <3> DEFINE rows == [f \in BatchOf(s) |-> [seen |-> seen[f], hash |-> hash[f]]]
               m    == [scan[s] EXCEPT !.pc = "syncing"]
               n    == [m EXCEPT !.loaded = rows]
    <3>1. BatchOf(s) \in SUBSET File
      BY <1>4, OnFilesType DEF ScanRun, BatchOf
    <3>2. rows \in [BatchOf(s) -> Loaded]
      BY <3>1 DEF Types, IndexOK, Loaded
    <3>3. rows \in OnFiles(Loaded)
      BY <3>1, <3>2, OnFilesIntro
    <3>4. scan' = [scan EXCEPT ![s] = n]
      BY <1>4, <2>4 DEF SyncRead
    <3>5. DOMAIN rows = BatchOf(s)
      OBVIOUS
    <3>6. n.loaded = rows /\ n.batch = scan[s].batch
      BY <1>4 DEF ScanRun
    <3>7. m \in ScanRun
      BY <1>4, ScanFields DEF ScanPc
    <3> HIDE DEF rows, m
    <3>8. n \in ScanRun
      BY <3>3, <3>7, ScanFields
    <3> QED
      BY <3>4, <3>5, <3>6, <3>8 DEF BatchOf
  <2>5. CASE StaleLook(s)
    <3> DEFINE stale == {f \in File : seen[f] # 0 /\ ~deleted[f] /\ f \notin scan[s].stamped}
               gone  == {f \in stale : ~present[f]}
               kept  == {f \in stale : present[f]}
               l     == [scan[s] EXCEPT !.pc = "marking"]
               m     == [l EXCEPT !.missing = gone]
               n     == [m EXCEPT !.kept = kept]
    <3>1. gone \in SUBSET File /\ kept \in SUBSET File
      OBVIOUS
    <3>2. scan' = [scan EXCEPT ![s] = n]
      BY <1>4, <2>5 DEF StaleLook
    <3>3. n.pc = "marking"
      BY <1>4 DEF ScanRun
    <3> HIDE DEF gone, kept
    <3>4. l \in ScanRun
      BY <1>4, ScanFields DEF ScanPc
    <3> HIDE DEF l
    <3>5. m \in ScanRun
      BY <3>1, <3>4, ScanFields
    <3> HIDE DEF m
    <3>6. n \in ScanRun
      BY <3>1, <3>5, ScanFields
    <3> QED
      BY <3>2, <3>3, <3>6
  <2>6. CASE StaleSkip(s) \/ ScanFails(s)
    <3> DEFINE n == [NewScan EXCEPT !.pc = "ending"]
    <3>1. n \in ScanRun /\ n.pc = "ending"
      BY NewRuns DEF ScanRun, ScanPc
    <3> QED
      BY <2>6, <3>1 DEF StaleSkip, ScanFails
  <2>7. CASE ScanEnd(s)
    BY <2>7, NewRuns DEF ScanEnd, NewScan
  <2> QED
    BY <2>1, <2>2, <2>3, <2>4, <2>5, <2>6, <2>7
<1>6. ScansOK' /\ \A t \in Scanning : SessionOK(t)'
  BY <1>4, <1>5 DEF Types, ScansOK, SessionOK, BatchOf
<1> QED
  BY <1>1, <1>2, <1>3, <1>6, ScanFrame DEF Types, IndexOK, index

\* The files seen so far.
LEMMA StatTypes ==
  ASSUME Types, NEW s \in Scanning, NEW f \in File, Stat(s, f)
  PROVE  Types'
<1>1. scan \in [Scanning -> ScanRun]
  BY DEF Types, ScansOK
<1> DEFINE found == [g \in BatchOf(s) \union {f} |->
                      IF g = f THEN version[f] ELSE scan[s].batch[g]]
           batch == IF present[f] THEN found ELSE scan[s].batch
           todo  == scan[s].todo \ {f}
           m     == [scan[s] EXCEPT !.todo = todo]
           n     == [m EXCEPT !.batch = batch]
<1>2. scan' = [scan EXCEPT ![s] = n]
  BY <1>1 DEF Stat
<1>3. batch \in OnFiles(Value)
  <2>1. scan[s].batch \in OnFiles(Value)
    BY <1>1 DEF ScanRun
  <2>2. /\ BatchOf(s) \in SUBSET File
        /\ \A g \in BatchOf(s) : scan[s].batch[g] \in Value
    BY <2>1, OnFilesType DEF BatchOf
  <2>3. BatchOf(s) \union {f} \in SUBSET File /\ version[f] \in Value
    BY <2>2 DEF Types, SourceOK
  <2>4. found \in [BatchOf(s) \union {f} -> Value]
    BY <2>2, <2>3
  <2>5. found \in OnFiles(Value)
    BY <2>3, <2>4, OnFilesIntro
  <2> QED
    BY <2>1, <2>5
<1>4. m \in ScanRun
  <2>1. todo \in SUBSET File
    BY <1>1 DEF ScanRun
  <2> QED
    BY <1>1, <2>1, ScanFields
<1>5. n.pc = "walking"
  BY <1>1 DEF ScanRun, Stat
<1> HIDE DEF m, batch
<1>6. n \in ScanRun
  BY <1>3, <1>4, ScanFields
<1>7. ScansOK' /\ \A t \in Scanning : SessionOK(t)'
  BY <1>1, <1>2, <1>5, <1>6 DEF Types, ScansOK, SessionOK, BatchOf
<1> QED
  BY <1>7, ScanFrame DEF Stat, Types, IndexOK, SourceOK, index, flags, source

\* A stamp changes nothing but what is stamped.
LEMMA StampTypes ==
  ASSUME ScansOK, NEW s \in Scanning, NEW files \in SUBSET File, NEW then \in ScanRun,
         scan' = Stamp(s, files, then)
  PROVE  /\ ScansOK'
         /\ \A t \in Scanning : LET r == IF t = s THEN then ELSE scan[t] IN
              /\ scan'[t].pc = r.pc /\ scan'[t].todo = r.todo
              /\ scan'[t].batch = r.batch /\ scan'[t].loaded = r.loaded
              /\ scan'[t].missing = r.missing
<1> DEFINE Row(t) == IF t = s THEN then ELSE scan[t]
           Stamped(t) == IF ~Started(t) THEN Row(t).stamped
                         ELSE IF t = s \/ s \in scan[t].after THEN Row(t).stamped \union files
                         ELSE Row(t).stamped \ files
<1>1. \A t \in Scanning : Row(t) \in ScanRun
  BY DEF ScansOK
<1>2. \A t \in Scanning : Row(t).stamped \in SUBSET File
  BY <1>1 DEF ScanRun
<1>3. \A t \in Scanning : Stamped(t) \in SUBSET File
  <2> HIDE DEF Row
  <2> QED
    BY <1>2
<1>4. scan' = [t \in Scanning |-> [Row(t) EXCEPT !.stamped = Stamped(t)]]
  BY DEF Stamp
<1> HIDE DEF Stamped, Row
<1>5. \A t \in Scanning : [Row(t) EXCEPT !.stamped = Stamped(t)] \in ScanRun
  BY <1>1, <1>3, ScanFields
<1>6. ScansOK'
  BY <1>4, <1>5 DEF ScansOK
<1>7. ASSUME NEW t \in Scanning
      PROVE  /\ scan'[t].pc = Row(t).pc /\ scan'[t].todo = Row(t).todo
             /\ scan'[t].batch = Row(t).batch /\ scan'[t].loaded = Row(t).loaded
             /\ scan'[t].missing = Row(t).missing
  BY <1>1, <1>4 DEF ScanRun
<1> QED
  BY <1>6, <1>7 DEF Row

\* The record that a commit of the scanner starts from.
LEMMA Flushed ==
  ASSUME ScansOK, NEW s \in Scanning
  PROVE  LET then == [scan[s] EXCEPT !.pc = "walking", !.batch = NoFiles, !.loaded = NoFiles] IN
           /\ then \in ScanRun /\ then.pc = "walking" /\ then.batch = NoFiles
           /\ then.missing = scan[s].missing
<1> DEFINE l == [scan[s] EXCEPT !.pc = "walking"]
           m == [l EXCEPT !.batch = NoFiles]
           n == [m EXCEPT !.loaded = NoFiles]
<1>1. l \in ScanRun
  BY ScanFields DEF ScansOK, ScanPc
<1>2. n.pc = "walking" /\ n.batch = NoFiles /\ n.missing = scan[s].missing
  BY DEF ScansOK, ScanRun
<1>3. n = [scan[s] EXCEPT !.pc = "walking", !.batch = NoFiles, !.loaded = NoFiles]
  BY DEF ScansOK, ScanRun
<1> HIDE DEF l
<1>4. m \in ScanRun
  BY <1>1, Empty, ScanFields
<1> HIDE DEF m
<1>5. n \in ScanRun
  BY <1>4, Empty, ScanFields
<1> QED
  BY <1>2, <1>3, <1>5

\* The commits of a scan.
LEMMA CommitTypes ==
  ASSUME Types, NEW s \in Scanning, SyncCommit(s) \/ StaleCommit(s)
  PROVE  Types'
<1>1. ScansOK /\ BatchOf(s) \in SUBSET File /\ scan[s].kept \in SUBSET File
  <2>1. scan[s] \in ScanRun
    BY DEF Types, ScansOK
  <2> QED
    BY <2>1, OnFilesType DEF Types, ScanRun, BatchOf
<1>2. /\ ScansOK'
      /\ \A t \in Scanning : SessionOK(t)'
  <2>1. CASE SyncCommit(s)
    <3> DEFINE then == [scan[s] EXCEPT !.pc = "walking", !.batch = NoFiles, !.loaded = NoFiles]
    <3>1. then \in ScanRun /\ then.pc = "walking"
      BY <1>1, Flushed
    <3>2. scan' = Stamp(s, BatchOf(s), then)
      BY <2>1 DEF SyncCommit
    <3> HIDE DEF then
    <3> QED
      BY <1>1, <3>1, <3>2, StampTypes DEF Types, SessionOK, BatchOf
  <2>2. CASE StaleCommit(s)
    <3> DEFINE then == [NewScan EXCEPT !.pc = "ending"]
    <3>1. then \in ScanRun /\ then.pc = "ending"
      BY NewRuns DEF ScanRun, ScanPc
    <3>2. scan' = Stamp(s, scan[s].kept, then)
      BY <2>2 DEF StaleCommit
    <3> HIDE DEF then
    <3> QED
      BY <1>1, <3>1, <3>2, StampTypes DEF Types, SessionOK, BatchOf
  <2> QED
    BY <2>1, <2>2
<1>3. CASE SyncCommit(s)
  <2>1. \A f \in BatchOf(s) : scan[s].batch[f] \in Nat
    <3>1. scan[s].batch \in OnFiles(Value)
      BY <1>1 DEF ScansOK, ScanRun
    <3> QED
      BY <3>1, OnFilesType DEF BatchOf, Value
  <2>2. seen' \in [File -> Nat] /\ hash' \in [File -> Nat]
    BY <1>3, <2>1 DEF SyncCommit, Types, IndexOK, Changed
  <2>3. raced' \in SUBSET raced
    BY <1>3 DEF SyncCommit
  <2> QED
    BY <1>2, <1>3, <2>2, <2>3, ScanFrame DEF SyncCommit, source, flags, Types, SourceOK, IndexOK
<1>4. CASE StaleCommit(s)
  <2>1. deleted' \in [File -> BOOLEAN]
    BY <1>4 DEF StaleCommit, Types, IndexOK
  <2> QED
    BY <1>2, <1>4, <2>1
       DEF StaleCommit, source, flags, Types, SourceOK, IndexOK, HashersOK, BatchOK
<1> QED
  BY <1>3, <1>4

\* A scan may start a hasher.
LEMMA SpawnTypes ==
  ASSUME HashersOK, \A h \in Hashing : BatchOK(hasher[h]), SpawnHasher
  PROVE  HashersOK' /\ \A h \in Hashing : BatchOK(hasher[h])'
<1>1. CASE UNCHANGED hasher
  BY <1>1 DEF HashersOK, BatchOK
<1>2. ASSUME NEW h \in Hashing, hasher[h].pc = "idle",
             hasher' = [hasher EXCEPT ![h].pc = "spawned"]
      PROVE  HashersOK' /\ \A g \in Hashing : BatchOK(hasher[g])'
  <2> DEFINE n == [hasher[h] EXCEPT !.pc = "spawned"]
  <2>1. n \in HasherRun
    BY HasherFields DEF HashersOK, HasherPc
  <2>2. /\ n.held = hasher[h].held /\ n.failed = hasher[h].failed /\ n.gone = hasher[h].gone
        /\ n.batch = hasher[h].batch /\ n.hashes = hasher[h].hashes
    BY DEF HashersOK, HasherRun
  <2>3. hasher' = [hasher EXCEPT ![h] = n]
    BY <1>2 DEF HashersOK
  <2> HIDE DEF n
  <2>4. BatchOK(n)
    BY <1>2, <2>2 DEF BatchOK
  <2> QED
    BY <2>1, <2>3, <2>4 DEF HashersOK
<1> QED
  BY <1>1, <1>2 DEF SpawnHasher

\* A scan begins.
LEMMA StartTypes ==
  ASSUME Types, NEW s \in Scanning, ScanStart(s)
  PROVE  Types'
<1> DEFINE m == [NewScan EXCEPT !.pc = "walking"]
           n == [m EXCEPT !.todo = File]
           o == [n EXCEPT !.cancelled = scan[s].cancelled]
           Later(t) == [scan[t] EXCEPT !.after = scan[t].after \union {s}]
<1>1. scan \in [Scanning -> ScanRun]
  BY DEF Types, ScansOK
<1>2. o \in ScanRun /\ o.pc = "walking"
  <2>1. o.pc = "walking"
    BY DEF NewScan
  <2>2. m \in ScanRun
    BY NewRuns, ScanFields DEF ScanPc
  <2>3. scan[s].cancelled \in BOOLEAN
    BY <1>1 DEF ScanRun
  <2> HIDE DEF m
  <2>4. n \in ScanRun
    BY <2>2, ScanFields
  <2> HIDE DEF n
  <2>5. o \in ScanRun
    BY <2>3, <2>4, ScanFields
  <2> QED
    BY <2>1, <2>5
<1>3. \A t \in Scanning : Later(t) \in ScanRun
  <2>1. \A t \in Scanning : scan[t].after \union {s} \in SUBSET Scanning
    BY <1>1 DEF ScanRun
  <2> QED
    BY <1>1, <2>1, ScanFields
<1>4. \A t \in Scanning : /\ Later(t).pc = scan[t].pc /\ Later(t).batch = scan[t].batch
                          /\ Later(t).loaded = scan[t].loaded
  BY <1>1 DEF ScanRun
<1>5. scan' = [t \in Scanning |->
                IF t = s THEN o ELSE IF Started(t) THEN Later(t) ELSE scan[t]]
  BY DEF ScanStart
<1> HIDE DEF o, Later
<1>6. ScansOK'
  BY <1>1, <1>2, <1>3, <1>5 DEF ScansOK
<1>7. \A t \in Scanning : SessionOK(t)'
  BY <1>1, <1>2, <1>4, <1>5 DEF Types, SessionOK, BatchOf
<1>8. HashersOK' /\ \A h \in Hashing : BatchOK(hasher[h])'
  BY SpawnTypes DEF ScanStart, Types
<1> QED
  BY <1>6, <1>7, <1>8 DEF ScanStart, Types, SourceOK, IndexOK, source, index

\* A step of the hashers that leaves the scans and the source alone.
LEMMA HasherFrame ==
  ASSUME Types, UNCHANGED <<version, present, changes, vanished, seen, isRunning, scan, raced>>,
         HashersOK', \A h \in Hashing : BatchOK(hasher[h])',
         hash' \in [File -> Nat], deleted' \in [File -> BOOLEAN],
         isHashing' \in BOOLEAN, faults' \in 0 .. MaxFaults
  PROVE  Types'
BY DEF Types, SourceOK, IndexOK, ScansOK, SessionOK, BatchOf

\* A step to a place where nothing is in hand.
LEMMA HasherMoves ==
  ASSUME Types, NEW h \in Hashing, hasher[h].pc # "hashing",
         NEW x \in HasherPc, hasher' = HasherAt(h, x)
  PROVE  \E n \in HasherRun : hasher' = [hasher EXCEPT ![h] = n] /\ BatchOK(n)
<1> DEFINE n == [hasher[h] EXCEPT !.pc = x]
<1>1. hasher \in [Hashing -> HasherRun] /\ hasher[h] \in HasherRun /\ BatchOK(hasher[h])
  BY DEF Types, HashersOK
<1>2. n \in HasherRun
  BY <1>1, HasherFields
<1>3. /\ n.held = hasher[h].held /\ n.failed = hasher[h].failed /\ n.gone = hasher[h].gone
      /\ n.batch = hasher[h].batch /\ n.hashes = hasher[h].hashes /\ n.pc = x
  BY <1>1 DEF HasherRun
<1>4. hasher' = [hasher EXCEPT ![h] = n]
  BY <1>1 DEF HasherAt
<1> HIDE DEF n
<1>5. BatchOK(n)
  BY <1>1, <1>3 DEF BatchOK
<1> QED
  BY <1>2, <1>4, <1>5

\* The rows that a query returns.
LEMMA BatchIsSubset ==
  ASSUME NEW h \in Hashing, HasherQuery(h),
         hasher' # HasherAt(h, "ending"), hasher' # HasherAt(h, "empty")
  PROVE  \E batch \in SUBSET Targets :
           hasher' = [hasher EXCEPT ![h].pc = "hashing", ![h].batch = batch,
                                    ![h].held = batch, ![h].hashes = [f \in batch |-> 0]]
BY Zenon DEF HasherQuery, kSubset

\* The query takes rows in hand.
LEMMA QueryTypes ==
  ASSUME Types, NEW h \in Hashing, HasherQuery(h)
  PROVE  \E n \in HasherRun : hasher' = [hasher EXCEPT ![h] = n] /\ BatchOK(n)
<1>1. hasher \in [Hashing -> HasherRun] /\ hasher[h] \in HasherRun /\ BatchOK(hasher[h])
  BY DEF Types, HashersOK
<1>2. hasher[h].pc = "query"
  BY DEF HasherQuery
<1>3. CASE hasher' = HasherAt(h, "ending") \/ hasher' = HasherAt(h, "empty")
  BY <1>2, <1>3, HasherMoves DEF HasherPc
<1>4. ASSUME NEW batch \in SUBSET Targets,
             hasher' = [hasher EXCEPT ![h].pc = "hashing", ![h].batch = batch,
                                      ![h].held = batch, ![h].hashes = [f \in batch |-> 0]]
      PROVE  \E n \in HasherRun : hasher' = [hasher EXCEPT ![h] = n] /\ BatchOK(n)
  <2> DEFINE zero == [f \in batch |-> 0]
             k == [hasher[h] EXCEPT !.pc = "hashing"]
             l == [k EXCEPT !.batch = batch]
             m == [l EXCEPT !.held = batch]
             n == [m EXCEPT !.hashes = zero]
  <2>1. batch \in SUBSET File
    BY DEF Targets
  <2>2. zero \in OnFiles(Nat) /\ DOMAIN zero = batch
    <3>1. zero \in [batch -> Nat] /\ DOMAIN zero = batch
      OBVIOUS
    <3> HIDE DEF zero
    <3> QED
      BY <2>1, <3>1, OnFilesIntro
  <2>3. hasher' = [hasher EXCEPT ![h] = n]
    BY <1>1, <1>4
  <2>4. /\ n.held = batch /\ n.failed = hasher[h].failed /\ n.gone = hasher[h].gone
        /\ n.batch = batch /\ n.hashes = zero /\ n.pc = "hashing"
    BY <1>1 DEF HasherRun
  <2> HIDE DEF zero
  <2>5. k \in HasherRun
    BY <1>1, HasherFields DEF HasherPc
  <2> HIDE DEF k
  <2>6. l \in HasherRun
    BY <2>1, <2>5, HasherFields
  <2> HIDE DEF l
  <2>7. m \in HasherRun
    BY <2>1, <2>6, HasherFields
  <2> HIDE DEF m
  <2>8. n \in HasherRun
    BY <2>2, <2>7, HasherFields
  <2> HIDE DEF n
  <2>9. BatchOK(n)
    BY <1>1, <1>2, <2>2, <2>4 DEF BatchOK
  <2> QED
    BY <2>3, <2>8, <2>9
<1> QED
  BY <1>3, <1>4, BatchIsSubset

\* What a hasher does to its batch.
LEMMA HashingTypes ==
  ASSUME Types, NEW h \in Hashing, hasher[h].pc = "hashing",
         \/ \E f \in File : HashFile(h, f) \/ HashFails(h, f) \/ LookUp(h, f)
         \/ HasherStops(h)
         \/ EndBatch(h, "query") /\ hasher[h].held = {} /\ hasher[h].failed = {}
         \/ EndBatch(h, "ending") /\ hasher[h].held = {} /\ hasher[h].failed = {}
  PROVE  \E n \in HasherRun : hasher' = [hasher EXCEPT ![h] = n] /\ BatchOK(n)
<1>1. hasher \in [Hashing -> HasherRun] /\ hasher[h] \in HasherRun /\ BatchOK(hasher[h])
  BY DEF Types, HashersOK
<1>2. /\ hasher[h].batch \in SUBSET File /\ hasher[h].held \in SUBSET File
      /\ hasher[h].failed \in SUBSET File /\ hasher[h].gone \in SUBSET File
      /\ hasher[h].hashes \in OnFiles(Nat)
  BY <1>1 DEF HasherRun
<1>3. ASSUME NEW f \in File, HashFile(h, f)
      PROVE  \E n \in HasherRun : hasher' = [hasher EXCEPT ![h] = n] /\ BatchOK(n)
  <2> DEFINE held == hasher[h].held \ {f}
             hashes == [hasher[h].hashes EXCEPT ![f] = version[f]]
             m == [hasher[h] EXCEPT !.held = held]
             n == [m EXCEPT !.hashes = hashes]
  <2>1. hasher' = [hasher EXCEPT ![h] = n]
    BY <1>1, <1>3 DEF HashFile
  <2>2. /\ n.held = held /\ n.failed = hasher[h].failed /\ n.gone = hasher[h].gone
        /\ n.batch = hasher[h].batch /\ n.hashes = hashes /\ n.pc = "hashing"
    BY <1>1 DEF HasherRun
  <2>3. hashes \in OnFiles(Nat) /\ DOMAIN hashes = hasher[h].batch
    <3>1. hasher[h].hashes \in [hasher[h].batch -> Nat]
      BY <1>1, <1>2, OnFilesType DEF BatchOK
    <3>2. version[f] \in Nat
      BY DEF Types, SourceOK, Value
    <3>3. hashes \in [hasher[h].batch -> Nat] /\ DOMAIN hashes = hasher[h].batch
      BY <3>1, <3>2
    <3> HIDE DEF hashes
    <3> QED
      BY <1>2, <3>3, OnFilesIntro
  <2>4. held \in SUBSET File /\ held \subseteq hasher[h].held
    BY <1>2
  <2> HIDE DEF hashes, held
  <2>5. m \in HasherRun
    BY <1>1, <2>4, HasherFields
  <2> HIDE DEF m
  <2>6. n \in HasherRun
    BY <2>3, <2>5, HasherFields
  <2> HIDE DEF n
  <2>7. BatchOK(n)
    BY <1>1, <2>2, <2>3, <2>4 DEF BatchOK
  <2> QED
    BY <2>1, <2>6, <2>7
<1>4. ASSUME NEW f \in File, HashFails(h, f)
      PROVE  \E n \in HasherRun : hasher' = [hasher EXCEPT ![h] = n] /\ BatchOK(n)
  <2> DEFINE held == hasher[h].held \ {f}
             failed == hasher[h].failed \union {f}
             m == [hasher[h] EXCEPT !.held = held]
             n == [m EXCEPT !.failed = failed]
  <2>1. hasher' = [hasher EXCEPT ![h] = n]
    BY <1>1, <1>4 DEF HashFails
  <2>2. /\ n.held = held /\ n.failed = failed /\ n.gone = hasher[h].gone
        /\ n.batch = hasher[h].batch /\ n.hashes = hasher[h].hashes /\ n.pc = "hashing"
    BY <1>1 DEF HasherRun
  <2>3. f \in hasher[h].held
    BY <1>4 DEF HashFails
  <2>4. /\ held \in SUBSET File /\ held \subseteq hasher[h].held
        /\ failed \in SUBSET File /\ failed \subseteq hasher[h].batch
    BY <1>1, <1>2, <2>3 DEF BatchOK
  <2> HIDE DEF failed, held
  <2>5. m \in HasherRun
    BY <1>1, <2>4, HasherFields
  <2> HIDE DEF m
  <2>6. n \in HasherRun
    BY <2>4, <2>5, HasherFields
  <2> HIDE DEF n
  <2>7. BatchOK(n)
    BY <1>1, <2>2, <2>4 DEF BatchOK
  <2> QED
    BY <2>1, <2>6, <2>7
<1>5. ASSUME NEW f \in File, LookUp(h, f)
      PROVE  \E n \in HasherRun : hasher' = [hasher EXCEPT ![h] = n] /\ BatchOK(n)
  <2> DEFINE failed == hasher[h].failed \ {f}
             gone == IF present[f] THEN hasher[h].gone ELSE hasher[h].gone \union {f}
             m == [hasher[h] EXCEPT !.failed = failed]
             n == [m EXCEPT !.gone = gone]
  <2>1. hasher' = [hasher EXCEPT ![h] = n]
    BY <1>1, <1>5 DEF LookUp
  <2>2. /\ n.held = hasher[h].held /\ n.failed = failed /\ n.gone = gone
        /\ n.batch = hasher[h].batch /\ n.hashes = hasher[h].hashes /\ n.pc = "hashing"
    BY <1>1 DEF HasherRun
  <2>3. f \in hasher[h].failed
    BY <1>5 DEF LookUp
  <2>4. /\ failed \in SUBSET File /\ failed \subseteq hasher[h].failed
        /\ gone \in SUBSET File /\ gone \subseteq hasher[h].batch
    BY <1>1, <1>2, <2>3 DEF BatchOK
  <2> HIDE DEF failed, gone
  <2>5. m \in HasherRun
    BY <1>1, <2>4, HasherFields
  <2> HIDE DEF m
  <2>6. n \in HasherRun
    BY <2>4, <2>5, HasherFields
  <2> HIDE DEF n
  <2>7. BatchOK(n)
    BY <1>1, <2>2, <2>4 DEF BatchOK
  <2> QED
    BY <2>1, <2>6, <2>7
<1>6. CASE HasherStops(h)
  <2> DEFINE m == [hasher[h] EXCEPT !.held = {}]
             n == [m EXCEPT !.failed = {}]
  <2>1. hasher' = [hasher EXCEPT ![h] = n]
    BY <1>1, <1>6 DEF HasherStops
  <2>2. /\ n.held = {} /\ n.failed = {} /\ n.gone = hasher[h].gone
        /\ n.batch = hasher[h].batch /\ n.hashes = hasher[h].hashes /\ n.pc = "hashing"
    BY <1>1 DEF HasherRun
  <2>3. m \in HasherRun
    BY <1>1, HasherFields
  <2> HIDE DEF m
  <2>4. n \in HasherRun
    BY <2>3, HasherFields
  <2> HIDE DEF n
  <2>5. BatchOK(n)
    BY <1>1, <2>2 DEF BatchOK
  <2> QED
    BY <2>1, <2>4, <2>5
<1>7. ASSUME NEW x \in {"query", "ending"}, EndBatch(h, x),
             hasher[h].held = {}, hasher[h].failed = {}
      PROVE  \E n \in HasherRun : hasher' = [hasher EXCEPT ![h] = n] /\ BatchOK(n)
  <2> DEFINE k == [hasher[h] EXCEPT !.pc = x]
             l == [k EXCEPT !.batch = {}]
             m == [l EXCEPT !.gone = {}]
             n == [m EXCEPT !.hashes = NoFiles]
  <2>1. hasher' = [hasher EXCEPT ![h] = n]
    BY <1>1, <1>7 DEF EndBatch
  <2>2. /\ n.held = {} /\ n.failed = {} /\ n.gone = {}
        /\ n.batch = {} /\ n.hashes = NoFiles
    BY <1>1, <1>7 DEF HasherRun
  <2>3. k \in HasherRun
    BY <1>1, HasherFields DEF HasherPc
  <2> HIDE DEF k
  <2>4. l \in HasherRun
    BY <2>3, HasherFields
  <2> HIDE DEF l
  <2>5. m \in HasherRun
    BY <2>4, HasherFields
  <2> HIDE DEF m
  <2>6. n \in HasherRun
    BY <2>5, Empty, HasherFields
  <2> HIDE DEF n
  <2>7. BatchOK(n)
    BY <2>2, Empty DEF BatchOK
  <2> QED
    BY <2>1, <2>6, <2>7
<1> QED
  BY <1>3, <1>4, <1>5, <1>6, <1>7

\* What becomes of its HASH row.
LEMMA RowTypes ==
  ASSUME Types, NEW h \in Hashing, HasherEnd(h) \/ HasherLeave(h) \/ CancelHasher(h)
  PROVE  \E n \in HasherRun : hasher' = [hasher EXCEPT ![h] = n] /\ BatchOK(n)
<1>1. hasher \in [Hashing -> HasherRun] /\ hasher[h] \in HasherRun /\ BatchOK(hasher[h])
  BY DEF Types, HashersOK
<1>2. CASE HasherEnd(h)
  <2> DEFINE status == IF ~hasher[h].cancelled /\ isHashing THEN "COMPLETED" ELSE hasher[h].status
             m == [hasher[h] EXCEPT !.pc = "leaving"]
             n == [m EXCEPT !.status = status]
  <2>1. hasher' = [hasher EXCEPT ![h] = n]
    BY <1>1, <1>2 DEF HasherEnd
  <2>2. /\ n.held = hasher[h].held /\ n.failed = hasher[h].failed /\ n.gone = hasher[h].gone
        /\ n.batch = hasher[h].batch /\ n.hashes = hasher[h].hashes /\ n.pc = "leaving"
    BY <1>1 DEF HasherRun
  <2>3. status \in Status
    BY <1>1 DEF HasherRun, Status
  <2>4. m \in HasherRun
    BY <1>1, HasherFields DEF HasherPc
  <2> HIDE DEF status, m
  <2>5. n \in HasherRun
    BY <2>3, <2>4, HasherFields
  <2> HIDE DEF n
  <2>6. hasher[h].pc = "ending"
    BY <1>2 DEF HasherEnd
  <2>7. BatchOK(n)
    BY <1>1, <2>2, <2>6 DEF BatchOK
  <2> QED
    BY <2>1, <2>5, <2>7
<1>3. CASE HasherLeave(h)
  <2>1. CASE hasher[h].status = "RUNNING"
    <3> DEFINE n == [hasher[h] EXCEPT !.pc = "idle"]
    <3>1. hasher' = HasherAt(h, "idle")
      BY <1>1, <1>3, <2>1 DEF HasherLeave, HasherAt
    <3> QED
      BY <1>3, <3>1, HasherMoves DEF HasherLeave, HasherPc
  <2>2. CASE hasher[h].status # "RUNNING"
    <3>1. hasher' = [hasher EXCEPT ![h] = NewHasher]
      BY <1>1, <1>3, <2>2 DEF HasherLeave
    <3>2. BatchOK(NewHasher)
      BY Empty DEF BatchOK, NewHasher
    <3> QED
      BY <3>1, <3>2, NewRuns
  <2> QED
    BY <2>1, <2>2
<1>4. CASE CancelHasher(h)
  <2> DEFINE m == [hasher[h] EXCEPT !.status = "FAILED"]
             n == [m EXCEPT !.cancelled = TRUE]
  <2>1. hasher' = [hasher EXCEPT ![h] = n]
    BY <1>1, <1>4 DEF CancelHasher
  <2>2. /\ n.held = hasher[h].held /\ n.failed = hasher[h].failed /\ n.gone = hasher[h].gone
        /\ n.batch = hasher[h].batch /\ n.hashes = hasher[h].hashes /\ n.pc = hasher[h].pc
    BY <1>1 DEF HasherRun
  <2>3. m \in HasherRun
    BY <1>1, HasherFields DEF Status
  <2> HIDE DEF m
  <2>4. n \in HasherRun
    BY <2>3, HasherFields
  <2> HIDE DEF n
  <2>5. BatchOK(n)
    BY <1>1, <2>2 DEF BatchOK
  <2> QED
    BY <2>1, <2>4, <2>5
<1> QED
  BY <1>2, <1>3, <1>4

\* A hasher begins, and the others are told that it has.
LEMMA HasherStartTypes ==
  ASSUME Types, NEW h \in Hashing, HasherStart(h)
  PROVE  HashersOK' /\ \A g \in Hashing : BatchOK(hasher[g])'
<1> DEFINE others == {g \in Hashing \ {h} : Inside(g)}
           l == [NewHasher EXCEPT !.pc = "query"]
           m == [l EXCEPT !.status = "RUNNING"]
           n == [m EXCEPT !.alone = (others = {})]
           Met(g) == [hasher[g] EXCEPT !.alone = FALSE]
<1>1. hasher \in [Hashing -> HasherRun]
  BY DEF Types, HashersOK
<1>2. n \in HasherRun /\ BatchOK(n)
  <2>1. l \in HasherRun
    BY NewRuns, HasherFields DEF HasherPc
  <2>2. /\ n.held = {} /\ n.failed = {} /\ n.gone = {} /\ n.batch = {} /\ n.hashes = NoFiles
    BY DEF NewHasher
  <2> HIDE DEF l
  <2>3. m \in HasherRun
    BY <2>1, HasherFields DEF Status
  <2>4. (others = {}) \in BOOLEAN
    OBVIOUS
  <2> HIDE DEF m, others
  <2>5. n \in HasherRun
    BY <2>3, <2>4, HasherFields
  <2> HIDE DEF n
  <2> QED
    BY <2>2, <2>5, Empty DEF BatchOK
<1>3. \A g \in Hashing : Met(g) \in HasherRun
  BY <1>1, HasherFields
<1>4. ASSUME NEW g \in Hashing PROVE BatchOK(Met(g))
  <2>1. BatchOK(hasher[g]) /\ hasher[g] \in HasherRun
    BY <1>1 DEF Types
  <2>2. /\ Met(g).held = hasher[g].held /\ Met(g).failed = hasher[g].failed
        /\ Met(g).gone = hasher[g].gone /\ Met(g).batch = hasher[g].batch
        /\ Met(g).hashes = hasher[g].hashes /\ Met(g).pc = hasher[g].pc
    BY <2>1 DEF HasherRun
  <2> HIDE DEF Met
  <2> QED
    BY <2>1, <2>2 DEF BatchOK
<1>5. hasher' = [g \in Hashing |-> IF g = h THEN n ELSE IF g \in others THEN Met(g) ELSE hasher[g]]
  BY DEF HasherStart
<1> HIDE DEF n, Met, others
<1> QED
  BY <1>1, <1>2, <1>3, <1>4, <1>5 DEF Types, HashersOK

\* The steps of a hasher.
LEMMA HasherTypes ==
  ASSUME Types, NEW h \in Hashing, TriggerIndexing(h) \/ HasherStep(h) \/ CancelHasher(h)
  PROVE  Types'
<1>1. HashersOK' /\ \A g \in Hashing : BatchOK(hasher[g])'
  <2>1. CASE HasherStart(h)
    BY <2>1, HasherStartTypes
  <2>2. CASE ~HasherStart(h)
    <3>1. \E n \in HasherRun : hasher' = [hasher EXCEPT ![h] = n] /\ BatchOK(n)
      <4>1. CASE TriggerIndexing(h)
        BY <4>1, HasherMoves DEF TriggerIndexing, HasherPc
      <4>2. CASE HasherTest(h)
        BY <4>2, HasherMoves DEF HasherTest, HasherPc
      <4>3. CASE HasherEmpty(h)
        BY <4>3, HasherMoves DEF HasherEmpty, HasherPc
      <4>4. CASE HasherQuery(h)
        BY <4>4, QueryTypes
      <4>5. CASE HasherEnd(h) \/ HasherLeave(h) \/ CancelHasher(h)
        BY <4>5, RowTypes
      <4>6. CASE HasherStops(h) \/ \E f \in File : HashFile(h, f) \/ HashFails(h, f) \/ LookUp(h, f)
        BY <4>6, HashingTypes DEF HasherStops, HashFile, HashFails, LookUp
      <4>7. CASE HasherCommit(h) \/ HasherCommitFails(h)
        BY <4>7, HashingTypes DEF HasherCommit, HasherCommitFails
      <4> QED
        BY <2>2, <4>1, <4>2, <4>3, <4>4, <4>5, <4>6, <4>7 DEF HasherStep
    <3> QED
      BY <3>1 DEF Types, HashersOK
  <2> QED
    BY <2>1, <2>2
<1>2. hash' \in [File -> Nat] /\ deleted' \in [File -> BOOLEAN]
  <2>1. CASE HasherCommit(h)
    <3>1. \A f \in hasher[h].batch : hasher[h].hashes[f] \in Nat
      <4>1. hasher[h].hashes \in OnFiles(Nat) /\ BatchOK(hasher[h])
        BY DEF Types, HashersOK, HasherRun
      <4> QED
        BY <4>1, OnFilesType DEF BatchOK
    <3>2. hash' \in [File -> Nat]
      BY <2>1, <3>1 DEF HasherCommit, Types, IndexOK
    <3>3. deleted' \in [File -> BOOLEAN]
      BY <2>1 DEF HasherCommit, Types, IndexOK
    <3> QED
      BY <3>2, <3>3
  <2>2. CASE ~HasherCommit(h)
    BY <2>2 DEF Types, IndexOK, index, HasherStep, TriggerIndexing, CancelHasher, HasherTest,
       HasherStart, HasherQuery, HasherEmpty, HasherStops, HasherCommitFails, HasherEnd,
       HasherLeave, HashFile, HashFails, LookUp
  <2> QED
    BY <2>1, <2>2
<1>3. /\ UNCHANGED <<version, present, changes, vanished, seen, isRunning, scan, raced>>
      /\ isHashing' \in {TRUE, FALSE, isHashing}
      /\ UNCHANGED faults \/ (faults < MaxFaults /\ faults' = faults + 1)
  BY DEF source, flags, index, HasherStep, TriggerIndexing, CancelHasher, HasherTest,
     HasherStart, HasherQuery, HasherEmpty, HasherStops, HasherCommit, HasherCommitFails, HasherEnd,
     HasherLeave, HashFile, HashFails, LookUp
<1>4. faults' \in 0 .. MaxFaults
  BY <1>3, ScannerConstants DEF Types, SourceOK
<1>5. isHashing' \in BOOLEAN
  BY <1>3 DEF Types, IndexOK
<1> QED
  BY <1>1, <1>2, <1>3, <1>4, <1>5, HasherFrame

\* Every thread is lost with the process.
LEMMA RestartTypes ==
  ASSUME Types, Restart
  PROVE  Types'
<1>1. faults' \in 0 .. MaxFaults
  BY ScannerConstants DEF Restart, Types, SourceOK
<1>2. ScansOK' /\ HashersOK'
  BY NewRuns DEF Restart, ScansOK, HashersOK
<1>3. \A s \in Scanning : SessionOK(s)'
  BY DEF Restart, SessionOK, NewScan
<1>4. \A h \in Hashing : BatchOK(hasher[h])'
  BY Empty DEF Restart, BatchOK, NewHasher
<1> QED
  BY <1>1, <1>2, <1>3, <1>4 DEF Types, SourceOK, IndexOK, Restart, source, index

\* Every step keeps the types.
LEMMA NextTypes == Types /\ [Next]_vars => Types'
<1> SUFFICES ASSUME Types, [Next]_vars PROVE Types'
  OBVIOUS
<1>1. ASSUME NEW f \in File, SourceStep(f) PROVE Types'
  BY <1>1, SourceTypes
<1>2. ASSUME NEW s \in Scanning, ScanTest(s) \/ ScanStep(s) \/ CancelScan(s) PROVE Types'
  BY <1>2, ScanMoves, StatTypes, CommitTypes, StartTypes DEF ScanStep
<1>3. ASSUME NEW h \in Hashing, TriggerIndexing(h) \/ HasherStep(h) \/ CancelHasher(h)
      PROVE  Types'
  BY <1>3, HasherTypes
<1>4. CASE UNCHANGED vars
  BY <1>4 DEF vars, Types, SourceOK, IndexOK, ScansOK, HashersOK, SessionOK, BatchOK, BatchOf
<1> QED
  BY <1>1, <1>2, <1>3, <1>4, RestartTypes DEF Next

\* The types that the module states.
THEOREM TypeCorrect == Spec => []TypeOK
<1>1. Types => TypeOK
  <2> SUFFICES ASSUME Types PROVE TypeOK
    OBVIOUS
  <2>1. \A s \in Scanning : scan[s].pc \in ScanPc /\ scan[s].batch \in OnFiles(Value)
    BY DEF Types, ScansOK, ScanRun
  <2>2. \A s \in Scanning : BatchOf(s) \subseteq File
    BY <2>1, OnFilesType DEF BatchOf
  <2>3. \A h \in Hashing : hasher[h].pc \in HasherPc /\ BatchOK(hasher[h])
    BY DEF Types, HashersOK, HasherRun
  <2> QED
    BY <2>1, <2>2, <2>3
       DEF Types, SourceOK, IndexOK, TypeOK, Value, ScanPc, HasherPc, BatchOK, Inside
<1> QED
  BY <1>1, InitTypes, NextTypes, PTL DEF Spec

-----------------------------------------------------------------------------
(* What a step can do to a file, whichever step it is                       *)

\* A batch grows by files that are there, and a list of missing files by known
\* files that are not; a session holds what the index held when it was read.
ScanEffect(t) ==
  /\ \A f \in BatchOf(t)' : \/ present[f] /\ scan'[t].batch[f] = version[f]
                            \/ f \in BatchOf(t) /\ scan'[t].batch[f] = scan[t].batch[f]
  /\ \A f \in scan'[t].missing : f \in scan[t].missing \/ (seen[f] # 0 /\ ~present[f])
  /\ scan'[t].pc = "syncing" => \A f \in BatchOf(t)' :
       /\ f \in BatchOf(t) /\ scan'[t].batch[f] = scan[t].batch[f]
       /\ \/ scan[t].pc = "syncing" /\ scan'[t].loaded[f] = scan[t].loaded[f]
          \/ scan'[t].loaded[f].hash = hash[f]

SameHands(t) ==
  /\ scan'[t].pc # "syncing" \/ scan[t].pc = "syncing"
  /\ scan'[t].batch = scan[t].batch /\ scan'[t].loaded = scan[t].loaded
  /\ scan'[t].missing = scan[t].missing

EmptyHands(t) ==
  /\ scan'[t].pc # "syncing" /\ scan'[t].batch = NoFiles
  /\ scan'[t].missing \in SUBSET scan[t].missing

\* Most steps of a scan only carry on or put down what it has in hand.
LEMMA Hands == \A t : SameHands(t) \/ EmptyHands(t) => ScanEffect(t)
BY Empty DEF SameHands, EmptyHands, ScanEffect, BatchOf

\* A batch of the walk grows, is read, and becomes a list of missing files.
LEMMA ScanEffects ==
  ASSUME Types, NEW s \in Scanning, ScanTest(s) \/ ScanStep(s) \/ CancelScan(s),
         NEW t \in Scanning
  PROVE  ScanEffect(t)
<1>1. scan \in [Scanning -> ScanRun] /\ ScansOK
  BY DEF Types, ScansOK
<1>2. CASE ScanTest(s) \/ StopWalk(s) \/ CancelScan(s)
  <2>1. SameHands(t)
    BY <1>1, <1>2 DEF ScanTest, ScanAt, StopWalk, CancelScan, SameHands, ScanRun
  <2> QED
    BY <2>1, Hands
<1>3. CASE StaleSkip(s) \/ ScanFails(s) \/ ScanEnd(s)
  <2>1. CASE t = s
    <3>1. EmptyHands(t)
      BY <1>1, <1>3, <2>1 DEF StaleSkip, ScanFails, ScanEnd, EmptyHands, NewScan
    <3> QED
      BY <3>1, Hands
  <2>2. CASE t # s
    <3>1. SameHands(t)
      BY <1>1, <1>3, <2>2 DEF StaleSkip, ScanFails, ScanEnd, SameHands
    <3> QED
      BY <3>1, Hands
  <2> QED
    BY <2>1, <2>2
<1>4. CASE ScanStart(s)
  <2>1. CASE t = s
    <3>1. EmptyHands(t)
      BY <1>1, <1>4, <2>1 DEF ScanStart, EmptyHands, NewScan
    <3> QED
      BY <3>1, Hands
  <2>2. CASE t # s
    <3>1. SameHands(t)
      BY <1>1, <1>4, <2>2 DEF ScanStart, SameHands, ScanRun
    <3> QED
      BY <3>1, Hands
  <2> QED
    BY <2>1, <2>2
<1>5. CASE SyncCommit(s)
  <2> DEFINE then == [scan[s] EXCEPT !.pc = "walking", !.batch = NoFiles, !.loaded = NoFiles]
  <2>1. /\ then \in ScanRun /\ then.pc = "walking" /\ then.batch = NoFiles
        /\ then.missing = scan[s].missing
    BY <1>1, Flushed
  <2>2. scan' = Stamp(s, BatchOf(s), then)
    BY <1>5 DEF SyncCommit
  <2> HIDE DEF then
  <2>3. BatchOf(s) \in SUBSET File
    BY <1>1, OnFilesType DEF ScanRun, BatchOf
  <2>4. SameHands(t) \/ EmptyHands(t)
    BY <1>1, <2>1, <2>2, <2>3, StampTypes DEF SameHands, EmptyHands
  <2> QED
    BY <2>4, Hands
<1>6. CASE StaleCommit(s)
  <2> DEFINE then == [NewScan EXCEPT !.pc = "ending"]
  <2>1. then \in ScanRun /\ then.pc = "ending" /\ then.batch = NoFiles /\ then.missing = {}
    BY NewRuns DEF ScanRun, ScanPc, NewScan
  <2>2. scan' = Stamp(s, scan[s].kept, then)
    BY <1>6 DEF StaleCommit
  <2> HIDE DEF then
  <2>3. scan[s].kept \in SUBSET File
    BY <1>1 DEF ScanRun
  <2>4. SameHands(t) \/ EmptyHands(t)
    BY <1>1, <2>1, <2>2, <2>3, StampTypes DEF SameHands, EmptyHands
  <2> QED
    BY <2>4, Hands
<1>7. CASE SyncRead(s)
  <2>1. CASE t = s
    <3>1. /\ scan'[s].batch = scan[s].batch /\ scan'[s].missing = scan[s].missing
          /\ scan'[s].loaded = [f \in BatchOf(s) |-> [seen |-> seen[f], hash |-> hash[f]]]
      BY <1>1, <1>7 DEF SyncRead, ScanRun
    <3> QED
      BY <2>1, <3>1 DEF ScanEffect, BatchOf
  <2>2. CASE t # s
    <3>1. SameHands(t)
      BY <1>1, <1>7, <2>2 DEF SyncRead, SameHands
    <3> QED
      BY <3>1, Hands
  <2> QED
    BY <2>1, <2>2
<1>8. CASE StaleLook(s)
  <2>1. CASE t = s
    <3> DEFINE stale == {f \in File : seen[f] # 0 /\ ~deleted[f] /\ f \notin scan[s].stamped}
               gone == {f \in stale : ~present[f]}
               kept == {f \in stale : present[f]}
    <3>1. scan' = [scan EXCEPT ![s].pc = "marking", ![s].missing = gone, ![s].kept = kept]
      BY <1>8 DEF StaleLook
    <3>2. \A f \in gone : seen[f] # 0 /\ ~present[f]
      OBVIOUS
    <3> HIDE DEF gone, kept
    <3>3. /\ scan'[s].batch = scan[s].batch /\ scan'[s].pc = "marking"
          /\ scan'[s].missing = gone
      BY <1>1, <3>1 DEF ScanRun
    <3> QED
      BY <2>1, <3>2, <3>3 DEF ScanEffect, BatchOf
  <2>2. CASE t # s
    <3>1. SameHands(t)
      BY <1>1, <1>8, <2>2 DEF StaleLook, SameHands
    <3> QED
      BY <3>1, Hands
  <2> QED
    BY <2>1, <2>2
<1>9. ASSUME NEW f \in File, Stat(s, f)
      PROVE  ScanEffect(t)
  <2>1. CASE t = s
    <3>1. /\ scan'[s].missing = scan[s].missing /\ scan'[s].pc = "walking"
          /\ scan'[s].batch =
               IF present[f] THEN [g \in BatchOf(s) \union {f} |->
                                     IF g = f THEN version[f] ELSE scan[s].batch[g]]
               ELSE scan[s].batch
      BY <1>1, <1>9 DEF Stat, ScanRun
    <3> QED
      BY <2>1, <3>1 DEF ScanEffect, BatchOf
  <2>2. CASE t # s
    <3>1. SameHands(t)
      BY <1>1, <1>9, <2>2 DEF Stat, SameHands
    <3> QED
      BY <3>1, Hands
  <2> QED
    BY <2>1, <2>2
<1> QED
  BY <1>2, <1>3, <1>4, <1>5, <1>6, <1>7, <1>8, <1>9 DEF ScanStep

\* A row comes into a hasher's hands without a hash and gets that of the file; one
\* that it finds gone is not there.
HasherEffect(g) ==
  /\ \A f \in hasher'[g].batch :
       \/ f \in hasher[g].batch /\ hasher'[g].hashes[f] \in {hasher[g].hashes[f], version[f]}
       \/ hasher'[g].hashes[f] = 0 /\ seen[f] # 0
  /\ \A f \in hasher'[g].gone :
       f \in hasher[g].gone \/ (f \in hasher[g].batch /\ ~present[f])

KeepsRows(g) ==
  /\ hasher'[g].batch = hasher[g].batch /\ hasher'[g].hashes = hasher[g].hashes
  /\ hasher'[g].gone = hasher[g].gone

DropsRows(g) == hasher'[g].batch = {} /\ hasher'[g].gone = {}

\* Most steps of a hasher keep the rows or drop them.
LEMMA Rows == \A g : KeepsRows(g) \/ DropsRows(g) => HasherEffect(g)
BY DEF KeepsRows, DropsRows, HasherEffect

\* A scan that starts a hasher gives it no rows.
LEMMA SpawnEffects ==
  ASSUME HashersOK, SpawnHasher \/ UNCHANGED hasher, NEW g \in Hashing
  PROVE  KeepsRows(g)
BY DEF HashersOK, HasherRun, SpawnHasher, KeepsRows

\* What becomes of the rows of a batch.
LEMMA HasherEffects ==
  ASSUME Types, NEW h \in Hashing, TriggerIndexing(h) \/ HasherStep(h) \/ CancelHasher(h),
         NEW g \in Hashing
  PROVE  HasherEffect(g)
<1>1. hasher \in [Hashing -> HasherRun]
  BY DEF Types, HashersOK
<1>2. CASE TriggerIndexing(h) \/ HasherTest(h) \/ HasherEmpty(h) \/ HasherEnd(h)
             \/ CancelHasher(h) \/ HasherStops(h) \/ \E f \in File : HashFails(h, f)
  <2>1. ASSUME NEW x, hasher' = HasherAt(h, x) PROVE KeepsRows(g)
    BY <1>1, <2>1 DEF HasherAt, KeepsRows, HasherRun
  <2>2. CASE TriggerIndexing(h) \/ HasherTest(h) \/ HasherEmpty(h)
    BY <2>1, <2>2, Rows DEF TriggerIndexing, HasherTest, HasherEmpty
  <2>3. CASE HasherEnd(h) \/ CancelHasher(h)
    <3>1. KeepsRows(g)
      BY <1>1, <2>3 DEF HasherEnd, CancelHasher, KeepsRows, HasherRun
    <3> QED
      BY <3>1, Rows
  <2>4. CASE HasherStops(h) \/ \E f \in File : HashFails(h, f)
    <3>1. \E held, failed : hasher' = [hasher EXCEPT ![h].held = held, ![h].failed = failed]
      BY <2>4 DEF HasherStops, HashFails
    <3>2. KeepsRows(g)
      BY <1>1, <3>1 DEF KeepsRows, HasherRun
    <3> QED
      BY <3>2, Rows
  <2> QED
    BY <1>2, <2>2, <2>3, <2>4
<1>3. CASE HasherLeave(h)
  <2>1. CASE hasher[h].status = "RUNNING"
    <3>1. hasher' = HasherAt(h, "idle")
      BY <1>1, <1>3, <2>1 DEF HasherLeave, HasherAt
    <3>2. KeepsRows(g)
      BY <1>1, <3>1 DEF HasherAt, KeepsRows, HasherRun
    <3> QED
      BY <3>2, Rows
  <2>2. CASE hasher[h].status # "RUNNING"
    <3>1. hasher' = [hasher EXCEPT ![h] = NewHasher]
      BY <1>1, <1>3, <2>2 DEF HasherLeave
    <3>2. KeepsRows(g) \/ DropsRows(g)
      BY <1>1, <3>1 DEF KeepsRows, DropsRows, NewHasher
    <3> QED
      BY <3>2, Rows
  <2> QED
    BY <2>1, <2>2
<1>4. CASE HasherStart(h)
  <2>1. CASE g = h
    <3>1. DropsRows(g)
      BY <1>1, <1>4, <2>1 DEF HasherStart, DropsRows, NewHasher
    <3> QED
      BY <3>1, Rows
  <2>2. CASE g # h
    <3>1. hasher'[g] = hasher[g] \/ hasher'[g] = [hasher[g] EXCEPT !.alone = FALSE]
      BY <1>4, <2>2 DEF HasherStart
    <3>2. KeepsRows(g)
      BY <1>1, <3>1 DEF KeepsRows, HasherRun
    <3> QED
      BY <3>2, Rows
  <2> QED
    BY <2>1, <2>2
<1>5. CASE HasherQuery(h)
  <2>1. CASE hasher' = HasherAt(h, "ending") \/ hasher' = HasherAt(h, "empty")
    <3>1. KeepsRows(g)
      BY <1>1, <2>1 DEF HasherAt, KeepsRows, HasherRun
    <3> QED
      BY <3>1, Rows
  <2>2. ASSUME NEW batch \in SUBSET Targets,
               hasher' = [hasher EXCEPT ![h].pc = "hashing", ![h].batch = batch,
                                        ![h].held = batch, ![h].hashes = [f \in batch |-> 0]]
        PROVE  HasherEffect(g)
    <3>1. CASE g = h
      <4>1. hasher[h].gone = {}
        <5>1. hasher[h].pc = "query" /\ BatchOK(hasher[h])
          BY <1>5 DEF HasherQuery, Types
        <5> QED
          BY <5>1 DEF BatchOK
      <4>2. /\ hasher'[g].batch = batch /\ hasher'[g].hashes = [f \in batch |-> 0]
            /\ hasher'[g].gone = {}
        BY <1>1, <2>2, <3>1, <4>1 DEF HasherRun
      <4>3. \A f \in batch : seen[f] # 0
        BY DEF Targets
      <4> QED
        BY <4>2, <4>3 DEF HasherEffect
    <3>2. CASE g # h
      <4>1. KeepsRows(g)
        BY <1>1, <2>2, <3>2 DEF KeepsRows
      <4> QED
        BY <4>1, Rows
    <3> QED
      BY <3>1, <3>2
  <2> QED
    BY <1>5, <2>1, <2>2, BatchIsSubset
<1>6. ASSUME NEW f \in File, HashFile(h, f)
      PROVE  HasherEffect(g)
  <2>1. CASE g = h
    <3>1. DOMAIN hasher[h].hashes = hasher[h].batch
      BY DEF Types, BatchOK
    <3>2. /\ hasher'[g].batch = hasher[g].batch /\ hasher'[g].gone = hasher[g].gone
          /\ hasher'[g].hashes = [hasher[g].hashes EXCEPT ![f] = version[f]]
      BY <1>1, <1>6, <2>1 DEF HashFile, HasherRun
    <3> QED
      BY <2>1, <3>1, <3>2 DEF HasherEffect
  <2>2. CASE g # h
    <3>1. KeepsRows(g)
      BY <1>1, <1>6, <2>2 DEF HashFile, KeepsRows
    <3> QED
      BY <3>1, Rows
  <2> QED
    BY <2>1, <2>2
<1>7. ASSUME NEW f \in File, LookUp(h, f)
      PROVE  HasherEffect(g)
  <2>1. CASE g = h
    <3>1. f \in hasher[h].batch
      BY <1>7 DEF Types, BatchOK, LookUp
    <3>2. /\ hasher'[g].batch = hasher[g].batch /\ hasher'[g].hashes = hasher[g].hashes
          /\ hasher'[g].gone =
               IF present[f] THEN hasher[g].gone ELSE hasher[g].gone \union {f}
      BY <1>1, <1>7, <2>1 DEF LookUp, HasherRun
    <3> QED
      BY <2>1, <3>1, <3>2 DEF HasherEffect
  <2>2. CASE g # h
    <3>1. KeepsRows(g)
      BY <1>1, <1>7, <2>2 DEF LookUp, KeepsRows
    <3> QED
      BY <3>1, Rows
  <2> QED
    BY <2>1, <2>2
<1>8. CASE HasherCommit(h) \/ HasherCommitFails(h)
  <2>1. KeepsRows(g) \/ DropsRows(g)
    BY <1>1, <1>8
       DEF HasherCommit, HasherCommitFails, EndBatch, KeepsRows, DropsRows, HasherRun
  <2> QED
    BY <2>1, Rows
<1> QED
  BY <1>2, <1>3, <1>4, <1>5, <1>6, <1>7, <1>8 DEF HasherStep

\* A write on disk, the commit of a scan or the commit of a hasher: no step is two
\* of them, and none writes a column that its session has not got.
FileEffect(f) ==
  /\ \/ version'[f] = version[f] /\ changes <= changes'
     \/ /\ version'[f] = changes + 2 /\ changes' = changes + 1
        /\ seen'[f] = seen[f] /\ hash'[f] = hash[f]
        /\ InBatch(f) => f \in raced'
  /\ \/ seen'[f] = seen[f] /\ hash'[f] = hash[f]
     \/ \E s \in Scanning :
          /\ scan[s].pc = "syncing" /\ f \in BatchOf(s) /\ seen'[f] = scan[s].batch[f]
          /\ hash'[f] = 0 \/ (hash'[f] = hash[f] /\ scan[s].loaded[f].hash = 0)
     \/ /\ seen'[f] = seen[f]
        /\ \E h \in Hashing : f \in hasher[h].batch /\ hash'[f] = hasher[h].hashes[f]
  /\ deleted'[f] => \/ deleted[f]
                    \/ \E s \in Scanning : f \in scan[s].missing
                    \/ \E h \in Hashing : f \in hasher[h].gone
  /\ present[f] => present'[f] \/ f \in vanished'
  /\ vanished \subseteq vanished'
  /\ f \in raced => f \in raced' \/ (hash'[f] = 0 /\ ~InBatch(f))

\* Only three steps write what a file or its row is.
LEMMA FileEffects ==
  ASSUME Types, [Next]_vars, NEW f \in File
  PROVE  FileEffect(f)
<1>1. /\ version \in [File -> Value] /\ present \in [File -> BOOLEAN] /\ changes \in Nat
      /\ seen \in [File -> Nat] /\ hash \in [File -> Nat] /\ deleted \in [File -> BOOLEAN]
  BY ScannerConstants DEF Types, SourceOK, IndexOK
<1>2. ASSUME NEW g \in File, SourceStep(g)
      PROVE  FileEffect(f)
  <2>1. /\ UNCHANGED <<seen, hash, deleted, scan, hasher>> /\ changes' = changes + 1
        /\ vanished \subseteq vanished' /\ raced \subseteq raced'
    BY <1>2 DEF SourceStep, WriteFile, RemoveFile, ReturnFile, Change, index
  <2>2. version'[f] # version[f] => version'[f] = changes + 2 /\ (InBatch(f) => f \in raced')
    BY <1>1, <1>2 DEF SourceStep, WriteFile, RemoveFile, ReturnFile
  <2>3. present[f] => present'[f] \/ f \in vanished'
    BY <1>1, <1>2 DEF SourceStep, WriteFile, RemoveFile, ReturnFile
  <2>4. changes <= changes'
    BY <1>1, <2>1
  <2> QED
    BY <2>1, <2>2, <2>3, <2>4, Zenon DEF FileEffect
<1>3. ASSUME NEW s \in Scanning, SyncCommit(s)
      PROVE  FileEffect(f)
  <2>1. UNCHANGED <<version, present, changes, vanished, deleted>>
    BY <1>3 DEF SyncCommit, source
  <2>2. /\ seen'[f] = (IF f \in Changed(s) THEN scan[s].batch[f] ELSE seen[f])
        /\ hash'[f] = (IF f \in Changed(s) /\ scan[s].loaded[f].hash # 0 THEN 0 ELSE hash[f])
    BY <1>3 DEF SyncCommit
  <2>3. f \in raced => f \in raced' \/ (hash'[f] = 0 /\ ~InBatch(f))
    BY <1>3 DEF SyncCommit
  <2>4. \/ seen'[f] = seen[f] /\ hash'[f] = hash[f]
        \/ /\ scan[s].pc = "syncing" /\ f \in BatchOf(s) /\ seen'[f] = scan[s].batch[f]
           /\ hash'[f] = 0 \/ (hash'[f] = hash[f] /\ scan[s].loaded[f].hash = 0)
    BY <1>3, <2>2 DEF SyncCommit, Changed
  <2>5. changes <= changes'
    BY <1>1, <2>1
  <2> QED
    BY <2>1, <2>3, <2>4, <2>5, Zenon DEF FileEffect
<1>4. ASSUME NEW s \in Scanning, StaleCommit(s)
      PROVE  FileEffect(f)
  <2>1. UNCHANGED <<version, present, changes, vanished, seen, hash, raced>>
    BY <1>4 DEF StaleCommit, source
  <2>2. deleted'[f] => deleted[f] \/ f \in scan[s].missing
    BY <1>4 DEF StaleCommit
  <2>3. changes <= changes'
    BY <1>1, <2>1
  <2> QED
    BY <2>1, <2>2, <2>3, Zenon DEF FileEffect
<1>5. ASSUME NEW h \in Hashing, HasherCommit(h)
      PROVE  FileEffect(f)
  <2>1. UNCHANGED <<version, present, changes, vanished, seen, raced>>
    BY <1>5 DEF HasherCommit, source
  <2>2. deleted'[f] => deleted[f] \/ f \in hasher[h].gone
    BY <1>5 DEF HasherCommit
  <2>3. hash'[f] = hash[f] \/ (f \in hasher[h].batch /\ hash'[f] = hasher[h].hashes[f])
    BY <1>5 DEF HasherCommit
  <2>4. changes <= changes'
    BY <1>1, <2>1
  <2> QED
    BY <2>1, <2>2, <2>3, <2>4, Zenon DEF FileEffect
<1>6. ASSUME UNCHANGED <<version, present, changes, vanished, seen, hash, deleted, raced>>
      PROVE  FileEffect(f)
  <2>1. changes <= changes'
    BY <1>1, <1>6
  <2> QED
    BY <1>6, <2>1, Zenon DEF FileEffect
<1>7. ASSUME NEW s \in Scanning, ScanTest(s) \/ ScanStep(s) \/ CancelScan(s),
             ~SyncCommit(s), ~StaleCommit(s)
      PROVE  UNCHANGED <<version, present, changes, vanished, seen, hash, deleted, raced>>
  BY <1>7 DEF source, index, ScanTest, CancelScan, ScanStep, ScanStart, StopWalk, SyncRead,
     StaleLook, StaleSkip, ScanFails, ScanEnd, Stat
<1>8. ASSUME NEW h \in Hashing, TriggerIndexing(h) \/ HasherStep(h) \/ CancelHasher(h),
             ~HasherCommit(h)
      PROVE  UNCHANGED <<version, present, changes, vanished, seen, hash, deleted, raced>>
  BY <1>8 DEF source, index, HasherStep, TriggerIndexing, CancelHasher, HasherTest,
     HasherStart, HasherQuery, HasherEmpty, HasherStops, HasherCommitFails, HasherEnd,
     HasherLeave, HashFile, HashFails, LookUp
<1>9. CASE Restart \/ UNCHANGED vars
  BY <1>6, <1>9 DEF Restart, vars, source, index
<1> QED
  BY <1>2, <1>3, <1>4, <1>5, <1>6, <1>7, <1>8, <1>9 DEF Next

\* The effects of every step on every thread.
LEMMA ThreadEffects ==
  ASSUME Types, [Next]_vars
  PROVE  /\ \A t \in Scanning : ScanEffect(t)
         /\ \A g \in Hashing : HasherEffect(g)
<1>1. ASSUME UNCHANGED <<scan, hasher>>
      PROVE  /\ \A t \in Scanning : SameHands(t)
             /\ \A g \in Hashing : KeepsRows(g)
  BY <1>1 DEF SameHands, KeepsRows
<1>2. ASSUME NEW f \in File, SourceStep(f)
      PROVE  UNCHANGED <<scan, hasher>>
  BY <1>2 DEF SourceStep, WriteFile, RemoveFile, ReturnFile, Change
<1>3. ASSUME NEW s \in Scanning, ScanTest(s) \/ ScanStep(s) \/ CancelScan(s)
      PROVE  /\ \A t \in Scanning : ScanEffect(t)
             /\ \A g \in Hashing : KeepsRows(g)
  <2>1. SpawnHasher \/ UNCHANGED hasher
    BY <1>3 DEF ScanTest, CancelScan, ScanStep, ScanStart, StopWalk, SyncRead, SyncCommit,
       StaleLook, StaleSkip, StaleCommit, ScanFails, ScanEnd, Stat
  <2>2. HashersOK
    BY DEF Types
  <2> QED
    BY <1>3, <2>1, <2>2, ScanEffects, SpawnEffects
<1>4. ASSUME NEW h \in Hashing, TriggerIndexing(h) \/ HasherStep(h) \/ CancelHasher(h)
      PROVE  /\ \A t \in Scanning : SameHands(t)
             /\ \A g \in Hashing : HasherEffect(g)
  <2>1. UNCHANGED scan
    BY <1>4 DEF HasherStep, TriggerIndexing, CancelHasher, HasherTest,
       HasherStart, HasherQuery, HasherEmpty, HasherStops, HasherCommit, HasherCommitFails,
       HasherEnd, HasherLeave, HashFile, HashFails, LookUp
  <2> QED
    BY <1>4, <2>1, HasherEffects DEF SameHands
<1>5. CASE Restart
  <2>1. \A t \in Scanning : EmptyHands(t)
    BY <1>5 DEF Restart, EmptyHands, NewScan
  <2>2. \A g \in Hashing : DropsRows(g)
    BY <1>5 DEF Restart, DropsRows, NewHasher
  <2> QED
    BY <2>1, <2>2, Hands, Rows
<1>6. CASE UNCHANGED vars
  BY <1>1, <1>6, Hands, Rows DEF vars
<1> QED
  BY <1>1, <1>2, <1>3, <1>4, <1>5, <1>6, Hands, Rows DEF Next

-----------------------------------------------------------------------------
(* Wrong hashes show                                                        *)

\* Nobody holds a state of the file that it has not had yet.
Older(f) ==
  /\ version[f] <= changes + 1 /\ seen[f] <= version[f] /\ hash[f] <= version[f]
  /\ \A s \in Scanning : f \in BatchOf(s) => scan[s].batch[f] <= version[f]
  /\ \A h \in Hashing : f \in hasher[h].batch => hasher[h].hashes[f] <= version[f]

\* A hasher that has read an earlier state of a file had it in hand when it changed.
WrongInHand(f) ==
  \A h \in Hashing :
    f \in hasher[h].batch /\ hasher[h].hashes[f] \notin {0, version[f]} => f \in raced

\* A session that will write the present size and mtime beside a hash that it does
\* not know of: the hash came from a hasher, after the row was loaded.
WrongUnderSync(f) ==
  \A s \in Scanning :
    /\ scan[s].pc = "syncing" /\ f \in BatchOf(s) /\ scan[s].loaded[f].hash = 0
    /\ scan[s].batch[f] = version[f] /\ hash[f] \notin {0, version[f]}
    => f \in raced

Shows(f) == hash[f] \notin {0, seen[f]} => version[f] # seen[f] \/ f \in raced

HashesOK == \A f \in File : Older(f) /\ WrongInHand(f) /\ WrongUnderSync(f) /\ Shows(f)

\* Numbers, for the arithmetic.
LEMMA Numbers ==
  ASSUME Types, NEW f \in File
  PROVE  /\ changes \in Nat /\ version[f] \in Nat /\ seen[f] \in Nat /\ hash[f] \in Nat
         /\ \A s \in Scanning : f \in BatchOf(s) => scan[s].batch[f] \in Nat \ {0}
         /\ \A h \in Hashing : f \in hasher[h].batch => hasher[h].hashes[f] \in Nat
<1>1. changes \in Nat
  BY ScannerConstants DEF Types, SourceOK
<1>2. version[f] \in Nat /\ seen[f] \in Nat /\ hash[f] \in Nat
  BY DEF Types, SourceOK, IndexOK, Value
<1>3. ASSUME NEW s \in Scanning, f \in BatchOf(s)
      PROVE  scan[s].batch[f] \in Nat \ {0}
  <2>1. scan[s].batch \in OnFiles(Value)
    BY DEF Types, ScansOK, ScanRun
  <2> QED
    BY <1>3, <2>1, OnFilesType DEF BatchOf, Value
<1>4. ASSUME NEW h \in Hashing, f \in hasher[h].batch
      PROVE  hasher[h].hashes[f] \in Nat
  <2>1. hasher[h].hashes \in OnFiles(Nat) /\ DOMAIN hasher[h].hashes = hasher[h].batch
    BY DEF Types, HashersOK, HasherRun, BatchOK
  <2> QED
    BY <1>4, <2>1, OnFilesType
<1> QED
  BY <1>1, <1>2, <1>3, <1>4

\* Versions only grow.
LEMMA OlderKept ==
  ASSUME Types, [Next]_vars, NEW f \in File, Older(f)
  PROVE  Older(f)'
<1>1. FileEffect(f) /\ Types'
  BY FileEffects, NextTypes
<1>2. /\ changes \in Nat /\ version[f] \in Nat /\ seen[f] \in Nat /\ hash[f] \in Nat
      /\ \A s \in Scanning : f \in BatchOf(s) => scan[s].batch[f] \in Nat
      /\ \A h \in Hashing : f \in hasher[h].batch => hasher[h].hashes[f] \in Nat
  BY Numbers
<1>3. changes' \in Nat
  BY <1>1, ScannerConstants DEF Types, SourceOK
<1>4. version[f] <= version'[f] /\ version'[f] <= changes' + 1
  <2>1. \/ version'[f] = version[f] /\ changes <= changes'
        \/ version'[f] = changes + 2 /\ changes' = changes + 1
    BY <1>1 DEF FileEffect
  <2>2. version[f] <= changes + 1
    BY DEF Older
  <2> QED
    BY <1>2, <1>3, <2>1, <2>2
<1>5. version'[f] \in Nat
  BY <1>1 DEF Types, SourceOK, Value
<1>6. \A x \in Nat : x <= version[f] => x <= version'[f]
  BY <1>2, <1>4, <1>5
<1>7. seen'[f] <= version'[f]
  <2>1. seen'[f] = seen[f] \/ \E s \in Scanning : f \in BatchOf(s) /\ seen'[f] = scan[s].batch[f]
    BY <1>1 DEF FileEffect
  <2> QED
    BY <1>2, <1>6, <2>1 DEF Older
<1>8. hash'[f] <= version'[f]
  <2>1. \/ hash'[f] = hash[f] \/ hash'[f] = 0
        \/ \E h \in Hashing : f \in hasher[h].batch /\ hash'[f] = hasher[h].hashes[f]
    BY <1>1 DEF FileEffect
  <2>2. 0 <= version'[f]
    BY <1>5
  <2> QED
    BY <1>2, <1>6, <2>1, <2>2 DEF Older
<1>9. ASSUME NEW s \in Scanning, f \in BatchOf(s)'
      PROVE  scan'[s].batch[f] <= version'[f]
  <2>1. \/ scan'[s].batch[f] = version[f]
        \/ f \in BatchOf(s) /\ scan'[s].batch[f] = scan[s].batch[f]
    BY <1>9, ThreadEffects DEF ScanEffect
  <2> QED
    BY <1>2, <1>4, <1>6, <2>1 DEF Older
<1>10. ASSUME NEW h \in Hashing, f \in hasher'[h].batch
      PROVE  hasher'[h].hashes[f] <= version'[f]
  <2>1. \/ hasher'[h].hashes[f] = version[f]
        \/ f \in hasher[h].batch /\ hasher'[h].hashes[f] = hasher[h].hashes[f]
        \/ hasher'[h].hashes[f] = 0
    BY <1>10, ThreadEffects DEF HasherEffect
  <2>2. 0 <= version'[f]
    BY <1>5
  <2> QED
    BY <1>2, <1>4, <1>6, <2>1, <2>2 DEF Older
<1> QED
  BY <1>4, <1>7, <1>8, <1>9, <1>10 DEF Older

\* Every step keeps wrong hashes in sight.
LEMMA HashesKept == Types /\ HashesOK /\ [Next]_vars => HashesOK'
<1> SUFFICES ASSUME Types, HashesOK, [Next]_vars, NEW f \in File
             PROVE  Older(f)' /\ WrongInHand(f)' /\ WrongUnderSync(f)' /\ Shows(f)'
  BY DEF HashesOK
<1>1. Older(f) /\ WrongInHand(f) /\ WrongUnderSync(f) /\ Shows(f) /\ FileEffect(f)
  BY FileEffects DEF HashesOK
<1>2. /\ \A t \in Scanning : ScanEffect(t)
      /\ \A g \in Hashing : HasherEffect(g)
  BY ThreadEffects
<1>3. Older(f)'
  BY <1>1, OlderKept
<1>4. /\ changes \in Nat /\ version[f] \in Nat /\ seen[f] \in Nat /\ hash[f] \in Nat
      /\ \A s \in Scanning : f \in BatchOf(s) => scan[s].batch[f] \in Nat
      /\ \A h \in Hashing : f \in hasher[h].batch => hasher[h].hashes[f] \in Nat
  BY Numbers
\* The file is written: nobody holds its new state, and who has its row sees it raced.
<1>5. CASE version'[f] # version[f]
  <2>1. /\ version'[f] = changes + 2 /\ seen'[f] = seen[f] /\ hash'[f] = hash[f]
        /\ InBatch(f) => f \in raced'
    BY <1>1, <1>5 DEF FileEffect
  <2>2. \A x \in Nat : x <= version[f] => x # version'[f]
    BY <1>1, <1>4, <2>1 DEF Older
  <2>3. Shows(f)'
    BY <1>1, <1>4, <2>1, <2>2 DEF Older, Shows
  <2>4. ASSUME NEW h \in Hashing, f \in hasher'[h].batch,
               hasher'[h].hashes[f] # 0
        PROVE  f \in raced'
    BY <1>2, <2>1, <2>4 DEF HasherEffect, InBatch
  <2>5. ASSUME NEW s \in Scanning, scan'[s].pc = "syncing", f \in BatchOf(s)'
        PROVE  scan'[s].batch[f] # version'[f]
    <3>1. f \in BatchOf(s) /\ scan'[s].batch[f] = scan[s].batch[f]
      BY <1>2, <2>5 DEF ScanEffect
    <3> QED
      BY <1>1, <1>4, <2>2, <3>1 DEF Older
  <2> QED
    BY <1>3, <2>3, <2>4, <2>5 DEF WrongInHand, WrongUnderSync
<1>6. CASE version'[f] = version[f]
  <2>1. f \in raced => f \in raced' \/ (hash'[f] = 0 /\ ~InBatch(f))
    BY <1>1 DEF FileEffect
  <2>2. WrongInHand(f)'
    <3> SUFFICES ASSUME NEW h \in Hashing, f \in hasher'[h].batch,
                        hasher'[h].hashes[f] \notin {0, version'[f]}
                 PROVE  f \in raced'
      BY DEF WrongInHand
    <3>1. f \in hasher[h].batch /\ hasher'[h].hashes[f] = hasher[h].hashes[f]
      BY <1>2, <1>6 DEF HasherEffect
    <3>2. f \in raced /\ InBatch(f)
      BY <1>1, <1>6, <3>1 DEF WrongInHand, InBatch
    <3> QED
      BY <2>1, <3>2
  <2>3. ASSUME NEW h \in Hashing, f \in hasher[h].batch, hash'[f] = hasher[h].hashes[f],
               hash'[f] \notin {0, version[f]}
        PROVE  f \in raced'
    BY <1>1, <2>1, <2>3 DEF WrongInHand
  <2>4. WrongUnderSync(f)'
    <3> SUFFICES ASSUME NEW s \in Scanning, scan'[s].pc = "syncing", f \in BatchOf(s)',
                        scan'[s].loaded[f].hash = 0, scan'[s].batch[f] = version'[f],
                        hash'[f] \notin {0, version'[f]}
                 PROVE  f \in raced'
      BY DEF WrongUnderSync
    <3>1. \/ hash'[f] = hash[f]
          \/ \E h \in Hashing : f \in hasher[h].batch /\ hash'[f] = hasher[h].hashes[f]
      BY <1>1 DEF FileEffect
    <3>2. /\ f \in BatchOf(s) /\ scan'[s].batch[f] = scan[s].batch[f]
          /\ \/ scan[s].pc = "syncing" /\ scan'[s].loaded[f] = scan[s].loaded[f]
             \/ scan'[s].loaded[f].hash = hash[f]
      BY <1>2 DEF ScanEffect
    <3>3. CASE hash'[f] = hash[f]
      <4>1. scan[s].pc = "syncing" /\ scan'[s].loaded[f] = scan[s].loaded[f]
        BY <3>2, <3>3
      <4>2. f \in raced
        BY <1>1, <1>6, <3>2, <3>3, <4>1 DEF WrongUnderSync
      <4> QED
        BY <2>1, <4>2
    <3> QED
      BY <1>6, <2>3, <3>1, <3>3
  <2>5. Shows(f)'
    <3> SUFFICES ASSUME hash'[f] \notin {0, seen'[f]}, version'[f] = seen'[f]
                 PROVE  f \in raced'
      BY DEF Shows
    <3>1. CASE seen'[f] = seen[f] /\ hash'[f] = hash[f]
      BY <1>1, <1>6, <2>1, <3>1 DEF Shows
    <3>2. ASSUME NEW s \in Scanning, scan[s].pc = "syncing", f \in BatchOf(s),
                 seen'[f] = scan[s].batch[f], hash'[f] = hash[f], scan[s].loaded[f].hash = 0
          PROVE  f \in raced'
      <4>1. f \in raced
        BY <1>1, <1>6, <3>2 DEF WrongUnderSync
      <4> QED
        BY <2>1, <4>1
    <3>3. ASSUME NEW h \in Hashing, f \in hasher[h].batch, hash'[f] = hasher[h].hashes[f]
          PROVE  f \in raced'
      BY <1>6, <2>3, <3>3
    <3> QED
      BY <1>1, <3>1, <3>2, <3>3 DEF FileEffect
  <2> QED
    BY <1>3, <2>2, <2>4, <2>5
<1> QED
  BY <1>5, <1>6

\* The hashes that do not belong to the size and mtime beside them.
THEOREM WrongHashesShowHolds == Spec => []WrongHashesShow
<1>1. Init => HashesOK
  <2> SUFFICES ASSUME Init, NEW f \in File
               PROVE  Older(f) /\ WrongInHand(f) /\ WrongUnderSync(f) /\ Shows(f)
    BY DEF HashesOK
  <2>1. version[f] = 1 /\ changes = 0 /\ seen[f] = 0 /\ hash[f] = 0
    BY DEF Init
  <2>2. \A s \in Scanning : BatchOf(s) = {} /\ scan[s].pc = "idle"
    BY Empty DEF Init, NewScan, BatchOf
  <2>3. \A h \in Hashing : hasher[h].batch = {}
    BY DEF Init, NewHasher
  <2> QED
    BY <2>1, <2>2, <2>3 DEF Older, WrongInHand, WrongUnderSync, Shows
<1>2. HashesOK => WrongHashesShow
  BY DEF HashesOK, Shows, WrongHashesShow
<1> QED
  BY <1>1, <1>2, InitTypes, NextTypes, HashesKept, PTL DEF Spec

-----------------------------------------------------------------------------
(* A file that is marked as deleted has been away                           *)

Marked(f) ==
  \/ deleted[f]
  \/ \E s \in Scanning : f \in scan[s].missing
  \/ \E h \in Hashing : f \in hasher[h].gone

Known(f) == seen[f] # 0 \/ (\E s \in Scanning : f \in BatchOf(s)) \/ InBatch(f)

\* A file becomes known when it is there, and is marked when it is known and not
\* there any more.
AwayOK ==
  \A f \in File :
    /\ Marked(f) => f \in vanished
    /\ Known(f) => present[f] \/ f \in vanished

\* Every step marks only what has been away.
LEMMA AwayKept == Types /\ AwayOK /\ [Next]_vars => AwayOK'
<1> SUFFICES ASSUME Types, AwayOK, [Next]_vars, NEW f \in File
             PROVE  /\ Marked(f)' => f \in vanished'
                    /\ Known(f)' => present'[f] \/ f \in vanished'
  BY DEF AwayOK
<1>1. /\ Marked(f) => f \in vanished
      /\ Known(f) => present[f] \/ f \in vanished
      /\ f \in vanished => f \in vanished'
      /\ present[f] => present'[f] \/ f \in vanished'
  BY FileEffects DEF AwayOK, FileEffect
<1>2. Marked(f)' => Marked(f) \/ (Known(f) /\ ~present[f])
  <2>1. deleted'[f] => Marked(f)
    BY FileEffects DEF FileEffect, Marked
  <2>2. \A s \in Scanning : f \in scan'[s].missing => Marked(f) \/ (Known(f) /\ ~present[f])
    BY ThreadEffects DEF ScanEffect, Marked, Known
  <2>3. \A h \in Hashing : f \in hasher'[h].gone => Marked(f) \/ (Known(f) /\ ~present[f])
    BY ThreadEffects DEF HasherEffect, Marked, Known, InBatch
  <2> QED
    BY <2>1, <2>2, <2>3 DEF Marked
<1>3. Known(f)' => Known(f) \/ present[f]
  <2>1. seen'[f] # 0 => Known(f)
    BY FileEffects DEF FileEffect, Known
  <2>2. \A s \in Scanning : f \in BatchOf(s)' => Known(f) \/ present[f]
    BY ThreadEffects DEF ScanEffect, Known
  <2>3. \A h \in Hashing : f \in hasher'[h].batch => Known(f)
    BY ThreadEffects DEF HasherEffect, Known, InBatch
  <2> QED
    BY <2>1, <2>2, <2>3 DEF Known, InBatch
<1> QED
  BY <1>1, <1>2, <1>3

\* Neither the walk nor a hash that could not be computed marks a file that has
\* been there all the time.
THEOREM DeletedWasAwayHolds == Spec => []DeletedWasAway
<1>1. Init => AwayOK
  <2> SUFFICES ASSUME Init, NEW f \in File PROVE ~Marked(f) /\ ~Known(f)
    BY DEF AwayOK
  <2>1. ~deleted[f] /\ seen[f] = 0
    BY DEF Init
  <2>2. \A s \in Scanning : BatchOf(s) = {} /\ scan[s].missing = {}
    BY Empty DEF Init, NewScan, BatchOf
  <2>3. \A h \in Hashing : hasher[h].batch = {} /\ hasher[h].gone = {}
    BY DEF Init, NewHasher
  <2> QED
    BY <2>1, <2>2, <2>3 DEF Marked, Known, InBatch
<1>2. AwayOK => DeletedWasAway
  BY DEF AwayOK, Marked, DeletedWasAway
<1> QED
  BY <1>1, <1>2, InitTypes, NextTypes, AwayKept, PTL DEF Spec

-----------------------------------------------------------------------------
(* The HASH row of a hasher that was alone is settled                       *)

\* A hasher that has met no other has the flag, and nobody is inside to lower it.
Alone(h) ==
  Inside(h) /\ hasher[h].alone =>
    isHashing /\ \A g \in Hashing : Inside(g) => g = h

\* A cancelled row is settled, and so is that of a hasher that was alone when it leaves.
Settled(h) ==
  /\ hasher[h].cancelled => hasher[h].status # "RUNNING"
  /\ hasher[h].alone /\ (hasher[h].pc = "leaving" \/ ~Inside(h))
       => hasher[h].status # "RUNNING"

RowsOK == \A h \in Hashing : Alone(h) /\ Settled(h)

\* A hasher moves on without entering or leaving the loop.
Moves(g) ==
  /\ hasher'[g].status = hasher[g].status /\ hasher'[g].cancelled = hasher[g].cancelled
  /\ hasher'[g].alone = hasher[g].alone
  /\ Inside(g)' = Inside(g)
  /\ hasher'[g].pc # "leaving" \/ hasher'[g].pc = hasher[g].pc

\* Hashers that move on keep what is known of their rows.
LEMMA MovesKeep ==
  ASSUME RowsOK, \A g \in Hashing : Moves(g), UNCHANGED isHashing
  PROVE  RowsOK'
<1> SUFFICES ASSUME NEW h \in Hashing PROVE Alone(h)' /\ Settled(h)'
  BY DEF RowsOK
<1>1. Alone(h) /\ Settled(h)
  BY DEF RowsOK
<1>2. Alone(h)'
  BY <1>1 DEF Moves, Alone
<1>3. Settled(h)'
  BY <1>1 DEF Moves, Settled
<1> QED
  BY <1>2, <1>3

\* Every step keeps what is known of the rows.
LEMMA RowsKept == Types /\ RowsOK /\ [Next]_vars => RowsOK'
<1> SUFFICES ASSUME Types, RowsOK, [Next]_vars PROVE RowsOK'
  OBVIOUS
<1>1. hasher \in [Hashing -> HasherRun]
  BY DEF Types, HashersOK
<1>2. ASSUME NEW h \in Hashing, NEW x \in HasherPc, hasher' = HasherAt(h, x), x # "leaving",
             Inside(h) <=> x \in {"query", "empty", "hashing", "ending"}, UNCHANGED isHashing
      PROVE  RowsOK'
  <2>1. \A g \in Hashing : Moves(g)
    BY <1>1, <1>2 DEF Moves, HasherAt, Inside, HasherRun
  <2> QED
    BY <1>2, <2>1, MovesKeep
<1>3. ASSUME UNCHANGED <<hasher, isHashing>> PROVE RowsOK'
  BY <1>3, MovesKeep DEF Moves, Inside
<1>4. CASE \E f \in File : SourceStep(f)
  BY <1>3, <1>4 DEF SourceStep, WriteFile, RemoveFile, ReturnFile, Change, flags
<1>5. ASSUME NEW s \in Scanning, ScanTest(s) \/ ScanStep(s) \/ CancelScan(s)
      PROVE  RowsOK'
  <2>1. UNCHANGED isHashing /\ (SpawnHasher \/ UNCHANGED hasher)
    BY <1>5 DEF ScanTest, CancelScan, ScanStep, ScanStart, StopWalk, SyncRead, SyncCommit,
       StaleLook, StaleSkip, StaleCommit, ScanFails, ScanEnd, Stat, flags
  <2>2. ASSUME NEW h \in Hashing, hasher[h].pc = "idle", hasher' = HasherAt(h, "spawned")
        PROVE  RowsOK'
    BY <1>2, <2>1, <2>2 DEF Inside, HasherPc
  <2> QED
    BY <1>3, <2>1, <2>2 DEF SpawnHasher, HasherAt
<1>6. ASSUME NEW h \in Hashing, TriggerIndexing(h) \/ HasherTest(h) \/ HasherEmpty(h)
      PROVE  RowsOK'
  <2>1. UNCHANGED isHashing
    BY <1>6 DEF TriggerIndexing, HasherTest, HasherEmpty, flags
  <2>2. \E x \in HasherPc \ {"leaving"} :
          /\ hasher' = HasherAt(h, x)
          /\ Inside(h) <=> x \in {"query", "empty", "hashing", "ending"}
    BY <1>6 DEF TriggerIndexing, HasherTest, HasherEmpty, Inside, HasherPc
  <2> QED
    BY <1>2, <2>1, <2>2
<1>7. ASSUME NEW h \in Hashing, HasherQuery(h)
      PROVE  RowsOK'
  <2>1. UNCHANGED isHashing /\ hasher[h].pc = "query"
    BY <1>7 DEF HasherQuery, flags
  <2>2. CASE hasher' = HasherAt(h, "ending") \/ hasher' = HasherAt(h, "empty")
    BY <1>2, <2>1, <2>2 DEF Inside, HasherPc
  <2>3. ASSUME NEW batch,
               hasher' = [hasher EXCEPT ![h].pc = "hashing", ![h].batch = batch,
                                        ![h].held = batch, ![h].hashes = [f \in batch |-> 0]]
        PROVE  RowsOK'
    <3>1. \A g \in Hashing : Moves(g)
      BY <1>1, <2>1, <2>3 DEF Moves, Inside, HasherRun
    <3> QED
      BY <2>1, <3>1, MovesKeep
  <2> QED
    BY <1>7, <2>2, <2>3, BatchIsSubset
<1>8. ASSUME NEW h \in Hashing, \/ HasherStops(h) \/ HasherCommit(h) \/ HasherCommitFails(h)
                                \/ \E f \in File : HashFile(h, f) \/ HashFails(h, f) \/ LookUp(h, f)
      PROVE  RowsOK'
  <2>1. UNCHANGED isHashing
    BY <1>8 DEF HasherStops, HasherCommit, HasherCommitFails, HashFile, HashFails, LookUp, flags
  <2>2. CASE HasherStops(h) \/ \E f \in File : HashFails(h, f) \/ LookUp(h, f) \/ HashFile(h, f)
    <3>1. \A g \in Hashing :
            /\ hasher'[g].status = hasher[g].status /\ hasher'[g].cancelled = hasher[g].cancelled
            /\ hasher'[g].alone = hasher[g].alone /\ hasher'[g].pc = hasher[g].pc
      <4>1. CASE HasherStops(h)
        BY <1>1, <4>1 DEF HasherStops, HasherRun
      <4>2. CASE \E f \in File : HashFails(h, f)
        BY <1>1, <4>2 DEF HashFails, HasherRun
      <4>3. CASE \E f \in File : LookUp(h, f)
        BY <1>1, <4>3 DEF LookUp, HasherRun
      <4>4. CASE \E f \in File : HashFile(h, f)
        BY <1>1, <4>4 DEF HashFile, HasherRun
      <4> QED
        BY <2>2, <4>1, <4>2, <4>3, <4>4
    <3> QED
      BY <2>1, <3>1, MovesKeep DEF Moves, Inside
  <2>3. CASE HasherCommit(h) \/ HasherCommitFails(h)
    <3>1. /\ EndBatch(h, "query") \/ EndBatch(h, "ending")
          /\ hasher[h].pc = "hashing"
      BY <2>3 DEF HasherCommit, HasherCommitFails
    <3>2. \A g \in Hashing : Moves(g)
      BY <1>1, <3>1 DEF EndBatch, Moves, Inside, HasherRun
    <3> QED
      BY <2>1, <3>2, MovesKeep
  <2> QED
    BY <1>8, <2>2, <2>3
<1> DEFINE Others(h) == \A g \in Hashing \ {h} : hasher'[g] = hasher[g]
\* It was alone: the flag is up, and either it completes its row or it was cancelled.
<1>9. ASSUME NEW h \in Hashing, HasherEnd(h)
      PROVE  RowsOK'
  <2>1. /\ hasher'[h].pc = "leaving" /\ hasher'[h].cancelled = hasher[h].cancelled
        /\ hasher'[h].alone = hasher[h].alone
        /\ hasher'[h].status =
             IF ~hasher[h].cancelled /\ isHashing THEN "COMPLETED" ELSE hasher[h].status
    BY <1>1, <1>9 DEF HasherEnd, HasherRun
  <2>2. Others(h) /\ UNCHANGED isHashing /\ Inside(h)
    BY <1>1, <1>9 DEF HasherEnd, flags, Inside
  <2>3. \A g \in Hashing : Inside(g)' = Inside(g)
    BY <2>1, <2>2 DEF Inside
  <2>4. \A g \in Hashing : Alone(g)'
    BY <2>1, <2>2, <2>3 DEF Alone, RowsOK
  <2>5. Settled(h)'
    BY <2>1, <2>2 DEF RowsOK, Alone, Settled
  <2>6. \A g \in Hashing \ {h} : Settled(g)'
    BY <2>2 DEF RowsOK, Settled, Inside
  <2> QED
    BY <2>4, <2>5, <2>6 DEF RowsOK
\* The flag goes down: nobody who is alone is still inside.
<1>10. ASSUME NEW h \in Hashing, HasherLeave(h)
       PROVE  RowsOK'
  <2>1. /\ Others(h) /\ Inside(h) /\ hasher[h].pc = "leaving"
        /\ \/ hasher[h].status = "RUNNING" /\ hasher' = HasherAt(h, "idle")
           \/ hasher'[h] = NewHasher
    BY <1>1, <1>10 DEF HasherLeave, Inside, HasherAt
  <2>2. Settled(h)' /\ ~Inside(h)'
    <3>1. CASE hasher[h].status = "RUNNING" /\ hasher' = HasherAt(h, "idle")
      <4>1. /\ hasher'[h].pc = "idle" /\ hasher'[h].cancelled = hasher[h].cancelled
            /\ hasher'[h].alone = hasher[h].alone /\ hasher'[h].status = hasher[h].status
        BY <1>1, <3>1 DEF HasherAt, HasherRun
      <4> QED
        BY <2>1, <4>1 DEF RowsOK, Settled, Inside
    <3>2. CASE hasher'[h] = NewHasher
      BY <3>2 DEF NewHasher, Settled, Inside
    <3> QED
      BY <2>1, <3>1, <3>2
  <2>3. \A g \in Hashing \ {h} : Settled(g)' /\ Alone(g)'
    BY <2>1 DEF RowsOK, Settled, Alone, Inside
  <2> QED
    BY <2>2, <2>3 DEF RowsOK, Alone
<1>11. ASSUME NEW h \in Hashing, CancelHasher(h)
       PROVE  RowsOK'
  <2>1. /\ hasher'[h].pc = hasher[h].pc /\ hasher'[h].status = "FAILED"
        /\ hasher'[h].alone = hasher[h].alone
    BY <1>1, <1>11 DEF CancelHasher, HasherRun
  <2>2. Others(h) /\ UNCHANGED isHashing
    BY <1>1, <1>11 DEF CancelHasher, flags
  <2>3. \A g \in Hashing : Inside(g)' = Inside(g)
    BY <2>1, <2>2 DEF Inside
  <2>4. \A g \in Hashing : Alone(g)'
    BY <2>1, <2>2, <2>3 DEF Alone, RowsOK
  <2>5. Settled(h)'
    BY <2>1 DEF Settled
  <2>6. \A g \in Hashing \ {h} : Settled(g)'
    BY <2>2 DEF RowsOK, Settled, Inside
  <2> QED
    BY <2>4, <2>5, <2>6 DEF RowsOK
\* Whoever is inside is alone no longer.
<1>12. ASSUME NEW h \in Hashing, HasherStart(h)
       PROVE  RowsOK'
  <2> DEFINE others == {g \in Hashing \ {h} : Inside(g)}
  <2>1. /\ hasher'[h].pc = "query" /\ ~hasher'[h].cancelled
        /\ hasher'[h].alone <=> others = {}
    BY <1>1, <1>12 DEF HasherStart, NewHasher
  <2>2. isHashing'
    BY <1>12 DEF HasherStart
  <2>3. \A g \in others : /\ hasher'[g].pc = hasher[g].pc /\ ~hasher'[g].alone
                          /\ hasher'[g].cancelled = hasher[g].cancelled
                          /\ hasher'[g].status = hasher[g].status
    BY <1>1, <1>12 DEF HasherStart, HasherRun
  <2>4. \A g \in Hashing \ {h} : g \notin others => hasher'[g] = hasher[g]
    BY <1>1, <1>12 DEF HasherStart
  <2>5. Settled(h)'
    BY <2>1 DEF Settled, Inside
  <2>6. \A g \in Hashing \ {h} : Settled(g)'
    <3> SUFFICES ASSUME NEW g \in Hashing \ {h} PROVE Settled(g)'
      OBVIOUS
    <3>1. Settled(g)
      BY DEF RowsOK
    <3> HIDE DEF others
    <3> QED
      BY <2>3, <2>4, <3>1 DEF Settled, Inside
  <2>7. \A g \in Hashing \ {h} : Inside(g)' <=> g \in others
    BY <2>3, <2>4 DEF Inside
  <2>8. \A g \in Hashing : Alone(g)'
    <3> HIDE DEF others
    <3> QED
      BY <2>1, <2>2, <2>3, <2>7 DEF Alone
  <2> QED
    BY <2>5, <2>6, <2>8 DEF RowsOK
<1>13. CASE Restart
  BY <1>13 DEF Restart, NewHasher, RowsOK, Alone, Settled, Inside
<1>14. CASE UNCHANGED vars
  BY <1>3, <1>14 DEF vars
<1> QED
  BY <1>4, <1>5, <1>6, <1>7, <1>8, <1>9, <1>10, <1>11, <1>12, <1>13, <1>14 DEF Next, HasherStep

\* A hasher that had the flag for itself leaves no row that is still running.
THEOREM HashRowSettlesHolds == Spec => []HashRowSettles
<1>1. Init => RowsOK
  BY DEF Init, NewHasher, RowsOK, Alone, Settled, Inside
<1>2. RowsOK => HashRowSettles
  BY DEF RowsOK, Settled, Inside, HashRowSettles
<1> QED
  BY <1>1, <1>2, InitTypes, NextTypes, RowsKept, PTL DEF Spec
=============================================================================
