------------------------------ MODULE TapeProofs ------------------------------
(***************************************************************************)
(* The number in a row finds its archive, for any cartridges, any backups   *)
(* and any bounds.  What carries it: an archive that is written never moves *)
(* to another place on a tape, it can only be cut off or wiped             *)
(* (ArchivesStay); and while a backup has been alone with the drive, the    *)
(* head is still behind the archive it has written (Placed).                *)
(*                                                                          *)
(* And nothing is written over, nor forgotten, but what goes by a name the  *)
(* loaded cartridge has had in the drive, if people touch the drive when    *)
(* the screen shows what is in it (Vouched, AtEnd).                         *)
(***************************************************************************)
EXTENDS Tape, SequenceTheorems, TLAPS

Entry == Names \union 1 .. archives
Cache == [online : BOOLEAN, mam : Names, fresh : SUBSET {"online", "mam"}]
Length == IF loaded = None THEN 0 ELSE Len(contents[loaded])

DriveOK ==
  /\ loaded \in Names /\ chip \in [Tape -> Names]
  /\ contents \in [Tape -> Seq(Entry)]
  /\ \A t \in Tape : Len(contents[t]) <= archives + 1
  /\ head \in 0 .. Length

BoundsOK ==
  /\ lkg \in Cache
  /\ cleared \in BOOLEAN /\ acts \in 0 .. MaxActs /\ archives \in 0 .. MaxArchives

IndexOK ==
  /\ placed \subseteq media /\ media \subseteq Tape
  /\ borne \subseteq Tape /\ reader \in Names
  /\ versions \subseteq [medium : media, number : Number, archive : 1 .. archives,
                         sure : BOOLEAN]

\* The backups there may be when a archives have been written.
Run(a) ==
  [pc : {"idle", "identify", "prepare", "write", "number", "commit"},
   medium : Names, archive : 0 .. a, number : Number,
   cancelled : BOOLEAN, alone : BOOLEAN]

WritersOK == writer \in [Writer -> Run(archives)]

\* Wherever the archive a is, it is file n.
IsFile(a, n) ==
  \A t \in Tape : \A i \in DOMAIN contents[t] : contents[t][i] = a => i - 1 = n

\* What a backup relies on between two commands.
Placed(w) ==
  /\ writer[w].pc # "idle" => writer[w].medium \in media
  /\ writer[w].pc \in {"number", "commit"} => writer[w].archive >= 1
  /\ writer[w].pc = "number" /\ writer[w].alone =>
       loaded # None /\ IsFile(writer[w].archive, head - 1)
  /\ writer[w].pc = "commit" /\ writer[w].alone /\ writer[w].number # -1 =>
       IsFile(writer[w].archive, writer[w].number)

IInv ==
  /\ DriveOK /\ BoundsOK /\ IndexOK /\ WritersOK
  /\ \A w \in Writer : Placed(w)
  /\ RowsNameTheirArchive

\* What a drive is asked leaves the cache well formed.
LEMMA CacheTypes ==
  ASSUME DriveOK, BoundsOK, NEW force \in BOOLEAN, NEW now \in Moment
  PROVE  /\ Online(force, now) \in Cache
         /\ LiveInfo(force, now) \in Cache
         /\ MamInfo(lkg, "mam" \in now.late, TRUE) \in Cache
         /\ MamInfo(lkg, TRUE, now.ok) \in Cache
<1>1. ASSUME NEW l \in Cache, NEW f, NEW a
      PROVE  MamInfo(l, f, a) \in Cache
  BY <1>1 DEF MamInfo, Cache, DriveOK, Names
<1>2. Online(force, now) \in Cache
  <2>1. Forget(lkg) \in Names
    BY DEF Forget, BoundsOK, Cache, Names
  <2> QED
    BY <2>1 DEF Online, CheckOnline, BoundsOK, Cache
<1> QED
  BY <1>1, <1>2 DEF LiveInfo, BoundsOK

\* Archives stay where they are, or are gone.
ArchivesStay ==
  \A t \in Tape : \A i \in DOMAIN contents'[t] :
    contents'[t][i] \in 1 .. archives
      => i \in DOMAIN contents[t] /\ contents'[t][i] = contents[t][i]

\* The others: a backup that is not alone any more relies on nothing, and one
\* that is has a drive nobody has touched.
LEMMA OthersPlaced ==
  ASSUME IInv, media \subseteq media', NEW v \in Writer,
         \/ writer'[v] = Hindered(v)
         \/ drive' = drive /\ writer'[v] = writer[v]
  PROVE  Placed(v)'
<1>1. Placed(v) /\ writer[v] \in Run(archives)
  BY DEF IInv, WritersOK
<1>2. CASE drive' = drive /\ writer'[v] = writer[v]
  BY <1>1, <1>2 DEF Placed, IsFile, drive
<1>3. CASE drive' # drive /\ writer'[v] = [writer[v] EXCEPT !.alone = FALSE]
  BY <1>1, <1>3 DEF Placed, Run
<1> QED
  BY <1>2, <1>3 DEF Hindered

\* The rows that stay find what they found.
LEMMA RowsStay ==
  ASSUME IInv, ArchivesStay, versions' \subseteq versions
  PROVE  RowsNameTheirArchive'
<1> SUFFICES ASSUME NEW v \in versions', v.sure, v.number # -1,
                    NEW t \in Tape, NEW i \in DOMAIN contents'[t], contents'[t][i] = v.archive
             PROVE  i - 1 = v.number
  BY DEF RowsNameTheirArchive
<1>1. v \in versions /\ v.archive \in 1 .. archives
  BY DEF IInv, IndexOK
<1>2. i \in DOMAIN contents[t] /\ contents[t][i] = v.archive
  BY <1>1 DEF ArchivesStay
<1> QED
  BY <1>1, <1>2 DEF IInv, RowsNameTheirArchive

\* What each step has to show.
LEMMA Assembled ==
  ASSUME IInv, DriveOK', BoundsOK', IndexOK', WritersOK',
         ArchivesStay, media \subseteq media', versions' \subseteq versions,
         \A v \in Writer : \/ Placed(v)'
                           \/ writer'[v] = Hindered(v)
                           \/ drive' = drive /\ writer'[v] = writer[v]
  PROVE  IInv'
BY OthersPlaced, RowsStay DEF IInv

\* Backups keep their types when others move the drive, or one goes on.
LEMMA HinderedTypes ==
  ASSUME WritersOK, archives \in Nat, archives' \in {archives, archives + 1}
  PROVE  /\ \A v \in Writer : Hindered(v) \in Run(archives')
         /\ HinderAll => WritersOK' /\ \A v \in Writer : writer'[v] = Hindered(v)
         /\ \A w \in Writer, r \in Run(archives') :
              Becomes(w, r) => /\ WritersOK'
                               /\ writer'[w] = r
                               /\ \A v \in Writer \ {w} : writer'[v] = Hindered(v)
<1>1. ASSUME NEW r \in Run(archives)
      PROVE  r \in Run(archives') /\ [r EXCEPT !.alone = FALSE] \in Run(archives')
  <2>1. 0 .. archives \subseteq 0 .. archives'
    OBVIOUS
  <2> QED
    BY <2>1 DEF Run
<1>2. ASSUME NEW v \in Writer PROVE Hindered(v) \in Run(archives')
  BY <1>1 DEF Hindered, WritersOK
<1> QED
  BY <1>2 DEF HinderAll, Becomes, WritersOK

\* A step that leaves the contents of all tapes alone leaves every archive.
LEMMA NothingWritten ==
  ASSUME contents' = contents
  PROVE  ArchivesStay
BY DEF ArchivesStay

-----------------------------------------------------------------------------
(* People, restores, and the hardware screen.                               *)

\* What people do and what fails is bounded.
LEMMA ActsFit ==
  ASSUME BoundsOK, NEW n \in Nat, NEW ok
  PROVE  /\ Spend(n) => acts' \in 0 .. MaxActs
         /\ Act => acts' \in 0 .. MaxActs
         /\ Answers(ok) => acts' \in 0 .. MaxActs
         /\ Cost(ok) \in Nat
BY TapeConstants DEF BoundsOK, Act, Answers, Cost, Spend, TapeConstants

\* People only put cartridges in and take them out.
LEMMA HandsKeep ==
  ASSUME IInv, (\E t \in Tape : Insert(t)) \/ Withdraw \/ EjectTape
  PROVE  IInv'
<1> USE DEF IInv
<1>1. DriveOK'
  BY DEF Insert, Withdraw, EjectTape, DriveOK, Length, Entry, Names, bound
<1>2. BoundsOK' /\ archives' = archives /\ archives \in Nat
  <2>1. acts' \in 0 .. MaxActs
    BY ActsFit DEF Insert, Withdraw, EjectTape, bound, Act, BoundsOK
  <2>2. lkg' = lkg /\ archives' = archives /\ cleared' \in BOOLEAN
    BY DEF Insert, Withdraw, EjectTape, BoundsOK, bound
  <2> QED
    BY <2>1, <2>2, TapeConstants DEF BoundsOK, Cache, TapeConstants
<1>3. IndexOK'
  BY DEF Insert, Withdraw, EjectTape, IndexOK, index, bound
<1>4. WritersOK' /\ \A v \in Writer : writer'[v] = Hindered(v)
  BY <1>2, HinderedTypes DEF Insert, Withdraw, EjectTape
<1>5. ArchivesStay
  BY NothingWritten DEF Insert, Withdraw, EjectTape
<1> QED
  BY <1>1, <1>2, <1>3, <1>4, <1>5, Assembled DEF Insert, Withdraw, EjectTape, index

\* Reading, rewinding and looking for a label move the head, and stay on the tape.
LEMMA HeadMoves ==
  ASSUME IInv, \/ \E v \in versions : ReadArchive(v)
               \/ RewindTape
               \/ \E m \in Tape, now \in Moment : RefuseInitialize(m, now)
  PROVE  IInv'
<1> USE DEF IInv
<1>1. UNCHANGED <<loaded, contents, chip, index, archives>>
  BY DEF ReadArchive, RewindTape, RefuseInitialize, bound
<1>2. head' \in 0 .. Length
  <2>1. ASSUME NEW t \in Tape
        PROVE  Len(contents[t]) \in Nat /\ (contents[t] # <<>> => Len(contents[t]) > 0)
    BY DEF DriveOK
  <2>2. CASE \E v \in versions : ReadArchive(v)
    <3>1. PICK v \in versions : ReadArchive(v)
      BY <2>2
    <3>2. v.number \in Int /\ loaded \in Tape
      BY <3>1, TapeConstants DEF ReadArchive, IndexOK, DriveOK, Names, Number, TapeConstants
    <3> QED
      BY <2>1, <3>1, <3>2 DEF ReadArchive, Length
  <2>3. CASE RewindTape
    BY <2>1, <2>3 DEF RewindTape, Length, DriveOK, Names
  <2>4. CASE \E m \in Tape, now \in Moment : RefuseInitialize(m, now)
    BY <2>1, <2>4 DEF RefuseInitialize, ExistingData, Length, DriveOK, Names
  <2> QED
    BY <2>2, <2>3, <2>4
<1>3. DriveOK'
  BY <1>1, <1>2 DEF DriveOK, Length, Entry
<1>4. BoundsOK' /\ archives \in Nat
  <2>1. lkg' \in Cache
    BY CacheTypes DEF ReadArchive, RewindTape, RefuseInitialize, BoundsOK
  <2>2. acts' \in 0 .. MaxActs /\ cleared' \in BOOLEAN
    BY ActsFit DEF ReadArchive, RewindTape, RefuseInitialize, BoundsOK, bound, Act
  <2> QED
    BY <1>1, <2>1, <2>2 DEF BoundsOK, Cache
<1>5. IndexOK'
  BY <1>1 DEF ReadArchive, RewindTape, RefuseInitialize, IndexOK, index, bound
<1>6. WritersOK' /\ \A v \in Writer : writer'[v] = Hindered(v)
  BY <1>1, <1>4, HinderedTypes DEF ReadArchive, RewindTape, RefuseInitialize
<1> QED
  BY <1>1, <1>3, <1>4, <1>5, <1>6, NothingWritten, Assembled DEF index

-----------------------------------------------------------------------------
(* Steps that leave the drive where it is.                                  *)

\* Screens, the schedule and a restore that only ask.
LEMMA LooksKeep ==
  ASSUME IInv, \/ \E refresh \in BOOLEAN, now \in Moment : LookAtDrive(refresh, now)
               \/ \E m \in Tape, now \in Moment : IdentifyForRestore(m, now)
               \/ EndRestore \/ CheckRequest
  PROVE  IInv'
<1> USE DEF IInv
<1>1. UNCHANGED <<drive, index, writer, archives, borne>>
  BY DEF LookAtDrive, IdentifyForRestore, EndRestore, CheckRequest, bound
<1>2. DriveOK' /\ WritersOK' /\ ArchivesStay
  BY <1>1, NothingWritten DEF DriveOK, WritersOK, drive, Length, Entry
<1>3. BoundsOK'
  <2>1. lkg' \in Cache
    BY CacheTypes DEF LookAtDrive, IdentifyForRestore, EndRestore, CheckRequest, BoundsOK
  <2>2. cleared' \in BOOLEAN
    BY DEF LookAtDrive, IdentifyForRestore, EndRestore, CheckRequest, BoundsOK
  <2>3. acts' \in 0 .. MaxActs
    <3>1. ASSUME NEW m \in Tape, NEW now \in Moment, IdentifyForRestore(m, now)
          PROVE  acts' \in 0 .. MaxActs
      <4>1. Cost(now.ok) + 1 \in Nat
        BY ActsFit
      <4> QED
        BY <3>1, <4>1, ActsFit DEF IdentifyForRestore
    <3>2. CASE EndRestore \/ CheckRequest
      BY <3>2, ActsFit DEF EndRestore, CheckRequest, bound, BoundsOK
    <3>3. ASSUME NEW refresh, NEW now, LookAtDrive(refresh, now)
          PROVE  acts' \in 0 .. MaxActs
      BY <3>3, ActsFit DEF LookAtDrive
    <3> QED
      BY <3>1, <3>2, <3>3
  <2> QED
    BY <1>1, <2>1, <2>2, <2>3 DEF BoundsOK, Cache
<1>4. IndexOK'
  BY <1>1 DEF LookAtDrive, IdentifyForRestore, EndRestore, CheckRequest, IndexOK, index, Names
<1> QED
  BY <1>1, <1>2, <1>3, <1>4, Assembled DEF index

\* A backup that starts, is cancelled, or finds nothing to write to.
LEMMA WritersWait ==
  ASSUME IInv, NEW w \in Writer,
         (\E m \in Tape : StartBackup(w, m)) \/ CancelBackup(w) \/ WriteNothing(w)
  PROVE  IInv'
<1> USE DEF IInv
<1>1. UNCHANGED <<drive, lkg, index, reader, cleared, bound, borne>>
  BY DEF StartBackup, CancelBackup, WriteNothing
<1>2. DriveOK' /\ BoundsOK' /\ IndexOK' /\ ArchivesStay
  BY <1>1, NothingWritten DEF DriveOK, BoundsOK, IndexOK, drive, index, bound, Length, Entry, Cache
<1>3. archives \in Nat /\ 0 \in Number
  BY TapeConstants DEF BoundsOK, Number, TapeConstants
<1>4. PICK r \in Run(archives) :
        /\ writer' = [writer EXCEPT ![w] = r]
        /\ r.pc \in {"number", "commit", "write", "prepare"} =>
             r = [writer[w] EXCEPT !.cancelled = TRUE]
        /\ r.pc # "idle" => r.medium \in media
  <2>1. CASE \E m \in Tape : StartBackup(w, m)
    <3>1. PICK m \in Tape : StartBackup(w, m)
      BY <2>1
    <3>2. ASSUME NEW q \in Run(archives)
          PROVE  LET r == [q EXCEPT !.pc = "identify", !.medium = m]
                 IN  r \in Run(archives) /\ r.pc = "identify" /\ r.medium = m
      BY DEF Run, Names
    <3>3. NoWriter \in Run(archives)
      BY <1>3 DEF NoWriter, Run, Names
    <3> DEFINE r == [NoWriter EXCEPT !.pc = "identify", !.medium = m]
    <3>4. r \in Run(archives) /\ r.pc = "identify" /\ r.medium = m
      BY <3>2, <3>3
    <3>5. writer' = [writer EXCEPT ![w] = r] /\ m \in media
      BY <3>1 DEF StartBackup
    <3> HIDE DEF r
    <3> QED
      BY <3>4, <3>5
  <2>2. CASE CancelBackup(w)
    <3> DEFINE r == [writer[w] EXCEPT !.cancelled = TRUE]
    <3>1. r \in Run(archives) /\ r.pc = writer[w].pc /\ r.medium = writer[w].medium
      BY DEF WritersOK, Run
    <3>2. writer' = [writer EXCEPT ![w] = r]
      BY <2>2 DEF CancelBackup
    <3> QED
      BY <3>1, <3>2 DEF Placed
  <2>3. CASE WriteNothing(w)
    <3>1. NoWriter \in Run(archives) /\ NoWriter.pc = "idle"
      BY <1>3 DEF NoWriter, Run, Names
    <3> QED
      BY <2>3, <3>1 DEF WriteNothing
  <2> QED
    BY <2>1, <2>2, <2>3
<1>5. WritersOK' /\ writer'[w] = r /\ \A v \in Writer \ {w} : writer'[v] = writer[v]
  BY <1>1, <1>4 DEF WritersOK, bound
<1>6. Placed(w)'
  <2>1. writer[w] \in Run(archives) /\ Placed(w)
    BY DEF WritersOK
  <2> QED
    BY <1>1, <1>4, <1>5, <2>1 DEF Placed, Run, IsFile, drive, index
<1> QED
  BY <1>1, <1>2, <1>5, <1>6, Assembled DEF index

\* The head of a backup that is alone is behind its archive when the number is read.
LEMMA ReadNumberKeeps ==
  ASSUME IInv, NEW w \in Writer, NEW ok \in Answer, ReadNumber(w, ok)
  PROVE  IInv'
<1> USE DEF IInv
<1>1. UNCHANGED <<drive, index, reader, cleared, archives, borne>>
  BY DEF ReadNumber
<1>2. DriveOK' /\ IndexOK' /\ ArchivesStay
  BY <1>1, NothingWritten DEF DriveOK, IndexOK, drive, index, Length, Entry
<1>3. ok \in BOOLEAN
  BY DEF Answer
<1>4. BoundsOK'
  <2>1. lkg' \in Cache
    BY <1>3 DEF ReadNumber, MamInfo, BoundsOK, DriveOK, Cache, Names
  <2>2. acts' \in 0 .. MaxActs
    BY ActsFit DEF ReadNumber, Answers
  <2> QED
    BY <1>1, <2>1, <2>2 DEF BoundsOK, Cache
<1>5. ArchiveNumber(ok) \in Number /\ (ArchiveNumber(ok) = -1 \/ ArchiveNumber(ok) = head - 1)
  BY TapeConstants DEF ArchiveNumber, CurrentFile, Number, DriveOK, Length, BoundsOK, Names,
                       TapeConstants
<1>6. writer[w] \in Run(archives) /\ Placed(w) /\ writer[w].pc = "number"
  BY DEF WritersOK, ReadNumber
<1>7. writer' = [writer EXCEPT ![w] =
                  [writer[w] EXCEPT !.pc = "commit", !.number = ArchiveNumber(ok)]]
  BY DEF ReadNumber
<1>8. WritersOK' /\ \A v \in Writer \ {w} : writer'[v] = writer[v]
  BY <1>1, <1>5, <1>6, <1>7 DEF WritersOK, Run
<1>9. Placed(w)'
  BY <1>1, <1>5, <1>6, <1>7 DEF Placed, Run, IsFile, drive, index, WritersOK
<1> QED
  BY <1>1, <1>2, <1>4, <1>8, <1>9, Assembled DEF index

\* The rows of a chunk carry what the backup knew.
LEMMA CommitKeeps ==
  ASSUME IInv, NEW w \in Writer, NEW more \in BOOLEAN, CommitChunk(w, more)
  PROVE  IInv'
<1> USE DEF IInv
<1>1. UNCHANGED <<drive, lkg, media, placed, reader, cleared, bound, borne>>
  BY DEF CommitChunk
<1>2. DriveOK' /\ BoundsOK' /\ ArchivesStay
  BY <1>1, NothingWritten DEF DriveOK, BoundsOK, drive, bound, Length, Entry, Cache
<1>3. writer[w] \in Run(archives) /\ Placed(w) /\ writer[w].pc = "commit"
  BY DEF WritersOK, CommitChunk
<1>4. /\ RowOf(w) \in [medium : media, number : Number, archive : 1 .. archives, sure : BOOLEAN]
      /\ versions' = versions \union {RowOf(w)}
  BY <1>3 DEF CommitChunk, RowOf, Run, Placed, BoundsOK
<1>5. IndexOK'
  BY <1>1, <1>4 DEF IndexOK, bound
<1>6. RowsNameTheirArchive'
  <2> SUFFICES ASSUME NEW v \in versions', v.sure, v.number # -1
               PROVE  IsFile(v.archive, v.number)'
    BY DEF RowsNameTheirArchive, IsFile
  <2>1. CASE v = RowOf(w)
    BY <1>1, <1>3, <2>1 DEF Placed, RowOf, IsFile, drive
  <2>2. CASE v \in versions
    BY <1>1, <2>2 DEF RowsNameTheirArchive, IsFile, drive
  <2> QED
    BY <1>4, <2>1, <2>2
<1>7. PICK r : /\ writer' = [writer EXCEPT ![w] = r]
               /\ r \in {NoWriter, [writer[w] EXCEPT !.pc = "write"]}
  BY DEF CommitChunk
<1>8. r \in Run(archives) /\ r.pc \in {"idle", "write"} /\ (r.pc = "write" => r.medium \in media)
  <2>1. NoWriter \in Run(archives)
    BY TapeConstants DEF NoWriter, Run, Names, Number, TapeConstants, BoundsOK
  <2> QED
    BY <1>3, <1>7, <2>1 DEF Run, Placed, NoWriter
<1>9. WritersOK'
  BY <1>1, <1>7, <1>8 DEF WritersOK, bound
<1>10. ASSUME NEW v \in Writer PROVE Placed(v)'
  <2>1. CASE v = w
    BY <1>1, <1>7, <1>8, <2>1 DEF Placed, WritersOK
  <2>2. CASE v # w
    BY <1>1, <1>7, <2>2, OthersPlaced DEF WritersOK
  <2> QED
    BY <2>1, <2>2
<1> QED
  BY <1>2, <1>5, <1>6, <1>9, <1>10

-----------------------------------------------------------------------------
(* The commands of a backup.                                                *)

\* A backup that gives up relies on nothing.
LEMMA IdleWriter ==
  ASSUME IInv
  PROVE  NoWriter \in Run(archives) /\ NoWriter.pc = "idle"
BY TapeConstants DEF IInv, BoundsOK, NoWriter, Run, Names, Number, TapeConstants

\* Identifying rewinds at most, preparing winds to the end of data.
LEMMA IdentifyKeeps ==
  ASSUME IInv, NEW w \in Writer, NEW now \in Moment,
         IdentifyMedia(w, now) \/ PrepareForWrite(w, now)
  PROVE  IInv'
<1> USE DEF IInv
<1>1. UNCHANGED <<loaded, contents, chip, index, reader, cleared, archives, borne>>
  BY DEF IdentifyMedia, PrepareForWrite
<1>2. head' \in 0 .. Length
  <2>1. Length \in Nat /\ head \in 0 .. Length /\ (loaded # None => Length = Len(contents[loaded]))
    BY DEF DriveOK, Length, Names
  <2>2. head' \in {head, 0} \/ (loaded # None /\ head' = Len(contents[loaded]))
    BY DEF IdentifyMedia, PrepareForWrite, EndOfData
  <2> QED
    BY <2>1, <2>2
<1>3. DriveOK'
  BY <1>1, <1>2 DEF DriveOK, Length, Entry
<1>4. BoundsOK'
  <2>1. LiveInfo(FALSE, now) \in Cache
    BY CacheTypes
  <2>2. lkg' \in Cache
    BY <2>1 DEF IdentifyMedia, PrepareForWrite, Cache, Names
  <2>3. acts' \in 0 .. MaxActs
    BY ActsFit DEF IdentifyMedia, PrepareForWrite
  <2> QED
    BY <1>1, <2>2, <2>3 DEF BoundsOK, Cache
<1>5. IndexOK'
  BY <1>1 DEF IndexOK, index
<1>6. writer[w] \in Run(archives) /\ Placed(w) /\ writer[w].pc # "idle"
  BY DEF WritersOK, IdentifyMedia, PrepareForWrite
<1>7. PICK r : Becomes(w, r) /\ r \in {NoWriter, [writer[w] EXCEPT !.pc = "prepare"],
                                       [writer[w] EXCEPT !.pc = "write", !.alone = TRUE]}
  BY DEF IdentifyMedia, PrepareForWrite
<1>8. /\ r \in Run(archives) /\ r.pc \in {"idle", "prepare", "write"}
      /\ r.pc # "idle" => r.medium \in media
  BY <1>6, <1>7, IdleWriter DEF Run, Placed
<1>9. /\ WritersOK' /\ writer'[w] = r
      /\ \A v \in Writer \ {w} : writer'[v] = Hindered(v)
  BY <1>1, <1>7, <1>8, HinderedTypes DEF BoundsOK
<1>10. Placed(w)'
  BY <1>1, <1>8, <1>9 DEF Placed, index
<1> QED
  BY <1>1, <1>3, <1>4, <1>5, <1>9, <1>10, NothingWritten, Assembled DEF index

\* Writing cuts the tape at the head and puts the archive there.
LEMMA WriteKeeps ==
  ASSUME IInv, NEW w \in Writer, NEW ok \in Answer, WriteArchive(w, ok)
  PROVE  IInv'
<1> USE DEF IInv
<1>1. /\ UNCHANGED <<loaded, chip, lkg, index, reader, cleared, borne>>
      /\ loaded \in Tape /\ archives \in Nat /\ archives' = archives + 1
      /\ archives' \in 0 .. MaxArchives
  BY TapeConstants DEF WriteArchive, DriveOK, Names, BoundsOK, TapeConstants
<1> DEFINE new == Append(Overwritten(loaded), archives')
<1>2. /\ contents[loaded] \in Seq(Entry) /\ head \in 0 .. Len(contents[loaded])
      /\ Len(contents[loaded]) \in Nat /\ Len(contents[loaded]) <= archives + 1
  BY <1>1, TapeConstants DEF DriveOK, Length, TapeConstants
<1>3. contents' = [contents EXCEPT ![loaded] = new] /\ head' = head + 1
  BY DEF WriteArchive
<1>4. /\ Overwritten(loaded) \in Seq(Entry) /\ Len(Overwritten(loaded)) = head
      /\ \A i \in 1 .. head : Overwritten(loaded)[i] = contents[loaded][i]
  BY <1>2 DEF Overwritten
<1>5. /\ new \in Seq(Entry \union {archives'}) /\ Len(new) = head + 1
      /\ new[head + 1] = archives'
      /\ \A i \in 1 .. head : new[i] = contents[loaded][i]
  <2>1. Overwritten(loaded) \in Seq(Entry \union {archives'})
    BY <1>4
  <2> QED
    BY <1>2, <1>4, <2>1
<1>6. Entry \union {archives'} \subseteq Entry'
  BY <1>1 DEF Entry
<1>7. \A s : s \in Seq(Entry) => s \in Seq(Entry')
  BY <1>6
<1>8. new \in Seq(Entry')
  BY <1>5, <1>6
<1>9. DriveOK'
  <2>1. contents' \in [Tape -> Seq(Entry')]
    BY <1>1, <1>3, <1>7, <1>8 DEF DriveOK
  <2>2. \A t \in Tape : Len(contents'[t]) <= archives' + 1
    BY <1>1, <1>2, <1>3, <1>5 DEF DriveOK
  <2>3. head' \in 0 .. Length'
    BY <1>1, <1>2, <1>3, <1>5, TapeConstants DEF DriveOK, Length, TapeConstants
  <2> QED
    BY <1>1, <2>1, <2>2, <2>3 DEF DriveOK
<1>10. ArchivesStay
  <2> SUFFICES ASSUME NEW t \in Tape, NEW i \in DOMAIN contents'[t],
                      contents'[t][i] \in 1 .. archives
               PROVE  i \in DOMAIN contents[t] /\ contents'[t][i] = contents[t][i]
    BY DEF ArchivesStay
  <2>1. CASE t # loaded
    BY <1>3, <2>1 DEF DriveOK
  <2>2. CASE t = loaded
    <3>1. contents'[t] = new /\ i \in 1 .. head + 1
      BY <1>1, <1>2, <1>3, <1>5, <2>2 DEF DriveOK
    <3>2. i # head + 1
      BY <1>1, <1>5, <3>1
    <3> QED
      BY <1>2, <1>5, <2>2, <3>1, <3>2
  <2> QED
    BY <2>1, <2>2
<1>11. BoundsOK'
  BY <1>1, ActsFit DEF WriteArchive, BoundsOK, Cache
<1>12. IndexOK'
  BY <1>1 DEF IndexOK, index
<1>13. writer[w] \in Run(archives) /\ Placed(w) /\ writer[w].pc = "write"
  BY DEF WritersOK, WriteArchive
<1>14. PICK r : /\ Becomes(w, r)
                /\ r \in {NoWriter, [writer[w] EXCEPT !.pc = "number", !.archive = archives']}
  BY DEF WriteArchive
<1>15. /\ r \in Run(archives')
       /\ r.pc # "idle" => r.pc = "number" /\ r.medium \in media /\ r.archive = archives'
  <2>1. NoWriter \in Run(archives') /\ NoWriter.pc = "idle"
    BY <1>1, IdleWriter DEF NoWriter, Run
  <2>2. LET n == [writer[w] EXCEPT !.pc = "number", !.archive = archives']
        IN  n \in Run(archives') /\ n.pc = "number" /\ n.medium = writer[w].medium
            /\ n.archive = archives'
    <3>1. writer[w] \in Run(archives') /\ archives' \in 0 .. archives'
      BY <1>1, <1>13 DEF Run
    <3> QED
      BY <3>1 DEF Run
  <2> QED
    BY <1>13, <1>14, <2>1, <2>2 DEF Placed
<1>16. /\ WritersOK' /\ writer'[w] = r
       /\ \A v \in Writer \ {w} : writer'[v] = Hindered(v)
  BY <1>1, <1>14, <1>15, HinderedTypes
<1>17. IsFile(archives, head - 1)'
  <2> SUFFICES ASSUME NEW t \in Tape, NEW i \in DOMAIN contents'[t], contents'[t][i] = archives'
               PROVE  i - 1 = head' - 1
    BY DEF IsFile
  <2>1. CASE t # loaded
    <3>1. contents[t] \in Seq(Entry) /\ contents'[t] = contents[t]
      BY <1>3, <2>1 DEF DriveOK
    <3>2. archives' \in Entry
      BY <3>1
    <3> QED
      BY <1>1, <3>2, TapeConstants DEF Entry, Names, TapeConstants
  <2>2. CASE t = loaded
    <3>1. contents'[t] = new /\ i \in 1 .. head + 1
      BY <1>1, <1>2, <1>3, <1>5, <2>2 DEF DriveOK
    <3>2. CASE i # head + 1
      <4>1. i \in 1 .. head /\ contents[loaded][i] = archives'
        BY <1>2, <1>5, <3>1, <3>2
      <4>2. archives' \in Entry
        BY <1>2, <4>1
      <4> QED
        BY <1>1, <4>2, TapeConstants DEF Entry, Names, TapeConstants
    <3>3. CASE i = head + 1
      BY <1>2, <1>3, <3>3
    <3> QED
      BY <3>2, <3>3
  <2> QED
    BY <2>1, <2>2
<1>18. Placed(w)'
  BY <1>1, <1>15, <1>16, <1>17, TapeConstants DEF Placed, index, TapeConstants
<1> QED
  BY <1>1, <1>9, <1>10, <1>11, <1>12, <1>16, <1>18, Assembled DEF index

-----------------------------------------------------------------------------
(* The requests that wipe, label or name a cartridge.                       *)

\* The cartridge in the drive now holds what, which is no archive.
LEMMA WipedTape ==
  ASSUME IInv, loaded \in Tape, loaded' = loaded, NEW what \in {<<>>} \union {<<x>> : x \in Names},
         contents' = [contents EXCEPT ![loaded] = what],
         chip' \in [Tape -> Names], archives' = archives,
         head' = 0 \/ head' = Len(what)
  PROVE  DriveOK' /\ ArchivesStay
<1> USE DEF IInv
<1>1. /\ what \in Seq(Names) /\ Len(what) \in 0 .. 1
      /\ \A i \in DOMAIN what : what[i] \in Names
  <2>1. CASE what = <<>>
    BY <2>1
  <2>2. ASSUME NEW x \in Names, what = <<x>>
        PROVE  /\ what \in Seq(Names) /\ Len(what) \in 0 .. 1
               /\ \A i \in DOMAIN what : what[i] \in Names
    <3>1. <<x>> \in Seq(Names) /\ Len(<<x>>) = 1 /\ DOMAIN <<x>> = {1} /\ <<x>>[1] = x
      OBVIOUS
    <3> QED
      BY <2>2, <3>1
  <2> QED
    BY <2>1, <2>2
<1>2. archives \in Nat /\ Entry' = Entry /\ Names \intersect 1 .. archives = {}
  BY TapeConstants DEF BoundsOK, Entry, Names, TapeConstants
<1>3. what \in Seq(Entry)
  BY <1>1 DEF Entry
<1>4. contents' \in [Tape -> Seq(Entry)]
  BY <1>3 DEF DriveOK
<1>5. /\ contents'[loaded] = what
      /\ \A t \in Tape : t # loaded => contents'[t] = contents[t]
  BY DEF DriveOK
<1>6. DriveOK'
  <2>1. ASSUME NEW t \in Tape PROVE Len(contents'[t]) <= archives' + 1
    <3>1. CASE t = loaded
      <4>1. Len(contents'[t]) = Len(what)
        BY <1>5, <3>1
      <4>2. Len(what) = 0 \/ Len(what) = 1
        BY <1>1
      <4>3. archives' \in Nat
        BY <1>2
      <4>4. \A n \in {0, 1} : n <= archives' + 1
        BY <4>3
      <4> QED
        BY <4>1, <4>2, <4>4
    <3>2. CASE t # loaded
      <4>1. contents'[t] = contents[t]
        BY <1>5, <3>2
      <4> QED
        BY <4>1 DEF DriveOK
    <3> QED
      BY <3>1, <3>2
  <2>2. head' \in 0 .. Length'
    BY <1>1, <1>5, TapeConstants DEF Length, TapeConstants
  <2> QED
    BY <1>2, <1>4, <2>1, <2>2 DEF DriveOK
<1>7. ArchivesStay
  BY <1>1, <1>2, <1>5 DEF ArchivesStay
<1> QED
  BY <1>6, <1>7

\* A name on a chip is a name.
LEMMA NamedTypes ==
  ASSUME DriveOK, NEW m \in Tape
  PROVE  Named(m) \subseteq [Tape -> Names]
BY DEF Named, DriveOK, Names

\* Rows only go.
LEMMA RowsGo ==
  ASSUME IndexOK, media \subseteq media', media' \subseteq Tape, placed' \subseteq media',
         versions' \subseteq versions, archives' = archives, reader' \in Names,
         borne' \subseteq Tape
  PROVE  IndexOK'
BY DEF IndexOK

\* A reinitialised tape holds nothing or a bare file mark.
LEMMA ReinitializeKeeps ==
  ASSUME IInv, NEW secure \in BOOLEAN, NEW now \in Moment, ReinitializeTape(secure, now)
  PROVE  IInv'
<1> USE DEF IInv
<1>1. UNCHANGED <<loaded, chip, media, placed, reader, archives, borne>>
  BY DEF ReinitializeTape
<1>2. versions' \subseteq versions
  BY DEF ReinitializeTape
<1>3. DriveOK' /\ ArchivesStay
  <2>1. CASE loaded = None
    <3>1. UNCHANGED <<contents, head>>
      BY <2>1 DEF ReinitializeTape
    <3> QED
      BY <1>1, <3>1, NothingWritten DEF DriveOK, Length, Entry
  <2>2. CASE loaded # None
    <3> DEFINE what == IF secure THEN <<>> ELSE <<None>>
    <3>1. contents' = [contents EXCEPT ![loaded] = what]
      BY <2>2 DEF ReinitializeTape
    <3>2. loaded \in Tape /\ contents'[loaded] = what
      BY <2>2, <3>1 DEF DriveOK, Names
    <3>3. head' = 0 \/ head' = Len(what)
      BY <2>2, <3>2 DEF ReinitializeTape
    <3>4. what \in {<<>>} \union {<<x>> : x \in Names}
      BY DEF Names
    <3>5. chip' \in [Tape -> Names]
      BY <1>1 DEF DriveOK
    <3> HIDE DEF what
    <3> QED
      BY <1>1, <3>1, <3>2, <3>3, <3>4, <3>5, WipedTape
  <2> QED
    BY <2>1, <2>2
<1>4. BoundsOK' /\ archives \in Nat
  <2>1. lkg' \in Cache /\ cleared' \in BOOLEAN
    BY CacheTypes DEF ReinitializeTape
  <2>2. acts' \in 0 .. MaxActs
    BY ActsFit DEF ReinitializeTape
  <2> QED
    BY <1>1, <2>1, <2>2 DEF BoundsOK, Cache
<1>5. IndexOK'
  BY <1>1, <1>2, RowsGo DEF IndexOK
<1>6. WritersOK' /\ \A v \in Writer : writer'[v] = Hindered(v)
  BY <1>1, <1>4, HinderedTypes DEF ReinitializeTape
<1> QED
  BY <1>1, <1>2, <1>3, <1>4, <1>5, <1>6, Assembled

\* A registered medium may name the chip of whatever is loaded.
LEMMA CreateKeeps ==
  ASSUME IInv, NEW m \in Tape, NEW how \in {"manual", "detect", "path"}, NEW now \in Moment,
         CreateMedia(m, how, now)
  PROVE  IInv'
<1> USE DEF IInv
<1>1. /\ UNCHANGED <<loaded, head, contents, placed, versions, reader, cleared, archives>>
      /\ media' = media \union {m} /\ borne' \subseteq borne \union {m}
  BY DEF CreateMedia
<1>2. chip' \in [Tape -> Names]
  BY NamedTypes DEF CreateMedia, DriveOK
<1>3. DriveOK' /\ ArchivesStay
  BY <1>1, <1>2, NothingWritten DEF DriveOK, Length, Entry
<1>4. BoundsOK' /\ archives \in Nat
  <2>1. lkg' \in Cache
    BY CacheTypes DEF CreateMedia, BoundsOK
  <2>2. Cost(now.ok) + 1 \in Nat
    BY ActsFit
  <2>3. acts' \in 0 .. MaxActs
    BY <2>2, ActsFit DEF CreateMedia
  <2> QED
    BY <1>1, <2>1, <2>3 DEF BoundsOK, Cache
<1>5. IndexOK'
  BY <1>1, RowsGo DEF IndexOK
<1>6. WritersOK' /\ \A v \in Writer : writer'[v] = Hindered(v)
  BY <1>1, <1>4, HinderedTypes DEF CreateMedia
<1> QED
  BY <1>1, <1>3, <1>4, <1>5, <1>6, Assembled

\* An initialised tape holds its label alone.
LEMMA InitializeKeeps ==
  ASSUME IInv, NEW m \in Tape, NEW force \in BOOLEAN, NEW now \in Moment,
         InitializeMedia(m, force, now)
  PROVE  IInv'
<1> USE DEF IInv
<1>1. /\ UNCHANGED <<loaded, media, reader, cleared, archives>>
      /\ m \in media /\ loaded \in Tape /\ head' = 0
      /\ placed' = placed \union {m} /\ borne' = borne \union {m}
      /\ versions' \subseteq versions
      /\ contents' = [contents EXCEPT ![loaded] = <<m>>]
  BY DEF InitializeMedia, DriveOK, Names
<1>2. chip' \in [Tape -> Names]
  BY NamedTypes DEF InitializeMedia
<1>3. DriveOK' /\ ArchivesStay
  <2>1. <<m>> \in {<<>>} \union {<<x>> : x \in Names}
    BY DEF Names
  <2> QED
    BY <1>1, <1>2, <2>1, WipedTape
<1>4. BoundsOK' /\ archives \in Nat
  <2>1. lkg' \in Cache
    <3>1. (IF force THEN lkg ELSE Online(FALSE, now)) \in Cache
      BY CacheTypes DEF BoundsOK
    <3> QED
      BY <3>1 DEF InitializeMedia, Cache, Names
  <2>2. acts' \in 0 .. MaxActs
    BY ActsFit DEF InitializeMedia
  <2> QED
    BY <1>1, <2>1, <2>2 DEF BoundsOK, Cache
<1>5. IndexOK'
  BY <1>1, RowsGo DEF IndexOK
<1>6. WritersOK' /\ \A v \in Writer : writer'[v] = Hindered(v)
  BY <1>1, <1>4, HinderedTypes DEF InitializeMedia
<1> QED
  BY <1>1, <1>3, <1>4, <1>5, <1>6, Assembled

-----------------------------------------------------------------------------
(* The invariant, and what follows from it.                                 *)

\* No rows, no backups, and no archives yet.
LEMMA InitIInv == Init => IInv
<1> SUFFICES ASSUME Init PROVE IInv
  OBVIOUS
<1> USE TapeConstants DEF TapeConstants, Init
<1>1. DriveOK
  <2>1. ASSUME NEW t \in Tape
        PROVE  contents[t] \in Seq(Entry) /\ Len(contents[t]) \in 0 .. 1
    <3>1. t \in Entry /\ Len(<<t>>) = 1 /\ <<t>> \in Seq({t})
      BY DEF Entry, Names
    <3>2. contents[t] = <<t>> \/ contents[t] = <<>>
      OBVIOUS
    <3> QED
      BY <3>1, <3>2
  <2> QED
    BY <2>1 DEF DriveOK, Length, Names
<1>2. BoundsOK
  <2>1. lkg \in Cache
    BY DEF Cache, Names
  <2>2. acts = 0 /\ archives = 0 /\ cleared = FALSE /\ MaxActs \in Nat /\ MaxArchives \in Nat
    OBVIOUS
  <2>3. 0 \in 0 .. MaxActs /\ 0 \in 0 .. MaxArchives
    BY <2>2
  <2> HIDE DEF Init, TapeConstants
  <2> QED
    BY <2>1, <2>2, <2>3 DEF BoundsOK
<1>3. IndexOK
  BY DEF IndexOK, Names
<1>4. WritersOK /\ \A w \in Writer : Placed(w)
  BY DEF WritersOK, Placed, NoWriter, Run, Names, Number
<1> QED
  BY <1>1, <1>2, <1>3, <1>4 DEF IInv, RowsNameTheirArchive

\* The invariant is inductive.
LEMMA NextIInv == IInv /\ [Next]_vars => IInv'
<1> SUFFICES ASSUME IInv, [Next]_vars PROVE IInv'
  OBVIOUS
<1>1. ASSUME NEW w \in Writer, Backup(w) PROVE IInv'
  BY <1>1, WritersWait, CommitKeeps, IdentifyKeeps, WriteKeeps, ReadNumberKeeps DEF Backup
<1>2. CASE Restore
  BY <1>2, HeadMoves, LooksKeep DEF Restore
<1>3. CASE Screens
  BY <1>3, HeadMoves, HandsKeep, LooksKeep, ReinitializeKeeps, CreateKeeps, InitializeKeeps
     DEF Screens
<1>4. CASE (\E t \in Tape : Insert(t)) \/ Withdraw
  BY <1>4, HandsKeep
<1>5. CASE UNCHANGED vars
  BY <1>5 DEF vars, drive, index, bound, IInv, DriveOK, BoundsOK, IndexOK, WritersOK, Placed,
              IsFile, RowsNameTheirArchive, Length, Entry, Cache
<1> QED
  BY <1>1, <1>2, <1>3, <1>4, <1>5 DEF Next

\* Every variable keeps its type: the head never leaves the tape that is loaded,
\* and every row is of a registered medium.
THEOREM TypeCorrect == Spec => []TypeOK
<1>1. IInv => TypeOK
  BY DEF IInv, DriveOK, BoundsOK, IndexOK, WritersOK, TypeOK, Length, Entry, Cache, Run
<1> QED
  BY InitIInv, NextIInv, <1>1, PTL DEF Spec

\* Whatever people, restores and the screens do in between: the number in a row
\* finds the archive it was written for, if the drive gave one and the backup had
\* it to itself.
THEOREM RowsNameTheirArchiveHolds == Spec => []RowsNameTheirArchive
<1>1. IInv => RowsNameTheirArchive
  BY DEF IInv
<1> QED
  BY InitIInv, NextIInv, <1>1, PTL DEF Spec

-----------------------------------------------------------------------------
(* The names the loaded cartridge has had.  The cache is asked again only    *)
(* now and then, so it may name the cartridge wrongly; but where people move *)
(* cartridges only when the screen shows what is in the drive, a name is     *)
(* forgotten before the next cartridge comes, and whatever the cache says is *)
(* a name this one has had.                                                  *)

\* The cached name is one the loaded cartridge has had, and none is kept for a
\* drive that was seen empty.
Trusted(l) ==
  /\ loaded # None => l.mam \in borne \union {None}
  /\ loaded = None /\ ~l.online => l.mam = None

\* So are the name on its chip and the name on its label.
Vouched ==
  /\ Trusted(lkg)
  /\ loaded # None => chip[loaded] \in borne \union {None}
  /\ loaded # None /\ Label(loaded) \in Tape => Label(loaded) \in borne

\* A backup that is alone is at the end of a cartridge that has its name.
AtEnd(w) ==
  writer[w].alone /\ writer[w].pc \in {"write", "number", "commit"} =>
    loaded # None /\ head = Len(contents[loaded]) /\ writer[w].medium \in borne

CInv == IInv /\ Vouched /\ \A w \in Writer : AtEnd(w)

\* Whatever is asked of the drive, and however old the answers are that are not
\* asked again, the name is one that it has had.
LEMMA AskedTrusted ==
  ASSUME IInv, Vouched, NEW force \in BOOLEAN, NEW now
  PROVE  /\ Trusted(Online(force, now))
         /\ Trusted(LiveInfo(force, now))
         /\ Trusted(MamInfo(lkg, "mam" \in now.late, TRUE))
         /\ Trusted(MamInfo(lkg, TRUE, now.ok))
<1>1. ASSUME NEW l \in Cache, Trusted(l), NEW f, NEW a
      PROVE  Trusted(MamInfo(l, f, a))
  <2>1. CASE MamInfo(l, f, a) = l
    BY <1>1, <2>1
  <2>2. CASE MamInfo(l, f, a) # l
    <3>1. loaded # None
      BY <2>2 DEF MamInfo
    <3>2. MamInfo(l, f, a).mam = chip[loaded]
      BY <1>1, <2>2 DEF MamInfo, Cache
    <3> QED
      BY <3>1, <3>2 DEF Trusted, Vouched
  <2> QED
    BY <2>1, <2>2
<1>2. lkg \in Cache /\ Trusted(lkg)
  BY DEF IInv, BoundsOK, Vouched
<1>3. Trusted(Online(force, now)) /\ Online(force, now) \in Cache
  <2>1. Forget(lkg) \in Names
    BY <1>2 DEF Forget, Cache, Names
  <2>2. Online(force, now) \in Cache
    BY <1>2, <2>1 DEF Online, CheckOnline, Cache
  <2>3. Trusted(Online(force, now))
    BY <1>2 DEF Online, CheckOnline, Forget, Trusted, Cache
  <2> QED
    BY <2>2, <2>3
<1> QED
  BY <1>1, <1>2, <1>3 DEF LiveInfo

\* Steps that leave cartridge and names alone, and ask at most.
LEMMA AsksKeepVouched ==
  ASSUME Vouched, UNCHANGED <<loaded, contents, chip, borne>>, Trusted(lkg')
  PROVE  Vouched'
BY DEF Vouched, Trusted, Label

\* What another does to the drive ends what a backup relies on.
LEMMA OthersAtEnd ==
  ASSUME IInv, NEW v \in Writer, AtEnd(v),
         drive' = drive /\ loaded # None => borne \subseteq borne',
         \/ writer'[v] = Hindered(v)
         \/ drive' = drive /\ writer'[v] = writer[v]
  PROVE  AtEnd(v)'
<1>1. writer[v] \in Run(archives)
  BY DEF IInv, WritersOK
<1>2. CASE drive' = drive /\ writer'[v] = writer[v]
  BY <1>2 DEF AtEnd, drive
<1>3. CASE drive' # drive /\ writer'[v] = [writer[v] EXCEPT !.alone = FALSE]
  BY <1>1, <1>3 DEF AtEnd, Run
<1> QED
  BY <1>2, <1>3 DEF Hindered

\* People put a cartridge in when the screen shows an empty drive, so that no
\* name is left from the one before.
LEMMA HandsKeepVouched ==
  ASSUME CInv, Unhurried, (\E t \in Tape : Insert(t)) \/ Withdraw \/ EjectTape
  PROVE  Vouched' /\ \A v \in Writer : AtEnd(v)'
<1>1. UNCHANGED <<contents, chip, lkg>>
  BY DEF Insert, Withdraw, EjectTape
<1>2. Vouched'
  <2>1. ASSUME NEW t \in Tape, Insert(t) PROVE Vouched'
    <3>1. ~lkg.online /\ loaded = None /\ loaded' = t
          /\ borne' = {chip[t], Label(t)} \intersect Tape
      BY <2>1 DEF Insert, Shown
    <3>2. lkg.mam = None /\ chip[t] \in Tape \union {None}
      BY <3>1 DEF CInv, Vouched, Trusted, IInv, DriveOK, Names
    <3> QED
      BY <1>1, <3>1, <3>2, TapeConstants DEF Vouched, Trusted, Label
  <2>2. ASSUME Withdraw \/ EjectTape PROVE Vouched'
    <3>1. loaded' = None /\ (lkg.online <=> loaded # None)
      BY <2>2 DEF Withdraw, EjectTape, Shown
    <3>2. lkg.online \/ lkg.mam = None
      BY <3>1 DEF CInv, Vouched, Trusted
    <3> QED
      BY <1>1, <3>1, <3>2 DEF Vouched, Trusted
  <2> QED
    BY <2>1, <2>2
<1>3. /\ \A v \in Writer : writer'[v] = Hindered(v)
      /\ drive' = drive /\ loaded # None => borne \subseteq borne'
  <2>1. WritersOK /\ archives \in Nat /\ archives' = archives
    BY TapeConstants
       DEF CInv, IInv, BoundsOK, TapeConstants, Insert, Withdraw, EjectTape, bound
  <2>2. \A v \in Writer : writer'[v] = Hindered(v)
    BY <2>1, HinderedTypes DEF Insert, Withdraw, EjectTape
  <2>3. loaded # None => loaded' # loaded
    BY DEF Insert, Withdraw, EjectTape
  <2> QED
    BY <2>2, <2>3 DEF drive
<1> QED
  BY <1>2, <1>3, OthersAtEnd DEF CInv

\* What asks, rewinds or reads leaves the cartridge as it is.
LEMMA OthersKeepVouched ==
  ASSUME CInv, \/ \E v \in versions : ReadArchive(v)
               \/ RewindTape \/ EndRestore \/ CheckRequest
               \/ \E m \in Tape, now \in Moment : RefuseInitialize(m, now)
               \/ \E refresh \in BOOLEAN, now \in Moment : LookAtDrive(refresh, now)
               \/ \E m \in Tape, now \in Moment : IdentifyForRestore(m, now)
  PROVE  Vouched' /\ \A v \in Writer : AtEnd(v)'
<1>1. UNCHANGED <<loaded, contents, chip, borne, archives>>
  BY DEF ReadArchive, RewindTape, EndRestore, CheckRequest, RefuseInitialize, LookAtDrive,
         IdentifyForRestore, drive, bound
<1>2. Trusted(lkg')
  <2>1. CASE lkg' = lkg
    BY <2>1 DEF CInv, Vouched
  <2>2. CASE \E m \in Tape, now \in Moment : RefuseInitialize(m, now)
    BY <2>2, AskedTrusted DEF RefuseInitialize, CInv
  <2>3. CASE \E refresh \in BOOLEAN, now \in Moment : LookAtDrive(refresh, now)
    BY <2>3, AskedTrusted DEF LookAtDrive, CInv
  <2>4. CASE \E m \in Tape, now \in Moment : IdentifyForRestore(m, now)
    BY <2>4, AskedTrusted DEF IdentifyForRestore, CInv
  <2> QED
    BY <2>1, <2>2, <2>3, <2>4 DEF ReadArchive, RewindTape, EndRestore, CheckRequest
<1>3. ASSUME NEW v \in Writer
      PROVE  writer'[v] = Hindered(v) \/ (drive' = drive /\ writer'[v] = writer[v])
  <2>1. WritersOK /\ archives \in Nat
    BY TapeConstants DEF CInv, IInv, BoundsOK, TapeConstants
  <2>2. HinderAll => writer'[v] = Hindered(v)
    BY <1>1, <2>1, HinderedTypes
  <2> QED
    BY <2>2 DEF ReadArchive, RewindTape, EndRestore, CheckRequest, RefuseInitialize,
                LookAtDrive, IdentifyForRestore
<1> QED
  BY <1>1, <1>2, <1>3, AsksKeepVouched, OthersAtEnd DEF CInv

\* Requests that name, label or wipe a cartridge: it has had the name since.
LEMMA RequestsKeepVouched ==
  ASSUME CInv, NEW now \in Moment,
         \/ \E secure \in BOOLEAN : ReinitializeTape(secure, now)
         \/ \E m \in Tape, how \in {"manual", "detect", "path"} : CreateMedia(m, how, now)
         \/ \E m \in Tape, force \in BOOLEAN : InitializeMedia(m, force, now)
  PROVE  Vouched' /\ \A v \in Writer : AtEnd(v)'
<1>1. loaded' = loaded /\ borne \subseteq borne' /\ archives' = archives /\ HinderAll
  BY DEF ReinitializeTape, CreateMedia, InitializeMedia
<1>2. \A v \in Writer : writer'[v] = Hindered(v)
  <2>1. WritersOK /\ archives \in Nat
    BY TapeConstants DEF CInv, IInv, BoundsOK, TapeConstants
  <2> QED
    BY <1>1, <2>1, HinderedTypes
<1>3. Vouched'
  <2>0. loaded \in Names /\ contents = [t \in Tape |-> contents[t]]
        /\ chip = [t \in Tape |-> chip[t]] /\ None \notin Tape
    BY TapeConstants DEF CInv, IInv, DriveOK, TapeConstants
  <2>1. ASSUME NEW secure \in BOOLEAN, ReinitializeTape(secure, now) PROVE Vouched'
    <3>1. Trusted(lkg') /\ borne' = borne /\ chip' = chip
      BY <2>1, AskedTrusted DEF ReinitializeTape, CInv
    <3>2. loaded # None => Label(loaded)' \notin Tape
      <4> SUFFICES ASSUME loaded # None PROVE Label(loaded)' \notin Tape
        OBVIOUS
      <4>1. contents'[loaded] = IF secure THEN <<>> ELSE <<None>>
        BY <2>0, <2>1 DEF ReinitializeTape, Names
      <4> QED
        BY <1>1, <2>0, <4>1 DEF Label
    <3> QED
      BY <1>1, <3>1, <3>2 DEF Vouched, Trusted, CInv
  <2>2. ASSUME NEW m \in Tape, NEW how \in {"manual", "detect", "path"}, CreateMedia(m, how, now)
        PROVE  Vouched'
    <3>1. Trusted(lkg') /\ contents' = contents
      BY <2>2, AskedTrusted DEF CreateMedia, CInv, Vouched
    <3>2. chip' = chip \/ (m \in borne' /\ loaded # None /\ chip' = [chip EXCEPT ![loaded] = m])
      BY <2>2 DEF CreateMedia, Named
    <3>3. loaded # None => chip'[loaded] \in borne' \union {None}
      BY <1>1, <2>0, <3>2 DEF CInv, Vouched, Names
    <3> QED
      BY <1>1, <3>1, <3>3 DEF Vouched, Trusted, CInv, Label
  <2>3. ASSUME NEW m \in Tape, NEW force \in BOOLEAN, InitializeMedia(m, force, now)
        PROVE  Vouched'
    <3>1. loaded \in Tape /\ m \in borne' /\ contents' = [contents EXCEPT ![loaded] = <<m>>]
      BY <2>0, <2>3 DEF InitializeMedia, Names
    <3>2. lkg'.mam = None
      <4>1. lkg \in Cache /\ Online(FALSE, now) \in Cache
        BY CacheTypes DEF CInv, IInv, BoundsOK
      <4> QED
        BY <2>3, <4>1 DEF InitializeMedia, Cache
    <3>3. chip'[loaded] \in borne' \union {None}
      <4>1. chip' = chip \/ chip' = [chip EXCEPT ![loaded] = m]
        BY <2>3 DEF InitializeMedia, Named
      <4> QED
        BY <1>1, <2>0, <3>1, <4>1 DEF CInv, Vouched
    <3>4. Label(loaded)' = m
      <4>1. contents'[loaded] = <<m>>
        BY <2>0, <3>1
      <4> QED
        BY <1>1, <4>1 DEF Label
    <3> QED
      BY <1>1, <3>1, <3>2, <3>3, <3>4 DEF Vouched, Trusted
  <2> QED
    BY <2>1, <2>2, <2>3
<1> QED
  BY <1>1, <1>2, <1>3, OthersAtEnd DEF CInv

-----------------------------------------------------------------------------
(* The backups themselves.                                                  *)

\* A backup that starts, gives up, reads its number or commits.
LEMMA WaitsKeepVouched ==
  ASSUME CInv, NEW w \in Writer,
         \/ \E m \in Tape : StartBackup(w, m)
         \/ CancelBackup(w) \/ WriteNothing(w)
         \/ \E ok \in Answer : ReadNumber(w, ok)
         \/ \E more \in BOOLEAN : CommitChunk(w, more)
  PROVE  Vouched' /\ \A v \in Writer : AtEnd(v)'
<1>1. UNCHANGED <<drive, borne>>
  BY DEF StartBackup, CancelBackup, WriteNothing, ReadNumber, CommitChunk
<1>2. Trusted(lkg')
  <2>1. CASE lkg' = lkg
    BY <2>1 DEF CInv, Vouched
  <2>2. ASSUME NEW ok \in Answer, ReadNumber(w, ok) PROVE Trusted(lkg')
    <3> DEFINE now == [late |-> {}, ok |-> ok]
    <3>1. now.ok = ok
      OBVIOUS
    <3>2. Trusted(MamInfo(lkg, TRUE, now.ok))
      BY AskedTrusted DEF CInv
    <3> QED
      BY <2>2, <3>1, <3>2 DEF ReadNumber
  <2> QED
    BY <2>1, <2>2 DEF StartBackup, CancelBackup, WriteNothing, CommitChunk
<1>3. ASSUME NEW v \in Writer \ {w} PROVE AtEnd(v)'
  <2>1. writer'[v] = writer[v]
    BY <1>3 DEF StartBackup, CancelBackup, WriteNothing, ReadNumber, CommitChunk, CInv, IInv,
                WritersOK
  <2> QED
    BY <1>1, <2>1, OthersAtEnd DEF CInv
<1>4. AtEnd(w)'
  <2>1. writer[w] \in Run(archives) /\ writer \in [Writer -> Run(archives)]
    BY DEF CInv, IInv, WritersOK
  <2> DEFINE Goes == \/ ~writer'[w].alone
                     \/ /\ writer'[w].alone = writer[w].alone
                        /\ writer'[w].medium = writer[w].medium
                        /\ writer'[w].pc \in {"write", "number", "commit"}
                             => writer[w].pc \in {"write", "number", "commit"}
  <2>2. ASSUME NEW m \in Tape, StartBackup(w, m) PROVE Goes
    BY <2>1, <2>2 DEF StartBackup, NoWriter
  <2>3. ASSUME CancelBackup(w) PROVE Goes
    <3>1. writer'[w] = [writer[w] EXCEPT !.cancelled = TRUE]
      BY <2>1, <2>3 DEF CancelBackup
    <3> QED
      BY <2>1, <3>1 DEF Run
  <2>4. ASSUME WriteNothing(w) PROVE Goes
    BY <2>1, <2>4 DEF WriteNothing, NoWriter
  <2>5. ASSUME NEW ok \in Answer, ReadNumber(w, ok) PROVE Goes
    <3>1. /\ writer'[w].pc = "commit" /\ writer'[w].alone = writer[w].alone
          /\ writer'[w].medium = writer[w].medium
      BY <2>1, <2>5 DEF ReadNumber, Run
    <3> QED
      BY <2>5, <3>1 DEF ReadNumber
  <2>6. ASSUME NEW more \in BOOLEAN, CommitChunk(w, more) PROVE Goes
    <3>1. writer'[w] = [writer[w] EXCEPT !.pc = "write"] \/ writer'[w] = NoWriter
      BY <2>1, <2>6 DEF CommitChunk
    <3>2. writer[w].pc = "commit"
      BY <2>6 DEF CommitChunk
    <3> QED
      BY <2>1, <3>1, <3>2 DEF Run, NoWriter
  <2>7. Goes
    BY <2>2, <2>3, <2>4, <2>5, <2>6
  <2>8. AtEnd(w) /\ UNCHANGED <<loaded, head, contents, borne>>
    BY <1>1 DEF CInv, drive
  <2> HIDE DEF Goes
  <2> QED
    BY <2>7, <2>8 DEF AtEnd, Goes
<1>5. Vouched'
  <2>1. UNCHANGED <<loaded, contents, chip, borne>> /\ Vouched
    BY <1>1 DEF drive, CInv
  <2> QED
    BY <1>2, <2>1, AsksKeepVouched
<1> QED
  BY <1>3, <1>4, <1>5

\* The name that admits a backup is one the cartridge has had, and the end of
\* data is where it is wound to.
LEMMA IdentifyKeepsVouched ==
  ASSUME CInv, NEW w \in Writer, NEW now \in Moment,
         IdentifyMedia(w, now) \/ PrepareForWrite(w, now)
  PROVE  Vouched' /\ \A v \in Writer : AtEnd(v)'
<1>1. UNCHANGED <<loaded, contents, chip, borne, archives>>
  BY DEF IdentifyMedia, PrepareForWrite
<1> DEFINE l == LiveInfo(FALSE, now)
<1>2. l \in Cache /\ Trusted(l)
  BY CacheTypes, AskedTrusted DEF CInv, IInv
<1>3. Trusted(lkg')
  <2>1. CASE lkg' = l
    BY <1>2, <2>1
  <2>2. CASE lkg' # l
    <3>1. /\ loaded # None
          /\ lkg' = [l EXCEPT !.mam = IF Label(loaded) \in Tape THEN Label(loaded) ELSE l.mam]
              \/ lkg' = [l EXCEPT !.mam = None]
      BY <2>2 DEF IdentifyMedia, PrepareForWrite
    <3>2. lkg'.mam \in {None, l.mam} \/ (lkg'.mam = Label(loaded) /\ Label(loaded) \in Tape)
      BY <1>2, <3>1 DEF Cache
    <3> HIDE DEF l
    <3> QED
      BY <1>2, <3>1, <3>2 DEF Trusted, CInv, Vouched
  <2> QED
    BY <2>1, <2>2
<1>4. PICK r : /\ Becomes(w, r)
               /\ \/ r = NoWriter
                  \/ r = [writer[w] EXCEPT !.pc = "prepare"]
                  \/ /\ r = [writer[w] EXCEPT !.pc = "write", !.alone = TRUE]
                     /\ loaded # None /\ head' = Len(contents[loaded])
                     /\ l.mam = writer[w].medium
  BY DEF IdentifyMedia, PrepareForWrite, EndOfData
<1>5. writer[w] \in Run(archives) /\ Placed(w) /\ writer[w].pc # "idle"
  BY DEF CInv, IInv, WritersOK, IdentifyMedia, PrepareForWrite
<1>6. r \in Run(archives)
  <2>1. NoWriter \in Run(archives)
    BY IdleWriter DEF CInv
  <2>2. [writer[w] EXCEPT !.pc = "prepare"] \in Run(archives)
        /\ [writer[w] EXCEPT !.pc = "write", !.alone = TRUE] \in Run(archives)
    BY <1>5 DEF Run
  <2> QED
    BY <1>4, <2>1, <2>2
<1>7. writer'[w] = r /\ \A v \in Writer \ {w} : writer'[v] = Hindered(v)
  BY <1>1, <1>4, <1>6, HinderedTypes, TapeConstants DEF CInv, IInv, BoundsOK, TapeConstants
<1>8. AtEnd(w)'
  <2>1. CASE r = NoWriter
    BY <1>7, <2>1 DEF AtEnd, NoWriter
  <2>2. CASE r = [writer[w] EXCEPT !.pc = "prepare"]
    BY <1>5, <1>7, <2>2 DEF AtEnd, Run
  <2>3. CASE /\ r = [writer[w] EXCEPT !.pc = "write", !.alone = TRUE]
             /\ loaded # None /\ head' = Len(contents[loaded])
             /\ l.mam = writer[w].medium
    <3>1. writer[w].medium \in media /\ media \subseteq Tape /\ None \notin Tape
      BY <1>5, TapeConstants DEF Placed, CInv, IInv, IndexOK, TapeConstants
    <3>2. l.mam \in borne \union {None}
      BY <1>2, <2>3 DEF Trusted
    <3>3. writer[w].medium \in borne /\ r.medium = writer[w].medium
      BY <1>5, <2>3, <3>1, <3>2 DEF Run
    <3> HIDE DEF l
    <3> QED
      BY <1>1, <1>7, <2>3, <3>3 DEF AtEnd
  <2> QED
    BY <1>4, <2>1, <2>2, <2>3
<1>9. ASSUME NEW v \in Writer \ {w} PROVE AtEnd(v)'
  BY <1>1, <1>7, OthersAtEnd DEF CInv
<1>10. Vouched'
  BY <1>1, <1>3, AsksKeepVouched DEF CInv
<1> QED
  BY <1>8, <1>9, <1>10

\* What writing does to the cartridge.
LEMMA WriteShape ==
  ASSUME IInv, NEW w \in Writer, NEW ok \in Answer, WriteArchive(w, ok)
  PROVE  /\ loaded \in Tape /\ loaded' = loaded /\ archives' \in Nat
         /\ head \in Nat /\ head' = head + 1 /\ head <= Len(contents[loaded])
         /\ Len(contents'[loaded]) = head + 1
         /\ contents'[loaded] # <<>>
         /\ \A i \in 1 .. head : contents'[loaded][i] = contents[loaded][i]
         /\ contents'[loaded][head + 1] = archives'
<1>1. /\ loaded \in Tape /\ loaded' = loaded /\ archives' \in Nat
      /\ head' = head + 1
  BY TapeConstants DEF WriteArchive, IInv, DriveOK, Names, BoundsOK, TapeConstants
<1>2. /\ contents[loaded] \in Seq(Entry) /\ head \in 0 .. Len(contents[loaded])
      /\ Len(contents[loaded]) \in Nat
  BY <1>1, TapeConstants DEF IInv, DriveOK, Length, TapeConstants
<1>3. contents'[loaded] = Append(Overwritten(loaded), archives')
  BY <1>1 DEF WriteArchive, IInv, DriveOK
<1>4. /\ Overwritten(loaded) \in Seq(Entry) /\ Len(Overwritten(loaded)) = head
      /\ \A i \in 1 .. head : Overwritten(loaded)[i] = contents[loaded][i]
  BY <1>2 DEF Overwritten
<1> DEFINE old == Overwritten(loaded)
           T == Entry \union {archives'}
<1>5. old \in Seq(T) /\ archives' \in T
  BY <1>4
<1> HIDE DEF old, T
<1>6. /\ Len(Append(old, archives')) = Len(old) + 1
      /\ Append(old, archives') \in Seq(T)
      /\ Append(old, archives')[Len(old) + 1] = archives'
      /\ \A i \in 1 .. Len(old) : Append(old, archives')[i] = old[i]
  BY <1>5, AppendProperties
<1>7. Len(old) = head /\ contents'[loaded] = Append(old, archives')
      /\ \A i \in 1 .. head : old[i] = contents[loaded][i]
  BY <1>3, <1>4 DEF old
<1>8. contents'[loaded] # <<>>
  <2>1. Len(contents'[loaded]) = head + 1 /\ head + 1 # 0
    BY <1>2, <1>6, <1>7
  <2> QED
    BY <2>1
<1> QED
  BY <1>1, <1>2, <1>6, <1>7, <1>8

\* Writing leaves the label, if there is one, and the head behind the archive.
LEMMA WriteKeepsVouched ==
  ASSUME CInv, NEW w \in Writer, NEW ok \in Answer, WriteArchive(w, ok)
  PROVE  Vouched' /\ \A v \in Writer : AtEnd(v)'
<1>1. /\ UNCHANGED <<loaded, chip, lkg, borne>> /\ archives' = archives + 1
      /\ writer[w].pc = "write" /\ archives \in Nat
  BY TapeConstants DEF WriteArchive, CInv, IInv, BoundsOK, TapeConstants
<1>2. Label(loaded)' \in Tape => Label(loaded)' = Label(loaded)
  <2>1. Label(loaded)' = contents'[loaded][1]
    BY <1>1, WriteShape DEF Label, CInv
  <2>2. CASE head = 0
    BY <2>1, <2>2, WriteShape, TapeConstants DEF CInv, TapeConstants
  <2>3. CASE head # 0
    <3>1. contents'[loaded][1] = contents[loaded][1] /\ Len(contents[loaded]) # 0
      BY <2>3, WriteShape DEF CInv, IInv, DriveOK
    <3>2. contents[loaded] # <<>>
      BY <3>1
    <3> QED
      BY <2>1, <3>1, <3>2 DEF Label
  <2> QED
    BY <2>2, <2>3
<1>3. Vouched'
  BY <1>1, <1>2 DEF Vouched, Trusted, CInv
<1>4. PICK r : /\ Becomes(w, r)
               /\ r \in {NoWriter, [writer[w] EXCEPT !.pc = "number", !.archive = archives']}
  BY DEF WriteArchive
<1>5. writer[w] \in Run(archives)
  BY DEF CInv, IInv, WritersOK
<1>6. /\ r \in Run(archives')
      /\ r.alone => r.alone = writer[w].alone /\ r.medium = writer[w].medium
  <2>1. NoWriter \in Run(archives') /\ NoWriter.alone = FALSE
    <3>1. 0 \in 0 .. archives' /\ 0 \in Number
      BY <1>1, TapeConstants DEF Number, TapeConstants
    <3> QED
      BY <3>1 DEF NoWriter, Run, Names
  <2>2. archives' \in 0 .. archives' /\ 0 .. archives \subseteq 0 .. archives'
    BY <1>1
  <2>3. LET n == [writer[w] EXCEPT !.pc = "number", !.archive = archives']
        IN  n \in Run(archives') /\ n.alone = writer[w].alone /\ n.medium = writer[w].medium
    BY <1>5, <2>2 DEF Run
  <2> QED
    BY <1>4, <2>1, <2>3
<1>7. writer'[w] = r /\ \A v \in Writer \ {w} : writer'[v] = Hindered(v)
  BY <1>1, <1>4, <1>6, HinderedTypes DEF CInv, IInv
<1>8. AtEnd(w)'
  <2> SUFFICES ASSUME r.alone
               PROVE  loaded' # None /\ head' = Len(contents'[loaded]) /\ r.medium \in borne'
    BY <1>1, <1>7 DEF AtEnd
  <2>1. writer[w].alone /\ r.medium = writer[w].medium
    BY <1>6
  <2> QED
    BY <1>1, <2>1, WriteShape, TapeConstants DEF CInv, AtEnd, TapeConstants
<1>9. ASSUME NEW v \in Writer \ {w} PROVE AtEnd(v)'
  BY <1>1, <1>7, OthersAtEnd DEF CInv
<1> QED
  BY <1>3, <1>8, <1>9

\* Where it begins: the loaded cartridge has had its own name.
LEMMA InitCInv == Init => CInv
<1> SUFFICES ASSUME Init PROVE CInv
  OBVIOUS
<1>1. IInv
  BY InitIInv
<1>2. lkg.mam = None /\ \A w \in Writer : ~writer[w].alone
  BY DEF Init, NoWriter
<1>3. ASSUME loaded # None
      PROVE  loaded \in Tape /\ borne = {loaded} /\ chip[loaded] \in {loaded, None}
             /\ (contents[loaded] = <<loaded>> \/ contents[loaded] = <<>>)
  BY <1>3 DEF Init
<1>4. loaded # None /\ Label(loaded) \in Tape => Label(loaded) \in borne
  BY <1>3, TapeConstants DEF Label, TapeConstants
<1>5. Vouched
  BY <1>2, <1>3, <1>4 DEF Vouched, Trusted
<1> QED
  BY <1>1, <1>2, <1>5 DEF CInv, AtEnd

\* It is inductive where people touch the drive when the screen is right.
LEMMA NextCInv == Unhurried /\ CInv /\ [Next]_vars => CInv'
<1> SUFFICES ASSUME Unhurried, CInv, [Next]_vars PROVE CInv'
  OBVIOUS
<1>1. IInv'
  BY NextIInv DEF CInv
<1>2. SUFFICES Vouched' /\ \A v \in Writer : AtEnd(v)'
  BY <1>1 DEF CInv
<1>3. ASSUME NEW w \in Writer, Backup(w) PROVE Vouched' /\ \A v \in Writer : AtEnd(v)'
  BY <1>3, WaitsKeepVouched, IdentifyKeepsVouched, WriteKeepsVouched DEF Backup
<1>4. CASE Restore
  BY <1>4, OthersKeepVouched DEF Restore
<1>5. CASE Screens
  BY <1>5, OthersKeepVouched, HandsKeepVouched, RequestsKeepVouched DEF Screens
<1>6. CASE (\E t \in Tape : Insert(t)) \/ Withdraw
  BY <1>6, HandsKeepVouched
<1>7. CASE UNCHANGED vars
  BY <1>7 DEF vars, drive, CInv, Vouched, Trusted, AtEnd, Label
<1> QED
  BY <1>3, <1>4, <1>5, <1>6, <1>7 DEF Next

\* Nothing but a backup that writes counts an archive.
LEMMA OnlyWritesCount ==
  ASSUME Next, archives' # archives
  PROVE  \E v \in Writer, ok \in Answer : WriteArchive(v, ok)
<1>1. ASSUME NEW v \in Writer, Backup(v)
      PROVE  \E ok \in Answer : WriteArchive(v, ok)
  BY <1>1 DEF Backup, StartBackup, CancelBackup, WriteNothing, CommitChunk, IdentifyMedia,
              PrepareForWrite, ReadNumber, bound
<1>2. ~Restore
  BY DEF Restore, IdentifyForRestore, ReadArchive, EndRestore, bound
<1>3. ~Screens
  <2>1. ~CheckRequest /\ ~RewindTape /\ ~EjectTape
    BY DEF CheckRequest, RewindTape, EjectTape, bound
  <2>2. ASSUME NEW secure, NEW refresh, NEW now
        PROVE  ~ReinitializeTape(secure, now) /\ ~LookAtDrive(refresh, now)
    BY DEF ReinitializeTape, LookAtDrive
  <2>3. ASSUME NEW m, NEW how, NEW force, NEW now
        PROVE  /\ ~CreateMedia(m, how, now) /\ ~RefuseInitialize(m, now)
               /\ ~InitializeMedia(m, force, now)
    BY DEF CreateMedia, RefuseInitialize, InitializeMedia
  <2> QED
    BY <2>1, <2>2, <2>3 DEF Screens
<1>4. ~Withdraw /\ \A t \in Tape : ~Insert(t)
  BY DEF Insert, Withdraw, bound
<1> QED
  BY <1>1, <1>2, <1>3, <1>4 DEF Next

\* Nothing else that the hardware screen was cleared for removes a row.
LEMMA OnlyThisWipes ==
  ASSUME Next, cleared, ~cleared', versions' # versions
  PROVE  \E secure \in BOOLEAN, now \in Moment : ReinitializeTape(secure, now)
<1>1. ~Restore /\ ~Withdraw
  BY DEF Restore, IdentifyForRestore, ReadArchive, EndRestore, Withdraw
<1>2. \A t \in Tape : ~Insert(t)
  BY DEF Insert
<1>3. ASSUME NEW v \in Writer, Backup(v) PROVE FALSE
  <2>1. ~CancelBackup(v) /\ ~WriteNothing(v)
    BY DEF CancelBackup, WriteNothing
  <2>2. ASSUME NEW m, NEW more PROVE ~StartBackup(v, m) /\ ~CommitChunk(v, more)
    BY DEF StartBackup, CommitChunk
  <2>3. ASSUME NEW now, NEW ok
        PROVE  /\ ~IdentifyMedia(v, now) /\ ~PrepareForWrite(v, now)
               /\ ~WriteArchive(v, ok) /\ ~ReadNumber(v, ok)
    BY DEF IdentifyMedia, PrepareForWrite, WriteArchive, ReadNumber
  <2> QED
    BY <1>3, <2>1, <2>2, <2>3 DEF Backup
<1>4. Screens
  BY <1>1, <1>2, <1>3 DEF Next
<1>5. ~CheckRequest /\ ~RewindTape /\ ~EjectTape
  BY DEF CheckRequest, RewindTape, EjectTape, index
<1>6. ASSUME NEW m, NEW how, NEW force, NEW refresh, NEW now
      PROVE  /\ ~LookAtDrive(refresh, now) /\ ~RefuseInitialize(m, now)
             /\ ~CreateMedia(m, how, now) /\ ~InitializeMedia(m, force, now)
  BY DEF LookAtDrive, RefuseInitialize, CreateMedia, InitializeMedia
<1> QED
  BY <1>4, <1>5, <1>6 DEF Screens

\* A backup that has the drive to itself appends, to a cartridge that has had the
\* name of its medium since it was put in, if people touch the drive when the
\* screen shows what is in it.
THEOREM AppendsToNamedHolds ==
  ASSUME Unhurried
  PROVE  Spec => AppendsToNamed
<1>1. CInv /\ [Next]_vars =>
        [\A w \in Writer :
           writer[w].pc = "write" /\ writer[w].alone /\ archives' # archives
             => /\ \A i \in DOMAIN contents[loaded] : contents'[loaded][i] = contents[loaded][i]
                /\ writer[w].medium \in borne]_vars
  <2> SUFFICES ASSUME CInv, Next, archives' # archives, NEW w \in Writer,
                      writer[w].pc = "write", writer[w].alone
               PROVE  /\ \A i \in DOMAIN contents[loaded] :
                           contents'[loaded][i] = contents[loaded][i]
                      /\ writer[w].medium \in borne
    BY DEF vars, bound
  <2>1. \E v \in Writer, ok \in Answer : WriteArchive(v, ok)
    BY OnlyWritesCount
  <2>2. head = Len(contents[loaded]) /\ writer[w].medium \in borne
    BY DEF CInv, AtEnd
  <2>3. loaded \in Tape /\ \A i \in 1 .. head : contents'[loaded][i] = contents[loaded][i]
    BY <2>1, WriteShape DEF CInv
  <2>4. DOMAIN contents[loaded] = 1 .. Len(contents[loaded])
    BY <2>3 DEF CInv, IInv, DriveOK
  <2> QED
    BY <2>2, <2>3, <2>4
<1> QED
  BY InitCInv, NextCInv, <1>1, PTL DEF Spec, AppendsToNamed

\* Reinitialising removes the rows of no tape but the one whose name the cartridge
\* has had since it was put in, on the same condition.
THEOREM ReinitializeSparesHolds ==
  ASSUME Unhurried
  PROVE  Spec => ReinitializeSpares
<1>1. CInv /\ [Next]_vars =>
        [cleared /\ ~cleared' => \A v \in versions \ versions' : v.medium \in borne]_vars
  <2> SUFFICES ASSUME CInv, Next, cleared, ~cleared', NEW v \in versions \ versions'
               PROVE  v.medium \in borne
    BY DEF vars
  <2>1. \E secure \in BOOLEAN, now \in Moment : ReinitializeTape(secure, now)
    BY OnlyThisWipes
  <2>2. PICK secure \in BOOLEAN, now \in Moment : ReinitializeTape(secure, now)
    BY <2>1
  <2> DEFINE l == MamInfo(lkg, "mam" \in now.late, TRUE)
  <2>3. loaded # None /\ v.medium \in media /\ v.medium = l.mam
    BY <2>2 DEF ReinitializeTape, Doomed
  <2>4. Trusted(l)
    BY AskedTrusted DEF CInv
  <2>5. media \subseteq Tape /\ None \notin Tape
    BY TapeConstants DEF CInv, IInv, IndexOK, TapeConstants
  <2> HIDE DEF l
  <2> QED
    BY <2>3, <2>4, <2>5 DEF Trusted
<1> QED
  BY InitCInv, NextCInv, <1>1, PTL DEF Spec, ReinitializeSpares
=============================================================================
