---------------------------------- MODULE Tape ----------------------------------
(***************************************************************************)
(* A tape drive, the cartridges people put into it, and everybody who       *)
(* moves its head: backups, restores, the hardware screen, and the screen   *)
(* that registers and initialises media.                                    *)
(*                                                                          *)
(* Nothing but the position of the head decides where an archive lands, and *)
(* nothing but what "mt status" says afterwards decides which number its    *)
(* rows carry.  Which cartridge is loaded is known from a cache             *)
(* (LTOProvider._lkg_state) that is asked again only after ten or thirty    *)
(* seconds, whenever that is (Moment).                                      *)
(*                                                                          *)
(* File 0 of a cartridge is its label.  The device is open to one process   *)
(* at a time, so writing an archive, reading one or moving the head is one  *)
(* step, and between two steps anybody may take the drive.                  *)
(***************************************************************************)
EXTENDS Integers, Sequences, FiniteSets

CONSTANTS
  Tape,         \* cartridges, and the media that are named after them
  Known,        \* the tapes registered, labelled and used before
  Readable,     \* cartridges whose memory the drive can read
  Writer,       \* workers in run_backup
  None,         \* no cartridge, no name, a bare file mark
  Unhurried,    \* people touch the drive when the screen shows what is in it
  MaxActs,      \* bound on what people do (cartridges moved, requests, restores)
                \* and on commands that fail, together
  MaxArchives   \* bound on archives written

ASSUME TapeConstants ==
  /\ None \notin Tape /\ Known \subseteq Tape /\ Readable \subseteq Tape
  /\ (Tape \union {None}) \intersect Nat = {}
  /\ Unhurried \in BOOLEAN
  /\ MaxActs \in Nat /\ MaxArchives \in Nat

VARIABLES
  loaded,    \* the cartridge in the drive
  head,      \* the file the head is in front of
  contents,  \* the files of each cartridge: labels and archives
  chip,      \* the name in the memory of each cartridge; None: it cannot be read
  lkg,       \* _lkg_state: online, mam (a name), and which of the two is fresh
  media,     \* registered tapes
  placed,    \* those whose extra_config names the drive
  versions,  \* rows of file_versions: medium, number, and the archive meant
  writer,    \* the backups
  reader,    \* the medium a restore has identified
  cleared,   \* a request of the hardware screen has found no active job
  acts,      \* counter for MaxActs
  archives,  \* archives written so far
  borne      \* observed: the names the loaded cartridge has had in the drive

drive == <<loaded, head, contents, chip>>
index == <<media, placed, versions>>
bound == <<acts, archives>>
vars  == <<drive, lkg, index, writer, reader, cleared, bound, borne>>

NoWriter == [pc |-> "idle", medium |-> None, archive |-> 0, number |-> 0,
             cancelled |-> FALSE, alone |-> FALSE]

Init ==
  /\ loaded \in Tape \union {None} /\ head = 0
  /\ media = Known /\ placed = Known
  /\ contents = [t \in Tape |-> IF t \in media THEN <<t>> ELSE <<>>]
  /\ chip = [t \in Tape |-> IF t \in Readable THEN t ELSE None]
  /\ lkg = [online |-> FALSE, mam |-> None, fresh |-> {}]
  /\ versions = {}
  /\ writer = [w \in Writer |-> NoWriter]
  /\ reader = None /\ cleared = FALSE /\ acts = 0
  /\ archives = 0
  /\ borne = IF loaded = None THEN {} ELSE {loaded}

-----------------------------------------------------------------------------
(* The cache.                                                               *)

\* check_online.  Only a drive seen loaded and then empty forgets the name.
ForgetNever(l) == l.mam

Forget(l) == IF l.online /\ loaded = None THEN None ELSE l.mam

CheckOnline(l, force) ==
  IF ~force /\ "online" \in l.fresh THEN l
  ELSE [online |-> loaded # None, mam |-> Forget(l), fresh |-> l.fresh \union {"online"}]

\* get_mam_info.  What cannot be read leaves what was read before.
MamInfo(l, force, answers) ==
  IF (~force /\ "mam" \in l.fresh) \/ ~answers \/ loaded = None THEN l
  ELSE IF chip[loaded] = None THEN l
  ELSE [l EXCEPT !.mam = chip[loaded], !.fresh = @ \union {"mam"}]

\* What a command meets: the checks whose time has run out, and whether the
\* drive answers.
Answer == {ok \in BOOLEAN : ok \/ acts < MaxActs}
Moment == [late : SUBSET lkg.fresh, ok : Answer]

Spend(n)    == acts + n <= MaxActs /\ acts' = acts + n
Cost(ok)    == IF ok THEN 0 ELSE 1
Act         == Spend(1)
Answers(ok) == Spend(Cost(ok))

Online(force, now)   == CheckOnline(lkg, force \/ "online" \in now.late)
LiveInfo(force, now) ==
  MamInfo(Online(force, now), force \/ "mam" \in now.late, now.ok)

\* Whoever else was counting on the drive is no longer alone with it.
Hindered(w) == IF drive' # drive THEN [writer[w] EXCEPT !.alone = FALSE] ELSE writer[w]
Becomes(w, now) == writer' = [v \in Writer |-> IF v = w THEN now ELSE Hindered(v)]
HinderAll == writer' = [v \in Writer |-> Hindered(v)]

Active == \/ reader # None
          \/ \E w \in Writer : writer[w].pc # "idle" /\ ~writer[w].cancelled

-----------------------------------------------------------------------------
(* People at the drive, and the screens that only look.                     *)

Label(t) == IF contents[t] # <<>> THEN Head(contents[t]) ELSE None

Shown == Unhurried => (lkg.online <=> loaded # None)

Insert(t) ==
  /\ loaded = None /\ Shown /\ Act
  /\ loaded' = t /\ head' = 0
  /\ borne' = ({chip[t], Label(t)} \intersect Tape)
  /\ UNCHANGED <<contents, chip, lkg, index, reader, cleared, archives>>
  /\ HinderAll

Withdraw ==
  /\ loaded # None /\ Shown /\ Act
  /\ loaded' = None /\ head' = 0 /\ borne' = {}
  /\ UNCHANGED <<contents, chip, lkg, index, reader, cleared, archives>>
  /\ HinderAll

\* list_media and discover_hardware ask the drive if no job is active, and
\* run_system_archival at any time; only a refresh goes round the cache.
LookAtDrive(refresh, now) ==
  /\ refresh => ~Active /\ now.late = {}
  /\ Answers(now.ok)
  /\ lkg' = LiveInfo(refresh, now)
  /\ UNCHANGED <<drive, index, writer, reader, cleared, archives, borne>>

-----------------------------------------------------------------------------
(* Backups.                                                                 *)

StartBackup(w, m) ==
  /\ writer[w].pc = "idle" /\ m \in media
  /\ \A v \in Writer : writer[v].pc = "idle" \/ writer[v].cancelled
  /\ archives < MaxArchives
  /\ writer' = [writer EXCEPT ![w] = [NoWriter EXCEPT !.pc = "identify", !.medium = m]]
  /\ UNCHANGED <<drive, lkg, index, reader, cleared, bound, borne>>

CancelBackup(w) ==
  /\ writer[w].pc # "idle" /\ ~writer[w].cancelled
  /\ writer' = [writer EXCEPT ![w].cancelled = TRUE]
  /\ UNCHANGED <<drive, lkg, index, reader, cleared, bound, borne>>

\* identify_media: the cached name, or else the label, for which it rewinds.
IdentifyMedia(w, now) ==
  LET l == LiveInfo(FALSE, now)
      intrusive == l.online /\ l.mam = None /\ loaded # None
      found == IF ~l.online THEN None
               ELSE IF intrusive /\ Label(loaded) \in Tape THEN Label(loaded) ELSE l.mam IN
  /\ writer[w].pc = "identify"
  /\ Answers(now.ok)
  /\ head' = IF intrusive THEN 0 ELSE head
  /\ lkg' = IF intrusive THEN [l EXCEPT !.mam = found] ELSE l
  /\ UNCHANGED <<loaded, contents, chip, index, reader, cleared, archives, borne>>
  /\ Becomes(w, IF found = writer[w].medium THEN [writer[w] EXCEPT !.pc = "prepare"]
                ELSE NoWriter)

\* prepare_for_write: once for a job, however many archives it writes.
EndOfDataNever(t) == head
EndOfData(t) == Len(contents[t])

PrepareForWrite(w, now) ==
  LET l == LiveInfo(FALSE, now)
      ready == l.online /\ l.mam = writer[w].medium /\ loaded # None IN
  /\ writer[w].pc = "prepare"
  /\ Answers(now.ok)
  /\ lkg' = l
  /\ head' = IF ready THEN EndOfData(loaded) ELSE head
  /\ UNCHANGED <<loaded, contents, chip, index, reader, cleared, archives, borne>>
  /\ Becomes(w, IF ready THEN [writer[w] EXCEPT !.pc = "write", !.alone = TRUE] ELSE NoWriter)

\* Writing ends the tape where it ends: what lay behind the head is gone.
Overwritten(t) == SubSeq(contents[t], 1, head)

\* write_archive, or a stream.  A write that fails leaves its file behind.
WriteArchive(w, ok) ==
  /\ writer[w].pc = "write" /\ loaded # None
  /\ archives < MaxArchives /\ archives' = archives + 1
  /\ Answers(ok)
  /\ contents' = [contents EXCEPT ![loaded] = Append(Overwritten(loaded), archives')]
  /\ head' = head + 1
  /\ UNCHANGED <<loaded, chip, lkg, index, reader, cleared, borne>>
  /\ Becomes(w, IF ok THEN [writer[w] EXCEPT !.pc = "number", !.archive = archives']
                ELSE NoWriter)

WriteNothing(w) ==
  /\ writer[w].pc = "write" /\ loaded = None
  /\ writer' = [writer EXCEPT ![w] = NoWriter]
  /\ UNCHANGED <<drive, lkg, index, reader, cleared, bound, borne>>

\* _get_current_file_number: "0" when the drive gives none.
CurrentFile(ok) == IF ok /\ loaded # None THEN head ELSE 0

NumberOfNext(ok) == CurrentFile(ok)
ArchiveNumber(ok) == CurrentFile(ok) - 1

\* After the archive the position is read, and then the chip (get_utilization).
ReadNumber(w, ok) ==
  /\ writer[w].pc = "number"
  /\ Answers(ok)
  /\ lkg' = MamInfo(lkg, TRUE, ok)
  /\ writer' = [writer EXCEPT ![w].pc = "commit", ![w].number = ArchiveNumber(ok)]
  /\ UNCHANGED <<drive, index, reader, cleared, archives, borne>>

RowOf(w) == [medium |-> writer[w].medium, number |-> writer[w].number,
             archive |-> writer[w].archive, sure |-> writer[w].alone]

\* The rows of the chunk; then the next chunk, or the end.
CommitChunk(w, more) ==
  /\ writer[w].pc = "commit"
  /\ more => ~writer[w].cancelled /\ archives < MaxArchives
  /\ versions' = versions \union {RowOf(w)}
  /\ writer' = [writer EXCEPT ![w] = IF more THEN [@ EXCEPT !.pc = "write"] ELSE NoWriter]
  /\ UNCHANGED <<drive, lkg, media, placed, reader, cleared, bound, borne>>

-----------------------------------------------------------------------------
(* Restores.                                                                *)

\* The medium is identified once, then its archives are read one by one.
IdentifyForRestore(m, now) ==
  LET l == LiveInfo(FALSE, now) IN
  /\ reader = None /\ m \in media
  /\ Spend(Cost(now.ok) + 1)
  /\ lkg' = l
  /\ reader' = IF l.online /\ l.mam = m THEN m ELSE None
  /\ UNCHANGED <<drive, index, writer, cleared, archives, borne>>

\* read_archive: rewind, skip as many files as the row says, read one.
ReadArchive(v) ==
  /\ v \in versions /\ v.medium = reader
  /\ loaded # None
  /\ head' = IF v.number > 0 /\ v.number < Len(contents[loaded]) THEN v.number + 1
             ELSE IF v.number > 0 THEN Len(contents[loaded])
             ELSE IF contents[loaded] # <<>> THEN 1 ELSE 0
  /\ UNCHANGED <<loaded, contents, chip, lkg, index, reader, cleared, bound, borne>>
  /\ HinderAll

EndRestore ==
  /\ reader # None /\ reader' = None
  /\ UNCHANGED <<drive, lkg, index, writer, cleared, bound, borne>>

-----------------------------------------------------------------------------
(* The hardware screen: it looks for active jobs, and acts afterwards.      *)

CheckRequest ==
  /\ ~cleared /\ ~Active /\ Act
  /\ cleared' = TRUE
  /\ UNCHANGED <<drive, lkg, index, writer, reader, archives, borne>>

RewindTape ==
  /\ cleared /\ cleared' = FALSE
  /\ head' = 0
  /\ UNCHANGED <<loaded, contents, chip, lkg, index, reader, bound, borne>>
  /\ HinderAll

EjectTape ==
  /\ cleared /\ cleared' = FALSE
  /\ Shown
  /\ loaded' = None /\ head' = 0 /\ borne' = {}
  /\ UNCHANGED <<contents, chip, lkg, index, reader, bound>>
  /\ HinderAll

\* reinitialize_tape: the rows of whatever the cache says is loaded go with
\* what is loaded.  A command that fails after the file mark is written rolls
\* the rows back and leaves the tape cleared.
Doomed(l) == {v \in versions : v.medium \in media /\ v.medium = l.mam}

ReinitializeTape(secure, now) ==
  LET l == MamInfo(lkg, "mam" \in now.late, TRUE) IN
  /\ cleared /\ cleared' = FALSE
  /\ Answers(now.ok)
  /\ lkg' = l
  /\ IF loaded = None THEN UNCHANGED <<contents, versions, head>>
     ELSE /\ contents' = [contents EXCEPT ![loaded] = IF secure THEN <<>> ELSE <<None>>]
          /\ versions' = IF now.ok THEN versions \ Doomed(l) ELSE versions
          /\ head' = IF now.ok THEN 0 ELSE Len(contents'[loaded])
  /\ UNCHANGED <<loaded, chip, media, placed, reader, archives, borne>>
  /\ HinderAll

-----------------------------------------------------------------------------
(* The media screen: it does not look for jobs.                             *)

\* A name is written to the chip of whatever is loaded, if that can be written.
Named(m) == {chip} \union
  (IF loaded # None /\ chip[loaded] # None THEN {[chip EXCEPT ![loaded] = m]} ELSE {})

\* create_media: "manual" asks no drive, "detect" looks for the cartridge,
\* "path" is told the drive and names what is in it.
CreateMedia(m, how, now) ==
  LET l == IF how = "manual" THEN lkg ELSE LiveInfo(TRUE, now) IN
  /\ m \notin media /\ media' = media \union {m}
  /\ Spend(Cost(now.ok) + 1)
  /\ lkg' = l
  /\ IF how = "path" \/ (how = "detect" /\ l.online /\ l.mam = m)
     THEN chip' \in Named(m) ELSE chip' = chip
  /\ borne' = IF chip' # chip THEN borne \union {m} ELSE borne
  /\ UNCHANGED <<loaded, head, contents, placed, versions, reader, cleared, archives>>
  /\ HinderAll

\* check_existing_data: a drive not known to be online has no data.
ExistingData(l) == l.online /\ loaded # None /\ contents[loaded] # <<>>

\* initialize_media is refused ...
RefuseInitialize(m, now) ==
  LET l == Online(FALSE, now) IN
  /\ m \in media /\ ExistingData(l) /\ Act
  /\ lkg' = l /\ head' = 1
  /\ UNCHANGED <<loaded, contents, chip, index, reader, cleared, archives, borne>>
  /\ HinderAll

\* ... or labels whatever is loaded.  The rows of the medium go the first time:
\* once extra_config names the drive nothing is committed.
InitializeMedia(m, force, now) ==
  LET l == IF force THEN lkg ELSE Online(FALSE, now) IN
  /\ m \in media /\ loaded # None /\ Act
  /\ force \/ ~ExistingData(l)
  /\ contents' = [contents EXCEPT ![loaded] = <<m>>]
  /\ head' = 0
  /\ chip' \in Named(m)
  /\ lkg' = [l EXCEPT !.mam = None]
  /\ placed' = placed \union {m}
  /\ versions' = IF m \in placed THEN versions ELSE {v \in versions : v.medium # m}
  /\ borne' = borne \union {m}
  /\ UNCHANGED <<loaded, media, reader, cleared, archives>>
  /\ HinderAll

-----------------------------------------------------------------------------
Backup(w) ==
  \/ \E m \in Tape : StartBackup(w, m)
  \/ CancelBackup(w)
  \/ WriteNothing(w)
  \/ \E more \in BOOLEAN : CommitChunk(w, more)
  \/ \E now \in Moment : IdentifyMedia(w, now) \/ PrepareForWrite(w, now)
  \/ \E ok \in Answer : WriteArchive(w, ok) \/ ReadNumber(w, ok)

Restore ==
  \/ \E m \in Tape, now \in Moment : IdentifyForRestore(m, now)
  \/ \E v \in versions : ReadArchive(v)
  \/ EndRestore

Screens ==
  \/ CheckRequest
  \/ RewindTape
  \/ EjectTape
  \/ \E now \in Moment :
       \/ \E secure \in BOOLEAN : ReinitializeTape(secure, now)
       \/ \E refresh \in BOOLEAN : LookAtDrive(refresh, now)
       \/ \E m \in Tape :
            \/ \E how \in {"manual", "detect", "path"} : CreateMedia(m, how, now)
            \/ RefuseInitialize(m, now)
            \/ \E force \in BOOLEAN : InitializeMedia(m, force, now)

Next ==
  \/ \E w \in Writer : Backup(w)
  \/ Restore
  \/ Screens
  \/ \E t \in Tape : Insert(t)
  \/ Withdraw

Spec == Init /\ [][Next]_vars

-----------------------------------------------------------------------------
(* Properties.                                                              *)

Names == Tape \union {None}
Number == -1 .. MaxArchives

\* The types of the state; the head is somewhere on the tape that is loaded, and
\* every row is of a registered medium and of an archive that was written.
TypeOK ==
  /\ loaded \in Names /\ borne \subseteq Tape /\ reader \in Names
  /\ \A t \in Tape : contents[t] \in Seq(Names \union 1 .. archives)
  /\ head \in 0 .. (IF loaded = None THEN 0 ELSE Len(contents[loaded]))
  /\ chip \in [Tape -> Names]
  /\ lkg \in [online : BOOLEAN, mam : Names, fresh : SUBSET {"online", "mam"}]
  /\ placed \subseteq media /\ media \subseteq Tape
  /\ versions \subseteq [medium : media, number : Number, archive : 1 .. archives,
                         sure : BOOLEAN]
  /\ writer \in [Writer -> [pc : {"idle", "identify", "prepare", "write", "number", "commit"},
                            medium : Names, archive : 0 .. archives, number : Number,
                            cancelled : BOOLEAN, alone : BOOLEAN]]
  /\ cleared \in BOOLEAN /\ acts \in 0 .. MaxActs
  /\ archives \in 0 .. MaxArchives

\* The number in a row finds the archive the row was written for, on whatever
\* cartridge that is, if nobody else moved the drive between prepare_for_write
\* and the reading of the number.  A drive that would not say gives -1, never
\* the number of another archive.
RowsNameTheirArchive ==
  \A v \in versions : v.sure /\ v.number # -1 =>
    \A t \in Tape : \A i \in DOMAIN contents[t] :
      contents[t][i] = v.archive => i - 1 = v.number

\* A backup that has the drive to itself appends: what it writes goes behind
\* everything on the cartridge, and the cartridge has had the name of the medium
\* since it was put in.
AppendsToNamed ==
  [][\A w \in Writer :
       writer[w].pc = "write" /\ writer[w].alone /\ archives' # archives
         => /\ \A i \in DOMAIN contents[loaded] : contents'[loaded][i] = contents[loaded][i]
            /\ writer[w].medium \in borne]_vars

\* Reinitialising a tape removes the rows of no other.
ReinitializeSpares ==
  [][cleared /\ ~cleared'
       => \A v \in versions \ versions' : v.medium \in borne]_vars
=============================================================================
