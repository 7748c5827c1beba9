------------------------- MODULE ArchiveContentProofs -------------------------
(***************************************************************************)
(* Proofs about Archive, for any files, media, contents, workers and        *)
(* bounds: that every row of file_versions points at its bytes, that no     *)
(* file has more copies than it should, that the archive keeps the ledger   *)
(* of module Ledger, and that what counts as covered is covered byte by     *)
(* byte, so that no file is forgotten.                                      *)
(***************************************************************************)
EXTENDS ArchiveProofs

-----------------------------------------------------------------------------
(* Rows and their bytes.                                                    *)

\* One backup runs at a time, and media are administered in between.
Alone     == \A u, w \in Worker : u = w
Exclusive == Quiet /\ Alone

\* What RowsHoldContent needs: no source file changes; a cancelled stream does
\* not leave rows behind; a medium is wiped with its rows and while no backup
\* runs; and a disk gives out only under the rules of Exclusive.  Without them a
\* second backup, which chose its batch before the first one committed, or a
\* link that was committed after its medium was purged, leaves a row that names
\* an object another backup is writing over when the disk gives out.
Undisturbed ==
  /\ Events \intersect {"write", "remove"} = {}
  /\ "cancel" \in Events => ~Streaming
  /\ "wipe" \in Events => Quiet /\ CommitsWipe = Medium
  /\ "fault" \in Events => RandomAccess = {} \/ Exclusive

\* The index knows nothing of a file, or what it is.
SourceInv ==
  \A f \in File : /\ disk[f] \in Content
                  /\ indexed[f] \in {Gone, disk[f]} /\ hash[f] \in {Gone, disk[f]}

\* An object is called after a file, alone or with the range.
Named(v) ==
  \E f \in File : /\ disk[f] = v.of
                  /\ \/ v.slot = <<f>> /\ v.lo = 0 /\ v.hi = Size[v.of]
                     \/ v.slot = <<f, v.lo, v.hi>>

Sound(v) == /\ v.of = disk[v.file]
            /\ Held(v)
            /\ v.medium \in RandomAccess => Named(v)

\* An item is what its file is, and whole unless it is a fragment of it.
Accurate(x) ==
  /\ x.of = disk[x.file] /\ x.hash \in {Gone, disk[x.file]}
  /\ x.copy => ~x.split
  /\ ~x.split => x.whole
  /\ x.whole => x.lo = 0 /\ x.hi = Size[x.of]

\* The archives of a tape are numbered without a gap.
Numbered(m) ==
  /\ IsFiniteSet(DOMAIN store[m])
  /\ \A n \in DOMAIN store[m] : \E i \in 1 .. Cardinality(DOMAIN store[m]) : n = <<i>>

StoreInv == /\ store = [m \in Medium |-> store[m]]
            /\ \A m \in Medium \ RandomAccess : Numbered(m)

WorkInv ==
  \A w \in Worker : job[w].pc # "idle" =>
    /\ \A x \in ToSet(job[w].items) \union ToSet(job[w].chunk) : Accurate(x)
    /\ \A r \in job[w].pending : Sound(r)
    /\ "cancel" \notin Events => ~job[w].cancelled

HoldInv == /\ SourceInv /\ StoreInv /\ WorkInv
           /\ \A v \in versions : Sound(v)

\* An object that has a row is a copy of a file that the index knows to be there.
Claimed(m, n) ==
  \/ \E f \in File : n = <<f>> /\ <<f, m>> \in coverage
  \/ \E u \in versions : u.medium = m /\ n = <<u.file, u.lo, u.hi>>

HasRow(m, n) == \E u \in versions : u.medium = m /\ u.slot = n

\* What a row of a session names has a row already, or is claimed by the commit.
Settled(j, r) ==
  \/ HasRow(r.medium, r.slot)
  \/ /\ j.pc = "commit" /\ r.medium = j.medium
     /\ \/ r.slot = <<r.file, r.lo, r.hi>>
        \/ r.slot = <<r.file>> /\ r.file \in j.cover

\* A disk's batch is taken in one chunk; none of its objects has a row yet.
FreshJob(j) ==
  /\ \A r \in j.pending : r.medium \in RandomAccess => Settled(j, r)
  /\ j.medium \in RandomAccess =>
       /\ j.pc = "chunk" => \A x \in ToSet(j.items) : ~HasRow(j.medium, ObjectName(x))
       /\ j.pc = "write" => \A x \in ToSet(j.chunk) : ~HasRow(j.medium, ObjectName(x))
       /\ j.pc \in {"write", "commit"} => ToSet(j.items) = {}

FreshInv ==
  /\ \A v \in versions : v.medium \in RandomAccess => Claimed(v.medium, v.slot)
  /\ \A w \in Worker : job[w].pc # "idle" => FreshJob(job[w])

\* A job whose items and rows are as they should be.
Working(j) ==
  /\ \A x \in ToSet(j.items) \union ToSet(j.chunk) : Accurate(x)
  /\ \A r \in j.pending : Sound(r)
  /\ "cancel" \notin Events => ~j.cancelled

-----------------------------------------------------------------------------
(* Writing leaves what is there.                                            *)

\* A row whose bytes are still there.
LEMMA SoundStays ==
  ASSUME NEW v, Sound(v), UNCHANGED disk, Held(v)'
  PROVE  Sound(v)'
BY DEF Sound, Named

\* An item stays accurate while the disk stays as it is.
LEMMA AccurateStays ==
  ASSUME NEW x, Accurate(x), UNCHANGED disk
  PROVE  Accurate(x)'
BY DEF Accurate

\* The next archive of a tape has a number of its own.
LEMMA NextIsNew ==
  ASSUME NEW m, Numbered(m)
  PROVE  NextArchive(m) \notin DOMAIN store[m]
<1> DEFINE k == Cardinality(DOMAIN store[m])
<1>1. k \in Nat
  BY FS_CardinalityType DEF Numbered
<1>2. \A n \in DOMAIN store[m] : \E i \in 1 .. k : n = <<i>>
  BY DEF Numbered
<1> HIDE DEF k
<1>3. \A i \in 1 .. k : <<i>> # <<k + 1>>
  BY <1>1
<1> QED
  BY <1>2, <1>3 DEF NextArchive, k

\* An archive is appended.
LEMMA AppendKeeps ==
  ASSUME StoreInv, NEW m \in Medium \ RandomAccess, NEW members, AppendArchive(m, members)
  PROVE  /\ StoreInv'
         /\ \A v : v.medium \in Medium /\ Held(v) => Held(v)'
         /\ NextArchive(m) \in DOMAIN store'[m] /\ store'[m][NextArchive(m)] = members
<1> DEFINE k == Cardinality(DOMAIN store[m])
           s == NextArchive(m)
<1>1. Numbered(m) /\ store = [x \in Medium |-> store[x]]
  BY DEF StoreInv
<1>2. s = <<k + 1>> /\ s \notin DOMAIN store[m]
  BY <1>1, NextIsNew DEF NextArchive
<1>3. store' = [store EXCEPT ![m] = Replace(store[m], s, members)]
  BY DEF AppendArchive
<1> HIDE DEF s
<1>4. /\ store' = [x \in Medium |-> store'[x]]
      /\ \A x \in Medium \ {m} : store'[x] = store[x]
      /\ store'[m] = Replace(store[m], s, members)
  BY <1>1, <1>3
<1>5. /\ DOMAIN store'[m] = DOMAIN store[m] \union {s}
      /\ store'[m][s] = members
      /\ \A n \in DOMAIN store[m] : store'[m][n] = store[m][n]
  BY <1>2, <1>4 DEF Replace
<1>6. Numbered(m)'
  <2>1. IsFiniteSet(DOMAIN store[m]) /\ k \in Nat
    BY <1>1, FS_CardinalityType DEF Numbered
  <2>2. IsFiniteSet(DOMAIN store'[m]) /\ Cardinality(DOMAIN store'[m]) = k + 1
    <3>1. /\ IsFiniteSet(DOMAIN store[m] \union {s})
          /\ Cardinality(DOMAIN store[m] \union {s}) = Cardinality(DOMAIN store[m]) + 1
      BY <1>2, <2>1, FS_AddElement
    <3> QED
      BY <1>5, <3>1
  <2>3. \A n \in DOMAIN store[m] : \E i \in 1 .. k : n = <<i>>
    BY <1>1 DEF Numbered
  <2>4. \A n \in DOMAIN store'[m] : \E i \in 1 .. k + 1 : n = <<i>>
    <3> HIDE DEF k
    <3> QED
      BY <1>2, <1>5, <2>1, <2>3
  <2> QED
    BY <2>2, <2>4 DEF Numbered
<1>7. \A x \in (Medium \ RandomAccess) \ {m} : Numbered(x)'
  BY <1>4 DEF StoreInv, Numbered
<1>8. ASSUME NEW v, v.medium \in Medium, Held(v) PROVE Held(v)'
  <2>1. Members(v) \subseteq Members(v)'
    BY <1>4, <1>5, <1>8 DEF Members
  <2> QED
    BY <1>8, <2>1 DEF Held
<1> QED
  BY <1>4, <1>5, <1>6, <1>7, <1>8 DEF StoreInv, s

\* The member that holds an item.
LEMMA MemberHolds ==
  ASSUME NEW x, Accurate(x), NEW v, v.lo = x.lo, v.hi = x.hi, v.of = x.of
  PROVE  /\ Member(x).lo = v.lo /\ Member(x).hi = v.hi
         /\ Member(x).bytes = ReadRange(v.of, v.lo, v.hi)
         /\ ~x.split => /\ WholeMember(x).lo = v.lo /\ WholeMember(x).hi = v.hi
                        /\ WholeMember(x).bytes = ReadRange(v.of, v.lo, v.hi)
BY DEF Accurate, Member, WholeMember, Bytes

\* Objects are written over by the same bytes.
LEMMA CopyKeeps ==
  ASSUME NEW m \in RandomAccess, NEW X, \A x \in ToSet(X) : x \in Items /\ Accurate(x),
         NEW objects, NEW v, Sound(v), v.medium = m,
         v.slot \in DOMAIN objects => \E y \in objects[v.slot] :
           y.lo = v.lo /\ y.hi = v.hi /\ y.bytes = ReadRange(v.of, v.lo, v.hi),
         v.slot \in DOMAIN CopyTo(objects, X)
  PROVE  \E y \in CopyTo(objects, X)[v.slot] :
           y.lo = v.lo /\ y.hi = v.hi /\ y.bytes = ReadRange(v.of, v.lo, v.hi)
<1> DEFINE names == {ObjectName(x) : x \in ToSet(X)}
           objs  == CopyTo(objects, X)
<1>1. v.slot \in DOMAIN objects \union names
  BY DEF CopyTo
<1>2. CASE v.slot \notin names
  BY <1>1, <1>2 DEF CopyTo
<1>3. CASE v.slot \in names
  <2>1. PICK x \in ToSet(X) : ObjectName(x) = v.slot
    BY <1>3
  <2>2. Accurate(x) /\ x \in Items
    OBVIOUS
  <2>3. PICK f \in File : /\ disk[f] = v.of
                          /\ \/ v.slot = <<f>> /\ v.lo = 0 /\ v.hi = Size[v.of]
                             \/ v.slot = <<f, v.lo, v.hi>>
    BY DEF Sound, Named
  <2>4. x.lo = v.lo /\ x.hi = v.hi /\ x.of = v.of
    <3>1. CASE x.split
      <4>1. v.slot = <<x.file, x.lo, x.hi>>
        BY <2>1, <3>1 DEF ObjectName
      <4>2. v.slot # <<f>>
        BY <4>1
      <4>3. <<x.file, x.lo, x.hi>> = <<f, v.lo, v.hi>>
        BY <2>3, <4>1, <4>2
      <4>4. x.file = f /\ x.lo = v.lo /\ x.hi = v.hi
        BY <4>3
      <4> QED
        BY <2>2, <2>3, <4>4 DEF Accurate
    <3>2. CASE ~x.split
      <4>1. v.slot = <<x.file>>
        BY <2>1, <3>2 DEF ObjectName
      <4>2. v.slot # <<f, v.lo, v.hi>>
        BY <4>1
      <4>3. <<x.file>> = <<f>> /\ v.lo = 0 /\ v.hi = Size[v.of]
        BY <2>3, <4>1, <4>2
      <4>4. x.file = f
        BY <4>3
      <4> QED
        BY <2>2, <2>3, <3>2, <4>3, <4>4 DEF Accurate
    <3> QED
      BY <3>1, <3>2
  <2>5. Member(x) \in objs[v.slot]
    BY <1>1, <1>3, <2>1 DEF CopyTo
  <2> HIDE DEF objs
  <2> QED
    BY <2>2, <2>4, <2>5, MemberHolds DEF objs
<1> QED
  BY <1>2, <1>3

\* Files are copied to a disk.
LEMMA CopyStores ==
  ASSUME StoreInv, NEW m \in RandomAccess, NEW X, \A x \in ToSet(X) : x \in Items /\ Accurate(x),
         store' = [store EXCEPT ![m] = CopyTo(store[m], X)]
  PROVE  /\ StoreInv'
         /\ \A v : v.medium \in Medium /\ Sound(v) => Held(v)'
         /\ \A x \in ToSet(X) : /\ ObjectName(x) \in DOMAIN store'[m]
                                /\ Member(x) \in store'[m][ObjectName(x)]
<1>1. m \in Medium
  BY ArchiveConstants
<1>2. /\ store' = [x \in Medium |-> store'[x]]
      /\ \A x \in Medium \ {m} : store'[x] = store[x]
      /\ store'[m] = CopyTo(store[m], X)
  BY <1>1 DEF StoreInv
<1>3. StoreInv'
  BY <1>2 DEF StoreInv, Numbered
<1>4. ASSUME NEW v, v.medium \in Medium, Sound(v) PROVE Held(v)'
  <2>1. PICK x \in Members(v) :
          x.lo = v.lo /\ x.hi = v.hi /\ x.bytes = ReadRange(v.of, v.lo, v.hi)
    BY <1>4 DEF Sound, Held
  <2>2. v.slot \in DOMAIN store[v.medium] /\ x \in store[v.medium][v.slot]
    BY <2>1 DEF Members
  <2>3. CASE v.medium # m
    <3>1. x \in Members(v)'
      BY <1>2, <1>4, <2>2, <2>3 DEF Members
    <3> QED
      BY <2>1, <3>1 DEF Held
  <2>4. CASE v.medium = m
    <3>1. v.slot \in DOMAIN CopyTo(store[m], X)
      BY <2>2, <2>4 DEF CopyTo
    <3>2. \E y \in CopyTo(store[m], X)[v.slot] :
            y.lo = v.lo /\ y.hi = v.hi /\ y.bytes = ReadRange(v.of, v.lo, v.hi)
      BY <1>4, <2>1, <2>2, <2>4, <3>1, CopyKeeps
    <3> QED
      BY <1>2, <2>4, <3>1, <3>2 DEF Held, Members
  <2> QED
    BY <2>3, <2>4
<1>5. ASSUME NEW x \in ToSet(X)
      PROVE  /\ ObjectName(x) \in DOMAIN store'[m]
             /\ Member(x) \in store'[m][ObjectName(x)]
  BY <1>2 DEF CopyTo
<1> QED
  BY <1>3, <1>4, <1>5

\* A row for an item, once its slot holds the item.
LEMMA RowSound ==
  ASSUME UNCHANGED disk, NEW w, NEW x \in Items, Accurate(x), NEW slot,
         NEW m, m = job[w].medium, m \in RandomAccess => slot = ObjectName(x),
         slot \in DOMAIN store'[m],
         \/ Member(x) \in store'[m][slot]
         \/ ~x.split /\ WholeMember(x) \in store'[m][slot],
         NEW r, r = Row(w, x, slot)
  PROVE  Sound(r)'
<1>1. /\ r.file = x.file /\ r.medium = m /\ r.slot = slot /\ r.lo = x.lo /\ r.hi = x.hi
      /\ r.of = x.of
  BY DEF Row
<1>2. r.of = disk[r.file] /\ r.file \in File
  BY <1>1 DEF Accurate, Items
<1>3. Held(r)'
  <2>1. \E y \in store'[m][slot] :
          y.lo = r.lo /\ y.hi = r.hi /\ y.bytes = ReadRange(r.of, r.lo, r.hi)
    BY <1>1, MemberHolds
  <2> QED
    BY <1>1, <2>1 DEF Held, Members
<1>4. m \in RandomAccess => Named(r)
  BY <1>1, <1>2 DEF Named, ObjectName, Accurate
<1> QED
  BY <1>1, <1>2, <1>3, <1>4 DEF Sound, Named

-----------------------------------------------------------------------------
(* The steps of a job keep rows and bytes together.                         *)

\* A step of one job.
LEMMA HoldStep ==
  ASSUME TypeInv, HoldInv, NEW w \in Worker, NEW j, job' = [job EXCEPT ![w] = j],
         UNCHANGED <<disk, indexed, hash>>, StoreInv',
         \A v \in versions' : Sound(v)',
         \A u \in Worker \ {w} : job[u].pc # "idle" => \A r \in job[u].pending : Held(r)',
         j.pc # "idle" => Working(j)'
  PROVE  HoldInv'
<1>1. SourceInv'
  BY DEF HoldInv, SourceInv
<1>2. ASSUME NEW u \in Worker, NEW k, k = job'[u], k.pc # "idle" PROVE Working(k)'
  <2>1. CASE u = w
    <3>1. k = j
      BY <1>2, <2>1 DEF TypeInv, JobsOK
    <3> QED
      BY <1>2, <3>1
  <2>2. CASE u # w
    <3>1. k = job[u]
      BY <1>2, <2>2 DEF TypeInv, JobsOK
    <3>2. Working(k)
      BY <1>2, <3>1 DEF HoldInv, WorkInv, Working
    <3>3. \A r \in k.pending : Sound(r)'
      <4>1. \A r \in k.pending : Sound(r) /\ Held(r)'
        BY <1>2, <2>2, <3>1, <3>2 DEF Working
      <4> QED
        BY <4>1, SoundStays
    <3>4. \A x \in ToSet(k.items) \union ToSet(k.chunk) : Accurate(x)'
      BY <3>2, AccurateStays DEF Working
    <3> QED
      BY <3>2, <3>3, <3>4 DEF Working
  <2> QED
    BY <2>1, <2>2
<1>3. WorkInv'
  <2>1. ASSUME NEW u \in Worker, job'[u].pc # "idle"
        PROVE  /\ \A x \in ToSet(job'[u].items) \union ToSet(job'[u].chunk) : Accurate(x)'
               /\ \A r \in job'[u].pending : Sound(r)'
               /\ "cancel" \notin Events => ~job'[u].cancelled
    <3>1. PICK k : k = job'[u]
      OBVIOUS
    <3>2. Working(k)'
      BY <1>2, <2>1, <3>1
    <3>3. /\ \A x \in ToSet(k.items) \union ToSet(k.chunk) : Accurate(x)'
          /\ \A r \in k.pending : Sound(r)'
          /\ "cancel" \notin Events => ~k.cancelled
      BY <3>2 DEF Working
    <3> QED
      BY <3>1, <3>3
  <2> QED
    BY <2>1 DEF WorkInv
<1> QED
  BY <1>1, <1>3 DEF HoldInv

\* One that touches no medium and no row.
LEMMA HoldQuiet ==
  ASSUME TypeInv, HoldInv, NEW w \in Worker, NEW j, job' = [job EXCEPT ![w] = j],
         UNCHANGED <<disks, index, versions, store>>, j.pc # "idle" => Working(j)
  PROVE  HoldInv'
<1>1. StoreInv'
  BY DEF HoldInv, StoreInv, Numbered
<1>2. ASSUME NEW v, Sound(v) PROVE Sound(v)'
  BY <1>2, SoundStays DEF disks, Sound, Held, Members
<1>3. \A v \in versions' : Sound(v)'
  BY <1>2 DEF HoldInv
<1>4. \A u \in Worker \ {w} : job[u].pc # "idle" => \A r \in job[u].pending : Held(r)'
  BY <1>2 DEF HoldInv, WorkInv, Sound
<1>5. j.pc # "idle" => Working(j)'
  BY <1>2, AccurateStays DEF Working, disks
<1>6. UNCHANGED <<disk, indexed, hash>>
  BY DEF disks, index
<1> QED
  BY <1>1, <1>3, <1>4, <1>5, <1>6, HoldStep

\* What is known of a job that is not idle.
LEMMA HoldRuns ==
  ASSUME TypeInv, HoldInv, NEW w \in Worker, job[w].pc # "idle"
  PROVE  RunOK(job[w]) /\ Working(job[w])
BY RunsOK DEF HoldInv, WorkInv, Working

\* The start of a job.
LEMMA BeginHolds ==
  ASSUME TypeInv, HoldInv, NEW w \in Worker, NEW m \in Medium, Begin(w, m)
  PROVE  HoldInv'
<1> DEFINE n == [pc |-> "assemble", medium |-> m, base |-> used[m], batch |-> 0,
                 items |-> <<>>, chunk |-> <<>>, first |-> TRUE, created |-> FALSE,
                 pending |-> {}, cover |-> {}, bytes |-> 0,
                 skipped |-> {}, touched |-> {}, cancelled |-> FALSE]
<1>1. job' = [job EXCEPT ![w] = n] /\ UNCHANGED <<disks, index, versions, store>>
  BY DEF Begin, rows
<1>2. n.items = <<>> /\ n.chunk = <<>> /\ n.pending = {} /\ n.cancelled = FALSE
  OBVIOUS
<1>3. ToSet(<<>>) = {}
  BY DEF ToSet
<1> HIDE DEF n
<1>4. Working(n)
  BY <1>2, <1>3 DEF Working
<1> QED
  BY <1>1, <1>4, HoldQuiet

\* What is chosen is as the index has it, and so is the disk.
LEMMA ChosenAccurate ==
  ASSUME SourceInv, NEW m, NEW x \in Chosen(m)
  PROVE  Accurate(x)
<1>1. /\ x.file \in File /\ x.of = indexed[x.file] /\ x.hash = hash[x.file]
      /\ indexed[x.file] # Gone /\ (x.copy => ~x.split)
      /\ ~x.split => x.whole
      /\ x.whole => x.lo = 0 /\ x.hi = SizeOf(x.file)
  BY DEF Chosen, Choice, Items, Archivable
<1>2. x.of = disk[x.file] /\ x.hash \in {Gone, disk[x.file]}
  BY <1>1 DEF SourceInv
<1> QED
  BY <1>1, <1>2 DEF Accurate, SizeOf

\* The choice of a batch.
LEMMA AssembleHolds ==
  ASSUME TypeInv, HoldInv, NEW w \in Worker, Assemble(w)
  PROVE  HoldInv'
<1>1. PICK items : Assembled(w, items)
  BY AssembledFields
<1>2. /\ RunOK(job[w]) /\ job[w].pc = "assemble"
      /\ UNCHANGED <<disks, index, rows, media, store>>
  BY AssembledFields
<1> DEFINE m == job[w].medium
           n == NewBatch(w, items)
           j == IF items = <<>> THEN Idle ELSE n
<1>3. /\ items \in Seq(Chosen(m)) /\ job' = [job EXCEPT ![w] = j]
      /\ n.items = EmptyFirst(items) /\ n.chunk = job[w].chunk
      /\ n.pending = job[w].pending /\ n.cancelled = job[w].cancelled
  BY <1>1 DEF Assembled
<1>4. \A x \in ToSet(n.items) : Accurate(x)
  <2> HIDE DEF n, m
  <2>1. ToSet(n.items) \subseteq Chosen(m)
    BY <1>3, EmptyFirstKeeps, ToSetFinite
  <2> QED
    BY <2>1, ChosenAccurate DEF HoldInv
<1>5. Working(job[w])
  BY <1>2, HoldRuns
<1> HIDE DEF n, m
<1>6. Working(n)
  BY <1>3, <1>4, <1>5 DEF Working
<1>7. j.pc # "idle" => Working(j)
  BY <1>6 DEF Idle
<1> HIDE DEF j
<1> QED
  BY <1>2, <1>3, <1>7, HoldQuiet DEF rows

\* A chunk as the index has it now.
LEMMA ChunkAccurate ==
  ASSUME TypeInv, SourceInv, NEW j, RunOK(j), Working(j), NEW n \in 0 .. Len(j.items)
  PROVE  \A x \in ToSet(Chunk(j, n)) : x \in Items /\ Accurate(x)
<1>1. IndexOK
  BY DEF TypeInv, DataOK
<1>2. Chunk(j, n) \in Seq(Items)
  BY <1>1, ChunkOK
<1>3. ToSet(Chunk(j, n)) \subseteq Items
  BY <1>2, ToSetFinite
<1>4. ASSUME NEW x \in ToSet(Chunk(j, n)) PROVE Accurate(x)
  <2>1. PICK y \in ToSet(j.items) : x = IF j.first THEN y ELSE Reloaded(y)
    BY <1>1, ChunkOK
  <2>2. Accurate(y) /\ indexed[y.file] # Gone
    BY DEF Working, RunOK
  <2>3. y \in Items /\ y.file \in File
    <3>1. ToSet(j.items) \subseteq Items
      BY ToSetFinite DEF RunOK
    <3> QED
      BY <3>1 DEF Items
  <2>4. indexed[y.file] = disk[y.file] /\ hash[y.file] \in {Gone, disk[y.file]}
    BY <2>2, <2>3 DEF SourceInv
  <2>5. ~j.first => Accurate(Reloaded(y))
    BY <1>1, <2>2, <2>3, <2>4, ReloadedOK DEF Accurate, SizeOf
  <2> QED
    BY <2>1, <2>2, <2>5
<1> QED
  BY <1>3, <1>4

\* A link points at the same bytes.
LEMMA LinkSound ==
  ASSUME TypeInv, SourceInv, \A v \in versions : Sound(v),
         NEW x \in Items, Accurate(x), NEW v \in Dupes(x)
  PROVE  Sound(Link(x, v))
<1> DEFINE r == Link(x, v)
<1>1. /\ v \in versions /\ x.hash # Gone /\ hash[v.file] = x.hash
      /\ v.lo = x.lo /\ v.hi = x.hi
  BY DEF Dupes
<1>2. v.file \in File
  BY <1>1 DEF TypeInv, DataOK, RowsOK, RowOK
<1>3. Sound(v) /\ v.of = disk[v.file] /\ hash[v.file] = disk[v.file]
  BY <1>1, <1>2 DEF SourceInv, Sound
<1>4. x.hash = v.of /\ x.hash = disk[x.file]
  BY <1>1, <1>3 DEF Accurate
<1>5. /\ r.file = x.file /\ r.medium = v.medium /\ r.slot = v.slot /\ r.lo = v.lo
      /\ r.hi = v.hi /\ r.of = v.of
  BY <1>1, <1>4 DEF Link
<1> HIDE DEF r
<1>6. Held(r)
  BY <1>3, <1>5 DEF Sound, Held, Members
<1>7. r.medium \in RandomAccess => Named(r)
  BY <1>3, <1>5 DEF Sound, Named
<1> QED
  BY <1>4, <1>5, <1>6, <1>7 DEF Sound, r

\* A chunk and its links.
LEMMA PrepareHolds ==
  ASSUME TypeInv, HoldInv, NEW w \in Worker, NEW n \in Nat, Prepare(w, n)
  PROVE  HoldInv'
<1>1. /\ RunOK(job[w]) /\ n \in 0 .. Len(job[w].items) /\ job[w].pc = "chunk"
      /\ UNCHANGED <<disks, index, rows, media, store>>
  BY PreparedFields
<1>2. PICK v : PreparedBy(w, n, v)
  BY PreparedFields
<1>3. Working(job[w])
  BY <1>1, HoldRuns
<1> DEFINE p == Prepared(w, n, v)
<1>4. /\ \A x \in Linked(w, n) : v[x] \in Dupes(x)
      /\ job' = [job EXCEPT ![w] = p]
      /\ p.cancelled = job[w].cancelled
      /\ ToSet(p.items) \subseteq ToSet(job[w].items)
      /\ ToSet(p.chunk) \subseteq ToSet(Chunk(job[w], n))
      /\ p.pending = {Link(x, v[x]) : x \in Linked(w, n)}
  BY <1>2 DEF PreparedBy
<1> HIDE DEF p
<1>5. \A x \in ToSet(Chunk(job[w], n)) : x \in Items /\ Accurate(x)
  BY <1>1, <1>3, ChunkAccurate DEF HoldInv
<1>6. \A r \in p.pending : Sound(r)
  <2>1. \A x \in Linked(w, n) : x \in ToSet(Chunk(job[w], n))
    BY DEF Linked
  <2>2. \A x \in Linked(w, n) : Sound(Link(x, v[x]))
    BY <1>4, <1>5, <2>1, LinkSound DEF HoldInv
  <2> QED
    BY <1>4, <2>2
<1>7. Working(p)
  BY <1>3, <1>4, <1>5, <1>6 DEF Working
<1> QED
  BY <1>1, <1>4, <1>7, HoldQuiet DEF rows

\* A writer's rows, beside those it keeps.
LEMMA WrittenHolds ==
  ASSUME TypeInv, HoldInv, NEW w \in Worker, job[w].pc # "idle",
         NEW for, \A r \in for : Sound(r)', NEW bytes,
         job' = [job EXCEPT ![w] = Written(w, for, bytes)],
         UNCHANGED <<disks, index, rows>>, StoreInv',
         \A v : v.medium \in Medium /\ Sound(v) => Held(v)'
  PROVE  HoldInv'
<1> PICK n : n = Written(w, for, bytes)
  OBVIOUS
<1>1. RunOK(job[w]) /\ Working(job[w])
  BY HoldRuns
<1>2. /\ n.items = job[w].items /\ n.chunk = job[w].chunk
      /\ n.pending = job[w].pending \union for /\ n.cancelled = job[w].cancelled
  <2>1. DOMAIN job[w] = JobFields
    BY <1>1 DEF RunOK
  <2> QED
    BY <2>1 DEF Written, JobFields
<1>3. UNCHANGED <<disk, indexed, hash, versions>>
  BY DEF disks, index, rows
<1>4. ASSUME NEW r, RowOK(r), Sound(r) PROVE Held(r)' /\ Sound(r)'
  <2>1. Held(r)'
    BY <1>4 DEF RowOK
  <2> QED
    BY <1>3, <1>4, <2>1, SoundStays
<1>5. \A v \in versions' : Sound(v)'
  BY <1>3, <1>4 DEF HoldInv, TypeInv, DataOK, RowsOK
<1>6. ASSUME NEW u \in Worker, job[u].pc # "idle", NEW r \in job[u].pending
      PROVE  Held(r)' /\ Sound(r)'
  <2>1. RunOK(job[u]) /\ Working(job[u])
    BY <1>6, HoldRuns
  <2> QED
    BY <1>4, <2>1 DEF RunOK, Working
<1>7. \A r \in n.pending : Sound(r)'
  BY <1>2, <1>6
<1>8. \A x \in ToSet(n.items) \union ToSet(n.chunk) : Accurate(x)'
  BY <1>1, <1>2, <1>3, AccurateStays DEF Working
<1>9. Working(n)'
  BY <1>1, <1>2, <1>7, <1>8 DEF Working
<1> QED
  BY <1>3, <1>5, <1>6, <1>9, HoldStep

\* The items of a chunk, and those of it that are there.
LEMMA ChunkHere ==
  ASSUME TypeInv, HoldInv, NEW w \in Worker, job[w].pc # "idle"
  PROVE  /\ job[w].medium \in Medium /\ job[w].chunk \in Seq(Items)
         /\ \A x \in ToSet(job[w].chunk) : x \in Items /\ Accurate(x)
         /\ ToSet(Present(job[w].chunk)) = ToSet(job[w].chunk)
<1>1. job[w].medium \in Medium /\ job[w].chunk \in Seq(Items) /\ Working(job[w])
  BY HoldRuns DEF RunOK
<1>2. \A x \in ToSet(job[w].chunk) : x \in Items /\ Accurate(x)
  <2>1. ToSet(job[w].chunk) \subseteq Items
    BY <1>1, ToSetFinite
  <2> QED
    BY <1>1, <2>1 DEF Working
<1>3. ASSUME NEW x \in ToSet(job[w].chunk) PROVE disk[x.file] # Gone
  BY <1>2, ArchiveConstants DEF Items, HoldInv, SourceInv
<1> DEFINE here == {x \in ToSet(job[w].chunk) : disk[x.file] # Gone}
<1>4. ToSet(Select(job[w].chunk, here)) = ToSet(job[w].chunk) \intersect here
  BY <1>1, SelectKeeps
<1> QED
  BY <1>1, <1>2, <1>3, <1>4 DEF Present

\* Files are copied, and get their rows.
LEMMA CopyHolds ==
  ASSUME TypeInv, HoldInv, NEW w \in Worker, CopyFiles(w)
  PROVE  HoldInv'
<1> DEFINE m == job[w].medium
<1>1. job[w].pc # "idle" /\ m \in RandomAccess /\ UNCHANGED <<disks, index, rows>>
  BY DEF CopyFiles
<1>2. /\ job[w].chunk \in Seq(Items)
      /\ \A x \in ToSet(job[w].chunk) : x \in Items /\ Accurate(x)
  BY <1>1, ChunkHere
<1>3. PICK n \in Reached(w) :
        LET done == Present(SubSeq(job[w].chunk, 1, n)) IN
        /\ store' = [store EXCEPT ![m] = CopyTo(store[m], done)]
        /\ job'   = [job EXCEPT ![w] =
             Written(w, {Row(w, x, ObjectName(x)) : x \in ToSet(done)}, TotalLength(done))]
  BY Zenon DEF CopyFiles
<1> DEFINE done == Present(SubSeq(job[w].chunk, 1, n))
           for  == {Row(w, x, ObjectName(x)) : x \in ToSet(done)}
<1>4. \A x \in ToSet(done) : x \in Items /\ Accurate(x)
  <2>1. ToSet(done) \subseteq ToSet(job[w].chunk)
    BY <1>2, ReachedOK
  <2> QED
    BY <1>2, <2>1
<1>5. /\ store' = [store EXCEPT ![m] = CopyTo(store[m], done)]
      /\ job'   = [job EXCEPT ![w] = Written(w, for, TotalLength(done))]
  BY <1>3
<1> HIDE DEF done
<1>6. /\ StoreInv'
      /\ \A v : v.medium \in Medium /\ Sound(v) => Held(v)'
      /\ \A x \in ToSet(done) : /\ ObjectName(x) \in DOMAIN store'[m]
                                /\ Member(x) \in store'[m][ObjectName(x)]
  <2> HIDE DEF m
  <2> QED
    BY <1>1, <1>4, <1>5, CopyStores DEF HoldInv
<1>7. ASSUME NEW r \in for PROVE Sound(r)'
  <2>1. PICK x \in ToSet(done) : r = Row(w, x, ObjectName(x))
    OBVIOUS
  <2>2. PICK slot : slot = ObjectName(x)
    OBVIOUS
  <2>3. x \in Items /\ Accurate(x) /\ slot \in DOMAIN store'[m] /\ Member(x) \in store'[m][slot]
    BY <1>4, <1>6, <2>2
  <2>4. UNCHANGED disk
    BY <1>1 DEF disks
  <2> HIDE DEF for
  <2> QED
    BY <1>1, <2>1, <2>2, <2>3, <2>4, RowSound
<1> HIDE DEF for
<1> QED
  BY <1>1, <1>5, <1>6, <1>7, WrittenHolds

\* An archive is written, and each item of the chunk gets a row.
LEMMA ArchiveHolds ==
  ASSUME TypeInv, HoldInv, Undisturbed, NEW w \in Worker, StreamArchive(w) \/ StageArchive(w)
  PROVE  HoldInv'
<1> DEFINE m     == job[w].medium
           items == ToSet(job[w].chunk)
<1>1. /\ job[w].pc # "idle" /\ m \notin RandomAccess /\ UNCHANGED <<disks, index, rows>>
  BY DEF StreamArchive, StageArchive
<1>2. /\ m \in Medium /\ job[w].chunk \in Seq(Items)
      /\ \A x \in items : x \in Items /\ Accurate(x)
      /\ ToSet(Present(job[w].chunk)) = items
  BY <1>1, ChunkHere
<1> PICK slot : slot = NextArchive(m)
  OBVIOUS
<1>3. PICK members : /\ AppendArchive(m, members)
                     /\ \A x \in items : \/ Member(x) \in members
                                         \/ ~x.split /\ WholeMember(x) \in members
  <2>1. CASE StreamArchive(w)
    <3>1. ~job[w].cancelled
      <4>1. Streaming
        BY <2>1 DEF StreamArchive
      <4> QED
        BY <1>1, <4>1, HoldRuns DEF Undisturbed, Working
    <3>2. PICK n \in Reached(w) :
            AppendArchive(m, {Member(x) : x \in ToSet(Present(SubSeq(job[w].chunk, 1, n)))})
      BY <2>1, Zenon DEF StreamArchive
    <3>3. SubSeq(job[w].chunk, 1, n) = job[w].chunk
      BY <1>2, <3>1, WholePart DEF Reached
    <3>4. AppendArchive(m, {Member(x) : x \in ToSet(Present(job[w].chunk))})
      BY <3>2, <3>3
    <3>5. \A x \in ToSet(job[w].chunk) :
            Member(x) \in {Member(y) : y \in ToSet(Present(job[w].chunk))}
      BY <1>2
    <3> QED
      BY <3>4, <3>5
  <2>2. CASE StageArchive(w)
    <3>1. AppendArchive(m, StagedMembers(job[w].chunk))
      BY <2>2 DEF StageArchive
    <3>2. \A x \in items : \/ Member(x) \in StagedMembers(job[w].chunk)
                           \/ ~x.split /\ WholeMember(x) \in StagedMembers(job[w].chunk)
      <4> HIDE DEF items
      <4>1. /\ ToSet(job[w].chunk) = items /\ ToSet(Present(job[w].chunk)) = items
        BY <1>2 DEF items
      <4> QED
        BY <4>1 DEF StagedMembers
    <3> QED
      BY <3>1, <3>2
  <2> QED
    BY <2>1, <2>2
<1>4. PICK bytes : job' = [job EXCEPT ![w] = Written(w, {Row(w, x, slot) : x \in items}, bytes)]
  BY Zenon DEF StreamArchive, StageArchive
<1>5. /\ StoreInv'
      /\ \A v : v.medium \in Medium /\ Held(v) => Held(v)'
      /\ slot \in DOMAIN store'[m] /\ store'[m][slot] = members
  <2> HIDE DEF m
  <2> QED
    BY <1>1, <1>2, <1>3, AppendKeeps DEF HoldInv
<1> DEFINE for == {Row(w, x, slot) : x \in items}
<1>6. ASSUME NEW r \in for PROVE Sound(r)'
  <2>1. PICK x \in items : r = Row(w, x, slot)
    OBVIOUS
  <2>2. x \in Items /\ Accurate(x) /\ UNCHANGED disk
    BY <1>1, <1>2 DEF disks
  <2>3. \/ Member(x) \in store'[m][slot]
        \/ ~x.split /\ WholeMember(x) \in store'[m][slot]
    BY <1>3, <1>5
  <2> HIDE DEF for, items
  <2> QED
    BY <1>1, <1>5, <2>1, <2>2, <2>3, RowSound
<1>7. \A v : v.medium \in Medium /\ Sound(v) => Held(v)'
  BY <1>5 DEF Sound
<1> HIDE DEF for
<1> QED
  BY <1>1, <1>4, <1>5, <1>6, <1>7, WrittenHolds DEF for

\* A job that stops, or sees its cancellation, leaves rows and media alone.
LEMMA StopHolds ==
  ASSUME TypeInv, HoldInv, NEW w \in Worker, MediumLost(w) \/ DropStaged(w) \/ Cancel(w)
  PROVE  HoldInv'
<1> DEFINE stopped  == [job[w] EXCEPT !.pc = "chunk"]
           canceled == [job[w] EXCEPT !.cancelled = TRUE]
<1>1. job[w].pc # "idle" /\ UNCHANGED <<disks, index, versions, store>>
  BY DEF MediumLost, DropStaged, Cancel, rows
<1>2. RunOK(job[w]) /\ Working(job[w])
  BY <1>1, HoldRuns
<1>3. Working(stopped) /\ ("cancel" \in Events => Working(canceled))
  BY <1>2 DEF Working, RunOK, JobFields
<1>4. \/ job' = [job EXCEPT ![w] = Idle]
      \/ job' = [job EXCEPT ![w] = stopped]
      \/ "cancel" \in Events /\ job' = [job EXCEPT ![w] = canceled]
  BY DEF MediumLost, DropStaged, Cancel, Step
<1> HIDE DEF stopped, canceled
<1>5. Idle.pc = "idle"
  BY DEF Idle
<1> QED
  BY <1>1, <1>3, <1>4, <1>5, HoldQuiet

\* The rows of a session are as sound in the table.
LEMMA StampSound ==
  ASSUME NEW set, \A r \in set : RowOK(r) /\ Sound(r)
  PROVE  \A r \in Stamp(set) : Sound(r)
<1>1. ASSUME NEW r \in set PROVE Sound([r EXCEPT !.txn = txn])
  <2> DEFINE s == [r EXCEPT !.txn = txn]
  <2>1. DOMAIN r = RowFields /\ Sound(r)
    BY DEF RowOK
  <2>2. /\ s.file = r.file /\ s.medium = r.medium /\ s.slot = r.slot /\ s.lo = r.lo
        /\ s.hi = r.hi /\ s.of = r.of
    BY <2>1 DEF RowFields
  <2> HIDE DEF s
  <2> QED
    BY <2>1, <2>2 DEF Sound, Held, Members, Named
<1> QED
  BY <1>1 DEF Stamp

\* Rows are inserted.
LEMMA InsertHolds ==
  ASSUME TypeInv, HoldInv, NEW w \in Worker, job[w].pc # "idle",
         versions' \in {versions, versions \union Stamp(job[w].pending)},
         UNCHANGED <<disks, index, store>>,
         NEW j, job' = [job EXCEPT ![w] = j], j.pc # "idle" => Working(j)
  PROVE  HoldInv'
<1>1. RunOK(job[w]) /\ Working(job[w])
  BY HoldRuns
<1>2. \A v \in versions' : Sound(v)
  <2>1. \A r \in Stamp(job[w].pending) : Sound(r)
    BY <1>1, StampSound DEF RunOK, Working
  <2> QED
    BY <2>1 DEF HoldInv
<1>3. UNCHANGED <<disk, indexed, hash>>
  BY DEF disks, index
<1>4. ASSUME NEW v, Sound(v) PROVE Sound(v)' /\ Held(v)'
  BY <1>3, <1>4, SoundStays DEF Sound, Held, Members
<1>5. StoreInv'
  BY DEF HoldInv, StoreInv, Numbered
<1>6. \A u \in Worker \ {w} : job[u].pc # "idle" => \A r \in job[u].pending : Held(r)'
  BY <1>4 DEF HoldInv, WorkInv
<1>7. j.pc # "idle" => Working(j)'
  BY <1>3, <1>4, AccurateStays DEF Working
<1>8. \A v \in versions' : Sound(v)'
  BY <1>2, <1>4
<1> QED
  BY <1>3, <1>5, <1>6, <1>7, <1>8, HoldStep

\* The checkpoint after a chunk.
LEMMA CommitHolds ==
  ASSUME TypeInv, HoldInv, NEW w \in Worker, Commit(w)
  PROVE  HoldInv'
<1> DEFINE n == [job[w] EXCEPT !.pc = "chunk", !.chunk = <<>>, !.pending = {}, !.cover = {},
                               !.bytes = 0]
<1>1. /\ job[w].pc # "idle" /\ UNCHANGED <<disks, index, store>>
      /\ versions' \in {versions, versions \union Stamp(job[w].pending)}
      /\ \/ job' = [job EXCEPT ![w] = Idle]
         \/ job' = [job EXCEPT ![w] = n]
  BY DEF Commit, rows
<1>2. RunOK(job[w]) /\ Working(job[w])
  BY <1>1, HoldRuns
<1>3. ToSet(<<>>) = {}
  BY DEF ToSet
<1>4. /\ n.items = job[w].items /\ n.chunk = <<>> /\ n.pending = {}
      /\ n.cancelled = job[w].cancelled
  BY <1>2 DEF RunOK, JobFields
<1> HIDE DEF n
<1>5. Working(n) /\ Idle.pc = "idle"
  BY <1>2, <1>3, <1>4 DEF Working, Idle
<1> QED
  BY <1>1, <1>5, InsertHolds

\* The end of a batch.
LEMMA EndBatchHolds ==
  ASSUME TypeInv, HoldInv, NEW w \in Worker, EndBatch(w)
  PROVE  HoldInv'
<1> DEFINE n == [job[w] EXCEPT !.pc = "assemble", !.base = used[job[w].medium]]
<1>1. /\ job[w].pc # "idle" /\ UNCHANGED <<disks, index, store>>
      /\ versions' \in {versions, versions \union Stamp(job[w].pending)}
      /\ \/ job' = [job EXCEPT ![w] = Idle]
         \/ job' = [job EXCEPT ![w] = n]
  BY DEF EndBatch
<1>2. RunOK(job[w]) /\ Working(job[w])
  BY <1>1, HoldRuns
<1>3. /\ n.items = job[w].items /\ n.chunk = job[w].chunk /\ n.pending = job[w].pending
      /\ n.cancelled = job[w].cancelled
  BY <1>2 DEF RunOK, JobFields
<1> HIDE DEF n
<1>4. Working(n) /\ Idle.pc = "idle"
  BY <1>2, <1>3 DEF Working, Idle
<1> QED
  BY <1>1, <1>4, InsertHolds

\* A row that is not the torn object's keeps its bytes on a disk.
LEMMA TearKeeps ==
  ASSUME NEW m \in RandomAccess, NEW X, \A x \in ToSet(X) : x \in Items /\ Accurate(x),
         NEW name, NEW torn, store = [x \in Medium |-> store[x]],
         store' = [store EXCEPT ![m] = Replace(CopyTo(store[m], X), name, torn)],
         NEW v, v.medium \in Medium, Sound(v), v.medium = m => v.slot # name
  PROVE  Held(v)'
<1>1. m \in Medium
  BY ArchiveConstants
<1>2. /\ \A x \in Medium \ {m} : store'[x] = store[x]
      /\ store'[m] = Replace(CopyTo(store[m], X), name, torn)
  BY <1>1
<1>3. PICK x \in Members(v) :
        x.lo = v.lo /\ x.hi = v.hi /\ x.bytes = ReadRange(v.of, v.lo, v.hi)
  BY DEF Sound, Held
<1>4. v.slot \in DOMAIN store[v.medium] /\ x \in store[v.medium][v.slot]
  BY <1>3 DEF Members
<1>5. CASE v.medium # m
  <2>1. x \in Members(v)'
    BY <1>2, <1>4, <1>5 DEF Members
  <2> QED
    BY <1>3, <2>1 DEF Held
<1>6. CASE v.medium = m
  <2> DEFINE objs == CopyTo(store[m], X)
  <2>1. v.slot \in DOMAIN objs
    BY <1>4, <1>6 DEF CopyTo
  <2>2. \E y \in objs[v.slot] :
          y.lo = v.lo /\ y.hi = v.hi /\ y.bytes = ReadRange(v.of, v.lo, v.hi)
    BY <1>3, <1>4, <1>6, <2>1, CopyKeeps
  <2> HIDE DEF objs
  <2>3. v.slot \in DOMAIN store'[m] /\ store'[m][v.slot] = objs[v.slot]
    BY <1>2, <1>6, <2>1 DEF Replace, objs
  <2> QED
    BY <1>6, <2>2, <2>3 DEF Held, Members
<1> QED
  BY <1>5, <1>6

\* A fault tears what no row names: the next archive of a tape, and on a disk
\* the object of an item that has no row yet.
LEMMA FaultHolds ==
  ASSUME TypeInv, HoldInv, Exclusive => FreshInv, Undisturbed,
         NEW w \in Worker, WriteFault(w)
  PROVE  HoldInv'
<1> DEFINE m == job[w].medium
           torn(x) == [Member(x) EXCEPT !.bytes = <<>>]
<1>1. /\ "fault" \in Events /\ job[w].pc = "write" /\ UNCHANGED <<disks, index, rows>>
      /\ job' = [job EXCEPT ![w] = Idle]
  BY DEF WriteFault
<1>2. PICK n \in 1 .. Len(job[w].chunk) :
        LET done == Present(SubSeq(job[w].chunk, 1, n - 1))
            last == job[w].chunk[n]
        IN  IF m \in RandomAccess
            THEN store' = [store EXCEPT ![m] =
                            Replace(CopyTo(store[m], done), ObjectName(last), {torn(last)})]
            ELSE AppendArchive(m, {Member(x) : x \in ToSet(done)} \union {torn(last)})
  BY Zenon DEF WriteFault
<1> PICK done : done = Present(SubSeq(job[w].chunk, 1, n - 1))
  OBVIOUS
<1> PICK last : last = job[w].chunk[n]
  OBVIOUS
<1>3. IF m \in RandomAccess
      THEN store' = [store EXCEPT ![m] =
                      Replace(CopyTo(store[m], done), ObjectName(last), {torn(last)})]
      ELSE AppendArchive(m, {Member(x) : x \in ToSet(done)} \union {torn(last)})
  BY <1>2
<1> HIDE DEF torn
<1>4. /\ m \in Medium /\ job[w].chunk \in Seq(Items)
      /\ \A x \in ToSet(job[w].chunk) : x \in Items /\ Accurate(x)
  BY <1>1, ChunkHere
<1>5. \A x \in ToSet(done) : x \in Items /\ Accurate(x)
  <2> DEFINE part == SubSeq(job[w].chunk, 1, n - 1)
  <2>1. n - 1 \in 0 .. Len(job[w].chunk)
    BY <1>4
  <2>2. part \in Seq(Items) /\ ToSet(part) \subseteq ToSet(job[w].chunk)
    BY <1>4, <2>1, Parts
  <2>3. ToSet(done) \subseteq ToSet(part)
    <3> HIDE DEF part
    <3>1. ToSet(Present(part)) \subseteq ToSet(part)
      BY <2>2, SelectKeeps DEF Present
    <3> QED
      BY <3>1 DEF part
  <2> QED
    BY <1>4, <2>2, <2>3
<1>6. last \in ToSet(job[w].chunk)
  BY <1>4 DEF ToSet
<1>7. \A v \in versions : v.medium \in Medium /\ Sound(v)
  BY DEF HoldInv, TypeInv, DataOK, RowsOK, RowOK
<1>8. \A u \in Worker : job[u].pc # "idle" =>
        \A r \in job[u].pending : r.medium \in Medium /\ Sound(r)
  BY HoldRuns DEF Working, RunOK, RowOK
<1>9. UNCHANGED <<disk, indexed, hash, versions>>
  BY <1>1 DEF disks, index, rows
<1> DEFINE Stays == /\ StoreInv'
                    /\ \A v \in versions : Held(v)'
                    /\ \A u \in Worker \ {w} : job[u].pc # "idle" =>
                         \A r \in job[u].pending : Held(r)'
<1>10. ASSUME m \notin RandomAccess PROVE Stays
  <2>1. AppendArchive(m, {Member(x) : x \in ToSet(done)} \union {torn(last)})
    BY <1>3, <1>10
  <2>2. /\ StoreInv'
        /\ \A v : v.medium \in Medium /\ Held(v) => Held(v)'
    <3> PICK members : members = {Member(x) : x \in ToSet(done)} \union {torn(last)}
      OBVIOUS
    <3>1. AppendArchive(m, members)
      BY <2>1
    <3> HIDE DEF m
    <3> QED
      BY <1>4, <1>10, <3>1, AppendKeeps DEF HoldInv
  <2>3. Stays
    BY <1>7, <1>8, <2>2 DEF Sound
  <2> QED
    BY <2>3
<1>11. ASSUME m \in RandomAccess PROVE Stays
  <2> PICK name : name = ObjectName(last)
    OBVIOUS
  <2> PICK objs : objs = {torn(last)}
    OBVIOUS
  <2>1. store' = [store EXCEPT ![m] = Replace(CopyTo(store[m], done), name, objs)]
    BY <1>3, <1>11
  <2>2. Exclusive /\ FreshInv
    BY <1>1, <1>11 DEF Undisturbed
  <2>3. \A v \in versions : v.medium = m => v.slot # name
    BY <1>1, <1>6, <1>11, <2>2 DEF FreshInv, FreshJob, HasRow
  <2>4. store = [x \in Medium |-> store[x]]
    BY DEF HoldInv, StoreInv
  <2>5. \A v \in versions : Held(v)'
    <3> HIDE DEF m
    <3> QED
      BY <1>5, <1>7, <1>11, <2>1, <2>3, <2>4, TearKeeps
  <2>6. StoreInv'
    <3> PICK new : new = Replace(CopyTo(store[m], done), name, objs)
      OBVIOUS
    <3>1. store' = [store EXCEPT ![m] = new]
      BY <2>1
    <3>2. store' = [x \in Medium |-> store'[x]] /\ \A x \in Medium \ {m} : store'[x] = store[x]
      BY <2>4, <3>1
    <3>3. \A x \in Medium \ RandomAccess : Numbered(x)'
      BY <1>11, <3>2 DEF HoldInv, StoreInv, Numbered
    <3> QED
      BY <3>2, <3>3 DEF StoreInv
  <2>7. Worker \ {w} = {}
    BY <2>2 DEF Exclusive, Alone
  <2> QED
    BY <2>5, <2>6, <2>7
<1>12. Stays
  BY <1>10, <1>11
<1>13. \A v \in versions' : Sound(v)'
  BY <1>7, <1>9, <1>12, SoundStays
<1>14. Idle.pc = "idle"
  BY DEF Idle
<1> QED
  BY <1>1, <1>9, <1>12, <1>13, <1>14, HoldStep

\* Who administers a medium may take rows away; the medium is wiped with them.
LEMMA AdminHolds ==
  ASSUME TypeInv, HoldInv, Undisturbed, NEW m \in Medium,
         \/ \E s \in {"active", "RETIRED"} : UpdateMedia(m, s)
         \/ DeleteMedia(m) \/ InitializeMedia(m)
  PROVE  HoldInv'
<1>1. UNCHANGED <<disk, indexed, hash, job>> /\ versions' \subseteq versions
  BY DEF UpdateMedia, DeleteMedia, InitializeMedia, Purge, disks, index
<1>2. SourceInv'
  BY <1>1 DEF HoldInv, SourceInv
<1>3. CASE UNCHANGED store
  <2>1. StoreInv'
    BY <1>3 DEF HoldInv, StoreInv, Numbered
  <2>2. \A v : Sound(v) => Sound(v)'
    BY <1>1, <1>3, SoundStays DEF Sound, Held, Members
  <2>3. WorkInv'
    <3>1. ASSUME NEW u \in Worker, job[u].pc # "idle" PROVE Working(job[u])
      BY <3>1, HoldRuns
    <3>2. ASSUME NEW u \in Worker, NEW k, k = job[u], job[u].pc # "idle" PROVE Working(k)'
      BY <1>1, <2>2, <3>1, <3>2, AccurateStays DEF Working
    <3>3. ASSUME NEW u \in Worker, job'[u].pc # "idle"
          PROVE  /\ \A x \in ToSet(job'[u].items) \union ToSet(job'[u].chunk) : Accurate(x)'
                 /\ \A r \in job'[u].pending : Sound(r)'
                 /\ "cancel" \notin Events => ~job'[u].cancelled
      <4>1. PICK k : k = job[u]
        OBVIOUS
      <4>2. Working(k)' /\ job'[u] = k
        BY <1>1, <3>2, <3>3, <4>1
      <4>3. /\ \A x \in ToSet(k.items) \union ToSet(k.chunk) : Accurate(x)'
            /\ \A r \in k.pending : Sound(r)'
            /\ "cancel" \notin Events => ~k.cancelled
        BY <4>2 DEF Working
      <4> QED
        BY <4>2, <4>3
    <3> QED
      BY <3>3 DEF WorkInv
  <2> QED
    BY <1>1, <1>2, <2>1, <2>2, <2>3 DEF HoldInv
<1>4. CASE InitializeMedia(m)
  <2>1. Quiet /\ NoJobRuns /\ m \in CommitsWipe
    BY <1>4 DEF InitializeMedia, Allowed, Undisturbed
  <2>2. /\ store' = [store EXCEPT ![m] = <<>>] /\ versions' = {v \in versions : v.medium # m}
    BY <1>4, <2>1 DEF InitializeMedia, Purge
  <2>3. /\ store' = [x \in Medium |-> store'[x]] /\ store'[m] = <<>>
        /\ \A x \in Medium \ {m} : store'[x] = store[x]
    BY <2>2 DEF HoldInv, StoreInv
  <2>4. StoreInv'
    <3>1. ASSUME NEW x \in Medium \ RandomAccess PROVE Numbered(x)'
      <4>1. CASE x = m
        <5>1. DOMAIN store'[m] = {}
          BY <2>3
        <5> QED
          BY <4>1, <5>1, FS_EmptySet DEF Numbered
      <4>2. CASE x # m
        BY <2>3, <4>2 DEF HoldInv, StoreInv, Numbered
      <4> QED
        BY <4>1, <4>2
    <3> QED
      BY <2>3, <3>1 DEF StoreInv
  <2>5. WorkInv'
    BY <1>1, <2>1 DEF NoJobRuns, WorkInv
  <2>6. ASSUME NEW v \in versions' PROVE Sound(v)'
    <3>1. v \in versions /\ v.medium # m /\ v.medium \in Medium /\ Sound(v)
      BY <2>2 DEF HoldInv, TypeInv, DataOK, RowsOK, RowOK
    <3>2. Held(v)'
      BY <2>3, <3>1 DEF Sound, Held, Members
    <3> QED
      BY <1>1, <3>1, <3>2, SoundStays
  <2> QED
    BY <1>2, <2>4, <2>5, <2>6 DEF HoldInv
<1> QED
  BY <1>3, <1>4 DEF UpdateMedia, DeleteMedia

\* A scan and the hasher learn what is on the disk; a crash leaves no job.
LEMMA OthersHold ==
  ASSUME TypeInv, HoldInv, Undisturbed, UNCHANGED <<disk, versions, store>>,
         SourceInv', UNCHANGED job \/ job' = [w \in Worker |-> Idle]
  PROVE  HoldInv'
<1>1. StoreInv'
  BY DEF HoldInv, StoreInv, Numbered
<1>2. \A v : Sound(v) => Sound(v)'
  BY SoundStays DEF Sound, Held, Members
<1>3. \A v \in versions' : Sound(v)'
  BY <1>2 DEF HoldInv
<1>4. ASSUME NEW w \in Worker, job'[w].pc # "idle"
      PROVE  /\ \A x \in ToSet(job'[w].items) \union ToSet(job'[w].chunk) : Accurate(x)'
             /\ \A r \in job'[w].pending : Sound(r)'
             /\ "cancel" \notin Events => ~job'[w].cancelled
  <2>1. PICK k : k = job[w]
    OBVIOUS
  <2>2. job'[w] = k
    BY <1>4, <2>1 DEF Idle
  <2>3. Working(k)
    BY <1>4, <2>1, <2>2, HoldRuns
  <2>4. /\ \A x \in ToSet(k.items) \union ToSet(k.chunk) : Accurate(x)'
        /\ \A r \in k.pending : Sound(r)'
        /\ "cancel" \notin Events => ~k.cancelled
    BY <1>2, <2>3, AccurateStays DEF Working
  <2> QED
    BY <2>2, <2>4
<1> QED
  BY <1>1, <1>3, <1>4 DEF HoldInv, WorkInv

\* The index learns nothing that is not so.
LEMMA LearnHolds ==
  ASSUME TypeInv, HoldInv, Undisturbed, Scan \/ \E f \in File : HashFile(f)
  PROVE  HoldInv'
<1>1. UNCHANGED <<disk, versions, store, job>>
  BY DEF Scan, HashFile, disks, rows
<1>2. IndexOK /\ SourceInv
  BY DEF TypeInv, DataOK, HoldInv
<1>3. SourceInv'
  <2>1. CASE Scan
    <3>1. \A f \in File : disk[f] \in Content /\ disk[f] # Gone
      BY <1>2, ArchiveConstants DEF SourceInv
    <3>2. \A f \in File : /\ indexed'[f] = disk[f]
                          /\ hash'[f] = IF disk[f] \in {Gone, indexed[f]} THEN hash[f] ELSE Gone
      BY <2>1, <3>1 DEF Scan
    <3> QED
      BY <1>1, <1>2, <3>1, <3>2 DEF SourceInv
  <2>2. ASSUME NEW f \in File, HashFile(f) PROVE SourceInv'
    <3>1. disk[f] # Gone
      BY <1>2, ArchiveConstants DEF SourceInv
    <3>2. hash' = [hash EXCEPT ![f] = disk[f]] /\ UNCHANGED indexed
      BY <2>2, <3>1 DEF HashFile
    <3> QED
      BY <1>1, <1>2, <3>2 DEF SourceInv, IndexOK
  <2> QED
    BY <2>1, <2>2
<1> QED
  BY <1>1, <1>3, OthersHold

\* In the beginning there is nothing to hold.
LEMMA HoldInit == Init /\ Undisturbed => HoldInv
<1> SUFFICES ASSUME Init, Undisturbed PROVE HoldInv
  OBVIOUS
<1>1. SourceInv
  <2>1. \A f \in File : disk[f] \in Content
    <3>1. disk \in [File -> Content]
      BY DEF Init
    <3> QED
      BY <3>1
  <2> QED
    BY <2>1 DEF Init, SourceInv
<1>2. StoreInv
  <2>1. \A m \in Medium : DOMAIN store[m] = {}
    BY DEF Init
  <2> QED
    BY <2>1, FS_EmptySet DEF Init, StoreInv, Numbered
<1>3. WorkInv /\ versions = {}
  BY DEF Init, WorkInv, Idle
<1> QED
  BY <1>1, <1>2, <1>3 DEF HoldInv

\* Every step keeps rows and bytes together.
LEMMA HoldNext ==
  ASSUME Undisturbed, TypeInv, HoldInv, Exclusive => FreshInv, [Next]_vars
  PROVE  HoldInv'
<1>1. ASSUME NEW w \in Worker, WorkerStep(w) PROVE HoldInv'
  <2>1. ASSUME NEW n \in 1 .. Cardinality(File), Prepare(w, n) PROVE HoldInv'
    <3>1. n \in Nat
      BY ArchiveConstants, FS_CardinalityType
    <3> QED
      BY <2>1, <3>1, PrepareHolds
  <2> QED
    BY <1>1, <2>1, AssembleHolds, CopyHolds, ArchiveHolds, StopHolds, CommitHolds, EndBatchHolds
       DEF WorkerStep
<1>2. ASSUME NEW w \in Worker, \/ \E m \in Medium : Begin(w, m)
                               \/ WriteFault(w) \/ Cancel(w)
      PROVE  HoldInv'
  BY <1>2, BeginHolds, FaultHolds, StopHolds
<1>3. ASSUME NEW m \in Medium, \/ \E s \in {"active", "RETIRED"} : UpdateMedia(m, s)
                               \/ DeleteMedia(m) \/ InitializeMedia(m)
      PROVE  HoldInv'
  BY <1>3, AdminHolds
<1>4. ASSUME NEW f \in File, RemoveFile(f) \/ \E c \in Content : WriteFile(f, c)
      PROVE  HoldInv'
  BY <1>4 DEF RemoveFile, WriteFile, Undisturbed
<1>5. CASE Crash \/ UNCHANGED vars
  <2>1. /\ UNCHANGED <<disk, indexed, hash, versions, store>>
        /\ UNCHANGED job \/ job' = [w \in Worker |-> Idle]
    BY <1>5 DEF Crash, vars, disks, index, rows
  <2>2. SourceInv'
    BY <2>1 DEF HoldInv, SourceInv
  <2> QED
    BY <2>1, <2>2, OthersHold
<1> QED
  BY <1>1, <1>2, <1>3, <1>4, <1>5, LearnHolds DEF Next

-----------------------------------------------------------------------------
(* One backup at a time writes over no object that has a row.               *)

\* A step of the job.
LEMMA FreshStep ==
  ASSUME TypeInv, Exclusive, NEW w \in Worker, NEW j, job' = [job EXCEPT ![w] = j],
         \A v \in versions' : v.medium \in RandomAccess => Claimed(v.medium, v.slot)',
         j.pc # "idle" => FreshJob(j)'
  PROVE  FreshInv'
<1>1. ASSUME NEW u \in Worker, job'[u].pc # "idle" PROVE FreshJob(job[u])'
  <2>1. u = w /\ job'[u] = j
    BY DEF Exclusive, Alone, TypeInv, JobsOK
  <2>2. FreshJob(j)'
    BY <1>1, <2>1
  <2> QED
    BY <2>1, <2>2 DEF FreshJob, Settled
<1> QED
  BY <1>1 DEF FreshInv

\* One that leaves the rows alone.
LEMMA FreshQuiet ==
  ASSUME TypeInv, Exclusive, FreshInv, NEW w \in Worker, NEW j, job' = [job EXCEPT ![w] = j],
         UNCHANGED <<versions, coverage>>, j.pc # "idle" => FreshJob(j)
  PROVE  FreshInv'
<1>1. \A v \in versions' : v.medium \in RandomAccess => Claimed(v.medium, v.slot)'
  BY DEF FreshInv, Claimed
<1>2. j.pc # "idle" => FreshJob(j)'
  BY DEF FreshJob, Settled, HasRow
<1> QED
  BY <1>1, <1>2, FreshStep

\* What is chosen for a medium has no object there.
LEMMA ChosenFresh ==
  ASSUME TypeInv, FreshInv, NEW m \in RandomAccess, NEW x \in Chosen(m)
  PROVE  ~HasRow(m, ObjectName(x))
<1> SUFFICES ASSUME HasRow(m, ObjectName(x)) PROVE FALSE
  OBVIOUS
<1>1. PICK u \in versions : u.medium = m /\ u.slot = ObjectName(x)
  BY DEF HasRow
<1>2. Claimed(m, ObjectName(x))
  BY <1>1 DEF FreshInv
<1>3. /\ x \in Items /\ (x.copy => ~x.split)
      /\ IF x.copy THEN x.file \in Redundant(m) ELSE x.file \in FirstTime(m)
  BY DEF Chosen, Choice
<1>4. <<x.file, m>> \notin coverage /\ (x.split => ~OnMedium(x.file, m))
  BY <1>3 DEF Redundant, FirstTime, OnMedium
<1>5. CASE x.split
  <2>1. ObjectName(x) = <<x.file, x.lo, x.hi>>
    BY <1>5 DEF ObjectName
  <2>2. \A f : ObjectName(x) # <<f>>
    BY <2>1
  <2>3. PICK v \in versions : v.medium = m /\ <<x.file, x.lo, x.hi>> = <<v.file, v.lo, v.hi>>
    BY <1>2, <2>1, <2>2 DEF Claimed
  <2>4. v.file = x.file
    BY <2>3
  <2> QED
    BY <1>4, <1>5, <2>3, <2>4 DEF OnMedium, VersionsOf
<1>6. CASE ~x.split
  <2>1. ObjectName(x) = <<x.file>>
    BY <1>6 DEF ObjectName
  <2>2. \A f, l, h : ObjectName(x) # <<f, l, h>>
    BY <2>1
  <2>3. PICK f \in File : <<x.file>> = <<f>> /\ <<f, m>> \in coverage
    BY <1>2, <2>1, <2>2 DEF Claimed
  <2> QED
    BY <1>4, <2>3
<1> QED
  BY <1>5, <1>6

\* The start of a job and the choice of its batch.
LEMMA AssembleFresh ==
  ASSUME TypeInv, Exclusive, FreshInv, NEW w \in Worker,
         Assemble(w) \/ \E m \in Medium : Begin(w, m)
  PROVE  FreshInv'
<1>1. CASE Assemble(w)
  <2>1. PICK items : Assembled(w, items)
    BY <1>1, AssembledFields
  <2>2. /\ job[w].pc = "assemble" /\ RunOK(job[w])
        /\ UNCHANGED <<disks, index, rows, media, store>>
    BY <1>1, AssembledFields
  <2> DEFINE m == job[w].medium
             n == NewBatch(w, items)
             j == IF items = <<>> THEN Idle ELSE n
  <2>3. /\ items \in Seq(Chosen(m)) /\ job' = [job EXCEPT ![w] = j]
        /\ n.items = EmptyFirst(items) /\ n.medium = m /\ n.pc = "chunk"
        /\ n.pending = job[w].pending
    BY <2>1 DEF Assembled
  <2>4. ToSet(n.items) \subseteq Chosen(m)
    <3> HIDE DEF n, m
    <3> QED
      BY <2>3, EmptyFirstKeeps, ToSetFinite
  <2>5. FreshJob(job[w])
    BY <2>2 DEF FreshInv
  <2> HIDE DEF n, m
  <2>6. FreshJob(n)
    BY <2>2, <2>3, <2>4, <2>5, ChosenFresh DEF FreshJob, Settled
  <2>7. j.pc # "idle" => FreshJob(j)
    BY <2>6 DEF Idle
  <2> HIDE DEF j
  <2> QED
    BY <2>2, <2>3, <2>7, FreshQuiet DEF rows
<1>2. ASSUME NEW m \in Medium, Begin(w, m) PROVE FreshInv'
  <2> DEFINE n == [pc |-> "assemble", medium |-> m, base |-> used[m], batch |-> 0,
                   items |-> <<>>, chunk |-> <<>>, first |-> TRUE, created |-> FALSE,
                   pending |-> {}, cover |-> {}, bytes |-> 0,
                   skipped |-> {}, touched |-> {}, cancelled |-> FALSE]
  <2>1. job' = [job EXCEPT ![w] = n] /\ UNCHANGED <<versions, coverage>>
    BY <1>2 DEF Begin, rows
  <2>2. n.pc = "assemble" /\ n.pending = {}
    OBVIOUS
  <2> HIDE DEF n
  <2>3. FreshJob(n)
    BY <2>2 DEF FreshJob
  <2> QED
    BY <2>1, <2>3, FreshQuiet
<1> QED
  BY <1>1, <1>2

\* A disk's chunk is the whole batch.
LEMMA PrepareFresh ==
  ASSUME TypeInv, Exclusive, FreshInv, NEW w \in Worker, NEW n \in Nat, Prepare(w, n)
  PROVE  FreshInv'
<1>1. /\ RunOK(job[w]) /\ n \in 0 .. Len(job[w].items) /\ job[w].pc = "chunk"
      /\ UNCHANGED <<disks, index, rows, media, store>>
  BY PreparedFields
<1>2. PICK v : PreparedBy(w, n, v)
  BY PreparedFields
<1> DEFINE p == Prepared(w, n, v)
<1>3. /\ \A x \in Linked(w, n) : v[x] \in Dupes(x)
      /\ job' = [job EXCEPT ![w] = p]
      /\ p.medium = job[w].medium /\ p.pc \in {"write", "commit"}
      /\ ToSet(p.chunk) \subseteq ToSet(Chunk(job[w], n))
      /\ p.pending = {Link(x, v[x]) : x \in Linked(w, n)}
  BY <1>2 DEF PreparedBy
<1>4. p.items = SubSeq(job[w].items, n + 1, Len(job[w].items))
  <2>1. DOMAIN job[w] = JobFields
    BY <1>1 DEF RunOK
  <2> QED
    BY <2>1 DEF Prepared, JobFields
<1> HIDE DEF p
<1>5. FreshJob(job[w])
  BY <1>1 DEF FreshInv
<1>6. ASSUME NEW r \in p.pending PROVE HasRow(r.medium, r.slot)
  <2>1. PICK x \in Linked(w, n) : r = Link(x, v[x])
    BY <1>3
  <2>2. v[x] \in versions
    BY <1>3 DEF Dupes
  <2>3. r.medium = v[x].medium /\ r.slot = v[x].slot
    BY <2>1 DEF Link
  <2> QED
    BY <2>2, <2>3 DEF HasRow
<1>7. ASSUME NEW x \in ToSet(p.chunk), job[w].medium \in RandomAccess
      PROVE  ~HasRow(job[w].medium, ObjectName(x))
  <2>1. PICK y \in ToSet(job[w].items) : x = IF job[w].first THEN y ELSE Reloaded(y)
    <3>1. IndexOK
      BY DEF TypeInv, DataOK
    <3>2. x \in ToSet(Chunk(job[w], n))
      BY <1>3, <1>7
    <3> QED
      BY <1>1, <3>1, <3>2, ChunkOK
  <2>2. ~HasRow(job[w].medium, ObjectName(y))
    BY <1>1, <1>5, <1>7 DEF FreshJob
  <2>3. ToSet(job[w].items) \subseteq Items /\ indexed[y.file] # Gone
    BY <1>1, ToSetFinite DEF RunOK
  <2>4. ObjectName(x) = ObjectName(y)
    BY <2>1, <2>3, ReloadedOK DEF ObjectName, TypeInv, DataOK
  <2> QED
    BY <2>2, <2>4
<1>8. job[w].medium \in RandomAccess => ToSet(p.items) = {}
  <2>1. job[w].medium \in RandomAccess => n = Len(job[w].items)
    BY DEF Prepare
  <2>2. job[w].items \in Seq(Items)
    BY <1>1 DEF RunOK
  <2>3. SubSeq(job[w].items, Len(job[w].items) + 1, Len(job[w].items)) = <<>>
    BY <2>2
  <2> QED
    BY <1>4, <2>1, <2>3 DEF ToSet
<1>9. FreshJob(p)
  BY <1>3, <1>6, <1>7, <1>8 DEF FreshJob, Settled
<1> QED
  BY <1>1, <1>3, <1>9, FreshQuiet DEF rows

\* A row that a writer adds is claimed: by its range, or by the coverage of
\* its file.
LEMMA WriteFresh ==
  ASSUME TypeInv, HoldInv, Exclusive, FreshInv, NEW w \in Worker,
         CopyFiles(w) \/ StreamArchive(w) \/ StageArchive(w)
  PROVE  FreshInv'
<1> DEFINE m     == job[w].medium
           items == ToSet(job[w].chunk)
<1>1. job[w].pc = "write" /\ UNCHANGED <<versions, coverage>>
  BY DEF CopyFiles, StreamArchive, StageArchive, rows
<1>2. /\ RunOK(job[w]) /\ FreshJob(job[w])
      /\ job[w].chunk \in Seq(Items) /\ \A x \in items : x \in Items /\ Accurate(x)
  BY <1>1, HoldRuns, ChunkHere DEF FreshInv
<1>3. PICK for, bytes :
        /\ job' = [job EXCEPT ![w] = Written(w, for, bytes)]
        /\ \A r \in for : \E x \in items : \E slot :
             r = Row(w, x, slot) /\ (m \in RandomAccess => slot = ObjectName(x))
  <2>1. CASE CopyFiles(w)
    <3>1. PICK n \in Reached(w) :
            LET done == Present(SubSeq(job[w].chunk, 1, n)) IN
            job' = [job EXCEPT ![w] =
              Written(w, {Row(w, x, ObjectName(x)) : x \in ToSet(done)}, TotalLength(done))]
      BY <2>1, Zenon DEF CopyFiles
    <3> PICK done : done = Present(SubSeq(job[w].chunk, 1, n))
      OBVIOUS
    <3> DEFINE for == {Row(w, x, ObjectName(x)) : x \in ToSet(done)}
    <3>2. job' = [job EXCEPT ![w] = Written(w, for, TotalLength(done))]
      BY <3>1
    <3>3. ToSet(done) \subseteq items
      BY <1>2, ReachedOK
    <3>4. \A r \in for : \E x \in items : r = Row(w, x, ObjectName(x))
      BY <3>3
    <3> HIDE DEF for, items
    <3> QED
      BY <3>2, <3>4
  <2>2. CASE StreamArchive(w) \/ StageArchive(w)
    <3> DEFINE slot == NextArchive(m)
               for  == {Row(w, x, slot) : x \in items}
    <3>1. m \notin RandomAccess
      BY <2>2 DEF StreamArchive, StageArchive
    <3>2. PICK bytes : job' = [job EXCEPT ![w] = Written(w, for, bytes)]
      BY <2>2, Zenon DEF StreamArchive, StageArchive
    <3>3. \A r \in for : \E x \in items : r = Row(w, x, slot)
      OBVIOUS
    <3> HIDE DEF for, items, m
    <3> QED
      BY <3>1, <3>2, <3>3
  <2> QED
    BY <2>1, <2>2
<1> PICK n : n = Written(w, for, bytes)
  OBVIOUS
<1>4. /\ n.items = job[w].items /\ n.pc = "commit" /\ n.medium = m
      /\ n.pending = job[w].pending \union for
      /\ n.cover = {x.file : x \in {y \in items : y.whole}}
  <2>1. DOMAIN job[w] = JobFields
    BY <1>2 DEF RunOK
  <2> QED
    BY <2>1 DEF Written, JobFields
<1>5. ASSUME NEW r \in for, r.medium \in RandomAccess PROVE Settled(n, r)
  <2>0. PICK x \in items : \E slot :
          r = Row(w, x, slot) /\ (m \in RandomAccess => slot = ObjectName(x))
    BY <1>3
  <2>1. PICK slot : r = Row(w, x, slot) /\ (m \in RandomAccess => slot = ObjectName(x))
    BY <2>0
  <2>2. r.medium = m /\ r.slot = slot /\ r.file = x.file /\ r.lo = x.lo /\ r.hi = x.hi
    BY <2>1 DEF Row
  <2>3. x.split \/ x.whole
    BY <1>2 DEF Accurate
  <2>4. x.whole => x.file \in n.cover
    BY <1>4
  <2>5. r.slot = IF x.split THEN <<r.file, r.lo, r.hi>> ELSE <<r.file>>
    BY <1>5, <2>1, <2>2 DEF ObjectName
  <2> HIDE DEF m, items
  <2> QED
    BY <1>4, <2>2, <2>3, <2>4, <2>5 DEF Settled
<1>6. ASSUME NEW r \in job[w].pending, r.medium \in RandomAccess PROVE Settled(n, r)
  BY <1>1, <1>2, <1>6 DEF FreshJob, Settled
<1>7. FreshJob(n)
  BY <1>1, <1>2, <1>4, <1>5, <1>6 DEF FreshJob
<1> QED
  BY <1>1, <1>3, <1>7, FreshQuiet

\* A job that stops or is cancelled.
LEMMA StopFresh ==
  ASSUME TypeInv, Exclusive, FreshInv, NEW w \in Worker,
         WriteFault(w) \/ MediumLost(w) \/ DropStaged(w) \/ Cancel(w)
  PROVE  FreshInv'
<1> DEFINE stopped  == [job[w] EXCEPT !.pc = "chunk"]
           canceled == [job[w] EXCEPT !.cancelled = TRUE]
<1>1. job[w].pc # "idle" /\ UNCHANGED <<versions, coverage>>
  BY DEF WriteFault, MediumLost, DropStaged, Cancel, rows
<1>2. RunOK(job[w]) /\ FreshJob(job[w])
  BY <1>1, RunsOK DEF FreshInv
<1>3. \/ job' = [job EXCEPT ![w] = Idle]
      \/ /\ job' = [job EXCEPT ![w] = stopped]
         /\ job[w].pc = "write" /\ job[w].medium \notin RandomAccess
      \/ job' = [job EXCEPT ![w] = canceled]
  BY DEF WriteFault, MediumLost, DropStaged, Cancel, Step
<1>4. /\ stopped.pc = "chunk" /\ stopped.medium = job[w].medium
      /\ stopped.pending = job[w].pending
      /\ canceled.pc = job[w].pc /\ canceled.medium = job[w].medium
      /\ canceled.pending = job[w].pending /\ canceled.items = job[w].items
      /\ canceled.chunk = job[w].chunk /\ canceled.cover = job[w].cover
  BY <1>2 DEF RunOK, JobFields
<1> HIDE DEF stopped, canceled
<1>5. job[w].pc = "write" /\ job[w].medium \notin RandomAccess => FreshJob(stopped)
  BY <1>2, <1>4 DEF FreshJob, Settled
<1>6. FreshJob(canceled)
  BY <1>2, <1>4 DEF FreshJob, Settled
<1>7. Idle.pc = "idle"
  BY DEF Idle
<1> QED
  BY <1>1, <1>3, <1>5, <1>6, <1>7, FreshQuiet

\* Rows stay claimed when more come.
LEMMA ClaimedStays ==
  ASSUME versions \subseteq versions', coverage \subseteq coverage', NEW m, NEW s, Claimed(m, s)
  PROVE  Claimed(m, s)'
BY DEF Claimed

\* What the insertion of a session's rows leaves claimed.
LEMMA InsertFresh ==
  ASSUME TypeInv, FreshInv, NEW w \in Worker, job[w].pc # "idle",
         versions' = versions \union Stamp(job[w].pending), coverage \subseteq coverage',
         job[w].pc = "commit" => \A f \in job[w].cover : <<f, job[w].medium>> \in coverage'
  PROVE  /\ \A v \in versions' : v.medium \in RandomAccess => Claimed(v.medium, v.slot)'
         /\ \A r \in job[w].pending : HasRow(r.medium, r.slot)'
<1>1. RunOK(job[w]) /\ FreshJob(job[w])
  BY RunsOK DEF FreshInv
<1>2. ASSUME NEW r \in job[w].pending
      PROVE  \E s \in versions' : /\ s = [r EXCEPT !.txn = txn]
                                  /\ s.medium = r.medium /\ s.slot = r.slot /\ s.file = r.file
                                  /\ s.lo = r.lo /\ s.hi = r.hi
  <2> DEFINE s == [r EXCEPT !.txn = txn]
  <2>1. s \in versions'
    BY DEF Stamp
  <2>2. DOMAIN r = RowFields
    BY <1>1 DEF RunOK, RowOK
  <2>3. /\ s.medium = r.medium /\ s.slot = r.slot /\ s.file = r.file
        /\ s.lo = r.lo /\ s.hi = r.hi
    BY <2>2 DEF RowFields
  <2> QED
    BY <2>1, <2>3
<1>3. \A v \in versions : v.medium \in RandomAccess => Claimed(v.medium, v.slot)'
  BY ClaimedStays DEF FreshInv
<1>4. ASSUME NEW r \in job[w].pending, r.medium \in RandomAccess
      PROVE  Claimed(r.medium, r.slot)'
  <2>1. Settled(job[w], r)
    BY <1>1, <1>4 DEF FreshJob
  <2>2. CASE HasRow(r.medium, r.slot)
    BY <1>3, <1>4, <2>2 DEF HasRow
  <2>3. CASE r.medium = job[w].medium /\ r.slot = <<r.file, r.lo, r.hi>>
    BY <1>2, <2>3 DEF Claimed
  <2>4. CASE /\ job[w].pc = "commit" /\ r.medium = job[w].medium
             /\ r.slot = <<r.file>> /\ r.file \in job[w].cover
    <3>1. <<r.file, r.medium>> \in coverage' /\ r.file \in File
      BY <1>1, <2>4 DEF RunOK, RowOK
    <3> QED
      BY <2>4, <3>1 DEF Claimed
  <2> QED
    BY <2>1, <2>2, <2>3, <2>4 DEF Settled
<1>5. ASSUME NEW v \in versions', v.medium \in RandomAccess PROVE Claimed(v.medium, v.slot)'
  <2>1. CASE v \in versions
    BY <1>3, <1>5, <2>1
  <2>2. CASE v \in Stamp(job[w].pending)
    <3>1. PICK r \in job[w].pending : v = [r EXCEPT !.txn = txn]
      BY <2>2 DEF Stamp
    <3>2. v.medium = r.medium /\ v.slot = r.slot
      BY <1>2, <3>1
    <3> QED
      BY <1>4, <1>5, <3>2
  <2> QED
    BY <2>1, <2>2
<1>6. \A r \in job[w].pending : HasRow(r.medium, r.slot)'
  BY <1>2 DEF HasRow
<1> QED
  BY <1>5, <1>6

\* The checkpoint after a chunk.
LEMMA CommitFresh ==
  ASSUME TypeInv, Exclusive, FreshInv, NEW w \in Worker, Commit(w)
  PROVE  FreshInv'
<1> PICK n : n = [job[w] EXCEPT !.pc = "chunk", !.chunk = <<>>, !.pending = {}, !.cover = {},
                                !.bytes = 0]
  OBVIOUS
<1>1. job[w].pc = "commit"
  BY DEF Commit
<1>2. RunOK(job[w]) /\ FreshJob(job[w])
  BY <1>1, RunsOK DEF FreshInv
<1>3. CASE job' = [job EXCEPT ![w] = Idle] /\ UNCHANGED rows
  BY <1>3, FreshQuiet DEF Idle, rows
<1>4. CASE /\ versions' = versions \union Stamp(job[w].pending)
           /\ AddCoverage({<<f, job[w].medium>> : f \in job[w].cover})
           /\ job' = [job EXCEPT ![w] = n]
  <2>1. /\ coverage \subseteq coverage'
        /\ \A f \in job[w].cover : <<f, job[w].medium>> \in coverage'
    BY <1>4 DEF AddCoverage
  <2>2. \A v \in versions' : v.medium \in RandomAccess => Claimed(v.medium, v.slot)'
    BY <1>1, <1>4, <2>1, InsertFresh
  <2>3. n.pc = "chunk" /\ n.pending = {} /\ n.items = job[w].items /\ n.medium = job[w].medium
    BY <1>2 DEF RunOK, JobFields
  <2>4. FreshJob(n)'
    BY <1>1, <1>2, <2>3 DEF FreshJob
  <2> QED
    BY <1>4, <2>2, <2>4, FreshStep
<1> QED
  BY <1>3, <1>4 DEF Commit

\* The end of a batch.
LEMMA EndBatchFresh ==
  ASSUME TypeInv, Exclusive, FreshInv, NEW w \in Worker, EndBatch(w)
  PROVE  FreshInv'
<1> PICK n : n = [job[w] EXCEPT !.pc = "assemble", !.base = used[job[w].medium]]
  OBVIOUS
<1>1. job[w].pc = "chunk" /\ UNCHANGED coverage
  BY DEF EndBatch
<1>2. RunOK(job[w])
  BY <1>1, RunsOK
<1>3. CASE job' = [job EXCEPT ![w] = Idle] /\ UNCHANGED versions
  BY <1>1, <1>3, FreshQuiet DEF Idle
<1>4. CASE /\ versions' = versions \union Stamp(job[w].pending)
           /\ \/ job' = [job EXCEPT ![w] = Idle]
              \/ job' = [job EXCEPT ![w] = n]
  <2>1. /\ \A v \in versions' : v.medium \in RandomAccess => Claimed(v.medium, v.slot)'
        /\ \A r \in job[w].pending : HasRow(r.medium, r.slot)'
    BY <1>1, <1>4, InsertFresh
  <2>2. n.pc = "assemble" /\ n.pending = job[w].pending
    BY <1>2 DEF RunOK, JobFields
  <2>3. FreshJob(n)'
    BY <2>1, <2>2 DEF FreshJob, Settled
  <2>4. Idle.pc = "idle"
    BY DEF Idle
  <2> QED
    BY <1>4, <2>1, <2>3, <2>4, FreshStep
<1> QED
  BY <1>3, <1>4 DEF EndBatch

\* Who administers a medium takes a medium's rows and coverage together.
LEMMA AdminFresh ==
  ASSUME TypeInv, Exclusive, FreshInv, NEW m \in Medium,
         \/ \E s \in {"active", "RETIRED"} : UpdateMedia(m, s)
         \/ DeleteMedia(m) \/ InitializeMedia(m)
  PROVE  FreshInv'
<1>1. UNCHANGED job /\ \A w \in Worker : job[w].pc = "idle"
  BY DEF UpdateMedia, DeleteMedia, InitializeMedia, Allowed, Exclusive, NoJobRuns
<1>2. UNCHANGED <<versions, coverage>> \/ Purge(m)
  BY DEF UpdateMedia, DeleteMedia, InitializeMedia
<1>3. CASE UNCHANGED <<versions, coverage>>
  BY <1>1, <1>3 DEF FreshInv, Claimed
<1>4. CASE Purge(m)
  <2>1. /\ versions' = {v \in versions : v.medium # m}
        /\ coverage' = {p \in coverage : p[2] # m}
    BY <1>4 DEF Purge
  <2>2. ASSUME NEW x, x # m, NEW n, Claimed(x, n) PROVE Claimed(x, n)'
    BY <2>1, <2>2 DEF Claimed
  <2>3. \A v \in versions' : v.medium \in RandomAccess => Claimed(v.medium, v.slot)'
    BY <2>1, <2>2 DEF FreshInv
  <2> QED
    BY <1>1, <2>3 DEF FreshInv
<1> QED
  BY <1>2, <1>3, <1>4

\* In the beginning there are no rows.
LEMMA FreshInit == Init => FreshInv
BY DEF Init, FreshInv, Idle

\* Every step keeps the objects of a disk apart.
LEMMA FreshNext ==
  ASSUME TypeInv, HoldInv, Exclusive, FreshInv, Undisturbed, [Next]_vars
  PROVE  FreshInv'
<1>1. ASSUME NEW w \in Worker, WorkerStep(w) PROVE FreshInv'
  <2>1. ASSUME NEW n \in 1 .. Cardinality(File), Prepare(w, n) PROVE FreshInv'
    <3>1. n \in Nat
      BY ArchiveConstants, FS_CardinalityType
    <3> QED
      BY <2>1, <3>1, PrepareFresh
  <2> QED
    BY <1>1, <2>1, AssembleFresh, WriteFresh, StopFresh, CommitFresh, EndBatchFresh DEF WorkerStep
<1>2. ASSUME NEW w \in Worker, \/ \E m \in Medium : Begin(w, m)
                               \/ WriteFault(w) \/ Cancel(w)
      PROVE  FreshInv'
  BY <1>2, AssembleFresh, StopFresh
<1>3. ASSUME NEW m \in Medium, \/ \E s \in {"active", "RETIRED"} : UpdateMedia(m, s)
                               \/ DeleteMedia(m) \/ InitializeMedia(m)
      PROVE  FreshInv'
  BY <1>3, AdminFresh
<1>4. ASSUME NEW f \in File, RemoveFile(f) \/ \E c \in Content : WriteFile(f, c)
      PROVE  FreshInv'
  BY <1>4 DEF RemoveFile, WriteFile, Undisturbed
<1>5. CASE Scan \/ (\E f \in File : HashFile(f)) \/ UNCHANGED vars
  <2>1. UNCHANGED <<versions, coverage, job>>
    BY <1>5 DEF Scan, HashFile, vars, rows
  <2>2. versions' = versions /\ coverage' = coverage /\ job' = job
    BY <2>1
  <2>3. ASSUME NEW j, FreshJob(j) PROVE FreshJob(j)'
    BY <2>2, <2>3 DEF FreshJob, Settled, HasRow
  <2>4. ASSUME NEW w \in Worker, job[w].pc # "idle" PROVE FreshJob(job[w])'
    <3>1. PICK j : j = job[w]
      OBVIOUS
    <3>2. FreshJob(j)'
      BY <2>3, <2>4, <3>1 DEF FreshInv
    <3> QED
      BY <2>2, <3>1, <3>2
  <2> QED
    BY <2>2, <2>4 DEF FreshInv, Claimed
<1>6. CASE Crash
  <2>1. UNCHANGED <<versions, coverage>> /\ job' = [w \in Worker |-> Idle]
    BY <1>6 DEF Crash, rows
  <2> QED
    BY <2>1 DEF FreshInv, Claimed, Idle
<1> QED
  BY <1>1, <1>2, <1>3, <1>4, <1>5, <1>6 DEF Next

\* Every row of file_versions points at bytes that are there, whatever crashes,
\* faults, cancellations, purges and links come between a write and its commit.
THEOREM RowsHoldContentHolds ==
  ASSUME Undisturbed PROVE Spec => []RowsHoldContent
<1> DEFINE IInv == TypeInv /\ HoldInv /\ (Exclusive => FreshInv)
<1>1. Init => IInv
  BY TypeInit, HoldInit, FreshInit
<1>2. IInv /\ [Next]_vars => IInv'
  <2> SUFFICES ASSUME IInv, [Next]_vars PROVE IInv'
    OBVIOUS
  <2>1. TypeInv'
    BY TypeNext
  <2>2. HoldInv'
    BY HoldNext
  <2>3. (Exclusive => FreshInv)'
    BY FreshNext DEF Exclusive
  <2> QED
    BY <2>1, <2>2, <2>3
<1>3. IInv => RowsHoldContent
  BY DEF HoldInv, Sound, RowsHoldContent
<1> QED
  BY <1>1, <1>2, <1>3, PTL DEF Spec

-----------------------------------------------------------------------------
(* No more copies than the target asks for.                                 *)

\* A job may cover f on m: f wants one more copy, or m counts as one already.
Wants(f, m) == redundancy[f] < Target \/ <<f, m>> \in coverage

\* A job covers what it has still to do, what it writes and what it commits.
SpareJob(j) ==
  /\ j.pc \in {"chunk", "write", "commit"} => \A x \in ToSet(j.items) : Wants(x.file, j.medium)
  /\ j.pc = "write" => \A x \in ToSet(j.chunk) : Wants(x.file, j.medium)
  /\ \A f \in j.cover : Wants(f, j.medium)
  /\ j.pc # "commit" => j.cover = {}

SpareInv ==
  /\ \A f \in File : redundancy[f] <= Target
  /\ \A w \in Worker : job[w].pc # "idle" => SpareJob(job[w])

\* A step of the only job.
LEMMA SpareStep ==
  ASSUME TypeInv, Alone, NEW w \in Worker, NEW j, job' = [job EXCEPT ![w] = j],
         \A f \in File : redundancy'[f] <= Target,
         j.pc # "idle" => SpareJob(j)'
  PROVE  SpareInv'
<1>1. ASSUME NEW u \in Worker, job'[u].pc # "idle" PROVE SpareJob(job[u])'
  <2>1. u = w /\ job'[u] = j
    BY DEF Alone, TypeInv, JobsOK
  <2>2. SpareJob(j)'
    BY <1>1, <2>1
  <2> QED
    BY <2>1, <2>2 DEF SpareJob, Wants
<1> QED
  BY <1>1 DEF SpareInv

\* One that leaves the coverage alone.
LEMMA SpareQuiet ==
  ASSUME TypeInv, Alone, SpareInv, NEW w \in Worker, NEW j, job' = [job EXCEPT ![w] = j],
         UNCHANGED <<coverage, redundancy>>, j.pc # "idle" => SpareJob(j)
  PROVE  SpareInv'
<1>1. \A f \in File : redundancy'[f] <= Target
  BY DEF SpareInv
<1>2. j.pc # "idle" => SpareJob(j)'
  BY DEF SpareJob, Wants
<1> QED
  BY <1>1, <1>2, SpareStep

\* The start of a job and the choice of its batch: both queries ask for files
\* below the target.
LEMMA AssembleSpare ==
  ASSUME TypeInv, Alone, SpareInv, NEW w \in Worker,
         Assemble(w) \/ \E m \in Medium : Begin(w, m)
  PROVE  SpareInv'
<1>1. CASE Assemble(w)
  <2>1. PICK items : Assembled(w, items)
    BY <1>1, AssembledFields
  <2>2. /\ job[w].pc = "assemble" /\ RunOK(job[w])
        /\ UNCHANGED <<disks, index, rows, media, store>>
    BY <1>1, AssembledFields
  <2> DEFINE m == job[w].medium
             n == NewBatch(w, items)
             j == IF items = <<>> THEN Idle ELSE n
  <2>3. /\ items \in Seq(Chosen(m)) /\ job' = [job EXCEPT ![w] = j]
        /\ n.items = EmptyFirst(items) /\ n.medium = m /\ n.pc = "chunk"
        /\ n.cover = job[w].cover
    BY <2>1 DEF Assembled
  <2>4. ToSet(n.items) \subseteq Chosen(m)
    <3> HIDE DEF n, m
    <3> QED
      BY <2>3, EmptyFirstKeeps, ToSetFinite
  <2>5. n.cover = {}
    BY <2>2, <2>3 DEF SpareInv, SpareJob
  <2>6. \A x \in Chosen(m) : Wants(x.file, m)
    BY DEF Chosen, Choice, Redundant, FirstTime, Wants
  <2> HIDE DEF n, m
  <2>7. SpareJob(n)
    BY <2>3, <2>4, <2>5, <2>6 DEF SpareJob
  <2>8. j.pc # "idle" => SpareJob(j)
    BY <2>7 DEF Idle
  <2> HIDE DEF j
  <2> QED
    BY <2>2, <2>3, <2>8, SpareQuiet DEF rows
<1>2. ASSUME NEW m \in Medium, Begin(w, m) PROVE SpareInv'
  <2> DEFINE n == [pc |-> "assemble", medium |-> m, base |-> used[m], batch |-> 0,
                   items |-> <<>>, chunk |-> <<>>, first |-> TRUE, created |-> FALSE,
                   pending |-> {}, cover |-> {}, bytes |-> 0,
                   skipped |-> {}, touched |-> {}, cancelled |-> FALSE]
  <2>1. job' = [job EXCEPT ![w] = n] /\ UNCHANGED rows
    BY <1>2 DEF Begin
  <2>2. n.pc = "assemble" /\ n.cover = {}
    OBVIOUS
  <2> HIDE DEF n
  <2>3. SpareJob(n)
    BY <2>2 DEF SpareJob
  <2> QED
    BY <2>1, <2>3, SpareQuiet DEF rows
<1> QED
  BY <1>1, <1>2

\* A chunk is made of the batch.
LEMMA PrepareSpare ==
  ASSUME TypeInv, Alone, SpareInv, NEW w \in Worker, NEW n \in Nat, Prepare(w, n)
  PROVE  SpareInv'
<1>1. /\ RunOK(job[w]) /\ n \in 0 .. Len(job[w].items) /\ job[w].pc = "chunk"
      /\ UNCHANGED <<disks, index, rows, media, store>>
  BY PreparedFields
<1>2. PICK v : PreparedBy(w, n, v)
  BY PreparedFields
<1> PICK p : p = Prepared(w, n, v)
  OBVIOUS
<1>3. /\ job' = [job EXCEPT ![w] = p]
      /\ p.medium = job[w].medium /\ p.cover = job[w].cover
      /\ ToSet(p.items) \subseteq ToSet(job[w].items)
      /\ ToSet(p.chunk) \subseteq ToSet(Chunk(job[w], n))
  BY <1>2 DEF PreparedBy
<1>4. SpareJob(job[w])
  BY <1>1 DEF SpareInv
<1>5. ASSUME NEW x \in ToSet(p.chunk) PROVE Wants(x.file, p.medium)
  <2>1. PICK y \in ToSet(job[w].items) : x = IF job[w].first THEN y ELSE Reloaded(y)
    BY <1>1, <1>3, ChunkOK DEF TypeInv, DataOK
  <2>2. ToSet(job[w].items) \subseteq Items /\ indexed[y.file] # Gone
    BY <1>1, ToSetFinite DEF RunOK
  <2>3. x.file = y.file
    BY <2>1, <2>2, ReloadedOK DEF TypeInv, DataOK
  <2> QED
    BY <1>1, <1>3, <1>4, <2>1, <2>3 DEF SpareJob
<1>6. SpareJob(p)
  BY <1>1, <1>3, <1>4, <1>5 DEF SpareJob
<1> QED
  BY <1>1, <1>3, <1>6, SpareQuiet DEF rows

\* A writer covers files of its chunk.
LEMMA WriteSpare ==
  ASSUME TypeInv, Alone, SpareInv, NEW w \in Worker,
         CopyFiles(w) \/ StreamArchive(w) \/ StageArchive(w)
  PROVE  SpareInv'
<1>1. job[w].pc = "write" /\ UNCHANGED <<coverage, redundancy>>
  BY DEF CopyFiles, StreamArchive, StageArchive, rows
<1>2. RunOK(job[w]) /\ SpareJob(job[w])
  BY <1>1, RunsOK DEF SpareInv
<1>3. PICK for, bytes : job' = [job EXCEPT ![w] = Written(w, for, bytes)]
  BY Zenon DEF CopyFiles, StreamArchive, StageArchive
<1> PICK n : n = Written(w, for, bytes)
  OBVIOUS
<1>4. /\ n.items = job[w].items /\ n.pc = "commit" /\ n.medium = job[w].medium
      /\ n.cover = {x.file : x \in {y \in ToSet(job[w].chunk) : y.whole}}
  <2>1. DOMAIN job[w] = JobFields
    BY <1>2 DEF RunOK
  <2> QED
    BY <2>1 DEF Written, JobFields
<1>5. SpareJob(n)
  BY <1>1, <1>2, <1>4 DEF SpareJob
<1> QED
  BY <1>1, <1>3, <1>5, SpareQuiet

\* A job that stops or is cancelled.
LEMMA StopSpare ==
  ASSUME TypeInv, Alone, SpareInv, NEW w \in Worker,
         WriteFault(w) \/ MediumLost(w) \/ DropStaged(w) \/ Cancel(w)
  PROVE  SpareInv'
<1> PICK stopped : stopped = [job[w] EXCEPT !.pc = "chunk"]
  OBVIOUS
<1> PICK canceled : canceled = [job[w] EXCEPT !.cancelled = TRUE]
  OBVIOUS
<1>1. job[w].pc # "idle" /\ UNCHANGED <<coverage, redundancy>>
  BY DEF WriteFault, MediumLost, DropStaged, Cancel, rows
<1>2. RunOK(job[w]) /\ SpareJob(job[w])
  BY <1>1, RunsOK DEF SpareInv
<1>3. \/ job' = [job EXCEPT ![w] = Idle]
      \/ job' = [job EXCEPT ![w] = stopped] /\ job[w].pc = "write"
      \/ job' = [job EXCEPT ![w] = canceled]
  BY DEF WriteFault, MediumLost, DropStaged, Cancel, Step
<1>4. /\ stopped.pc = "chunk" /\ stopped.medium = job[w].medium
      /\ stopped.items = job[w].items /\ stopped.cover = job[w].cover
      /\ canceled.pc = job[w].pc /\ canceled.medium = job[w].medium
      /\ canceled.items = job[w].items
      /\ canceled.chunk = job[w].chunk /\ canceled.cover = job[w].cover
  BY <1>2 DEF RunOK, JobFields
<1>5. job[w].pc = "write" => SpareJob(stopped)
  BY <1>2, <1>4 DEF SpareJob
<1>6. SpareJob(canceled)
  BY <1>2, <1>4 DEF SpareJob
<1>7. Idle.pc = "idle"
  BY DEF Idle
<1> QED
  BY <1>1, <1>3, <1>5, <1>6, <1>7, SpareQuiet

\* f has one more copy if the files F are covered on m and it is one of them.
Counted(f, F, m) ==
  /\ redundancy'[f] = IF f \in F /\ <<f, m>> \notin coverage
                      THEN redundancy[f] + 1 ELSE redundancy[f]
  /\ redundancy[f] \in Nat

\* A checkpoint counts a file at most once more, and not the others.
LEMMA CoverageAdds ==
  ASSUME CountInv, NEW F, NEW m, AddCoverage({<<g, m>> : g \in F}), NEW f \in File
  PROVE  Counted(f, F, m)
<1> DEFINE new == {p \in {<<g, m>> : g \in F} \ coverage : p[1] = f}
<1>1. redundancy'[f] = redundancy[f] + Cardinality(new)
  BY DEF AddCoverage
<1>2. new = IF f \in F /\ <<f, m>> \notin coverage THEN {<<f, m>>} ELSE {}
  OBVIOUS
<1> HIDE DEF new
<1>3. redundancy[f] \in Nat
  BY FS_CardinalityType DEF CountInv, CountIsCoverage
<1>4. CASE f \in F /\ <<f, m>> \notin coverage
  <2>1. Cardinality(new) = 1
    BY <1>2, <1>4, FS_Singleton
  <2> QED
    BY <1>1, <1>3, <1>4, <2>1 DEF Counted
<1>5. CASE ~(f \in F /\ <<f, m>> \notin coverage)
  <2>1. Cardinality(new) = 0
    BY <1>2, <1>5, FS_EmptySet
  <2> QED
    BY <1>1, <1>3, <1>5, <2>1 DEF Counted
<1> QED
  BY <1>4, <1>5

\* The checkpoint after a chunk: what else the job is to do may still be done.
LEMMA CommitSpare ==
  ASSUME TypeInv, Alone, CountInv, SpareInv, NEW w \in Worker, Commit(w)
  PROVE  SpareInv'
<1> PICK n : n = [job[w] EXCEPT !.pc = "chunk", !.chunk = <<>>, !.pending = {}, !.cover = {},
                                !.bytes = 0]
  OBVIOUS
<1> PICK m : m = job[w].medium
  OBVIOUS
<1> PICK F : F = job[w].cover
  OBVIOUS
<1>1. job[w].pc = "commit"
  BY DEF Commit
<1>2. RunOK(job[w]) /\ SpareJob(job[w])
  BY <1>1, RunsOK DEF SpareInv
<1>3. CASE job' = [job EXCEPT ![w] = Idle] /\ UNCHANGED rows
  BY <1>3, SpareQuiet DEF Idle, rows
<1>4. CASE AddCoverage({<<g, m>> : g \in F}) /\ job' = [job EXCEPT ![w] = n]
  <2>1. ASSUME NEW f \in File
        PROVE  /\ redundancy'[f] <= Target
               /\ Wants(f, m) => redundancy'[f] < Target \/ <<f, m>> \in coverage'
    <3>1. Counted(f, F, m)
      BY <1>4, CoverageAdds, Zenon
    <3>2. f \in F => Wants(f, m) /\ <<f, m>> \in coverage'
      <4>1. \A g \in F : <<g, m>> \in coverage'
        BY <1>4 DEF AddCoverage
      <4>2. \A g \in F : Wants(g, m)
        BY <1>2 DEF SpareJob
      <4> QED
        BY <4>1, <4>2
    <3>3. redundancy[f] <= Target /\ Target \in Nat /\ coverage \subseteq coverage'
      BY <1>4, ArchiveConstants DEF SpareInv, AddCoverage
    <3> QED
      BY <3>1, <3>2, <3>3 DEF Counted, Wants
  <2>2. n.pc = "chunk" /\ n.items = job[w].items /\ n.medium = m /\ n.cover = {}
    BY <1>2 DEF RunOK, JobFields
  <2>3. \A x \in ToSet(n.items) : x.file \in File /\ Wants(x.file, m)
    <3>1. ToSet(job[w].items) \subseteq Items
      BY <1>2, ToSetFinite DEF RunOK
    <3> QED
      BY <1>1, <1>2, <2>2, <3>1 DEF SpareJob, Items
  <2>4. SpareJob(n)'
    BY <2>1, <2>2, <2>3 DEF SpareJob, Wants
  <2> QED
    BY <1>4, <2>1, <2>4, SpareStep
<1> QED
  BY <1>3, <1>4 DEF Commit

\* The end of a batch.
LEMMA EndBatchSpare ==
  ASSUME TypeInv, Alone, SpareInv, NEW w \in Worker, EndBatch(w)
  PROVE  SpareInv'
<1> PICK n : n = [job[w] EXCEPT !.pc = "assemble", !.base = used[job[w].medium]]
  OBVIOUS
<1>1. job[w].pc = "chunk" /\ UNCHANGED <<coverage, redundancy>>
      /\ job' \in {[job EXCEPT ![w] = Idle], [job EXCEPT ![w] = n]}
  BY DEF EndBatch
<1>2. RunOK(job[w]) /\ SpareJob(job[w])
  BY <1>1, RunsOK DEF SpareInv
<1>3. n.pc = "assemble" /\ n.cover = {}
  BY <1>1, <1>2 DEF RunOK, JobFields, SpareJob
<1>4. SpareJob(n) /\ Idle.pc = "idle"
  BY <1>3 DEF SpareJob, Idle
<1> QED
  BY <1>1, <1>4, SpareQuiet

\* A purge takes a copy back, and what was a copy is wanted again.
LEMMA AdminSpare ==
  ASSUME TypeInv, CountInv, SpareInv, NEW m \in Medium,
         \/ \E s \in {"active", "RETIRED"} : UpdateMedia(m, s)
         \/ DeleteMedia(m) \/ InitializeMedia(m)
  PROVE  SpareInv'
<1>1. UNCHANGED job
  BY DEF UpdateMedia, DeleteMedia, InitializeMedia
<1>2. UNCHANGED <<coverage, redundancy>> \/ Purge(m)
  BY DEF UpdateMedia, DeleteMedia, InitializeMedia
<1>3. CASE UNCHANGED <<coverage, redundancy>>
  BY <1>1, <1>3 DEF SpareInv, SpareJob, Wants
<1>4. CASE Purge(m)
  <2>1. ASSUME NEW f \in File
        PROVE  /\ redundancy'[f] <= Target
               /\ \A k : Wants(f, k) => redundancy'[f] < Target \/ <<f, k>> \in coverage'
    <3>1. redundancy[f] \in Nat /\ redundancy[f] <= Target /\ Target \in Nat
      BY ArchiveConstants, FS_CardinalityType DEF CountInv, CountIsCoverage, SpareInv
    <3> QED
      BY <1>4, <3>1 DEF Purge, Wants
  <2>2. ASSUME NEW w \in Worker, job[w].pc # "idle" PROVE SpareJob(job[w])'
    <3>1. RunOK(job[w]) /\ SpareJob(job[w])
      BY <2>2, RunsOK DEF SpareInv
    <3>2. /\ \A x \in ToSet(job[w].items) \union ToSet(job[w].chunk) : x.file \in File
          /\ job[w].cover \subseteq File
      <4>1. ToSet(job[w].items) \subseteq Items /\ ToSet(job[w].chunk) \subseteq Items
        BY <3>1, ToSetFinite DEF RunOK
      <4> QED
        BY <3>1, <4>1 DEF RunOK, Items
    <3> QED
      BY <1>1, <2>1, <3>1, <3>2 DEF SpareJob, Wants
  <2> QED
    BY <1>1, <2>1, <2>2 DEF SpareInv
<1> QED
  BY <1>2, <1>3, <1>4

\* The source disk, which a running job notes.
LEMMA WriteFileSpare ==
  ASSUME TypeInv, SpareInv, NEW f, NEW c, WriteFile(f, c)
  PROVE  SpareInv'
<1>1. /\ UNCHANGED <<coverage, redundancy>>
      /\ job' = [w \in Worker |-> IF job[w].pc = "idle" THEN Idle
                                  ELSE [job[w] EXCEPT !.touched = @ \union {f}]]
  BY DEF WriteFile, rows
<1>2. ASSUME NEW w \in Worker, job'[w].pc # "idle" PROVE SpareJob(job[w])'
  <2>1. job[w].pc # "idle"
    BY <1>1, <1>2 DEF Idle
  <2>2. RunOK(job[w]) /\ SpareJob(job[w])
    BY <2>1, RunsOK DEF SpareInv
  <2>3. /\ job'[w].pc = job[w].pc /\ job'[w].medium = job[w].medium
        /\ job'[w].items = job[w].items /\ job'[w].chunk = job[w].chunk
        /\ job'[w].cover = job[w].cover
    BY <1>1, <2>1, <2>2 DEF RunOK, JobFields
  <2> QED
    BY <1>1, <2>2, <2>3 DEF SpareJob, Wants
<1> QED
  BY <1>1, <1>2 DEF SpareInv

\* Nothing is covered at first.
LEMMA SpareInit == Init => SpareInv
BY ArchiveConstants DEF Init, SpareInv, Idle

\* Every step keeps to the target.
LEMMA SpareNext == TypeInv /\ Alone /\ CountInv /\ SpareInv /\ [Next]_vars => SpareInv'
<1> SUFFICES ASSUME TypeInv, Alone, CountInv, SpareInv, [Next]_vars PROVE SpareInv'
  OBVIOUS
<1>1. ASSUME NEW w \in Worker, WorkerStep(w) PROVE SpareInv'
  <2>1. ASSUME NEW n \in 1 .. Cardinality(File), Prepare(w, n) PROVE SpareInv'
    <3>1. n \in Nat
      BY ArchiveConstants, FS_CardinalityType
    <3> QED
      BY <2>1, <3>1, PrepareSpare
  <2> QED
    BY <1>1, <2>1, AssembleSpare, WriteSpare, StopSpare, CommitSpare, EndBatchSpare DEF WorkerStep
<1>2. ASSUME NEW w \in Worker, \/ \E m \in Medium : Begin(w, m)
                               \/ WriteFault(w) \/ Cancel(w)
      PROVE  SpareInv'
  BY <1>2, AssembleSpare, StopSpare
<1>3. ASSUME NEW m \in Medium, \/ \E s \in {"active", "RETIRED"} : UpdateMedia(m, s)
                               \/ DeleteMedia(m) \/ InitializeMedia(m)
      PROVE  SpareInv'
  BY <1>3, AdminSpare
<1>4. ASSUME NEW f \in File, NEW c \in Content, WriteFile(f, c) PROVE SpareInv'
  BY <1>4, WriteFileSpare
<1>5. CASE Scan \/ (\E f \in File : RemoveFile(f) \/ HashFile(f)) \/ UNCHANGED vars
  <2>1. UNCHANGED <<coverage, redundancy, job>>
    BY <1>5 DEF Scan, RemoveFile, HashFile, vars, rows
  <2> QED
    BY <2>1 DEF SpareInv, SpareJob, Wants
<1>6. CASE Crash
  <2>1. UNCHANGED <<coverage, redundancy>> /\ job' = [w \in Worker |-> Idle]
    BY <1>6 DEF Crash, rows
  <2> QED
    BY <2>1 DEF SpareInv, Idle
<1> QED
  BY <1>1, <1>2, <1>3, <1>4, <1>5, <1>6 DEF Next

\* While one backup runs at a time, whatever is purged, cancelled or written in
\* the middle of it, no file has more copies than the target asks for.
THEOREM NoSpareCopiesHolds ==
  ASSUME Alone PROVE Spec => []NoSpareCopies
<1> DEFINE IInv == TypeInv /\ CountInv /\ SpareInv
<1>1. Init => IInv
  BY TypeInit, CountInit, SpareInit
<1>2. IInv /\ [Next]_vars => IInv'
  BY TypeNext, CountNext, SpareNext
<1>3. IInv => NoSpareCopies
  BY DEF CountInv, CountIsCoverage, CoverageOf, SpareInv, NoSpareCopies
<1> QED
  BY <1>1, <1>2, <1>3, PTL DEF Spec

-----------------------------------------------------------------------------
(* The index keeps a ledger of whole copies.                                *)

WholeRow(v, f, m) == v.file = f /\ v.medium = m /\ v.lo = 0 /\ v.hi = Size[disk[f]]

\* The index knows f, and a version of all of it on m.
HasWhole(f, m) == indexed[f] # Gone /\ \E v \in versions : WholeRow(v, f, m)

\* What a job is to cover is whole in its session.
WholeJob(j) ==
  /\ \A f \in j.cover : indexed[f] # Gone /\ \E r \in j.pending : WholeRow(r, f, j.medium)
  /\ j.pc # "commit" => j.cover = {}

WholeInv ==
  /\ \A p \in coverage : HasWhole(p[1], p[2])
  /\ \A w \in Worker : job[w].pc # "idle" => WholeJob(job[w])

\* A step of one job.
LEMMA WholeStep ==
  ASSUME TypeInv, WholeInv, NEW w \in Worker, NEW j, job' = [job EXCEPT ![w] = j],
         UNCHANGED <<disk, indexed>>, \A p \in coverage' : HasWhole(p[1], p[2])',
         j.pc # "idle" => WholeJob(j)
  PROVE  WholeInv'
<1>1. ASSUME NEW u \in Worker, job'[u].pc # "idle" PROVE WholeJob(job[u])'
  <2>1. PICK k : k = job'[u]
    OBVIOUS
  <2>2. WholeJob(k)
    BY <1>1, <2>1 DEF TypeInv, JobsOK, WholeInv
  <2>3. WholeJob(k)'
    BY <2>2 DEF WholeJob, WholeRow
  <2> QED
    BY <2>1, <2>3 DEF WholeJob, WholeRow
<1> QED
  BY <1>1 DEF WholeInv

\* One that leaves the rows alone.
LEMMA WholeQuiet ==
  ASSUME TypeInv, WholeInv, NEW w \in Worker, NEW j, job' = [job EXCEPT ![w] = j],
         UNCHANGED <<disks, index, rows>>, j.pc # "idle" => WholeJob(j)
  PROVE  WholeInv'
<1>1. UNCHANGED <<disk, indexed, versions, coverage>>
  BY DEF disks, index, rows
<1>2. \A p \in coverage' : HasWhole(p[1], p[2])'
  BY <1>1 DEF WholeInv, HasWhole, WholeRow
<1> QED
  BY <1>1, <1>2, WholeStep

\* The start of a job, the choice of its batch and the preparation of a chunk:
\* nothing is to be covered yet.
LEMMA PreparationWhole ==
  ASSUME TypeInv, WholeInv, NEW w \in Worker,
         \/ Assemble(w)
         \/ \E m \in Medium : Begin(w, m)
         \/ \E n \in Nat : Prepare(w, n)
  PROVE  WholeInv'
<1>1. ASSUME NEW j, job' = [job EXCEPT ![w] = j], UNCHANGED <<disks, index, rows>>,
             j = Idle \/ j.cover = {}
      PROVE  WholeInv'
  BY <1>1, WholeQuiet DEF WholeJob, Idle
<1>2. CASE Assemble(w)
  <2>1. PICK items : Assembled(w, items)
    BY <1>2, AssembledFields
  <2>2. job[w].pc = "assemble" /\ UNCHANGED <<disks, index, rows>>
    BY <1>2, AssembledFields
  <2>3. job[w].cover = {}
    BY <2>2 DEF WholeInv, WholeJob
  <2> PICK j : j = IF items = <<>> THEN Idle ELSE NewBatch(w, items)
    OBVIOUS
  <2>4. job' = [job EXCEPT ![w] = j] /\ (j = Idle \/ j.cover = {})
    BY <2>1, <2>3 DEF Assembled
  <2> QED
    BY <1>1, <2>2, <2>4
<1>3. ASSUME NEW m \in Medium, Begin(w, m) PROVE WholeInv'
  <2> DEFINE j == [pc |-> "assemble", medium |-> m, base |-> used[m], batch |-> 0,
                   items |-> <<>>, chunk |-> <<>>, first |-> TRUE, created |-> FALSE,
                   pending |-> {}, cover |-> {}, bytes |-> 0,
                   skipped |-> {}, touched |-> {}, cancelled |-> FALSE]
  <2>1. job' = [job EXCEPT ![w] = j] /\ UNCHANGED <<disks, index, rows>> /\ j.cover = {}
    BY <1>3 DEF Begin
  <2> HIDE DEF j
  <2> QED
    BY <1>1, <2>1
<1>4. ASSUME NEW n \in Nat, Prepare(w, n) PROVE WholeInv'
  <2>1. job[w].pc = "chunk" /\ UNCHANGED <<disks, index, rows>>
    BY <1>4, PreparedFields
  <2>2. PICK v : PreparedBy(w, n, v)
    BY <1>4, PreparedFields
  <2> PICK j : j = Prepared(w, n, v)
    OBVIOUS
  <2>3. job' = [job EXCEPT ![w] = j] /\ j.cover = job[w].cover
    BY <2>2 DEF PreparedBy
  <2>4. job[w].cover = {}
    BY <2>1 DEF WholeInv, WholeJob
  <2> QED
    BY <1>1, <2>1, <2>3, <2>4
<1> QED
  BY <1>2, <1>3, <1>4

\* A writer that is not cancelled leaves a row for every item of the chunk.
LEMMA RowForEach ==
  ASSUME TypeInv, HoldInv, "cancel" \notin Events, NEW w \in Worker,
         CopyFiles(w) \/ StreamArchive(w) \/ StageArchive(w)
  PROVE  \E for, bytes :
           /\ job' = [job EXCEPT ![w] = Written(w, for, bytes)]
           /\ \A x \in ToSet(job[w].chunk) : \E slot : Row(w, x, slot) \in for
<1>1. CASE CopyFiles(w)
  <2>1. job[w].pc # "idle"
    BY <1>1 DEF CopyFiles
  <2>2. /\ job[w].chunk \in Seq(Items)
        /\ ToSet(Present(job[w].chunk)) = ToSet(job[w].chunk)
        /\ ~job[w].cancelled
    BY <2>1, ChunkHere, HoldRuns DEF Working
  <2>3. PICK n \in Reached(w) :
          LET done == Present(SubSeq(job[w].chunk, 1, n)) IN
          job' = [job EXCEPT ![w] =
            Written(w, {Row(w, x, ObjectName(x)) : x \in ToSet(done)}, TotalLength(done))]
    BY <1>1, Zenon DEF CopyFiles
  <2> PICK done : done = Present(SubSeq(job[w].chunk, 1, n))
    OBVIOUS
  <2> PICK bytes : bytes = TotalLength(done)
    OBVIOUS
  <2> DEFINE for == {Row(w, x, ObjectName(x)) : x \in ToSet(done)}
  <2>4. ToSet(done) = ToSet(job[w].chunk)
    BY <2>2, WholePart DEF Reached
  <2>5. job' = [job EXCEPT ![w] = Written(w, for, bytes)]
    BY <2>3
  <2>6. \A x \in ToSet(job[w].chunk) : Row(w, x, ObjectName(x)) \in for
    BY <2>4
  <2> HIDE DEF for
  <2> QED
    BY <2>5, <2>6
<1>2. CASE StreamArchive(w) \/ StageArchive(w)
  <2> PICK slot : slot = NextArchive(job[w].medium)
    OBVIOUS
  <2> DEFINE for == {Row(w, x, slot) : x \in ToSet(job[w].chunk)}
  <2>1. PICK bytes : job' = [job EXCEPT ![w] = Written(w, for, bytes)]
    BY <1>2, Zenon DEF StreamArchive, StageArchive
  <2>2. \A x \in ToSet(job[w].chunk) : Row(w, x, slot) \in for
    OBVIOUS
  <2> HIDE DEF for
  <2> QED
    BY <2>1, <2>2
<1> QED
  BY <1>1, <1>2

\* What a writer covers is whole in its session.
LEMMA WriteWhole ==
  ASSUME TypeInv, HoldInv, WholeInv, "cancel" \notin Events, NEW w \in Worker,
         CopyFiles(w) \/ StreamArchive(w) \/ StageArchive(w)
  PROVE  WholeInv'
<1>1. job[w].pc = "write" /\ UNCHANGED <<disks, index, rows>>
  BY DEF CopyFiles, StreamArchive, StageArchive
<1>2. PICK for, bytes :
        /\ job' = [job EXCEPT ![w] = Written(w, for, bytes)]
        /\ \A x \in ToSet(job[w].chunk) : \E slot : Row(w, x, slot) \in for
  BY RowForEach
<1>3. /\ RunOK(job[w])
      /\ \A x \in ToSet(job[w].chunk) : Accurate(x) /\ indexed[x.file] # Gone
  BY <1>1, HoldRuns, ChunkHere DEF RunOK
<1> PICK n : n = Written(w, for, bytes)
  OBVIOUS
<1>4. /\ n.pc = "commit" /\ n.medium = job[w].medium /\ for \subseteq n.pending
      /\ n.cover = {x.file : x \in {y \in ToSet(job[w].chunk) : y.whole}}
  <2>1. DOMAIN job[w] = JobFields
    BY <1>3 DEF RunOK
  <2> QED
    BY <2>1 DEF Written, JobFields
<1>5. ASSUME NEW f \in n.cover
      PROVE  indexed[f] # Gone /\ \E r \in n.pending : WholeRow(r, f, n.medium)
  <2>1. PICK x \in ToSet(job[w].chunk) : x.whole /\ x.file = f
    BY <1>4
  <2>2. PICK slot : Row(w, x, slot) \in for
    BY <1>2
  <2> PICK r : r = Row(w, x, slot)
    OBVIOUS
  <2>3. r.file = x.file /\ r.medium = job[w].medium /\ r.lo = x.lo /\ r.hi = x.hi
    BY DEF Row
  <2>4. x.lo = 0 /\ x.hi = Size[disk[f]] /\ indexed[f] # Gone
    BY <1>3, <2>1 DEF Accurate
  <2> QED
    BY <1>4, <2>1, <2>2, <2>3, <2>4 DEF WholeRow
<1>6. WholeJob(n)
  BY <1>4, <1>5 DEF WholeJob
<1> QED
  BY <1>1, <1>2, <1>6, WholeQuiet

\* A job that stops, and the end of a batch: nothing is covered by it.
LEMMA StopWhole ==
  ASSUME TypeInv, WholeInv, NEW w \in Worker,
         \/ WriteFault(w) \/ MediumLost(w) \/ DropStaged(w) \/ EndBatch(w)
  PROVE  WholeInv'
<1> PICK stopped : stopped = [job[w] EXCEPT !.pc = "chunk"]
  OBVIOUS
<1> PICK next : next = [job[w] EXCEPT !.pc = "assemble", !.base = used[job[w].medium]]
  OBVIOUS
<1>1. /\ job[w].pc \notin {"idle", "commit"}
      /\ UNCHANGED <<disk, indexed, coverage>> /\ versions \subseteq versions'
  BY DEF WriteFault, MediumLost, DropStaged, EndBatch, rows, disks, index
<1>2. RunOK(job[w]) /\ job[w].cover = {}
  BY <1>1, RunsOK DEF WholeInv, WholeJob
<1>3. PICK j \in {Idle, stopped, next} : job' = [job EXCEPT ![w] = j]
  BY DEF WriteFault, MediumLost, DropStaged, EndBatch, Step
<1>4. stopped.cover = {} /\ next.cover = {} /\ Idle.pc = "idle"
  BY <1>2 DEF RunOK, JobFields, Idle
<1>5. j.pc # "idle" => WholeJob(j)
  BY <1>4 DEF WholeJob
<1>6. \A p \in coverage' : HasWhole(p[1], p[2])'
  BY <1>1 DEF WholeInv, HasWhole, WholeRow
<1> QED
  BY <1>1, <1>3, <1>5, <1>6, WholeStep

\* The checkpoint: rows and coverage go in together.
LEMMA CommitWhole ==
  ASSUME TypeInv, WholeInv, NEW w \in Worker, Commit(w)
  PROVE  WholeInv'
<1> PICK n : n = [job[w] EXCEPT !.pc = "chunk", !.chunk = <<>>, !.pending = {}, !.cover = {},
                                !.bytes = 0]
  OBVIOUS
<1>1. job[w].pc = "commit" /\ UNCHANGED <<disks, index>>
  BY DEF Commit
<1>2. RunOK(job[w]) /\ WholeJob(job[w]) /\ UNCHANGED <<disk, indexed>>
  BY <1>1, RunsOK DEF WholeInv, disks, index
<1>3. CASE job' = [job EXCEPT ![w] = Idle] /\ UNCHANGED rows
  BY <1>1, <1>3, WholeQuiet DEF Idle
<1>4. CASE /\ versions' = versions \union Stamp(job[w].pending)
           /\ coverage' = coverage \union {<<f, job[w].medium>> : f \in job[w].cover}
           /\ job' = [job EXCEPT ![w] = n]
  <2>1. ASSUME NEW p \in coverage' PROVE HasWhole(p[1], p[2])'
    <3>1. CASE p \in coverage
      BY <1>2, <1>4, <3>1 DEF WholeInv, HasWhole, WholeRow
    <3>2. CASE p \notin coverage
      <4>1. PICK f \in job[w].cover : p = <<f, job[w].medium>>
        BY <1>4, <3>2
      <4>2. PICK r \in job[w].pending : WholeRow(r, f, job[w].medium)
        BY <1>2 DEF WholeJob
      <4> PICK s : s = [r EXCEPT !.txn = txn]
        OBVIOUS
      <4>3. s \in versions'
        BY <1>4 DEF Stamp
      <4>4. DOMAIN r = RowFields
        BY <1>2 DEF RunOK, RowOK
      <4>5. s.file = r.file /\ s.medium = r.medium /\ s.lo = r.lo /\ s.hi = r.hi
        BY <4>4 DEF RowFields
      <4>6. p[1] = f /\ p[2] = job[w].medium /\ indexed[f] # Gone
        BY <1>2, <4>1 DEF WholeJob
      <4> QED
        BY <1>2, <4>2, <4>3, <4>5, <4>6 DEF HasWhole, WholeRow
    <3> QED
      BY <3>1, <3>2
  <2>2. n.cover = {}
    BY <1>2 DEF RunOK, JobFields
  <2>3. WholeJob(n)
    BY <2>2 DEF WholeJob
  <2> QED
    BY <1>2, <1>4, <2>1, <2>3, WholeStep
<1> QED
  BY <1>3, <1>4 DEF Commit, AddCoverage

\* A purge takes rows and coverage of a medium together.
LEMMA AdminWhole ==
  ASSUME WholeInv, NEW m \in Medium,
         \/ \E s \in {"active", "RETIRED"} : UpdateMedia(m, s)
         \/ DeleteMedia(m) \/ InitializeMedia(m)
  PROVE  WholeInv'
<1>1. UNCHANGED <<disk, indexed, job>>
  BY DEF UpdateMedia, DeleteMedia, InitializeMedia, disks, index
<1>2. UNCHANGED <<versions, coverage>> \/ Purge(m)
  BY DEF UpdateMedia, DeleteMedia, InitializeMedia
<1>3. \A p \in coverage' : HasWhole(p[1], p[2])'
  <2>1. CASE UNCHANGED <<versions, coverage>>
    BY <1>1, <2>1 DEF WholeInv, HasWhole, WholeRow
  <2>2. CASE Purge(m)
    BY <1>1, <2>2 DEF Purge, WholeInv, HasWhole, WholeRow
  <2> QED
    BY <1>2, <2>1, <2>2
<1> QED
  BY <1>1, <1>3 DEF WholeInv, WholeJob, WholeRow

\* A scan and the hasher forget no file; a crash leaves no job.
LEMMA OthersWhole ==
  ASSUME TypeInv, HoldInv, WholeInv,
         \/ Scan \/ Crash \/ UNCHANGED vars \/ \E f \in File : HashFile(f)
  PROVE  WholeInv'
<1>1. /\ UNCHANGED <<disk, versions, coverage>>
      /\ UNCHANGED job \/ job' = [w \in Worker |-> Idle]
  BY DEF Scan, Crash, HashFile, vars, disks, rows
<1>2. UNCHANGED indexed \/ Scan
  BY DEF Crash, HashFile, vars, index
<1>3. ASSUME NEW f, indexed[f] # Gone, f \in File PROVE indexed'[f] # Gone
  BY <1>2, <1>3 DEF Scan
<1>4. /\ \A p \in coverage : p[1] \in File
      /\ \A w \in Worker : job[w].pc # "idle" => job[w].cover \subseteq File
  BY RunsOK DEF TypeInv, DataOK, RowsOK, RunOK
<1>5. \A p \in coverage' : HasWhole(p[1], p[2])'
  BY <1>1, <1>3, <1>4 DEF WholeInv, HasWhole, WholeRow
<1> QED
  BY <1>1, <1>3, <1>4, <1>5 DEF WholeInv, WholeJob, WholeRow, Idle

\* Nothing is covered at first.
LEMMA WholeInit == Init => WholeInv
BY DEF Init, WholeInv, Idle

\* Every step keeps what is covered whole.
LEMMA WholeNext ==
  ASSUME Undisturbed, "cancel" \notin Events, TypeInv, HoldInv, WholeInv, [Next]_vars
  PROVE  WholeInv'
<1>1. ASSUME NEW w \in Worker, WorkerStep(w) PROVE WholeInv'
  <2>1. ASSUME NEW n \in 1 .. Cardinality(File), Prepare(w, n) PROVE WholeInv'
    <3>1. n \in Nat
      BY ArchiveConstants, FS_CardinalityType
    <3> QED
      BY <2>1, <3>1, PreparationWhole
  <2> QED
    BY <1>1, <2>1, PreparationWhole, WriteWhole, StopWhole, CommitWhole DEF WorkerStep
<1>2. ASSUME NEW w \in Worker, (\E m \in Medium : Begin(w, m)) \/ WriteFault(w) \/ Cancel(w)
      PROVE  WholeInv'
  BY <1>2, PreparationWhole, StopWhole DEF Cancel
<1>3. ASSUME NEW m \in Medium, \/ \E s \in {"active", "RETIRED"} : UpdateMedia(m, s)
                               \/ DeleteMedia(m) \/ InitializeMedia(m)
      PROVE  WholeInv'
  BY <1>3, AdminWhole
<1>4. ASSUME NEW f \in File, RemoveFile(f) \/ \E c \in Content : WriteFile(f, c)
      PROVE  WholeInv'
  BY <1>4 DEF RemoveFile, WriteFile, Undisturbed
<1> QED
  BY <1>1, <1>2, <1>3, <1>4, OthersWhole DEF Next

-----------------------------------------------------------------------------
(* The ledger of Ledger.tla.                                                *)

\* What the refinement of KeepsLedger takes for the copies.
CopiesHeld == {p \in File \X Medium : p[2] \in WholeCopies(p[1])}

CopiesAreWhole == \A f \in File, m \in Medium : <<f, m>> \in CopiesHeld <=> HasWhole(f, m)

\* With rows that hold their bytes, a copy is a whole version of an indexed file.
LEMMA CopiesAreRows == HoldInv => CopiesAreWhole
<1> SUFFICES ASSUME HoldInv, NEW f \in File, NEW m \in Medium
             PROVE  <<f, m>> \in CopiesHeld <=> HasWhole(f, m)
  BY DEF CopiesAreWhole
<1>1. <<f, m>> \in CopiesHeld <=>
        \E v \in versions : /\ v.file = f /\ v.medium = m /\ v.lo = 0 /\ v.hi = SizeOf(f)
                            /\ v.of = indexed[f] /\ Held(v)
  BY DEF CopiesHeld, WholeCopies, VersionsOf
<1>2. indexed[f] \in {Gone, disk[f]} /\ disk[f] \in Content /\ Gone \notin Content
  BY ArchiveConstants DEF HoldInv, SourceInv
<1>3. \A v \in versions : v.of = disk[v.file] /\ Held(v)
  BY DEF HoldInv, Sound
<1> QED
  BY <1>1, <1>2, <1>3 DEF HasWhole, WholeRow, SizeOf

\* The ledger has the definitions of FiniteSets as its own.
LEMMA SameCardinality == \A S : Kept!Cardinality(S) = Cardinality(S)
BY DEF Kept!Cardinality, Cardinality

\* The triggers count as the ledger does.
LEMMA CountsAgree == TypeInv /\ CountInv => redundancy = Kept!Counts(coverage)
<1> SUFFICES ASSUME TypeInv, CountInv PROVE redundancy = Kept!Counts(coverage)
  OBVIOUS
<1>1. ASSUME NEW f \in File
      PROVE  redundancy[f] = Cardinality(Kept!MediaOf(coverage, f))
  <2> DEFINE S == CoverageOf(f)
             T == Kept!MediaOf(coverage, f)
             g == [p \in S |-> p[2]]
  <2>1. redundancy[f] = Cardinality(S) /\ IsFiniteSet(S)
    BY DEF CountInv, CountIsCoverage
  <2>2. coverage \subseteq File \X Medium
    BY DEF TypeInv, DataOK, RowsOK
  <2>3. g \in Bijection(S, T)
    <3>1. \A p \in S : p = <<f, p[2]>> /\ p[2] \in T
      BY <2>2 DEF CoverageOf, Kept!MediaOf
    <3>2. \A m \in T : <<f, m>> \in S
      BY DEF CoverageOf, Kept!MediaOf
    <3>3. g \in [S -> T] /\ \A p \in S : g[p] = p[2]
      BY <3>1
    <3> HIDE DEF S, T, g
    <3>4. \A p, q \in S : g[p] = g[q] => p = q
      BY <3>1, <3>3
    <3>5. \A m \in T : \E p \in S : g[p] = m
      BY <3>2, <3>3
    <3> QED
      BY <3>3, <3>4, <3>5 DEF Bijection, Injection, Surjection, IsInjective
  <2> HIDE DEF S, T, g
  <2>4. Cardinality(S) = Cardinality(T)
    BY <2>1, <2>3, FS_Bijection DEF ExistsBijection
  <2> QED
    BY <2>1, <2>4 DEF T
<1>2. redundancy = [f \in File |-> redundancy[f]]
  BY DEF TypeInv, DataOK, RowsOK
<1>3. [f \in File |-> redundancy[f]]
        = [f \in File |-> Kept!Cardinality(Kept!MediaOf(coverage, f))]
  BY <1>1, SameCardinality
<1> QED
  BY <1>2, <1>3 DEF Kept!Counts

\* A step that adds to rows and coverage records.
LEMMA RecordStep ==
  ASSUME HoldInv, HoldInv', TypeInv', CountInv', WholeInv, WholeInv',
         UNCHANGED disk, versions \subseteq versions', coverage \subseteq coverage',
         \A f \in File : indexed[f] # Gone => indexed'[f] # Gone
  PROVE  /\ CopiesHeld \subseteq CopiesHeld' /\ coverage \subseteq coverage'
         /\ coverage' \subseteq CopiesHeld' /\ CopiesHeld' \subseteq File \X Medium
         /\ redundancy' = Kept!Counts(coverage')
<1>1. CopiesHeld' \subseteq File \X Medium /\ CopiesHeld \subseteq File \X Medium
  BY DEF CopiesHeld
<1>2. CopiesAreWhole
  BY CopiesAreRows
<1>3. CopiesAreWhole'
  BY CopiesAreRows, PTL
<1>4. coverage' \subseteq File \X Medium
  BY DEF TypeInv, DataOK, RowsOK
<1>5. CopiesHeld \subseteq CopiesHeld'
  <2>1. ASSUME NEW f \in File, NEW m \in Medium, HasWhole(f, m) PROVE HasWhole(f, m)'
    BY <2>1 DEF HasWhole, WholeRow
  <2> QED
    BY <1>1, <1>2, <1>3, <2>1 DEF CopiesAreWhole
<1>6. coverage' \subseteq CopiesHeld'
  BY <1>3, <1>4 DEF CopiesAreWhole, WholeInv
<1>7. redundancy' = Kept!Counts(coverage')
  <2>1. (redundancy = Kept!Counts(coverage))'
    BY CountsAgree, PTL
  <2> QED
    BY <2>1
<1> QED
  BY <1>1, <1>5, <1>6, <1>7

\* A purge takes back what a medium held.
LEMMA PurgeStep ==
  ASSUME HoldInv, HoldInv', TypeInv', CountInv', UNCHANGED <<disk, indexed>>,
         NEW m \in Medium, Purge(m)
  PROVE  /\ CopiesHeld' = {p \in CopiesHeld : p[2] # m}
         /\ coverage' = {p \in coverage : p[2] # m}
         /\ redundancy' = Kept!Counts(coverage')
<1>1. CopiesHeld' \subseteq File \X Medium /\ CopiesHeld \subseteq File \X Medium
  BY DEF CopiesHeld
<1>2. CopiesAreWhole
  BY CopiesAreRows
<1>3. CopiesAreWhole'
  BY CopiesAreRows, PTL
<1>4. ASSUME NEW f \in File, NEW k \in Medium
      PROVE  HasWhole(f, k)' <=> HasWhole(f, k) /\ k # m
  BY DEF HasWhole, WholeRow, Purge
<1>5. CopiesHeld' = {p \in CopiesHeld : p[2] # m}
  <2>1. ASSUME NEW f \in File, NEW k \in Medium
        PROVE  <<f, k>> \in CopiesHeld' <=> <<f, k>> \in CopiesHeld /\ k # m
    BY <1>2, <1>3, <1>4 DEF CopiesAreWhole
  <2> QED
    BY <1>1, <2>1
<1>6. coverage' = {p \in coverage : p[2] # m}
  BY DEF Purge
<1>7. redundancy' = Kept!Counts(coverage')
  <2>1. (redundancy = Kept!Counts(coverage))'
    BY CountsAgree, PTL
  <2> QED
    BY <2>1
<1> QED
  BY <1>5, <1>6, <1>7

\* Every step of the archive is a step of the ledger.
LEMMA StepKeepsLedger ==
  ASSUME Undisturbed, TypeInv, TypeInv', CountInv', HoldInv, HoldInv', WholeInv, WholeInv',
         [Next]_vars
  PROVE  [Kept!Next]_(Kept!vars)
<1>1. ASSUME UNCHANGED disk, versions \subseteq versions', coverage \subseteq coverage',
             \A f \in File : indexed[f] # Gone => indexed'[f] # Gone
      PROVE  Kept!Record
  BY <1>1, RecordStep DEF Kept!Record, CopiesHeld
<1>2. ASSUME NEW m \in Medium, Purge(m), UNCHANGED <<disk, indexed>> PROVE Kept!TakeBack(m)
  BY <1>2, PurgeStep DEF Kept!TakeBack, CopiesHeld
<1>3. ASSUME NEW m \in Medium, \/ \E s \in {"active", "RETIRED"} : UpdateMedia(m, s)
                               \/ DeleteMedia(m) \/ InitializeMedia(m)
      PROVE  Kept!Record \/ Kept!TakeBack(m)
  <2>1. UNCHANGED <<disk, indexed>> /\ (UNCHANGED <<versions, coverage>> \/ Purge(m))
    BY <1>3 DEF UpdateMedia, DeleteMedia, InitializeMedia, disks, index
  <2> QED
    BY <1>1, <1>2, <2>1
<1>4. ASSUME NEW w \in Worker, \/ WorkerStep(w) \/ WriteFault(w) \/ Cancel(w)
                               \/ \E m \in Medium : Begin(w, m)
      PROVE  Kept!Record
  <2>1. /\ UNCHANGED <<disk, indexed>>
        /\ versions \subseteq versions' /\ coverage \subseteq coverage'
    BY <1>4 DEF WorkerStep, Assemble, Prepare, CopyFiles, StreamArchive, StageArchive, DropStaged,
       Commit, EndBatch, MediumLost, WriteFault, Cancel, Begin, AddCoverage, disks, index, rows
  <2> QED
    BY <1>1, <2>1
<1>5. CASE Scan \/ Crash \/ UNCHANGED vars \/ \E f \in File : HashFile(f)
  <2>1. UNCHANGED <<disk, versions, coverage>> /\ (UNCHANGED indexed \/ Scan)
    BY <1>5 DEF Scan, Crash, HashFile, vars, disks, index, rows
  <2>2. ASSUME NEW f \in File, indexed[f] # Gone PROVE indexed'[f] # Gone
    BY <2>1, <2>2 DEF Scan
  <2> QED
    BY <1>1, <2>1, <2>2 DEF Kept!Next
<1>6. ASSUME NEW f \in File, RemoveFile(f) \/ \E c \in Content : WriteFile(f, c) PROVE FALSE
  BY <1>6 DEF RemoveFile, WriteFile, Undisturbed
<1> QED
  BY <1>3, <1>4, <1>5, <1>6 DEF Next, Kept!Next

\* The archive keeps the ledger: while no source file changes and no backup is
\* cancelled, every coverage row stands for a whole copy that is on the medium,
\* the triggers count these rows, and a purge takes rows and copies together.
THEOREM KeepsLedgerHolds ==
  ASSUME Undisturbed, "cancel" \notin Events PROVE Spec => KeepsLedger
<1> DEFINE IInv == /\ TypeInv /\ CountInv /\ HoldInv /\ WholeInv
                   /\ Exclusive => FreshInv
<1>1. Init => IInv
  BY TypeInit, CountInit, HoldInit, WholeInit, FreshInit
<1>2. IInv /\ [Next]_vars => IInv'
  <2> SUFFICES ASSUME IInv, [Next]_vars PROVE IInv'
    OBVIOUS
  <2>1. TypeInv' /\ CountInv' /\ HoldInv' /\ WholeInv'
    BY TypeNext, CountNext, HoldNext, WholeNext
  <2>2. (Exclusive => FreshInv)'
    BY FreshNext DEF Exclusive
  <2> QED
    BY <2>1, <2>2
<1>3. Init => Kept!Init
  <2> SUFFICES ASSUME Init PROVE Kept!Init
    OBVIOUS
  <2>1. versions = {} /\ coverage = {} /\ redundancy = [f \in File |-> 0]
    BY DEF Init
  <2> QED
    BY <2>1 DEF Kept!Init, WholeCopies, VersionsOf
<1>4. IInv /\ IInv' /\ [Next]_vars => [Kept!Next]_(Kept!vars)
  BY StepKeepsLedger
<1> QED
  BY <1>1, <1>2, <1>3, <1>4, PTL DEF Spec, KeepsLedger, Kept!Spec

-----------------------------------------------------------------------------
(* What counts as covered is covered byte by byte.                          *)

Fixed == "write" \notin Events

\* No rows are taken back.
Unpurged == /\ Events \intersect {"retire", "delete"} = {}
            /\ "wipe" \in Events => CommitsWipe = {}

\* Ranges are chained: a backup goes on where the last one ended.  Two backups at
\* a time would go on from the same byte, a purge would take a link out of the
\* chain, and a copy made for a higher target covers a file that grew since.
Chainable == Alone /\ Unpurged /\ (Fixed \/ Target = 1)

\* Nothing is ever split, so that all ranges are whole files.
Unsplit == Fixed /\ \A c \in Content, m \in Medium : Size[c] <= Capacity[m]

\* The range is all of what the index now says the file is, and will say.
WholeRange(x) ==
  Fixed /\ indexed[x.file] # Gone /\ x.lo = 0 /\ x.hi = SizeOf(x.file)

Known == Fixed => \A f \in File : indexed[f] # Gone => disk[f] \in {Gone, indexed[f]}

Ranges(V) == IsFiniteSet(V) /\ \A v \in V : v.lo \in Nat /\ v.hi \in Nat

\* The ranges of V follow one another from the first byte.
Chain(V) ==
  \A i \in Nat \ {0} :
    (\E v \in V : v.lo < i /\ i <= v.hi) <=> i <= Cardinality(Cells(V))

\* The scanner alone changes what the index says a file is.
LEMMA IndexSteps ==
  ASSUME [Next]_vars PROVE UNCHANGED indexed \/ Scan
<1>1. ASSUME NEW w \in Worker, WorkerStep(w) PROVE UNCHANGED indexed
  BY <1>1 DEF WorkerStep, Assemble, Prepare, CopyFiles, StreamArchive, StageArchive, DropStaged,
     Commit, EndBatch, MediumLost, index
<1>2. ASSUME NEW w \in Worker, \/ \E m \in Medium : Begin(w, m)
                               \/ WriteFault(w) \/ Cancel(w)
      PROVE  UNCHANGED indexed
  BY <1>2 DEF Begin, WriteFault, Cancel, index
<1>3. ASSUME NEW m \in Medium, \/ \E s \in {"active", "RETIRED"} : UpdateMedia(m, s)
                               \/ DeleteMedia(m) \/ InitializeMedia(m)
      PROVE  UNCHANGED indexed
  BY <1>3 DEF UpdateMedia, DeleteMedia, InitializeMedia, index
<1>4. ASSUME NEW f \in File, (\E c \in Content : WriteFile(f, c)) \/ RemoveFile(f) \/ HashFile(f)
      PROVE  UNCHANGED indexed
  BY <1>4 DEF WriteFile, RemoveFile, HashFile, index
<1>5. Crash \/ UNCHANGED vars => UNCHANGED indexed
  BY DEF Crash, vars, index
<1> QED
  BY <1>1, <1>2, <1>3, <1>4, <1>5 DEF Next

\* A file that the index knows and nobody writes to keeps its entry.
LEMMA EntryStays ==
  ASSUME Known, [Next]_vars, Fixed, NEW f \in File, indexed[f] # Gone
  PROVE  indexed'[f] = indexed[f]
<1>1. disk[f] \in {Gone, indexed[f]}
  BY DEF Known
<1>2. CASE Scan
  BY <1>1, <1>2 DEF Scan
<1> QED
  BY <1>2, IndexSteps

\* A range that is whole stays so.
LEMMA WholeStays ==
  ASSUME Known, [Next]_vars, NEW x, x.file \in File, WholeRange(x)
  PROVE  WholeRange(x)'
BY EntryStays DEF WholeRange, SizeOf

\* The disk, as long as nobody writes to it, has what the index says, or no more.
LEMMA KnownNext ==
  ASSUME TypeInv, Known, [Next]_vars PROVE Known'
<1> SUFFICES ASSUME Fixed, NEW f \in File, indexed'[f] # Gone
             PROVE  disk'[f] \in {Gone, indexed'[f]}
  BY DEF Known
<1>1. disk'[f] \in {disk[f], Gone}
  <2>1. ASSUME NEW w \in Worker, WorkerStep(w) PROVE UNCHANGED disk
    BY <2>1 DEF WorkerStep, Assemble, Prepare, CopyFiles, StreamArchive, StageArchive,
       DropStaged, Commit, EndBatch, MediumLost, disks
  <2>2. ASSUME NEW w \in Worker, \/ \E m \in Medium : Begin(w, m)
                                 \/ WriteFault(w) \/ Cancel(w)
        PROVE  UNCHANGED disk
    BY <2>2 DEF Begin, WriteFault, Cancel, disks
  <2>3. ASSUME NEW m \in Medium, \/ \E s \in {"active", "RETIRED"} : UpdateMedia(m, s)
                                 \/ DeleteMedia(m) \/ InitializeMedia(m)
        PROVE  UNCHANGED disk
    BY <2>3 DEF UpdateMedia, DeleteMedia, InitializeMedia, disks
  <2>4. ASSUME NEW g \in File, RemoveFile(g) PROVE disk'[f] \in {disk[f], Gone}
    BY <2>4 DEF RemoveFile, TypeInv, DataOK, IndexOK
  <2>5. ASSUME NEW g \in File, HashFile(g) \/ \E c \in Content : WriteFile(g, c)
        PROVE  UNCHANGED disk
    BY <2>5 DEF HashFile, WriteFile, Fixed, disks
  <2>6. Scan \/ Crash \/ UNCHANGED vars => UNCHANGED disk
    BY DEF Scan, Crash, vars, disks
  <2> QED
    BY <2>1, <2>2, <2>3, <2>4, <2>5, <2>6 DEF Next
<1>2. CASE UNCHANGED indexed
  BY <1>1, <1>2 DEF Known
<1>3. CASE Scan
  BY <1>3 DEF Scan, disks
<1> QED
  BY <1>2, <1>3, IndexSteps

\* A further range adds its length.
LEMMA CellsAdd ==
  ASSUME NEW V, Ranges(V), NEW s, s \notin V, s.lo \in Nat, s.hi \in Nat, s.lo <= s.hi
  PROVE  Cardinality(Cells(V \union {s})) = Cardinality(Cells(V)) + (s.hi - s.lo)
<1> DEFINE old == Cells(V)
           new == {s} \X (s.lo + 1 .. s.hi)
<1>1. Cells(V \union {s}) = old \union new
  BY DEF Cells
<1>2. old \intersect new = {}
  BY DEF Cells
<1>3. IsFiniteSet(old) /\ Cardinality(old) \in Nat
  BY RangesAddUp DEF Ranges
<1>4. IsFiniteSet(new) /\ Cardinality(new) = s.hi - s.lo
  <2> PICK lo : lo = s.lo + 1
    OBVIOUS
  <2> PICK hi : hi = s.hi
    OBVIOUS
  <2>1. /\ IsFiniteSet(lo .. hi)
        /\ Cardinality(lo .. hi) = s.hi - s.lo
    <3>1. lo \in Int /\ hi \in Int
      OBVIOUS
    <3>2. IsFiniteSet(lo .. hi) /\ Cardinality(lo .. hi) = IF lo > hi THEN 0 ELSE hi - lo + 1
      BY <3>1, FS_Interval, Zenon
    <3> QED
      BY <3>2
  <2>2. IsFiniteSet({s}) /\ Cardinality({s}) = 1
    BY FS_Singleton
  <2>3. /\ IsFiniteSet({s} \X (lo .. hi))
        /\ Cardinality({s} \X (lo .. hi)) = Cardinality({s}) * Cardinality(lo .. hi)
    BY <2>1, <2>2, FS_Product, Zenon
  <2>4. new = {s} \X (lo .. hi)
    OBVIOUS
  <2> HIDE DEF new
  <2>5. Cardinality(new) = 1 * (s.hi - s.lo)
    BY <2>1, <2>2, <2>3, <2>4, Zenon
  <2> QED
    BY <2>3, <2>4, <2>5
<1> HIDE DEF new, old
<1>5. Cardinality(old \union new)
        = Cardinality(old) + Cardinality(new) - Cardinality(old \intersect new)
  BY <1>3, <1>4, FS_Union
<1>6. Cardinality(old \intersect new) = 0
  BY <1>2, FS_EmptySet
<1>7. Cardinality(old \union new) = Cardinality(old) + (s.hi - s.lo)
  BY <1>3, <1>4, <1>5, <1>6
<1> QED
  BY <1>1, <1>7, Zenon DEF old

\* A range that begins where the chain ends makes it longer.
LEMMA ChainGrows ==
  ASSUME NEW V, Ranges(V), Chain(V), NEW s, s.lo \in Nat, s.hi \in Nat,
         s.lo = Cardinality(Cells(V)), s.lo <= s.hi
  PROVE  Chain(V \union {s})
<1>1. Cardinality(Cells(V \union {s})) = s.hi
  <2>1. CASE s \notin V
    BY <2>1, CellsAdd
  <2>2. CASE s \in V
    <3>1. s.lo = s.hi
      <4>1. s.lo + 1 \in Nat \ {0} /\ ~(s.lo + 1 <= Cardinality(Cells(V)))
        OBVIOUS
      <4>2. ~(s.lo < s.lo + 1 /\ s.lo + 1 <= s.hi)
        BY <2>2, <4>1 DEF Chain
      <4> QED
        BY <4>2
    <3>2. V \union {s} = V
      BY <2>2
    <3> QED
      BY <3>1, <3>2
  <2> QED
    BY <2>1, <2>2
<1>2. ASSUME NEW i \in Nat \ {0}
      PROVE  (\E v \in V \union {s} : v.lo < i /\ i <= v.hi) <=> i <= s.hi
  <2>1. (\E v \in V : v.lo < i /\ i <= v.hi) <=> i <= s.lo
    BY DEF Chain
  <2>2. (\E v \in V \union {s} : v.lo < i /\ i <= v.hi)
          <=> (\E v \in V : v.lo < i /\ i <= v.hi) \/ (s.lo < i /\ i <= s.hi)
    OBVIOUS
  <2> QED
    BY <2>1, <2>2
<1> QED
  BY <1>1, <1>2 DEF Chain

-----------------------------------------------------------------------------
(* One backup at a time: a file is covered by a chain of ranges.            *)

\* What is covered of f is its first bytes, or one version is all of it.
Chained(f) == Chain(VersionsOf(f)) \/ \E v \in VersionsOf(f) : WholeRange(v)

\* A range that goes on where its file is covered, or is all of it.
Continues(x) == (x.lo = CoveredBytes(x.file) /\ x.lo <= x.hi) \/ WholeRange(x)

OnePerFile(S) == \A x, y \in S : x.file = y.file => x = y
Apart(S, T)   == \A x \in S, y \in T : x.file # y.file

\* What a job is to insert, still to write and writing now goes on where each file
\* is covered, with one range of a file.
ChainJob(j) ==
  /\ j.pc = "assemble" => j.pending = {}
  /\ j.pc = "chunk" => j.pending = {} \/ j.cancelled
  /\ OnePerFile(j.pending) /\ \A r \in j.pending : Continues(r)
  /\ j.pc # "assemble" => /\ Distinct(j.items) /\ \A x \in ToSet(j.items) : Continues(x)
                          /\ Apart(ToSet(j.items), j.pending)
  /\ j.pc = "write" => /\ OnePerFile(ToSet(j.chunk)) /\ \A x \in ToSet(j.chunk) : Continues(x)
                       /\ Apart(ToSet(j.items), ToSet(j.chunk))
                       /\ Apart(ToSet(j.chunk), j.pending)

ChainInv ==
  /\ Known
  /\ \A f \in File : Chained(f)
  /\ \A w \in Worker : job[w].pc # "idle" => ChainJob(job[w])

\* The versions of a file.
LEMMA VersionsOK ==
  ASSUME RowsOK, NEW f
  PROVE  /\ Ranges(VersionsOf(f)) /\ CoveredBytes(f) = Cardinality(Cells(VersionsOf(f)))
         /\ \A v \in VersionsOf(f) : v.file = f
<1>1. VersionsOf(f) \subseteq versions /\ \A v \in VersionsOf(f) : v.file = f
  BY DEF VersionsOf
<1>2. Ranges(VersionsOf(f))
  BY <1>1, FS_Subset DEF RowsOK, RowOK, Ranges
<1> QED
  BY <1>1, <1>2 DEF CoveredBytes, Cells

\* Rows that go on where their files are covered keep every file chained, and the
\* other files as they are.
LEMMA InsertChains ==
  ASSUME TypeInv, UNCHANGED indexed, NEW P, \A r \in P : RowOK(r) /\ Continues(r),
         OnePerFile(P), versions' = versions \union Stamp(P), NEW f \in File, Chained(f)
  PROVE  /\ Chained(f)'
         /\ (\A r \in P : r.file # f) => VersionsOf(f)' = VersionsOf(f)
<1> DEFINE V == VersionsOf(f)
           S == {s \in Stamp(P) : s.file = f}
<1>1. VersionsOf(f)' = V \union S
  BY DEF VersionsOf
<1>2. ASSUME NEW s \in S
      PROVE  \E r \in P : r.file = f /\ s = [r EXCEPT !.txn = txn]
                          /\ s.file = f /\ s.lo = r.lo /\ s.hi = r.hi
  <2>1. PICK r \in P : s = [r EXCEPT !.txn = txn]
    BY DEF Stamp
  <2>2. DOMAIN r = RowFields
    BY DEF RowOK
  <2>3. s.file = r.file /\ s.lo = r.lo /\ s.hi = r.hi
    BY <2>1, <2>2 DEF RowFields
  <2> QED
    BY <2>1, <2>3
<1>3. CASE S = {}
  BY <1>1, <1>3 DEF Chained, WholeRange, SizeOf
<1>4. CASE S # {}
  <2>1. PICK s \in S : TRUE
    BY <1>4
  <2>2. PICK r \in P : /\ r.file = f /\ s = [r EXCEPT !.txn = txn]
                       /\ s.file = f /\ s.lo = r.lo /\ s.hi = r.hi
    BY <1>2
  <2>3. S = {s}
    BY <1>2, <2>2 DEF OnePerFile
  <2>4. VersionsOf(f)' = V \union {s}
    BY <1>1, <2>3
  <2>5. CASE WholeRange(r) \/ \E v \in V : WholeRange(v)
    <3>1. \E v \in V \union {s} : WholeRange(v)
      BY <2>2, <2>5 DEF WholeRange
    <3>2. \E v \in V \union {s} : WholeRange(v)'
      BY <3>1 DEF WholeRange, SizeOf
    <3> QED
      BY <2>2, <2>4, <3>2 DEF Chained
  <2>6. CASE ~WholeRange(r) /\ Chain(V)
    <3>1. /\ Ranges(V) /\ s.lo \in Nat /\ s.hi \in Nat /\ s.lo <= s.hi
          /\ s.lo = Cardinality(Cells(V))
      <4>1. RowsOK
        BY DEF TypeInv, DataOK
      <4>2. Ranges(V) /\ CoveredBytes(f) = Cardinality(Cells(V))
        BY <4>1, VersionsOK
      <4>3. RowOK(r) /\ r.lo = CoveredBytes(f) /\ r.lo <= r.hi
        BY <2>2, <2>6 DEF Continues
      <4> QED
        BY <2>2, <4>2, <4>3 DEF RowOK
    <3>2. Chain(V \union {s})
      BY <2>6, <3>1, ChainGrows
    <3> QED
      BY <2>2, <2>4, <3>2 DEF Chained, Chain
  <2> QED
    BY <2>5, <2>6 DEF Chained
<1> QED
  BY <1>1, <1>2, <1>3, <1>4

\* What is left of a sequence shares no file with its first part.
LEMMA RestDistinct ==
  ASSUME NEW T, NEW s \in Seq(T), Distinct(s), NEW k \in 0 .. Len(s)
  PROVE  /\ Distinct(SubSeq(s, k + 1, Len(s)))
         /\ \A i \in 1 .. k : \A y \in ToSet(SubSeq(s, k + 1, Len(s))) : s[i].file # y.file
<1> DEFINE n == Len(s)
           r == SubSeq(s, k + 1, n)
<1>1. n \in Nat /\ k \in Nat /\ k <= n
  OBVIOUS
<1>2. Len(r) = n - k /\ \A i \in 1 .. n - k : r[i] = s[k + i]
  BY <1>1, SubSeqProperties
<1>3. r \in Seq(T)
  BY Parts
<1>4. DOMAIN r = 1 .. n - k
  BY <1>2, <1>3
<1>5. \A i \in 1 .. n - k : k + i \in 1 .. n /\ ~(k + i \in 1 .. k)
  BY <1>1
<1>6. \A i \in 1 .. k : i \in 1 .. n
  BY <1>1
<1> HIDE DEF r
<1>7. Distinct(r)
  <2> SUFFICES ASSUME NEW i \in 1 .. n - k, NEW l \in 1 .. n - k, r[i].file = r[l].file
               PROVE  i = l
    BY <1>2 DEF Distinct
  <2>1. s[k + i].file = s[k + l].file
    BY <1>2
  <2>2. k + i = k + l
    BY <1>5, <2>1 DEF Distinct
  <2> QED
    BY <1>1, <2>2
<1>8. ASSUME NEW i \in 1 .. k, NEW y \in ToSet(r) PROVE s[i].file # y.file
  <2>1. PICK l \in 1 .. n - k : y = s[k + l]
    BY <1>2, <1>4 DEF ToSet
  <2>2. k + l # i
    BY <1>1
  <2> QED
    BY <1>5, <1>6, <2>1, <2>2 DEF Distinct
<1> QED
  BY <1>7, <1>8 DEF r

\* The items are cut into a chunk c and the rest.
Cut(items, c, rest) ==
  /\ Distinct(rest) /\ OnePerFile(c) /\ Apart(ToSet(rest), c)
  /\ \A x \in c : \E y \in ToSet(items) : x.file = y.file /\ x.lo = y.lo /\ x.hi = y.hi

\* A chunk has one item of a file, and shares none with the rest of the batch.
LEMMA ChunkApart ==
  ASSUME IndexOK, NEW j, RunOK(j), NEW n \in 0 .. Len(j.items), Distinct(j.items),
         NEW rest, rest = SubSeq(j.items, n + 1, Len(j.items))
  PROVE  Cut(j.items, ToSet(Chunk(j, n)), rest)
<1>1. /\ j.items \in Seq(Items) /\ Len(j.items) \in Nat /\ n \in Nat
      /\ \A i \in 1 .. n : /\ i \in 1 .. Len(j.items) /\ j.items[i] \in Items
                           /\ j.items[i] \in ToSet(j.items)
                           /\ indexed[j.items[i].file] # Gone
  <2>1. j.items \in Seq(Items) /\ \A x \in ToSet(j.items) : indexed[x.file] # Gone
    BY DEF RunOK
  <2>2. /\ Len(j.items) \in Nat /\ n \in Nat
        /\ \A i \in 1 .. n : i \in 1 .. Len(j.items) /\ j.items[i] \in Items
    BY <2>1
  <2>3. \A i \in 1 .. n : j.items[i] \in ToSet(j.items)
    BY <2>1, <2>2 DEF ToSet
  <2> QED
    BY <2>1, <2>2, <2>3
<1> DEFINE c == Chunk(j, n)
           Same(x, y) == x.file = y.file /\ x.lo = y.lo /\ x.hi = y.hi
<1>2. DOMAIN c = 1 .. n /\ \A i \in 1 .. n : c[i] = j.items[i] \/ c[i] = Reloaded(j.items[i])
  BY <1>1, SubSeqProperties DEF Chunk
<1> HIDE DEF c
<1>3. ASSUME NEW i \in 1 .. n PROVE Same(c[i], j.items[i])
  <2> PICK y : y = j.items[i]
    OBVIOUS
  <2>1. y \in Items /\ indexed[y.file] # Gone
    BY <1>1
  <2>2. Same(Reloaded(y), y)
    BY <2>1, ReloadedOK
  <2> QED
    BY <1>2, <2>2
<1>4. \A x \in ToSet(c) : \E i \in 1 .. n : x = c[i] /\ Same(x, j.items[i])
  BY <1>2, <1>3 DEF ToSet
<1>5. Distinct(rest) /\ \A i \in 1 .. n : \A y \in ToSet(rest) : j.items[i].file # y.file
  BY <1>1, RestDistinct
<1>6. OnePerFile(ToSet(c))
  BY <1>1, <1>4 DEF OnePerFile, Distinct
<1>7. Apart(ToSet(rest), ToSet(c))
  BY <1>4, <1>5 DEF Apart
<1>8. \A x \in ToSet(c) : \E y \in ToSet(j.items) : Same(x, y)
  BY <1>1, <1>4
<1> QED
  BY <1>5, <1>6, <1>7, <1>8 DEF c, Cut

\* Ranges that are the same but for their place.
LEMMA SameContinues ==
  ASSUME NEW x, NEW y, x.file = y.file, x.lo = y.lo, x.hi = y.hi, Continues(y)
  PROVE  Continues(x)
BY DEF Continues, WholeRange

\* A range goes on where it did as long as its file gets no new version.
LEMMA ContinuesStays ==
  ASSUME Known, [Next]_vars, NEW x, x.file \in File, Continues(x),
         VersionsOf(x.file)' = VersionsOf(x.file)
  PROVE  Continues(x)'
<1>1. CoveredBytes(x.file)' = CoveredBytes(x.file)
  BY DEF CoveredBytes
<1>2. WholeRange(x) => WholeRange(x)'
  BY WholeStays
<1> QED
  BY <1>1, <1>2 DEF Continues

\* A file stays chained as long as it gets no new version.
LEMMA ChainedStays ==
  ASSUME Known, [Next]_vars, NEW f \in File, Chained(f), VersionsOf(f)' = VersionsOf(f)
  PROVE  Chained(f)'
<1>1. CASE Chain(VersionsOf(f))
  BY <1>1 DEF Chained
<1>2. CASE \E v \in VersionsOf(f) : WholeRange(v)
  <2>1. PICK v \in VersionsOf(f) : WholeRange(v)
    BY <1>2
  <2>2. v.file = f
    BY DEF VersionsOf
  <2>3. WholeRange(v)'
    BY <2>1, <2>2, WholeStays
  <2> QED
    BY <2>3 DEF Chained
<1> QED
  BY <1>1, <1>2 DEF Chained

\* A step of the only job.
LEMMA ChainStep ==
  ASSUME TypeInv, Alone, Known, [Next]_vars, NEW w \in Worker, NEW j,
         job' = [job EXCEPT ![w] = j], \A f \in File : Chained(f)',
         j.pc # "idle" => ChainJob(j)'
  PROVE  ChainInv'
<1>1. ASSUME NEW u \in Worker, job'[u].pc # "idle" PROVE ChainJob(job[u])'
  <2>1. u = w /\ job'[u] = j
    BY DEF Alone, TypeInv, JobsOK
  <2>2. ChainJob(j)'
    BY <1>1, <2>1
  <2>3. job'[u] = j
    BY <2>1
  <2> QED
    BY <2>2, <2>3 DEF ChainJob, Continues, WholeRange
<1>2. Known'
  BY KnownNext
<1> QED
  BY <1>1, <1>2 DEF ChainInv

\* One that leaves rows and index alone.
LEMMA ChainQuiet ==
  ASSUME TypeInv, Alone, ChainInv, [Next]_vars, NEW w \in Worker, NEW j,
         job' = [job EXCEPT ![w] = j], UNCHANGED <<versions, indexed>>,
         j.pc # "idle" => ChainJob(j)
  PROVE  ChainInv'
<1>1. \A f \in File : Chained(f)'
  BY ChainedStays DEF ChainInv, VersionsOf
<1>2. ASSUME NEW x, Continues(x) PROVE Continues(x)'
  BY <1>2 DEF Continues, CoveredBytes, VersionsOf, WholeRange, SizeOf
<1>3. j.pc # "idle" => ChainJob(j)'
  BY <1>2 DEF ChainJob
<1>4. Known
  BY DEF ChainInv
<1> QED
  BY <1>1, <1>3, <1>4, ChainStep

\* Phase 1 goes on where a file is covered; a copy is all of a file that nobody
\* writes to, or there are no copies.
LEMMA ChosenContinues ==
  ASSUME CountInv, Fixed \/ Target = 1, NEW m, NEW x \in Chosen(m)
  PROVE  Continues(x)
<1>1. Choice(x, m)
  BY DEF Chosen
<1>2. CASE x.copy
  <2>1. x.file \in Redundant(m)
    BY <1>1, <1>2 DEF Choice
  <2>2. Target # 1
    <3>1. redundancy[x.file] \in Nat /\ 1 <= redundancy[x.file] /\ redundancy[x.file] < Target
      BY <2>1, FS_CardinalityType DEF Redundant, CountInv, CountIsCoverage
    <3> QED
      BY <3>1
  <2>3. x.lo = 0 /\ x.hi = SizeOf(x.file) /\ indexed[x.file] # Gone
    BY <1>1, <1>2, Zenon DEF Choice, Archivable
  <2> QED
    BY <2>2, <2>3 DEF Continues, WholeRange
<1>3. CASE ~x.copy
  BY <1>1, <1>3 DEF Choice, Continues
<1> QED
  BY <1>2, <1>3

\* The start of a job and the choice of its batch.
LEMMA AssembleChains ==
  ASSUME TypeInv, CountInv, Chainable, ChainInv, [Next]_vars, NEW w \in Worker,
         Assemble(w) \/ \E m \in Medium : Begin(w, m)
  PROVE  ChainInv'
<1>1. CASE Assemble(w)
  <2>1. PICK items : Assembled(w, items)
    BY <1>1, AssembledFields
  <2>2. /\ job[w].pc = "assemble" /\ RunOK(job[w])
        /\ UNCHANGED <<disks, index, rows, media, store>>
    BY <1>1, AssembledFields
  <2> DEFINE m == job[w].medium
             n == NewBatch(w, items)
             j == IF items = <<>> THEN Idle ELSE n
  <2>3. /\ items \in Seq(Chosen(m)) /\ Distinct(items) /\ job' = [job EXCEPT ![w] = j]
        /\ n.items = EmptyFirst(items) /\ n.pc = "chunk" /\ n.pending = job[w].pending
    BY <2>1 DEF Assembled
  <2>4. ToSet(n.items) \subseteq Chosen(m) /\ Distinct(n.items)
    <3> HIDE DEF n, m
    <3> QED
      BY <2>3, EmptyFirstKeeps, ToSetFinite
  <2>5. n.pending = {}
    BY <2>2, <2>3 DEF ChainInv, ChainJob
  <2> HIDE DEF n, m
  <2>6. \A x \in ToSet(n.items) : Continues(x)
    BY <2>4, ChosenContinues DEF Chainable
  <2>7. ChainJob(n)
    BY <2>3, <2>4, <2>5, <2>6 DEF ChainJob, OnePerFile, Apart
  <2>8. j.pc # "idle" => ChainJob(j)
    BY <2>7 DEF Idle
  <2> HIDE DEF j
  <2> QED
    BY <2>2, <2>3, <2>8, ChainQuiet DEF rows, index, Chainable
<1>2. ASSUME NEW m \in Medium, Begin(w, m) PROVE ChainInv'
  <2> DEFINE n == [pc |-> "assemble", medium |-> m, base |-> used[m], batch |-> 0,
                   items |-> <<>>, chunk |-> <<>>, first |-> TRUE, created |-> FALSE,
                   pending |-> {}, cover |-> {}, bytes |-> 0,
                   skipped |-> {}, touched |-> {}, cancelled |-> FALSE]
  <2>1. job' = [job EXCEPT ![w] = n] /\ UNCHANGED <<rows, index>>
    BY <1>2 DEF Begin
  <2>2. n.pc = "assemble" /\ n.pending = {}
    OBVIOUS
  <2> HIDE DEF n
  <2>3. ChainJob(n)
    BY <2>2 DEF ChainJob, OnePerFile
  <2> QED
    BY <2>1, <2>3, ChainQuiet DEF rows, index, Chainable
<1> QED
  BY <1>1, <1>2

\* A chunk is made of the batch, and with it the links.
LEMMA PrepareChains ==
  ASSUME TypeInv, Chainable, ChainInv, [Next]_vars, NEW w \in Worker, NEW n \in Nat,
         Prepare(w, n)
  PROVE  ChainInv'
<1>1. /\ RunOK(job[w]) /\ n \in 0 .. Len(job[w].items) /\ job[w].pc = "chunk"
      /\ UNCHANGED <<disks, index, rows, media, store>>
  BY PreparedFields
<1>2. PICK v : PreparedBy(w, n, v)
  BY PreparedFields
<1> PICK p : p = Prepared(w, n, v)
  OBVIOUS
<1> PICK c : c = ToSet(Chunk(job[w], n))
  OBVIOUS
<1>3. /\ job' = [job EXCEPT ![w] = p] /\ p.pc \in {"write", "commit"}
      /\ p.items = SubSeq(job[w].items, n + 1, Len(job[w].items))
      /\ ToSet(p.items) \subseteq ToSet(job[w].items)
      /\ ToSet(p.chunk) \subseteq c \ Linked(w, n)
      /\ p.pending = {Link(x, v[x]) : x \in Linked(w, n)}
  BY <1>2 DEF PreparedBy
<1>4. ChainJob(job[w])
  BY <1>1 DEF ChainInv
<1>5. /\ Distinct(job[w].items) /\ \A x \in ToSet(job[w].items) : Continues(x)
  BY <1>1, <1>4 DEF ChainJob
<1>6. /\ Distinct(p.items) /\ OnePerFile(c) /\ Apart(ToSet(p.items), c)
      /\ \A x \in c : \E y \in ToSet(job[w].items) :
           x.file = y.file /\ x.lo = y.lo /\ x.hi = y.hi
  <2>1. IndexOK
    BY DEF TypeInv, DataOK
  <2> PICK j : j = job[w]
    OBVIOUS
  <2>2. RunOK(j) /\ n \in 0 .. Len(j.items) /\ Distinct(j.items) /\ c = ToSet(Chunk(j, n))
    BY <1>1, <1>5
  <2> PICK rest : rest = SubSeq(j.items, n + 1, Len(j.items))
    OBVIOUS
  <2>3. p.items = rest
    BY <1>3
  <2>4. Cut(j.items, ToSet(Chunk(j, n)), rest)
    BY <2>1, <2>2, ChunkApart
  <2> QED
    BY <2>2, <2>3, <2>4 DEF Cut
<1>7. \A x \in c : Continues(x)
  BY <1>5, <1>6, SameContinues
<1>8. \A r \in p.pending : \E x \in Linked(w, n) :
        /\ r = Link(x, v[x]) /\ x \in c
        /\ r.file = x.file /\ r.lo = x.lo /\ r.hi = x.hi
  BY <1>3 DEF Link, Linked
<1>9. \A r \in p.pending : Continues(r)
  BY <1>7, <1>8, SameContinues
<1>10. OnePerFile(p.pending) /\ Apart(ToSet(p.items), p.pending) /\ Apart(ToSet(p.chunk), p.pending)
  BY <1>3, <1>6, <1>8 DEF OnePerFile, Apart
<1>11. OnePerFile(ToSet(p.chunk)) /\ Apart(ToSet(p.items), ToSet(p.chunk))
  BY <1>3, <1>6 DEF OnePerFile, Apart
<1>12. ChainJob(p)
  BY <1>3, <1>5, <1>6, <1>7, <1>9, <1>10, <1>11 DEF ChainJob
<1> QED
  BY <1>1, <1>3, <1>12, ChainQuiet DEF rows, index, Chainable

\* The rows that a writer leaves, one for some of the items of its chunk.
Rows(w, for) ==
  /\ \A r \in for : \E x \in ToSet(job[w].chunk) :
       r.file = x.file /\ r.lo = x.lo /\ r.hi = x.hi
  /\ OnePerFile(ToSet(job[w].chunk)) => OnePerFile(for)

\* What a writer leaves in the session.
LEMMA WriterRows ==
  ASSUME TypeInv, NEW w \in Worker, CopyFiles(w) \/ StreamArchive(w) \/ StageArchive(w)
  PROVE  \E for, bytes : Rows(w, for) /\ job' = [job EXCEPT ![w] = Written(w, for, bytes)]
<1> PICK c : c = ToSet(job[w].chunk)
  OBVIOUS
<1>1. ASSUME NEW X, X \subseteq c, NEW slot, NEW for, for = {Row(w, x, slot[x]) : x \in X}
      PROVE  Rows(w, for)
  <2>1. \A r \in for : \E x \in c :
          /\ r = Row(w, x, slot[x])
          /\ r.file = x.file /\ r.lo = x.lo /\ r.hi = x.hi
    BY <1>1 DEF Row
  <2> QED
    BY <2>1 DEF Rows, OnePerFile
<1>2. CASE CopyFiles(w)
  <2>1. job[w].chunk \in Seq(Items)
    BY <1>2, RunsOK DEF CopyFiles, RunOK
  <2>2. PICK n \in Reached(w) :
          LET done == Present(SubSeq(job[w].chunk, 1, n)) IN
          job' = [job EXCEPT ![w] =
            Written(w, {Row(w, x, ObjectName(x)) : x \in ToSet(done)}, TotalLength(done))]
    BY <1>2, Zenon DEF CopyFiles
  <2> PICK done : done = Present(SubSeq(job[w].chunk, 1, n))
    OBVIOUS
  <2> PICK bytes : bytes = TotalLength(done)
    OBVIOUS
  <2> PICK slot : slot = [x \in ToSet(done) |-> ObjectName(x)]
    OBVIOUS
  <2> DEFINE for == {Row(w, x, ObjectName(x)) : x \in ToSet(done)}
  <2>3. ToSet(done) \subseteq c
    BY <2>1, ReachedOK
  <2>4. job' = [job EXCEPT ![w] = Written(w, for, bytes)]
    BY <2>2
  <2>5. for = {Row(w, x, slot[x]) : x \in ToSet(done)}
    OBVIOUS
  <2> HIDE DEF for
  <2>6. Rows(w, for)
    BY <1>1, <2>3, <2>5
  <2> QED
    BY <2>4, <2>6
<1>3. CASE StreamArchive(w) \/ StageArchive(w)
  <2> PICK next : next = NextArchive(job[w].medium)
    OBVIOUS
  <2> PICK slot : slot = [x \in c |-> next]
    OBVIOUS
  <2> DEFINE for == {Row(w, x, next) : x \in ToSet(job[w].chunk)}
  <2>1. PICK bytes : job' = [job EXCEPT ![w] = Written(w, for, bytes)]
    BY <1>3, Zenon DEF StreamArchive, StageArchive
  <2>2. for = {Row(w, x, slot[x]) : x \in c}
    OBVIOUS
  <2> HIDE DEF for
  <2>3. Rows(w, for)
    BY <1>1, <2>2
  <2> QED
    BY <2>1, <2>3
<1> QED
  BY <1>2, <1>3

\* The rows of a chunk go on where the chunk does.
LEMMA WriteChains ==
  ASSUME TypeInv, Chainable, ChainInv, [Next]_vars, NEW w \in Worker,
         CopyFiles(w) \/ StreamArchive(w) \/ StageArchive(w)
  PROVE  ChainInv'
<1>1. job[w].pc = "write" /\ UNCHANGED <<rows, index>>
  BY DEF CopyFiles, StreamArchive, StageArchive
<1>2. RunOK(job[w]) /\ ChainJob(job[w])
  BY <1>1, RunsOK DEF ChainInv
<1>3. PICK for, bytes : Rows(w, for) /\ job' = [job EXCEPT ![w] = Written(w, for, bytes)]
  BY WriterRows
<1> PICK n : n = Written(w, for, bytes)
  OBVIOUS
<1>4. n.items = job[w].items /\ n.pc = "commit" /\ n.pending = job[w].pending \union for
  <2>1. DOMAIN job[w] = JobFields
    BY <1>2 DEF RunOK
  <2> QED
    BY <2>1 DEF Written, JobFields
<1>5. /\ Distinct(n.items) /\ \A x \in ToSet(n.items) : Continues(x)
      /\ OnePerFile(job[w].pending) /\ \A r \in job[w].pending : Continues(r)
      /\ OnePerFile(ToSet(job[w].chunk)) /\ \A x \in ToSet(job[w].chunk) : Continues(x)
      /\ Apart(ToSet(n.items), job[w].pending) /\ Apart(ToSet(n.items), ToSet(job[w].chunk))
      /\ Apart(ToSet(job[w].chunk), job[w].pending)
  BY <1>1, <1>2, <1>4 DEF ChainJob
<1>6. /\ OnePerFile(for)
      /\ \A r \in for : \E x \in ToSet(job[w].chunk) :
           r.file = x.file /\ r.lo = x.lo /\ r.hi = x.hi
  BY <1>3, <1>5 DEF Rows
<1>7. \A r \in for : Continues(r)
  BY <1>5, <1>6, SameContinues
<1>8. OnePerFile(n.pending)
  BY <1>4, <1>5, <1>6 DEF OnePerFile, Apart
<1>9. Apart(ToSet(n.items), n.pending)
  BY <1>4, <1>5, <1>6 DEF Apart
<1>10. ChainJob(n)
  BY <1>4, <1>5, <1>7, <1>8, <1>9 DEF ChainJob
<1> QED
  BY <1>1, <1>3, <1>10, ChainQuiet DEF rows, index, Chainable

\* A job that stops or is cancelled.
LEMMA StopChains ==
  ASSUME TypeInv, Chainable, ChainInv, [Next]_vars, NEW w \in Worker,
         WriteFault(w) \/ MediumLost(w) \/ DropStaged(w) \/ Cancel(w)
  PROVE  ChainInv'
<1> PICK stopped : stopped = [job[w] EXCEPT !.pc = "chunk"]
  OBVIOUS
<1> PICK canceled : canceled = [job[w] EXCEPT !.cancelled = TRUE]
  OBVIOUS
<1>1. job[w].pc # "idle" /\ UNCHANGED <<versions, indexed>>
  BY DEF WriteFault, MediumLost, DropStaged, Cancel, rows, index
<1>2. RunOK(job[w]) /\ ChainJob(job[w])
  BY <1>1, RunsOK DEF ChainInv
<1>3. \/ job' = [job EXCEPT ![w] = Idle]
      \/ job' = [job EXCEPT ![w] = stopped] /\ job[w].pc = "write" /\ job[w].cancelled
      \/ job' = [job EXCEPT ![w] = canceled]
  BY DEF WriteFault, MediumLost, DropStaged, Cancel, Step
<1>4. /\ stopped.pc = "chunk" /\ stopped.cancelled = job[w].cancelled
      /\ stopped.items = job[w].items /\ stopped.pending = job[w].pending
      /\ canceled.pc = job[w].pc /\ canceled.cancelled = TRUE
      /\ canceled.items = job[w].items /\ canceled.pending = job[w].pending
      /\ canceled.chunk = job[w].chunk
  BY <1>2 DEF RunOK, JobFields
<1>5. job[w].pc = "write" /\ job[w].cancelled => ChainJob(stopped)
  BY <1>2, <1>4 DEF ChainJob
<1>6. ChainJob(canceled)
  BY <1>2, <1>4 DEF ChainJob
<1>7. Idle.pc = "idle"
  BY DEF Idle
<1> QED
  BY <1>1, <1>3, <1>5, <1>6, <1>7, ChainQuiet DEF Chainable

\* The rows of a session go in.
LEMMA InsertPending ==
  ASSUME TypeInv, ChainInv, NEW w \in Worker, job[w].pc # "idle", UNCHANGED indexed,
         versions' = versions \union Stamp(job[w].pending)
  PROVE  /\ \A f \in File : Chained(f)'
         /\ \A f \in File :
              (\A r \in job[w].pending : r.file # f) => VersionsOf(f)' = VersionsOf(f)
<1>1. RunOK(job[w]) /\ ChainJob(job[w])
  BY RunsOK DEF ChainInv
<1>2. OnePerFile(job[w].pending) /\ \A r \in job[w].pending : RowOK(r) /\ Continues(r)
  BY <1>1 DEF RunOK, ChainJob
<1>3. \A f \in File : Chained(f)
  BY DEF ChainInv
<1> QED
  BY <1>2, <1>3, InsertChains

\* The checkpoint after a chunk: the rest of the batch is of other files.
LEMMA CommitChains ==
  ASSUME TypeInv, Chainable, ChainInv, [Next]_vars, NEW w \in Worker, Commit(w)
  PROVE  ChainInv'
<1> PICK n : n = [job[w] EXCEPT !.pc = "chunk", !.chunk = <<>>, !.pending = {}, !.cover = {},
                                !.bytes = 0]
  OBVIOUS
<1>1. job[w].pc = "commit" /\ UNCHANGED index
  BY DEF Commit
<1>2. RunOK(job[w]) /\ ChainJob(job[w]) /\ Known
  BY <1>1, RunsOK DEF ChainInv
<1>3. CASE job' = [job EXCEPT ![w] = Idle] /\ UNCHANGED rows
  BY <1>1, <1>3, ChainQuiet DEF Idle, rows, index, Chainable
<1>4. CASE versions' = versions \union Stamp(job[w].pending) /\ job' = [job EXCEPT ![w] = n]
  <2>1. /\ \A f \in File : Chained(f)'
        /\ \A f \in File :
             (\A r \in job[w].pending : r.file # f) => VersionsOf(f)' = VersionsOf(f)
    BY <1>1, <1>4, InsertPending DEF index
  <2>2. n.pc = "chunk" /\ n.items = job[w].items /\ n.pending = {}
    BY <1>2 DEF RunOK, JobFields
  <2>3. /\ Distinct(n.items) /\ Apart(ToSet(n.items), job[w].pending)
        /\ \A x \in ToSet(n.items) : x.file \in File /\ Continues(x)
    <3>1. ToSet(job[w].items) \subseteq Items
      BY <1>2, ToSetFinite DEF RunOK
    <3> QED
      BY <1>1, <1>2, <2>2, <3>1 DEF ChainJob, Items
  <2>4. ASSUME NEW x \in ToSet(n.items) PROVE Continues(x)'
    <3>1. VersionsOf(x.file)' = VersionsOf(x.file)
      BY <2>1, <2>3 DEF Apart
    <3> QED
      BY <1>2, <2>3, <3>1, ContinuesStays
  <2>5. ChainJob(n)'
    BY <2>2, <2>3, <2>4 DEF ChainJob, OnePerFile, Apart
  <2> QED
    BY <1>2, <1>4, <2>1, <2>5, ChainStep DEF Chainable
<1> QED
  BY <1>3, <1>4 DEF Commit

\* The end of a batch: what a cancelled chunk left in the session goes in.
LEMMA EndBatchChains ==
  ASSUME TypeInv, Chainable, ChainInv, [Next]_vars, NEW w \in Worker, EndBatch(w)
  PROVE  ChainInv'
<1> PICK n : n = [job[w] EXCEPT !.pc = "assemble", !.base = used[job[w].medium]]
  OBVIOUS
<1>1. job[w].pc = "chunk" /\ UNCHANGED index
  BY DEF EndBatch
<1>2. RunOK(job[w]) /\ ChainJob(job[w]) /\ Known
  BY <1>1, RunsOK DEF ChainInv
<1>3. CASE job' = [job EXCEPT ![w] = Idle] /\ UNCHANGED versions
  BY <1>1, <1>3, ChainQuiet DEF Idle, index, Chainable
<1>4. CASE /\ versions' = versions \union Stamp(job[w].pending)
           /\ \/ job' = [job EXCEPT ![w] = Idle]
              \/ job' = [job EXCEPT ![w] = n] /\ ~job[w].cancelled
  <2>1. \A f \in File : Chained(f)'
    BY <1>1, <1>4, InsertPending DEF index
  <2>2. n.pc = "assemble" /\ n.pending = job[w].pending /\ Idle.pc = "idle"
    BY <1>2 DEF RunOK, JobFields, Idle
  <2>3. ~job[w].cancelled => n.pending = {}
    BY <1>1, <1>2, <2>2 DEF ChainJob
  <2>4. ~job[w].cancelled => ChainJob(n)'
    BY <2>2, <2>3 DEF ChainJob, OnePerFile
  <2> QED
    BY <1>2, <1>4, <2>1, <2>2, <2>4, ChainStep DEF Chainable
<1>5. ~LastBatch(job[w], 100 * used[job[w].medium] >= 98 * Capacity[job[w].medium]
                           /\ mstatus[job[w].medium] = "active") => ~job[w].cancelled
  BY DEF LastBatch
<1> QED
  BY <1>3, <1>4, <1>5 DEF EndBatch

\* A job has the same to do as before.
SameWork(w) ==
  /\ job[w].pc # "idle"
  /\ job'[w].pc = job[w].pc /\ job'[w].cancelled = job[w].cancelled
  /\ job'[w].items = job[w].items /\ job'[w].chunk = job[w].chunk
  /\ job'[w].pending = job[w].pending

\* Whatever happens around the jobs leaves those that go on as they are.
LEMMA OthersWork ==
  ASSUME TypeInv,
         \/ \E m \in Medium : \/ \E s \in {"active", "RETIRED"} : UpdateMedia(m, s)
                              \/ DeleteMedia(m) \/ InitializeMedia(m)
         \/ \E f \in File : \/ \E c \in Content : WriteFile(f, c)
                            \/ RemoveFile(f) \/ HashFile(f)
         \/ Scan \/ Crash \/ UNCHANGED vars,
         NEW w \in Worker, job'[w].pc # "idle"
  PROVE  SameWork(w)
<1>1. CASE UNCHANGED job
  BY <1>1 DEF SameWork
<1>2. ASSUME NEW f, job' = [u \in Worker |-> IF job[u].pc = "idle" THEN Idle
                                     ELSE [job[u] EXCEPT !.touched = @ \union {f}]]
      PROVE  SameWork(w)
  <2>1. job[w].pc # "idle"
    BY <1>2 DEF Idle
  <2>2. DOMAIN job[w] = JobFields
    BY <2>1, RunsOK DEF RunOK
  <2> QED
    BY <1>2, <2>1, <2>2 DEF SameWork, JobFields
<1>3. CASE Crash
  BY <1>3 DEF Crash, Idle
<1>4. UNCHANGED job \/ Crash \/ \E f \in File, c \in Content : WriteFile(f, c)
  BY DEF UpdateMedia, DeleteMedia, InitializeMedia, RemoveFile, HashFile, Scan, vars
<1> QED
  BY <1>1, <1>2, <1>3, <1>4 DEF WriteFile

\* Media are taken out of service only where rows stay, and files written to.
LEMMA OthersChain ==
  ASSUME TypeInv, Chainable, ChainInv, [Next]_vars,
         \/ \E m \in Medium : \/ \E s \in {"active", "RETIRED"} : UpdateMedia(m, s)
                              \/ DeleteMedia(m) \/ InitializeMedia(m)
         \/ \E f \in File : \/ \E c \in Content : WriteFile(f, c)
                            \/ RemoveFile(f) \/ HashFile(f)
         \/ Scan \/ Crash \/ UNCHANGED vars
  PROVE  ChainInv'
<1>1. Known /\ Known'
  BY KnownNext DEF ChainInv
<1>2. UNCHANGED versions
  <2>1. ASSUME NEW m \in Medium, \/ \E s \in {"active", "RETIRED"} : UpdateMedia(m, s)
                                 \/ DeleteMedia(m) \/ InitializeMedia(m)
        PROVE  UNCHANGED versions
    BY <2>1 DEF UpdateMedia, DeleteMedia, InitializeMedia, Allowed, Chainable, Unpurged
  <2>2. ASSUME NEW f \in File, \/ \E c \in Content : WriteFile(f, c)
                               \/ RemoveFile(f) \/ HashFile(f)
        PROVE  UNCHANGED versions
    BY <2>2 DEF WriteFile, RemoveFile, HashFile, rows
  <2>3. Scan \/ Crash \/ UNCHANGED vars => UNCHANGED versions
    BY DEF Scan, Crash, vars, rows
  <2> QED
    BY <2>1, <2>2, <2>3
<1>3. \A f \in File : Chained(f)'
  BY <1>1, <1>2, ChainedStays DEF ChainInv, VersionsOf
<1>4. ASSUME NEW x, x.file \in File, Continues(x) PROVE Continues(x)'
  BY <1>1, <1>2, <1>4, ContinuesStays DEF VersionsOf
<1>5. ASSUME NEW w \in Worker, job'[w].pc # "idle" PROVE SameWork(w)
  BY <1>5, OthersWork
<1>6. ASSUME NEW w \in Worker, job'[w].pc # "idle" PROVE ChainJob(job[w])'
  <2>1. RunOK(job[w]) /\ ChainJob(job[w])
    BY <1>5, <1>6, RunsOK DEF ChainInv, SameWork
  <2>2. /\ \A x \in ToSet(job[w].items) \union ToSet(job[w].chunk) : x.file \in File
        /\ \A r \in job[w].pending : r.file \in File
    <3>1. ToSet(job[w].items) \subseteq Items /\ ToSet(job[w].chunk) \subseteq Items
      BY <2>1, ToSetFinite DEF RunOK
    <3> QED
      BY <2>1, <3>1 DEF RunOK, RowOK, Items
  <2> PICK j : j = job[w]
    OBVIOUS
  <2>3. ChainJob(j)'
    BY <1>4, <2>1, <2>2 DEF ChainJob
  <2> QED
    BY <1>5, <1>6, <2>3 DEF ChainJob, SameWork
<1> QED
  BY <1>1, <1>3, <1>6 DEF ChainInv

\* Nothing is covered at first.
LEMMA ChainInit == Init => ChainInv
<1> SUFFICES ASSUME Init PROVE ChainInv
  OBVIOUS
<1>1. /\ versions = {} /\ indexed = [f \in File |-> Gone] /\ \A w \in Worker : job[w] = Idle
  BY DEF Init
<1>2. Cells({}) = {} /\ Cardinality({}) = 0
  BY FS_EmptySet DEF Cells
<1>3. Chain({})
  BY <1>2 DEF Chain
<1>4. ASSUME NEW f \in File PROVE Chained(f)
  <2>1. VersionsOf(f) = {}
    BY <1>1 DEF VersionsOf
  <2> QED
    BY <1>3, <2>1 DEF Chained
<1> QED
  BY <1>1, <1>4 DEF ChainInv, Known, Idle

\* One backup at a time keeps every file chained.
LEMMA ChainNext ==
  ASSUME TypeInv, CountInv, Chainable, ChainInv, [Next]_vars
  PROVE  ChainInv'
<1>1. ASSUME NEW w \in Worker, WorkerStep(w) PROVE ChainInv'
  <2>1. ASSUME NEW n \in 1 .. Cardinality(File), Prepare(w, n) PROVE ChainInv'
    <3>1. n \in Nat
      BY ArchiveConstants, FS_CardinalityType
    <3> QED
      BY <2>1, <3>1, PrepareChains
  <2> QED
    BY <1>1, <2>1, AssembleChains, WriteChains, StopChains, CommitChains, EndBatchChains
       DEF WorkerStep
<1>2. ASSUME NEW w \in Worker, (\E m \in Medium : Begin(w, m)) \/ WriteFault(w) \/ Cancel(w)
      PROVE  ChainInv'
  BY <1>2, AssembleChains, StopChains
<1> QED
  BY <1>1, <1>2, OthersChain DEF Next

-----------------------------------------------------------------------------
(* Where nothing is split, all ranges are whole files.                      *)

\* The range of a file is whole.
Full(x) == x.file \in File /\ WholeRange(x)

FullJob(j) ==
  /\ \A r \in j.pending : Full(r)
  /\ j.pc # "assemble" => \A x \in ToSet(j.items) : Full(x)
  /\ j.pc = "write" => \A x \in ToSet(j.chunk) : Full(x)

FullInv ==
  /\ Known
  /\ \A v \in versions : Full(v)
  /\ \A w \in Worker : job[w].pc # "idle" => FullJob(job[w])

\* A step of one job, which may insert its rows.
LEMMA FullStep ==
  ASSUME TypeInv, FullInv, [Next]_vars, NEW w \in Worker, NEW j, job' = [job EXCEPT ![w] = j],
         job[w].pc # "idle" \/ UNCHANGED versions,
         versions' \subseteq versions \union Stamp(job[w].pending),
         j.pc # "idle" => FullJob(j)
  PROVE  FullInv'
<1>1. Known /\ Known'
  BY KnownNext DEF FullInv
<1>2. ASSUME NEW x, Full(x) PROVE Full(x)'
  BY <1>1, <1>2, WholeStays DEF Full
<1>3. ASSUME NEW k, FullJob(k) PROVE FullJob(k)'
  BY <1>2, <1>3 DEF FullJob
<1>4. ASSUME NEW v \in versions' PROVE Full(v)
  <2>1. CASE v \in versions
    BY <2>1 DEF FullInv
  <2>2. CASE v \notin versions
    <3>1. job[w].pc # "idle"
      BY <2>2
    <3>2. PICK r \in job[w].pending : v = [r EXCEPT !.txn = txn]
      BY <2>2 DEF Stamp
    <3>3. Full(r) /\ DOMAIN r = RowFields
      BY <3>1, RunsOK DEF FullInv, FullJob, RunOK, RowOK
    <3>4. v.file = r.file /\ v.lo = r.lo /\ v.hi = r.hi
      BY <3>2, <3>3 DEF RowFields
    <3> QED
      BY <3>3, <3>4 DEF Full, WholeRange
  <2> QED
    BY <2>1, <2>2
<1>5. ASSUME NEW u \in Worker, job'[u].pc # "idle" PROVE FullJob(job[u])'
  <2> PICK k : k = job'[u]
    OBVIOUS
  <2>1. FullJob(k)
    BY <1>5 DEF FullInv, TypeInv, JobsOK
  <2>2. FullJob(k)'
    BY <1>3, <2>1
  <2> QED
    BY <2>2 DEF FullJob
<1> QED
  BY <1>1, <1>2, <1>4, <1>5 DEF FullInv

\* A version from the first byte covers its length.
LEMMA FirstBytes ==
  ASSUME RowsOK, NEW f, NEW v \in VersionsOf(f), v.lo = 0
  PROVE  v.hi <= CoveredBytes(f)
<1> DEFINE V == VersionsOf(f)
<1>1. Ranges(V) /\ CoveredBytes(f) = Cardinality(Cells(V)) /\ v.hi \in Nat
  BY VersionsOK DEF Ranges
<1>2. IsFiniteSet(Cells(V)) /\ Cardinality(Cells(V)) \in Nat
  BY <1>1, RangesAddUp DEF Ranges
<1>3. Cells({v}) \subseteq Cells(V)
  BY DEF Cells
<1>4. Cardinality(Cells({v})) = v.hi
  <2>1. Ranges({}) /\ Cardinality(Cells({})) = 0
    BY FS_EmptySet DEF Ranges, Cells
  <2>2. Cardinality(Cells({} \union {v})) = Cardinality(Cells({})) + (v.hi - v.lo)
    BY <1>1, <2>1, CellsAdd
  <2>3. {} \union {v} = {v}
    OBVIOUS
  <2> QED
    BY <1>1, <2>1, <2>2, <2>3
<1>5. Cardinality(Cells({v})) <= Cardinality(Cells(V))
  BY <1>2, <1>3, FS_Subset
<1> QED
  BY <1>1, <1>4, <1>5

\* A file that is offered for the first time has no version yet.
LEMMA ChosenFull ==
  ASSUME TypeInv, Unsplit, FullInv, NEW m \in Medium, NEW x \in Chosen(m)
  PROVE  Full(x)
<1>1. Choice(x, m) /\ x.file \in File
  BY DEF Chosen, Items
<1>2. /\ RowsOK /\ IndexOK /\ Fixed /\ indexed[x.file] # Gone /\ indexed[x.file] \in Content
      /\ SizeOf(x.file) \in Nat
  BY <1>1, ArchiveConstants
     DEF Choice, Archivable, TypeInv, DataOK, IndexOK, Contents, Unsplit, SizeOf
<1>3. CASE x.copy
  <2>1. x.lo = 0 /\ x.hi = SizeOf(x.file)
    BY <1>1, <1>3, Zenon DEF Choice
  <2> QED
    BY <1>1, <1>2, <2>1 DEF Full, WholeRange
<1>4. CASE ~x.copy
  <2>1. /\ x.file \in FirstTime(m) /\ x.lo = CoveredBytes(x.file)
        /\ x.hi = SizeOf(x.file) \/ SizeOf(x.file) > Capacity[m]
    BY <1>1, <1>4 DEF Choice
  <2>2. SizeOf(x.file) <= Capacity[m] /\ Capacity[m] \in Nat
    BY <1>2, ArchiveConstants DEF Unsplit, SizeOf
  <2>3. x.hi = SizeOf(x.file)
    BY <1>2, <2>1, <2>2
  <2>4. CoveredBytes(x.file) \in Nat
    BY <1>2, CoveredIsNumber
  <2>5. ASSUME NEW v \in VersionsOf(x.file) PROVE FALSE
    <3>1. CoveredBytes(x.file) < SizeOf(x.file)
      BY <2>1, <2>5 DEF FirstTime, Unbacked
    <3>2. v.file = x.file /\ WholeRange(v)
      BY <2>5 DEF VersionsOf, FullInv, Full
    <3>3. v.lo = 0 /\ v.hi = SizeOf(x.file)
      BY <3>2 DEF WholeRange
    <3>4. v.hi <= CoveredBytes(x.file)
      BY <1>2, <3>3, FirstBytes
    <3> QED
      BY <1>2, <2>4, <3>1, <3>3, <3>4
  <2>6. CoveredBytes(x.file) = 0
    <3>1. VersionsOf(x.file) = {}
      BY <2>5
    <3>2. Cells({}) = {} /\ Cardinality({}) = 0
      BY FS_EmptySet DEF Cells
    <3>3. CoveredBytes(x.file) = Cardinality(Cells(VersionsOf(x.file)))
      BY <1>2, VersionsOK
    <3> QED
      BY <3>1, <3>2, <3>3
  <2> QED
    BY <1>1, <1>2, <2>1, <2>3, <2>6 DEF Full, WholeRange
<1> QED
  BY <1>3, <1>4

\* The start of a job and the choice of its batch.
LEMMA AssembleFull ==
  ASSUME TypeInv, Unsplit, FullInv, [Next]_vars, NEW w \in Worker,
         Assemble(w) \/ \E m \in Medium : Begin(w, m)
  PROVE  FullInv'
<1>1. CASE Assemble(w)
  <2>1. PICK items : Assembled(w, items)
    BY <1>1, AssembledFields
  <2>2. /\ job[w].pc = "assemble" /\ RunOK(job[w])
        /\ UNCHANGED <<disks, index, rows, media, store>>
    BY <1>1, AssembledFields
  <2> DEFINE m == job[w].medium
             n == NewBatch(w, items)
             j == IF items = <<>> THEN Idle ELSE n
  <2>3. /\ items \in Seq(Chosen(m)) /\ job' = [job EXCEPT ![w] = j]
        /\ n.items = EmptyFirst(items) /\ n.pc = "chunk" /\ n.pending = job[w].pending
    BY <2>1 DEF Assembled
  <2>4. ToSet(n.items) \subseteq Chosen(m) /\ m \in Medium
    <3> HIDE DEF n
    <3>1. m \in Medium
      BY <2>2 DEF RunOK
    <3> HIDE DEF m
    <3> QED
      BY <2>3, <3>1, EmptyFirstKeeps, ToSetFinite
  <2>5. \A r \in n.pending : Full(r)
    BY <2>2, <2>3 DEF FullInv, FullJob
  <2> HIDE DEF n, m
  <2>6. \A x \in ToSet(n.items) : Full(x)
    BY <2>4, ChosenFull
  <2>7. FullJob(n)
    BY <2>3, <2>5, <2>6 DEF FullJob
  <2>8. j.pc # "idle" => FullJob(j)
    BY <2>7 DEF Idle
  <2> HIDE DEF j
  <2> QED
    BY <2>2, <2>3, <2>8, FullStep DEF rows
<1>2. ASSUME NEW m \in Medium, Begin(w, m) PROVE FullInv'
  <2> DEFINE n == [pc |-> "assemble", medium |-> m, base |-> used[m], batch |-> 0,
                   items |-> <<>>, chunk |-> <<>>, first |-> TRUE, created |-> FALSE,
                   pending |-> {}, cover |-> {}, bytes |-> 0,
                   skipped |-> {}, touched |-> {}, cancelled |-> FALSE]
  <2>1. job' = [job EXCEPT ![w] = n] /\ UNCHANGED rows
    BY <1>2 DEF Begin
  <2>2. n.pc = "assemble" /\ n.pending = {}
    OBVIOUS
  <2> HIDE DEF n
  <2>3. FullJob(n)
    BY <2>2 DEF FullJob
  <2> QED
    BY <2>1, <2>3, FullStep DEF rows
<1> QED
  BY <1>1, <1>2

\* A chunk is made of the batch, and with it the links.
LEMMA PrepareFull ==
  ASSUME TypeInv, FullInv, [Next]_vars, NEW w \in Worker, NEW n \in Nat, Prepare(w, n)
  PROVE  FullInv'
<1>1. /\ RunOK(job[w]) /\ n \in 0 .. Len(job[w].items) /\ job[w].pc = "chunk"
      /\ UNCHANGED <<disks, index, rows, media, store>>
  BY PreparedFields
<1>2. PICK v : PreparedBy(w, n, v)
  BY PreparedFields
<1> PICK p : p = Prepared(w, n, v)
  OBVIOUS
<1> PICK c : c = ToSet(Chunk(job[w], n))
  OBVIOUS
<1>3. /\ job' = [job EXCEPT ![w] = p]
      /\ ToSet(p.items) \subseteq ToSet(job[w].items) /\ ToSet(p.chunk) \subseteq c
      /\ p.pending = {Link(x, v[x]) : x \in Linked(w, n)}
  BY <1>2 DEF PreparedBy
<1>4. \A x \in ToSet(job[w].items) : Full(x)
  BY <1>1 DEF FullInv, FullJob
<1>5. ASSUME NEW x \in c PROVE Full(x)
  <2>1. PICK y \in ToSet(job[w].items) : x = IF job[w].first THEN y ELSE Reloaded(y)
    BY <1>1, ChunkOK DEF TypeInv, DataOK
  <2>2. ToSet(job[w].items) \subseteq Items /\ indexed[y.file] # Gone
    BY <1>1, ToSetFinite DEF RunOK
  <2>3. x.file = y.file /\ x.lo = y.lo /\ x.hi = y.hi
    BY <2>1, <2>2, ReloadedOK DEF TypeInv, DataOK
  <2> QED
    BY <1>4, <2>3 DEF Full, WholeRange
<1>6. ASSUME NEW r \in p.pending PROVE Full(r)
  <2>1. PICK x \in Linked(w, n) : r = Link(x, v[x])
    BY <1>3
  <2>2. x \in c /\ r.file = x.file /\ r.lo = x.lo /\ r.hi = x.hi
    BY <2>1 DEF Link, Linked
  <2> QED
    BY <1>5, <2>2 DEF Full, WholeRange
<1>7. FullJob(p)
  BY <1>3, <1>4, <1>5, <1>6 DEF FullJob
<1> QED
  BY <1>1, <1>3, <1>7, FullStep DEF rows

\* The rows of a chunk are as whole as the chunk.
LEMMA WriteFull ==
  ASSUME TypeInv, FullInv, [Next]_vars, NEW w \in Worker,
         CopyFiles(w) \/ StreamArchive(w) \/ StageArchive(w)
  PROVE  FullInv'
<1>1. job[w].pc = "write" /\ UNCHANGED rows
  BY DEF CopyFiles, StreamArchive, StageArchive
<1>2. RunOK(job[w]) /\ FullJob(job[w])
  BY <1>1, RunsOK DEF FullInv
<1>3. PICK for, bytes : Rows(w, for) /\ job' = [job EXCEPT ![w] = Written(w, for, bytes)]
  BY WriterRows
<1> PICK n : n = Written(w, for, bytes)
  OBVIOUS
<1>4. n.items = job[w].items /\ n.pc = "commit" /\ n.pending = job[w].pending \union for
  <2>1. DOMAIN job[w] = JobFields
    BY <1>2 DEF RunOK
  <2> QED
    BY <2>1 DEF Written, JobFields
<1>5. \A r \in for : Full(r)
  BY <1>1, <1>2, <1>3 DEF Rows, FullJob, Full, WholeRange
<1>6. FullJob(n)
  BY <1>1, <1>2, <1>4, <1>5 DEF FullJob
<1> QED
  BY <1>1, <1>3, <1>6, FullStep DEF rows

\* The other steps of a job, which insert rows or none.
LEMMA RestFull ==
  ASSUME TypeInv, FullInv, [Next]_vars, NEW w \in Worker,
         \/ WriteFault(w) \/ MediumLost(w) \/ DropStaged(w) \/ Cancel(w)
         \/ Commit(w) \/ EndBatch(w)
  PROVE  FullInv'
<1>1. /\ job[w].pc # "idle" /\ versions' \subseteq versions \union Stamp(job[w].pending)
      /\ WriteFault(w) \/ MediumLost(w) \/ DropStaged(w) \/ Cancel(w) => UNCHANGED versions
  BY DEF WriteFault, MediumLost, DropStaged, Cancel, Commit, EndBatch, rows
<1>2. RunOK(job[w]) /\ FullJob(job[w])
  BY <1>1, RunsOK DEF FullInv
<1> PICK stopped : stopped = [job[w] EXCEPT !.pc = "chunk"]
  OBVIOUS
<1> PICK canceled : canceled = [job[w] EXCEPT !.cancelled = TRUE]
  OBVIOUS
<1> PICK done : done = [job[w] EXCEPT !.pc = "chunk", !.chunk = <<>>, !.pending = {},
                                      !.cover = {}, !.bytes = 0]
  OBVIOUS
<1> PICK next : next = [job[w] EXCEPT !.pc = "assemble", !.base = used[job[w].medium]]
  OBVIOUS
<1>3. \/ job' = [job EXCEPT ![w] = Idle]
      \/ job' = [job EXCEPT ![w] = stopped] /\ job[w].pc = "write"
      \/ job' = [job EXCEPT ![w] = canceled]
      \/ job' = [job EXCEPT ![w] = done] /\ job[w].pc = "commit"
      \/ job' = [job EXCEPT ![w] = next]
  BY DEF WriteFault, MediumLost, DropStaged, Cancel, Commit, EndBatch, Step
<1>4. /\ stopped.pc = "chunk" /\ stopped.items = job[w].items
      /\ stopped.pending = job[w].pending
      /\ canceled.pc = job[w].pc /\ canceled.items = job[w].items
      /\ canceled.pending = job[w].pending /\ canceled.chunk = job[w].chunk
      /\ done.pc = "chunk" /\ done.items = job[w].items /\ done.pending = {}
      /\ next.pc = "assemble" /\ next.pending = job[w].pending
      /\ Idle.pc = "idle"
  BY <1>2 DEF RunOK, JobFields, Idle
<1>5. /\ job[w].pc = "write" => FullJob(stopped)
      /\ job[w].pc = "commit" => FullJob(done)
      /\ FullJob(canceled) /\ FullJob(next)
  BY <1>2, <1>4 DEF FullJob
<1>6. PICK j \in {Idle, stopped, canceled, done, next} :
        job' = [job EXCEPT ![w] = j] /\ (j.pc # "idle" => FullJob(j))
  BY <1>3, <1>4, <1>5
<1> QED
  BY <1>1, <1>6, FullStep

\* Purges, writes, scans and crashes make no rows.
LEMMA OthersFull ==
  ASSUME TypeInv, FullInv, [Next]_vars,
         \/ \E m \in Medium : \/ \E s \in {"active", "RETIRED"} : UpdateMedia(m, s)
                              \/ DeleteMedia(m) \/ InitializeMedia(m)
         \/ \E f \in File : \/ \E c \in Content : WriteFile(f, c)
                            \/ RemoveFile(f) \/ HashFile(f)
         \/ Scan \/ Crash \/ UNCHANGED vars
  PROVE  FullInv'
<1>1. Known /\ Known'
  BY KnownNext DEF FullInv
<1>2. ASSUME NEW x, Full(x) PROVE Full(x)'
  BY <1>1, <1>2, WholeStays DEF Full
<1>3. versions' \subseteq versions
  <2>1. ASSUME NEW m \in Medium, \/ \E s \in {"active", "RETIRED"} : UpdateMedia(m, s)
                                 \/ DeleteMedia(m) \/ InitializeMedia(m)
        PROVE  versions' \subseteq versions
    BY <2>1 DEF UpdateMedia, DeleteMedia, InitializeMedia, Purge
  <2>2. ASSUME NEW f \in File, \/ \E c \in Content : WriteFile(f, c)
                               \/ RemoveFile(f) \/ HashFile(f)
        PROVE  UNCHANGED versions
    BY <2>2 DEF WriteFile, RemoveFile, HashFile, rows
  <2>3. Scan \/ Crash \/ UNCHANGED vars => UNCHANGED versions
    BY DEF Scan, Crash, vars, rows
  <2> QED
    BY <2>1, <2>2, <2>3
<1>4. ASSUME NEW w \in Worker, job'[w].pc # "idle" PROVE FullJob(job[w])'
  <2>1. SameWork(w)
    BY <1>4, OthersWork
  <2> PICK j : j = job[w]
    OBVIOUS
  <2>2. FullJob(j)
    BY <2>1 DEF FullInv, SameWork
  <2>3. FullJob(j)'
    BY <1>2, <2>2 DEF FullJob
  <2> QED
    BY <2>1, <2>3 DEF FullJob, SameWork
<1> QED
  BY <1>1, <1>2, <1>3, <1>4 DEF FullInv

\* There are no rows at first.
LEMMA FullInit == Init => FullInv
BY DEF Init, FullInv, Known, Idle

\* Every step keeps all ranges whole.
LEMMA FullNext ==
  ASSUME TypeInv, Unsplit, FullInv, [Next]_vars
  PROVE  FullInv'
<1>1. ASSUME NEW w \in Worker, WorkerStep(w) PROVE FullInv'
  <2>1. ASSUME NEW n \in 1 .. Cardinality(File), Prepare(w, n) PROVE FullInv'
    <3>1. n \in Nat
      BY ArchiveConstants, FS_CardinalityType
    <3> QED
      BY <2>1, <3>1, PrepareFull
  <2> QED
    BY <1>1, <2>1, AssembleFull, WriteFull, RestFull DEF WorkerStep
<1>2. ASSUME NEW w \in Worker, (\E m \in Medium : Begin(w, m)) \/ WriteFault(w) \/ Cancel(w)
      PROVE  FullInv'
  BY <1>2, AssembleFull, RestFull
<1> QED
  BY <1>1, <1>2, OthersFull DEF Next

-----------------------------------------------------------------------------
(* Covered means every byte, and no file is forgotten.                      *)

\* The two ways of covering a file.
CoverInv == (Chainable => ChainInv) /\ (Unsplit => FullInv)

\* Every step keeps what files are covered by.
LEMMA CoverNext ==
  ASSUME TypeInv, CountInv, CoverInv, [Next]_vars
  PROVE  CoverInv'
<1>1. Chainable => ChainInv'
  BY ChainNext DEF CoverInv
<1>2. Unsplit => FullInv'
  BY FullNext DEF CoverInv
<1>3. (Chainable' <=> Chainable) /\ (Unsplit' <=> Unsplit)
  BY DEF Chainable, Alone, Unpurged, Fixed, Unsplit
<1> QED
  BY <1>1, <1>2, <1>3 DEF CoverInv

\* A chain as long as the file has its every byte, as a whole version has.
LEMMA CoversEveryByte ==
  ASSUME TypeInv, Chainable \/ Unsplit, CoverInv
  PROVE  CoveredMeansEveryByte
<1> SUFFICES ASSUME NEW f \in File, Archivable(f), VersionsOf(f) # {}, ~Unbacked(f),
                    NEW i \in 1 .. SizeOf(f)
             PROVE  \E v \in VersionsOf(f) : v.lo < i /\ i <= v.hi
  BY DEF CoveredMeansEveryByte
<1>1. /\ SizeOf(f) \in Nat /\ CoveredBytes(f) \in Nat /\ CoveredBytes(f) >= SizeOf(f)
      /\ CoveredBytes(f) = Cardinality(Cells(VersionsOf(f)))
  <2>1. RowsOK /\ indexed[f] \in Content
    BY DEF TypeInv, DataOK, IndexOK, Contents, Archivable
  <2>2. SizeOf(f) \in Nat
    BY <2>1, ArchiveConstants DEF SizeOf
  <2>3. /\ CoveredBytes(f) \in Nat
        /\ CoveredBytes(f) = Cardinality(Cells(VersionsOf(f)))
    BY <2>1, CoveredIsNumber, VersionsOK
  <2> QED
    BY <2>2, <2>3 DEF Unbacked
<1>2. Chain(VersionsOf(f)) \/ \E v \in VersionsOf(f) : WholeRange(v)
  <2>1. CASE Chainable
    BY <2>1 DEF CoverInv, ChainInv, Chained
  <2>2. CASE Unsplit
    BY <2>2 DEF CoverInv, FullInv, Full, VersionsOf
  <2> QED
    BY <2>1, <2>2
<1>3. i \in Nat \ {0} /\ i <= SizeOf(f)
  BY <1>1
<1>4. CASE Chain(VersionsOf(f))
  <2>1. i <= Cardinality(Cells(VersionsOf(f)))
    BY <1>1, <1>3
  <2> QED
    BY <1>3, <1>4, <2>1 DEF Chain
<1>5. CASE \E v \in VersionsOf(f) : WholeRange(v)
  <2>1. PICK v \in VersionsOf(f) : WholeRange(v)
    BY <1>5
  <2>2. v.lo = 0 /\ v.hi = SizeOf(f)
    BY <2>1 DEF WholeRange, VersionsOf
  <2> QED
    BY <1>3, <2>2
<1> QED
  BY <1>2, <1>4, <1>5

\* While nothing is purged, one backup runs at a time, and no file is written to
\* or one copy is asked for, what get_unbacked_files takes for covered has its
\* every byte in some version, in fragments or not; and so it is, whatever is
\* purged and however many backups run, where no file has to be split.
THEOREM CoveredMeansEveryByteHolds ==
  ASSUME Chainable \/ Unsplit PROVE Spec => []CoveredMeansEveryByte
<1> DEFINE IInv == TypeInv /\ CountInv /\ CoverInv
<1>1. Init => IInv
  BY TypeInit, CountInit, ChainInit, FullInit DEF CoverInv
<1>2. IInv /\ [Next]_vars => IInv'
  BY TypeNext, CountNext, CoverNext
<1>3. IInv => CoveredMeansEveryByte
  BY CoversEveryByte
<1> QED
  BY <1>1, <1>2, <1>3, PTL DEF Spec

\* A file with a byte that is not stored is below its target and not covered.
LEMMA ForgetsNone ==
  ASSUME TypeInv, CountInv, HoldInv, WholeInv, CoveredMeansEveryByte
  PROVE  NoFileForgotten
<1> SUFFICES ASSUME NEW f \in File, Archivable(f), ~Safe(f), NEW m \in Medium, ~OnMedium(f, m)
             PROVE  f \in FirstTime(m)
  BY DEF NoFileForgotten
<1>1. /\ indexed[f] = disk[f] /\ indexed[f] \in Content /\ SizeOf(f) \in Nat
  BY ArchiveConstants DEF HoldInv, SourceInv, Archivable, SizeOf
<1>2. \A v \in VersionsOf(f) : v.of = indexed[f] /\ Held(v)
  BY <1>1 DEF HoldInv, Sound, VersionsOf
<1>3. {v \in VersionsOf(f) : v.of = indexed[f] /\ Held(v)} = VersionsOf(f)
  BY <1>2
<1>4. ~ IF SizeOf(f) = 0 THEN VersionsOf(f) # {}
        ELSE \A i \in 1 .. SizeOf(f) : \E v \in VersionsOf(f) : v.lo < i /\ i <= v.hi
  BY <1>3 DEF Safe
<1>5. Unbacked(f)
  <2> SUFFICES ASSUME ~Unbacked(f) PROVE FALSE
    OBVIOUS
  <2>1. VersionsOf(f) # {}
    BY DEF Unbacked
  <2>2. \A i \in 1 .. SizeOf(f) : \E v \in VersionsOf(f) : v.lo < i /\ i <= v.hi
    BY <2>1 DEF CoveredMeansEveryByte
  <2> QED
    BY <1>4, <2>1, <2>2
<1>6. redundancy[f] < Target
  <2> SUFFICES ASSUME ~(redundancy[f] < Target) PROVE FALSE
    OBVIOUS
  <2>1. /\ redundancy[f] = Cardinality(CoverageOf(f)) /\ IsFiniteSet(CoverageOf(f))
        /\ redundancy[f] \in Nat
    BY FS_CardinalityType DEF CountInv, CountIsCoverage
  <2>2. redundancy[f] # 0
    BY <2>1, ArchiveConstants
  <2>3. PICK p \in CoverageOf(f) : TRUE
    BY <2>1, <2>2, FS_EmptySet
  <2>4. p \in coverage /\ p[1] = f
    BY <2>3 DEF CoverageOf
  <2>5. PICK v \in versions : WholeRow(v, f, p[2])
    BY <2>4 DEF WholeInv, HasWhole
  <2>6. v \in VersionsOf(f) /\ v.lo = 0 /\ v.hi = SizeOf(f)
    BY <1>1, <2>5 DEF WholeRow, VersionsOf, SizeOf
  <2>7. \A i \in 1 .. SizeOf(f) : v.lo < i /\ i <= v.hi
    BY <1>1, <2>6
  <2> QED
    BY <1>4, <2>6, <2>7
<1> QED
  BY <1>5, <1>6 DEF FirstTime

\* No file is forgotten: while no source file changes and no backup is cancelled,
\* with backups one at a time and nothing purged, or with nothing to split, every
\* medium is offered each file that it does not have and that some byte of is on
\* no medium yet, over all crashes, links, further copies and failed disks.
THEOREM NoFileForgottenHolds ==
  ASSUME Undisturbed, "cancel" \notin Events, Chainable \/ Unsplit
  PROVE  Spec => []NoFileForgotten
<1> DEFINE IInv == /\ TypeInv /\ CountInv /\ HoldInv /\ WholeInv /\ CoverInv
                   /\ Exclusive => FreshInv
<1>1. Init => IInv
  BY TypeInit, CountInit, HoldInit, WholeInit, FreshInit, ChainInit, FullInit DEF CoverInv
<1>2. IInv /\ [Next]_vars => IInv'
  <2> SUFFICES ASSUME IInv, [Next]_vars PROVE IInv'
    OBVIOUS
  <2>1. TypeInv' /\ CountInv' /\ HoldInv' /\ WholeInv' /\ CoverInv'
    BY TypeNext, CountNext, HoldNext, WholeNext, CoverNext
  <2>2. (Exclusive => FreshInv)'
    BY FreshNext DEF Exclusive
  <2> QED
    BY <2>1, <2>2
<1>3. IInv => NoFileForgotten
  BY ForgetsNone, CoversEveryByte
<1> QED
  BY <1>1, <1>2, <1>3, PTL DEF Spec

=============================================================================
