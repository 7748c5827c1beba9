----------------------------- MODULE ArchiveProofs -----------------------------
(***************************************************************************)
(* Proofs about Archive, for any files, media, contents, workers and        *)
(* bounds: what the triggers count, what the index knows of media that are  *)
(* out of service, and that every variable keeps its type.                  *)
(***************************************************************************)
EXTENDS Archive, FiniteSetTheorems, SequenceTheorems, WellFoundedInduction, TLAPS

-----------------------------------------------------------------------------
(* The count of copies.                                                     *)

CoverageOf(f) == {p \in coverage : p[1] = f}

\* What the two triggers are for: the number beside a file is the number of
\* its coverage rows.
CountIsCoverage == \A f \in File : redundancy[f] = Cardinality(CoverageOf(f))

CountInv ==
  /\ \A p \in coverage : p = <<p[1], p[2]>>
  /\ \A f \in File : IsFiniteSet(CoverageOf(f))
  /\ CountIsCoverage

\* trg_coverage_insert, for a checkpoint that covers the files F on m.
LEMMA AddCounts ==
  ASSUME CountInv, NEW F, NEW m, AddCoverage({<<f, m>> : f \in F})
  PROVE  CountInv'
<1> DEFINE new(f) == {p \in {<<g, m>> : g \in F} \ coverage : p[1] = f}
<1>1. ASSUME NEW f \in File
      PROVE  /\ redundancy'[f] = redundancy[f] + Cardinality(new(f))
             /\ CoverageOf(f)' = CoverageOf(f) \union new(f)
             /\ new(f) = {} \/ (new(f) = {<<f, m>>} /\ <<f, m>> \notin CoverageOf(f))
  BY DEF AddCoverage, CoverageOf
<1> HIDE DEF new
<1>2. \A p \in coverage' : p = <<p[1], p[2]>>
  BY DEF AddCoverage, CountInv
<1>3. ASSUME NEW f \in File
      PROVE  /\ IsFiniteSet(CoverageOf(f)')
             /\ redundancy'[f] = Cardinality(CoverageOf(f)')
  <2>1. IsFiniteSet(CoverageOf(f)) /\ redundancy[f] = Cardinality(CoverageOf(f))
    BY DEF CountInv, CountIsCoverage
  <2>2. redundancy[f] \in Nat
    BY <2>1, FS_CardinalityType
  <2>3. CASE new(f) = {}
    <3>1. Cardinality(new(f)) = 0 /\ CoverageOf(f)' = CoverageOf(f)
      BY <1>1, <2>3, FS_EmptySet
    <3>2. redundancy'[f] = redundancy[f]
      <4>1. redundancy'[f] = redundancy[f] + 0
        BY <1>1, <3>1
      <4> QED
        BY <2>2, <4>1
    <3> QED
      BY <2>1, <3>1, <3>2
  <2>4. CASE new(f) = {<<f, m>>} /\ <<f, m>> \notin CoverageOf(f)
    <3>1. Cardinality(new(f)) = 1 /\ CoverageOf(f)' = CoverageOf(f) \union {<<f, m>>}
      BY <1>1, <2>4, FS_Singleton
    <3>2. /\ IsFiniteSet(CoverageOf(f) \union {<<f, m>>})
          /\ Cardinality(CoverageOf(f) \union {<<f, m>>}) = Cardinality(CoverageOf(f)) + 1
      BY <2>1, <2>4, FS_AddElement
    <3> QED
      BY <1>1, <2>1, <3>1, <3>2
  <2> QED
    BY <1>1, <2>3, <2>4
<1> QED
  BY <1>2, <1>3 DEF CountInv, CountIsCoverage

\* trg_coverage_delete, for the purge of m.
LEMMA PurgeCounts ==
  ASSUME CountInv, NEW m, Purge(m)
  PROVE  CountInv'
<1>1. \A p \in coverage' : p = <<p[1], p[2]>>
  BY DEF Purge, CountInv
<1>2. ASSUME NEW f \in File
      PROVE  /\ CoverageOf(f)' = CoverageOf(f) \ {<<f, m>>}
             /\ redundancy'[f] = IF <<f, m>> \in CoverageOf(f) THEN redundancy[f] - 1
                                 ELSE redundancy[f]
  BY DEF Purge, CountInv, CoverageOf
<1>3. ASSUME NEW f \in File
      PROVE  /\ IsFiniteSet(CoverageOf(f)')
             /\ redundancy'[f] = Cardinality(CoverageOf(f)')
  <2>1. IsFiniteSet(CoverageOf(f)) /\ redundancy[f] = Cardinality(CoverageOf(f))
    BY DEF CountInv, CountIsCoverage
  <2>2. /\ IsFiniteSet(CoverageOf(f) \ {<<f, m>>})
        /\ Cardinality(CoverageOf(f) \ {<<f, m>>})
             = IF <<f, m>> \in CoverageOf(f) THEN Cardinality(CoverageOf(f)) - 1
               ELSE Cardinality(CoverageOf(f))
    BY <2>1, FS_RemoveElement
  <2> QED
    BY <1>2, <2>1, <2>2
<1> QED
  BY <1>1, <1>3 DEF CountInv, CountIsCoverage

\* Nothing is counted at first.
LEMMA CountInit == Init => CountInv
<1> SUFFICES ASSUME Init PROVE CountInv
  OBVIOUS
<1>1. \A f \in File : CoverageOf(f) = {} /\ redundancy[f] = 0
  BY DEF Init, CoverageOf
<1> QED
  BY <1>1, FS_EmptySet DEF Init, CountInv, CountIsCoverage

\* Every step keeps the counts.
LEMMA CountNext == CountInv /\ [Next]_vars => CountInv'
<1> SUFFICES ASSUME CountInv, [Next]_vars PROVE CountInv'
  OBVIOUS
<1>1. ASSUME UNCHANGED <<coverage, redundancy>> PROVE CountInv'
  <2>1. \A f \in File : CoverageOf(f)' = CoverageOf(f)
    BY <1>1 DEF CoverageOf
  <2> QED
    BY <1>1, <2>1 DEF CountInv, CountIsCoverage
<1>2. ASSUME NEW w \in Worker, Commit(w) PROVE CountInv'
  <2>1. \/ UNCHANGED <<coverage, redundancy>>
        \/ AddCoverage({<<f, job[w].medium>> : f \in job[w].cover})
    BY <1>2 DEF Commit, rows
  <2>2. CASE AddCoverage({<<f, job[w].medium>> : f \in job[w].cover})
    BY <2>2, AddCounts
  <2> QED
    BY <1>1, <2>1, <2>2
<1>3. ASSUME NEW m \in Medium, \/ \E s \in {"active", "RETIRED"} : UpdateMedia(m, s)
                               \/ DeleteMedia(m) \/ InitializeMedia(m)
      PROVE  CountInv'
  BY <1>1, <1>3, PurgeCounts DEF UpdateMedia, DeleteMedia, InitializeMedia
<1>4. ASSUME NEW w \in Worker, WorkerStep(w), ~Commit(w) PROVE UNCHANGED <<coverage, redundancy>>
  BY <1>4 DEF WorkerStep, Assemble, Prepare, CopyFiles, StreamArchive, StageArchive,
     DropStaged, EndBatch, MediumLost, rows
<1>5. CASE \/ Scan
           \/ \E f \in File : (\E c \in Content : WriteFile(f, c)) \/ RemoveFile(f) \/ HashFile(f)
  BY <1>1, <1>5 DEF Scan, WriteFile, RemoveFile, HashFile, rows
<1>6. CASE Crash \/ \E w \in Worker : (\E m \in Medium : Begin(w, m)) \/ WriteFault(w) \/ Cancel(w)
  BY <1>1, <1>6 DEF Crash, Begin, WriteFault, Cancel, rows
<1>7. CASE UNCHANGED vars
  BY <1>1, <1>7 DEF vars
<1> QED
  BY <1>1, <1>2, <1>3, <1>4, <1>5, <1>6, <1>7 DEF Next

\* However backups, purges, faults and crashes interleave, the count of a file is
\* the number of its coverage rows.
THEOREM CountIsCoverageHolds == Spec => []CountIsCoverage
<1>1. CountInv => CountIsCoverage
  BY DEF CountInv
<1> QED
  BY CountInit, CountNext, <1>1, PTL DEF Spec

-----------------------------------------------------------------------------
(* Media out of service.                                                    *)

Out == {m \in Medium : mstatus[m] \in {"RETIRED", "deleted"}}

\* A job that runs is a record with these fields, whatever they hold.
IsRun(j) ==
  j = [pc |-> j.pc, medium |-> j.medium, base |-> j.base, batch |-> j.batch,
       items |-> j.items, chunk |-> j.chunk, first |-> j.first, created |-> j.created,
       pending |-> j.pending, cover |-> j.cover, bytes |-> j.bytes,
       skipped |-> j.skipped, touched |-> j.touched, cancelled |-> j.cancelled]

IsRow(r) ==
  r = [file |-> r.file, medium |-> r.medium, slot |-> r.slot, lo |-> r.lo, hi |-> r.hi,
       split |-> r.split, batch |-> r.batch, of |-> r.of, txn |-> r.txn]

\* A job works on a medium in service, and so do the rows in its session, links
\* to what other media hold among them.
InService(j) ==
  j = Idle \/ /\ IsRun(j) /\ j.pc # "idle" /\ j.medium \notin Out
              /\ \A r \in j.pending : IsRow(r) /\ r.medium \notin Out

Statuses == {"active", "full", "RETIRED", "deleted"}

RetireInv ==
  /\ mstatus \in [Medium -> Statuses]
  /\ job = [w \in Worker |-> job[w]]
  /\ RetiredHoldNothing
  /\ \A w \in Worker : InService(job[w])

\* Rows of media that are in service are what the property is about.
LEMMA HoldNothing ==
  RetiredHoldNothing <=> /\ \A v \in versions : v.medium \notin Out
                         /\ \A p \in coverage : p[2] \notin Out
BY DEF RetiredHoldNothing, Out

\* A step of one job that touches no row and no medium.
LEMMA JobMoves ==
  ASSUME RetireInv, NEW w \in Worker, NEW j, job' = [job EXCEPT ![w] = j],
         UNCHANGED <<mstatus, versions, coverage>>, InService(j)
  PROVE  RetireInv'
<1>1. Out' = Out
  BY DEF Out
<1>2. \A v \in Worker : InService(job'[v])
  BY DEF RetireInv
<1>3. \A v \in Worker : InService(job[v])'
  BY <1>1, <1>2 DEF InService
<1>4. RetiredHoldNothing'
  BY DEF RetireInv, RetiredHoldNothing
<1> QED
  BY <1>3, <1>4 DEF RetireInv

\* What a step leaves of a job: it is at p, on m, with the rows q in its session.
Run(j, m, p, q) == IsRun(j) /\ j.medium = m /\ j.pc = p /\ j.pending = q

\* An assignment to one field of a job leaves the others alone.
LEMMA OneField ==
  ASSUME NEW j, NEW m, NEW p, NEW q, Run(j, m, p, q), NEW x
  PROVE  /\ Run([j EXCEPT !.pc = x], m, x, q)
         /\ Run([j EXCEPT !.base = x], m, p, q)
         /\ Run([j EXCEPT !.batch = x], m, p, q)
         /\ Run([j EXCEPT !.items = x], m, p, q)
         /\ Run([j EXCEPT !.chunk = x], m, p, q)
         /\ Run([j EXCEPT !.first = x], m, p, q)
         /\ Run([j EXCEPT !.created = x], m, p, q)
         /\ Run([j EXCEPT !.pending = x], m, p, x)
         /\ Run([j EXCEPT !.cover = x], m, p, q)
         /\ Run([j EXCEPT !.bytes = x], m, p, q)
         /\ Run([j EXCEPT !.skipped = x], m, p, q)
         /\ Run([j EXCEPT !.touched = x], m, p, q)
         /\ Run([j EXCEPT !.cancelled = x], m, p, q)
<1>1. Run([j EXCEPT !.pc = x], m, x, q)
  BY DEF Run, IsRun
<1>2. Run([j EXCEPT !.base = x], m, p, q)
  BY DEF Run, IsRun
<1>3. Run([j EXCEPT !.batch = x], m, p, q)
  BY DEF Run, IsRun
<1>4. Run([j EXCEPT !.items = x], m, p, q)
  BY DEF Run, IsRun
<1>5. Run([j EXCEPT !.chunk = x], m, p, q)
  BY DEF Run, IsRun
<1>6. Run([j EXCEPT !.first = x], m, p, q)
  BY DEF Run, IsRun
<1>7. Run([j EXCEPT !.created = x], m, p, q)
  BY DEF Run, IsRun
<1>8. Run([j EXCEPT !.pending = x], m, p, x)
  BY DEF Run, IsRun
<1>9. Run([j EXCEPT !.cover = x], m, p, q)
  BY DEF Run, IsRun
<1>10. Run([j EXCEPT !.bytes = x], m, p, q)
  BY DEF Run, IsRun
<1>11. Run([j EXCEPT !.skipped = x], m, p, q)
  BY DEF Run, IsRun
<1>12. Run([j EXCEPT !.touched = x], m, p, q)
  BY DEF Run, IsRun
<1>13. Run([j EXCEPT !.cancelled = x], m, p, q)
  BY DEF Run, IsRun
<1> QED
  BY <1>1, <1>2, <1>3, <1>4, <1>5, <1>6, <1>7,
     <1>8, <1>9, <1>10, <1>11, <1>12, <1>13

\* The fields of a new batch.
LEMMA NewBatchFields ==
  ASSUME NEW j, NEW m, NEW p, NEW q, Run(j, m, p, q),
         NEW r, NEW a, NEW b, NEW c, NEW d
  PROVE  Run([j EXCEPT !.pc = r, !.items = a, !.batch = b, !.first = c, !.created = d], m, r, q)
<1> DEFINE n1 == [j EXCEPT !.pc = r]
           n2 == [n1 EXCEPT !.items = a]
           n3 == [n2 EXCEPT !.batch = b]
           n4 == [n3 EXCEPT !.first = c]
           n5 == [n4 EXCEPT !.created = d]
<1>0. n5 = [j EXCEPT !.pc = r, !.items = a, !.batch = b, !.first = c, !.created = d]
  BY Zenon
<1>1. Run(n1, m, r, q)
  BY OneField, Zenon
<1> HIDE DEF n1
<1>2. Run(n2, m, r, q)
  BY <1>1, OneField, Zenon
<1> HIDE DEF n2
<1>3. Run(n3, m, r, q)
  BY <1>2, OneField, Zenon
<1> HIDE DEF n3
<1>4. Run(n4, m, r, q)
  BY <1>3, OneField, Zenon
<1> HIDE DEF n4
<1>5. Run(n5, m, r, q)
  BY <1>4, OneField, Zenon
<1> HIDE DEF n5
<1> QED
  BY <1>0, <1>5, Zenon

\* The fields of a prepared chunk.
LEMMA PrepareFields ==
  ASSUME NEW j, NEW m, NEW p, NEW q, Run(j, m, p, q),
         NEW r, NEW a, NEW b, NEW c, NEW d, NEW e, NEW f, NEW g
  PROVE  Run([j EXCEPT !.pc = r, !.items = a, !.chunk = b, !.first = c, !.base = d,
                       !.created = e, !.skipped = f, !.pending = g], m, r, g)
<1> DEFINE n1 == [j EXCEPT !.pc = r]
           n2 == [n1 EXCEPT !.items = a]
           n3 == [n2 EXCEPT !.chunk = b]
           n4 == [n3 EXCEPT !.first = c]
           n5 == [n4 EXCEPT !.base = d]
           n6 == [n5 EXCEPT !.created = e]
           n7 == [n6 EXCEPT !.skipped = f]
           n8 == [n7 EXCEPT !.pending = g]
<1>0. n8 = [j EXCEPT !.pc = r, !.items = a, !.chunk = b, !.first = c, !.base = d,
                       !.created = e, !.skipped = f, !.pending = g]
  BY Zenon
<1>1. Run(n1, m, r, q)
  BY OneField, Zenon
<1> HIDE DEF n1
<1>2. Run(n2, m, r, q)
  BY <1>1, OneField, Zenon
<1> HIDE DEF n2
<1>3. Run(n3, m, r, q)
  BY <1>2, OneField, Zenon
<1> HIDE DEF n3
<1>4. Run(n4, m, r, q)
  BY <1>3, OneField, Zenon
<1> HIDE DEF n4
<1>5. Run(n5, m, r, q)
  BY <1>4, OneField, Zenon
<1> HIDE DEF n5
<1>6. Run(n6, m, r, q)
  BY <1>5, OneField, Zenon
<1> HIDE DEF n6
<1>7. Run(n7, m, r, q)
  BY <1>6, OneField, Zenon
<1> HIDE DEF n7
<1>8. Run(n8, m, r, g)
  BY <1>7, OneField, Zenon
<1> HIDE DEF n8
<1> QED
  BY <1>0, <1>8, Zenon

\* The fields of a written chunk.
LEMMA WrittenFields ==
  ASSUME NEW j, NEW m, NEW p, NEW q, Run(j, m, p, q),
         NEW r, NEW a, NEW b, NEW c, NEW d
  PROVE  Run([j EXCEPT !.pc = r, !.created = a, !.pending = b, !.cover = c, !.bytes = d], m, r, b)
<1> DEFINE n1 == [j EXCEPT !.pc = r]
           n2 == [n1 EXCEPT !.created = a]
           n3 == [n2 EXCEPT !.pending = b]
           n4 == [n3 EXCEPT !.cover = c]
           n5 == [n4 EXCEPT !.bytes = d]
<1>0. n5 = [j EXCEPT !.pc = r, !.created = a, !.pending = b, !.cover = c, !.bytes = d]
  BY Zenon
<1>1. Run(n1, m, r, q)
  BY OneField, Zenon
<1> HIDE DEF n1
<1>2. Run(n2, m, r, q)
  BY <1>1, OneField, Zenon
<1> HIDE DEF n2
<1>3. Run(n3, m, r, b)
  BY <1>2, OneField, Zenon
<1> HIDE DEF n3
<1>4. Run(n4, m, r, b)
  BY <1>3, OneField, Zenon
<1> HIDE DEF n4
<1>5. Run(n5, m, r, b)
  BY <1>4, OneField, Zenon
<1> HIDE DEF n5
<1> QED
  BY <1>0, <1>5, Zenon

\* The fields of a committed chunk.
LEMMA CommitFields ==
  ASSUME NEW j, NEW m, NEW p, NEW q, Run(j, m, p, q),
         NEW r, NEW a, NEW b, NEW c, NEW d
  PROVE  Run([j EXCEPT !.pc = r, !.chunk = a, !.pending = b, !.cover = c, !.bytes = d], m, r, b)
<1> DEFINE n1 == [j EXCEPT !.pc = r]
           n2 == [n1 EXCEPT !.chunk = a]
           n3 == [n2 EXCEPT !.pending = b]
           n4 == [n3 EXCEPT !.cover = c]
           n5 == [n4 EXCEPT !.bytes = d]
<1>0. n5 = [j EXCEPT !.pc = r, !.chunk = a, !.pending = b, !.cover = c, !.bytes = d]
  BY Zenon
<1>1. Run(n1, m, r, q)
  BY OneField, Zenon
<1> HIDE DEF n1
<1>2. Run(n2, m, r, q)
  BY <1>1, OneField, Zenon
<1> HIDE DEF n2
<1>3. Run(n3, m, r, b)
  BY <1>2, OneField, Zenon
<1> HIDE DEF n3
<1>4. Run(n4, m, r, b)
  BY <1>3, OneField, Zenon
<1> HIDE DEF n4
<1>5. Run(n5, m, r, b)
  BY <1>4, OneField, Zenon
<1> HIDE DEF n5
<1> QED
  BY <1>0, <1>5, Zenon

\* The fields of the next batch.
LEMMA EndFields ==
  ASSUME NEW j, NEW m, NEW p, NEW q, Run(j, m, p, q),
         NEW r, NEW a
  PROVE  Run([j EXCEPT !.pc = r, !.base = a], m, r, q)
<1> DEFINE n1 == [j EXCEPT !.pc = r]
           n2 == [n1 EXCEPT !.base = a]
<1>0. n2 = [j EXCEPT !.pc = r, !.base = a]
  BY Zenon
<1>1. Run(n1, m, r, q)
  BY OneField, Zenon
<1> HIDE DEF n1
<1>2. Run(n2, m, r, q)
  BY <1>1, OneField, Zenon
<1> HIDE DEF n2
<1> QED
  BY <1>0, <1>2, Zenon

\* A row keeps its medium when it is inserted.
LEMMA StampMedium ==
  ASSUME NEW r, IsRow(r)
  PROVE  [r EXCEPT !.txn = txn].medium = r.medium
BY DEF IsRow

\* What is known of a job that runs.
LEMMA Running ==
  ASSUME RetireInv, NEW w \in Worker, job[w].pc # "idle"
  PROVE  /\ Run(job[w], job[w].medium, job[w].pc, job[w].pending)
         /\ job[w].medium \notin Out
         /\ \A r \in job[w].pending : IsRow(r) /\ r.medium \notin Out
<1>1. Idle.pc = "idle"
  BY DEF Idle
<1>2. job[w] # Idle /\ InService(job[w])
  BY <1>1 DEF RetireInv
<1> QED
  BY <1>2, Zenon DEF InService, Run

\* Where a running job may stand.
LEMMA RunInService ==
  ASSUME NEW n, NEW m, NEW p, NEW q, Run(n, m, p, q), p # "idle", m \notin Out,
         \A r \in q : IsRow(r) /\ r.medium \notin Out
  PROVE  InService(n)
BY Zenon DEF InService, Run

\* The start of a job.
LEMMA BeginKeeps ==
  ASSUME RetireInv, NEW w \in Worker, NEW m \in Medium, Begin(w, m)
  PROVE  RetireInv'
<1> DEFINE n == [pc |-> "assemble", medium |-> m, base |-> used[m], batch |-> 0,
                 items |-> <<>>, chunk |-> <<>>, first |-> TRUE, created |-> FALSE,
                 pending |-> {}, cover |-> {}, bytes |-> 0,
                 skipped |-> {}, touched |-> {}, cancelled |-> FALSE]
<1>1. Run(n, m, "assemble", {})
  BY DEF Run, IsRun
<1>2. m \notin Out
  BY DEF Begin, Out
<1>3. job' = [job EXCEPT ![w] = n] /\ UNCHANGED <<mstatus, versions, coverage>>
  BY DEF Begin, rows, media
<1> HIDE DEF n
<1>4. InService(n)
  BY <1>1, <1>2, RunInService
<1> QED
  BY <1>3, <1>4, JobMoves

\* The choice of a batch.
LEMMA AssembleKeeps ==
  ASSUME RetireInv, NEW w \in Worker, Assemble(w)
  PROVE  RetireInv'
<1>1. /\ job[w].pc # "idle"
      /\ \E items : job' = [job EXCEPT ![w] = IF items = <<>> THEN Idle ELSE NewBatch(w, items)]
      /\ UNCHANGED <<mstatus, versions, coverage>>
  BY DEF Assemble, rows, media
<1>2. PICK items :
        job' = [job EXCEPT ![w] = IF items = <<>> THEN Idle ELSE NewBatch(w, items)]
  BY <1>1
<1> DEFINE n == NewBatch(w, items)
<1>3. Run(n, job[w].medium, "chunk", job[w].pending)
  BY <1>1, Running, NewBatchFields, Zenon DEF NewBatch
<1> HIDE DEF n
<1>4. InService(n)
  BY <1>1, <1>3, Running, RunInService
<1>5. CASE items = <<>>
  BY <1>1, <1>2, <1>5, JobMoves DEF InService
<1>6. CASE items # <<>>
  BY <1>1, <1>2, <1>4, <1>6, JobMoves DEF n
<1> QED
  BY <1>5, <1>6

\* A chunk and its links to what other media hold.
LEMMA PrepareKeeps ==
  ASSUME RetireInv, NEW w \in Worker, NEW k, Prepare(w, k)
  PROVE  RetireInv'
<1> DEFINE j      == job[w]
           chunk  == IF j.first THEN SubSeq(j.items, 1, k)
                     ELSE [i \in 1 .. k |-> Reloaded(j.items[i])]
           linked == {x \in ToSet(chunk) : Dupes(x) # {}}
           rest   == Select(chunk, {x \in ToSet(chunk) \ linked : x.file \notin j.skipped})
           write  == Select(rest, {x \in ToSet(rest) : x.file \notin Unstable(w)})
           pc     == IF write = <<>> THEN "commit" ELSE "write"
           base   == IF j.first THEN j.base ELSE used[j.medium]
           links(v) == {Link(x, v[x]) : x \in linked}
           skips  == j.skipped \union ({x.file : x \in ToSet(rest)} \intersect Unstable(w))
           next(v) == [j EXCEPT !.pc = pc, !.items = SubSeq(j.items, k + 1, Len(j.items)),
                                !.chunk = write, !.first = FALSE, !.base = base,
                                !.created = j.created \/ linked # {},
                                !.skipped = skips, !.pending = links(v)]
<1>1. job[w].pc # "idle" /\ UNCHANGED <<mstatus, versions, coverage>>
  BY DEF Prepare, rows, media
<1>2. \E v \in [linked -> versions] : job' = [job EXCEPT ![w] = next(v)]
  BY ZenonT(40) DEF Prepare
<1>3. PICK v \in [linked -> versions] : job' = [job EXCEPT ![w] = next(v)]
  BY <1>2
<1>4. Run(next(v), job[w].medium, pc, links(v))
  <2>1. Run(j, j.medium, j.pc, j.pending)
    BY <1>1, Running
  <2> DEFINE items == SubSeq(j.items, k + 1, Len(j.items))
             created == j.created \/ linked # {}
             n(a, b, c, d, e, g) ==
               [j EXCEPT !.pc = pc, !.items = a, !.chunk = b, !.first = FALSE, !.base = c,
                         !.created = d, !.skipped = e, !.pending = g]
  <2> HIDE DEF j, chunk, linked, rest, write, pc, base, links, skips
  <2>2. \A a, b, c, d, e, g : Run(n(a, b, c, d, e, g), j.medium, pc, g)
    BY <2>1, PrepareFields, Zenon
  <2>3. next(v) = n(items, write, base, created, skips, links(v))
    OBVIOUS
  <2> HIDE DEF items, created, next, n
  <2>4. Run(next(v), j.medium, pc, links(v))
    BY <2>2, <2>3, Zenon
  <2> QED
    BY <2>4 DEF j
<1>5. pc # "idle"
  OBVIOUS
<1>6. ASSUME NEW r \in links(v) PROVE IsRow(r) /\ r.medium \notin Out
  <2> HIDE DEF linked, next
  <2>1. PICK x \in linked : r = Link(x, v[x])
    OBVIOUS
  <2>2. IsRow(r) /\ r.medium = v[x].medium
    BY <2>1 DEF IsRow, Link
  <2>3. v[x] \in versions
    BY <2>1
  <2> QED
    BY <2>2, <2>3, HoldNothing DEF RetireInv
<1> HIDE DEF next, pc, links
<1>7. InService(next(v))
  BY <1>1, <1>4, <1>5, <1>6, Running, RunInService, Zenon
<1> QED
  BY <1>1, <1>3, <1>7, JobMoves

\* The writers: new rows are of the job's own medium.
LEMMA WrittenKeeps ==
  ASSUME RetireInv, NEW w \in Worker, job[w].pc # "idle", NEW for, NEW bytes,
         \A r \in for : IsRow(r) /\ r.medium = job[w].medium,
         job' = [job EXCEPT ![w] = Written(w, for, bytes)],
         UNCHANGED <<mstatus, versions, coverage>>
  PROVE  RetireInv'
<1> DEFINE n == Written(w, for, bytes)
<1>1. Run(n, job[w].medium, "commit", job[w].pending \union for)
  BY Running, WrittenFields, Zenon DEF Written
<1>2. \A r \in job[w].pending \union for : IsRow(r) /\ r.medium \notin Out
  BY Running
<1> HIDE DEF n
<1>3. InService(n)
  BY <1>1, <1>2, Running, RunInService
<1> QED
  BY <1>3, JobMoves DEF n

\* A row of this job.
LEMMA RowIsRow ==
  ASSUME NEW w, NEW x, NEW slot
  PROVE  IsRow(Row(w, x, slot)) /\ Row(w, x, slot).medium = job[w].medium
BY DEF IsRow, Row

\* Writing to a medium.
LEMMA WriteKeeps ==
  ASSUME RetireInv, NEW w \in Worker, CopyFiles(w) \/ StreamArchive(w) \/ StageArchive(w)
  PROVE  RetireInv'
<1>1. job[w].pc # "idle" /\ UNCHANGED <<mstatus, versions, coverage>>
  BY DEF CopyFiles, StreamArchive, StageArchive, rows, media
<1>2. ASSUME NEW for, NEW bytes, job' = [job EXCEPT ![w] = Written(w, for, bytes)],
             \A r \in for : IsRow(r) /\ r.medium = job[w].medium
      PROVE  RetireInv'
  BY <1>1, <1>2, WrittenKeeps
<1>3. CASE CopyFiles(w)
  <2>1. PICK n \in Reached(w) :
          LET done == Present(SubSeq(job[w].chunk, 1, n)) IN
          job' = [job EXCEPT ![w] =
                   Written(w, {Row(w, x, ObjectName(x)) : x \in ToSet(done)}, TotalLength(done))]
    BY <1>3, Zenon DEF CopyFiles
  <2> DEFINE done == Present(SubSeq(job[w].chunk, 1, n))
             for  == {Row(w, x, ObjectName(x)) : x \in ToSet(done)}
  <2>2. \A r \in for : IsRow(r) /\ r.medium = job[w].medium
    BY RowIsRow
  <2>3. job' = [job EXCEPT ![w] = Written(w, for, TotalLength(done))]
    BY <2>1
  <2> HIDE DEF done, for
  <2> QED
    BY <1>2, <2>2, <2>3
<1>4. CASE StreamArchive(w) \/ StageArchive(w)
  <2> DEFINE m   == job[w].medium
             for == {Row(w, x, NextArchive(m)) : x \in ToSet(job[w].chunk)}
  <2>1. \A r \in for : IsRow(r) /\ r.medium = job[w].medium
    BY RowIsRow
  <2>2. \E bytes : job' = [job EXCEPT ![w] = Written(w, for, bytes)]
    <3>1. CASE StreamArchive(w)
      BY <3>1, Zenon DEF StreamArchive
    <3>2. CASE StageArchive(w)
      BY <3>2, Zenon DEF StageArchive
    <3> QED
      BY <1>4, <3>1, <3>2
  <2> HIDE DEF for
  <2> QED
    BY <1>2, <2>1, <2>2
<1> QED
  BY <1>3, <1>4

\* A job that fails, is cancelled or drops its staged archive.
LEMMA StopKeeps ==
  ASSUME RetireInv, NEW w \in Worker, WriteFault(w) \/ MediumLost(w) \/ DropStaged(w) \/ Cancel(w)
  PROVE  RetireInv'
<1> DEFINE stopped  == [job[w] EXCEPT !.pc = "chunk"]
           canceled == [job[w] EXCEPT !.cancelled = TRUE]
<1>1. /\ job[w].pc # "idle"
      /\ UNCHANGED <<mstatus, versions, coverage>>
      /\ \E n \in {Idle, stopped, canceled} : job' = [job EXCEPT ![w] = n]
  BY DEF WriteFault, MediumLost, DropStaged, Cancel, Step, rows, media
<1>2. /\ Run(stopped, job[w].medium, "chunk", job[w].pending)
      /\ Run(canceled, job[w].medium, job[w].pc, job[w].pending)
  BY <1>1, Running, OneField, Zenon
<1> HIDE DEF stopped, canceled
<1>3. InService(stopped) /\ InService(canceled) /\ InService(Idle)
  BY <1>1, <1>2, Running, RunInService, Zenon DEF InService
<1> QED
  BY <1>1, <1>3, JobMoves

\* The checkpoints: what goes in is of media in service.
LEMMA JobInserts ==
  ASSUME RetireInv, NEW w \in Worker, NEW j, job' = [job EXCEPT ![w] = j], InService(j),
         mstatus' \in [Medium -> Statuses], Out' = Out,
         \A v \in versions' : v \in versions \union Stamp(job[w].pending),
         \A p \in coverage' : p \in coverage \/ p[2] = job[w].medium,
         job[w].pc # "idle"
  PROVE  RetireInv'
<1>1. \A v \in Worker : InService(job[v])'
  <2>1. \A v \in Worker : InService(job'[v])
    BY DEF RetireInv
  <2> QED
    BY <2>1 DEF InService
<1>2. \A r \in Stamp(job[w].pending) : r.medium \notin Out
  <2>1. \A r \in job[w].pending : [r EXCEPT !.txn = txn].medium \notin Out
    BY Running, StampMedium, Zenon
  <2> QED
    BY <2>1, Zenon DEF Stamp
<1>3. /\ \A v \in versions' : v.medium \notin Out
      /\ \A p \in coverage' : p[2] \notin Out
  BY <1>2, Running, HoldNothing DEF RetireInv
<1>4. RetiredHoldNothing'
  BY <1>3 DEF RetiredHoldNothing, Out
<1> QED
  BY <1>1, <1>4 DEF RetireInv

\* The checkpoint after a chunk.
LEMMA CommitKeeps ==
  ASSUME RetireInv, NEW w \in Worker, Commit(w)
  PROVE  RetireInv'
<1> DEFINE n == [job[w] EXCEPT !.pc = "chunk", !.chunk = <<>>, !.pending = {}, !.cover = {},
                               !.bytes = 0]
<1>1. /\ job[w].pc # "idle" /\ UNCHANGED mstatus
      /\ \/ job' = [job EXCEPT ![w] = Idle] /\ UNCHANGED <<versions, coverage>>
         \/ /\ job' = [job EXCEPT ![w] = n]
            /\ versions' = versions \union Stamp(job[w].pending)
            /\ coverage' = coverage \union {<<f, job[w].medium>> : f \in job[w].cover}
  BY DEF Commit, AddCoverage, rows
<1>2. Run(n, job[w].medium, "chunk", {})
  BY <1>1, Running, CommitFields, Zenon
<1> HIDE DEF n
<1>3. InService(n) /\ InService(Idle)
  BY <1>1, <1>2, Running, RunInService DEF InService
<1>4. Out' = Out /\ mstatus' \in [Medium -> Statuses]
  BY <1>1 DEF Out, RetireInv
<1> QED
  BY <1>1, <1>3, <1>4, JobInserts

\* The end of a batch.
LEMMA EndBatchKeeps ==
  ASSUME RetireInv, NEW w \in Worker, EndBatch(w)
  PROVE  RetireInv'
<1> DEFINE m == job[w].medium
           n == [job[w] EXCEPT !.pc = "assemble", !.base = used[m]]
<1>1. /\ job[w].pc # "idle" /\ UNCHANGED coverage
      /\ \/ UNCHANGED mstatus
         \/ mstatus[m] = "active" /\ mstatus' = [mstatus EXCEPT ![m] = "full"]
      /\ \/ UNCHANGED versions
         \/ versions' = versions \union Stamp(job[w].pending)
      /\ \/ job' = [job EXCEPT ![w] = Idle]
         \/ job' = [job EXCEPT ![w] = n]
  BY DEF EndBatch
<1>2. Run(n, m, "assemble", job[w].pending)
  BY <1>1, Running, EndFields, Zenon
<1>3. InService(n) /\ InService(Idle)
  <2> HIDE DEF n
  <2> QED
    BY <1>1, <1>2, Running, RunInService DEF InService
<1>4. Out' = Out /\ mstatus' \in [Medium -> Statuses]
  BY <1>1 DEF Out, RetireInv, Statuses
<1> HIDE DEF n
<1> QED
  BY <1>1, <1>3, <1>4, JobInserts

\* The administration, while no job runs.
LEMMA AdminKeeps ==
  ASSUME RetireInv, Quiet, NEW m \in Medium,
         \/ \E s \in {"active", "RETIRED"} : UpdateMedia(m, s)
         \/ DeleteMedia(m) \/ InitializeMedia(m)
  PROVE  RetireInv'
<1>1. NoJobRuns /\ UNCHANGED job
  BY DEF UpdateMedia, DeleteMedia, InitializeMedia, Allowed
<1>2. \A w \in Worker : job[w] = Idle
  BY <1>1, Zenon DEF NoJobRuns, RetireInv, InService
<1>3. \A w \in Worker : InService(job[w])'
  BY <1>1, <1>2 DEF InService
<1>4. /\ versions' \subseteq versions /\ coverage' \subseteq coverage
      /\ mstatus' \in [Medium -> Statuses]
      /\ Out' \subseteq Out \union {m}
      /\ m \in Out' => \/ m \in Out
                       \/ /\ \A v \in versions' : v.medium # m
                          /\ \A p \in coverage' : p[2] # m
  BY DEF RetireInv, Statuses, Out, UpdateMedia, DeleteMedia, InitializeMedia, Purge
<1>5. RetiredHoldNothing'
  <2>1. /\ \A v \in versions' : v.medium \notin Out'
        /\ \A p \in coverage' : p[2] \notin Out'
    BY <1>4, HoldNothing DEF RetireInv
  <2> QED
    BY <2>1 DEF RetiredHoldNothing, Out
<1> QED
  BY <1>1, <1>3, <1>4, <1>5 DEF RetireInv

\* The source disk, which a running job notes.
LEMMA WriteFileKeeps ==
  ASSUME RetireInv, NEW f, NEW c, WriteFile(f, c)
  PROVE  RetireInv'
<1> DEFINE n(w) == [job[w] EXCEPT !.touched = job[w].touched \union {f}]
<1>1. /\ UNCHANGED <<mstatus, versions, coverage>>
      /\ job' = [w \in Worker |-> IF job[w].pc = "idle" THEN Idle ELSE n(w)]
  BY DEF WriteFile, rows, media
<1>2. ASSUME NEW w \in Worker PROVE InService(job'[w])
  <2>1. CASE job[w].pc = "idle"
    BY <1>1, <2>1 DEF InService
  <2>2. CASE job[w].pc # "idle"
    <3>1. Run(n(w), job[w].medium, job[w].pc, job[w].pending)
      BY <2>2, Running, OneField, Zenon
    <3> HIDE DEF n
    <3>2. InService(n(w))
      BY <2>2, <3>1, Running, RunInService
    <3> QED
      BY <1>1, <2>2, <3>2
  <2> QED
    BY <2>1, <2>2
<1>3. Out' = Out
  BY <1>1 DEF Out
<1>4. \A w \in Worker : InService(job[w])'
  BY <1>2, <1>3 DEF InService
<1>5. RetiredHoldNothing'
  BY <1>1 DEF RetireInv, RetiredHoldNothing
<1> QED
  BY <1>1, <1>4, <1>5 DEF RetireInv

\* Steps that end every job, or touch none.
LEMMA OthersKeep ==
  ASSUME RetireInv, UNCHANGED <<mstatus, versions, coverage>>,
         UNCHANGED job \/ job' = [w \in Worker |-> Idle]
  PROVE  RetireInv'
<1>1. Out' = Out
  BY DEF Out
<1>2. \A w \in Worker : InService(job'[w])
  BY DEF RetireInv, InService
<1>3. \A w \in Worker : InService(job[w])'
  BY <1>1, <1>2 DEF InService
<1>4. RetiredHoldNothing'
  BY DEF RetireInv, RetiredHoldNothing
<1> QED
  BY <1>3, <1>4 DEF RetireInv

\* Nothing is out of service at first.
LEMMA RetireInit == Init => RetireInv
BY DEF Init, RetireInv, RetiredHoldNothing, InService, Statuses

\* Every step keeps media out of service empty.
LEMMA RetireNext == Quiet /\ RetireInv /\ [Next]_vars => RetireInv'
<1> SUFFICES ASSUME Quiet, RetireInv, [Next]_vars PROVE RetireInv'
  OBVIOUS
<1>1. ASSUME NEW w \in Worker, WorkerStep(w) PROVE RetireInv'
  BY <1>1, AssembleKeeps, PrepareKeeps, WriteKeeps, StopKeeps, CommitKeeps, EndBatchKeeps
     DEF WorkerStep
<1>2. ASSUME NEW w \in Worker, \/ \E m \in Medium : Begin(w, m)
                               \/ WriteFault(w) \/ Cancel(w)
      PROVE  RetireInv'
  BY <1>2, BeginKeeps, StopKeeps
<1>3. ASSUME NEW m \in Medium, \/ \E s \in {"active", "RETIRED"} : UpdateMedia(m, s)
                               \/ DeleteMedia(m) \/ InitializeMedia(m)
      PROVE  RetireInv'
  BY <1>3, AdminKeeps
<1>4. ASSUME NEW f \in File, NEW c \in Content, WriteFile(f, c) PROVE RetireInv'
  BY <1>4, WriteFileKeeps
<1>5. CASE Scan \/ Crash \/ UNCHANGED vars \/ \E f \in File : RemoveFile(f) \/ HashFile(f)
  BY <1>5, OthersKeep DEF Scan, Crash, RemoveFile, HashFile, rows, media, vars
<1> QED
  BY <1>1, <1>2, <1>3, <1>4, <1>5 DEF Next

\* While media are only administered with no backup running, a medium that was
\* retired or deleted keeps no row and no coverage, and none comes back, not by
\* a link to another file's copy either.
THEOREM RetiredHoldNothingHolds ==
  ASSUME Quiet PROVE Spec => []RetiredHoldNothing
<1>1. RetireInv => RetiredHoldNothing
  BY DEF RetireInv
<1>2. RetireInv /\ [Next]_vars => RetireInv'
  BY RetireNext
<1> QED
  BY RetireInit, <1>1, <1>2, PTL DEF Spec

-----------------------------------------------------------------------------
(* Counting up to a number.                                                 *)

\* What holds at 0 and is passed on holds up to n: the numbers where it does
\* not would have a least one.
LEMMA Upward ==
  ASSUME NEW n \in Nat, NEW Good, 0 \in Good,
         \A i \in 1 .. n : i - 1 \in Good => i \in Good
  PROVE  0 .. n \subseteq Good
<1> DEFINE Bad   == (0 .. n) \ Good
           Below == {0 .. k : k \in Bad}
<1>1. SUFFICES ASSUME Bad # {} PROVE FALSE
  OBVIOUS
<1>2. Below \subseteq FiniteSubsetsOf(Nat) /\ Below # {}
  <2>1. \A k \in Nat : 0 .. k \in SUBSET Nat /\ IsFiniteSet(0 .. k)
    BY FS_Interval
  <2>2. \A k \in Bad : k \in Nat
    OBVIOUS
  <2> QED
    BY <1>1, <2>1, <2>2 DEF FiniteSubsetsOf
<1>3. PICK x \in Below : \A y \in Below : <<y, x>> \notin StrictSubsetOrdering(Nat)
  <2> HIDE DEF Below
  <2> QED
    BY <1>2, FS_StrictSubsetOrderingWellFounded, WFMin
<1>4. PICK k \in Bad : x = 0 .. k
  OBVIOUS
<1>5. k \in 1 .. n /\ k - 1 \in Bad
  OBVIOUS
<1>6. 0 .. (k - 1) \in Below
  BY <1>5
<1>7. <<0 .. (k - 1), 0 .. k>> \in StrictSubsetOrdering(Nat)
  <2>1. k \in 0 .. k /\ k \notin 0 .. (k - 1) /\ 0 .. (k - 1) \subseteq 0 .. k
    BY <1>5
  <2>2. 0 .. k \in SUBSET Nat /\ 0 .. (k - 1) \in SUBSET Nat
    BY <1>5
  <2> QED
    BY <2>1, <2>2 DEF StrictSubsetOrdering
<1> QED
  BY <1>3, <1>4, <1>6, <1>7

\* A function that goes from each number to the next by op.
Iterates(g, S, base, n, op) ==
  g \in [0 .. n -> S] /\ g[0] = base /\ \A i \in 1 .. n : g[i] = op[<<g[i - 1], i>>]

\* There is one.
LEMMA Iteration ==
  ASSUME NEW S, NEW base \in S, NEW n \in Nat, NEW op \in [S \X (1 .. n) -> S]
  PROVE  \E g : Iterates(g, S, base, n, op)
<1> DEFINE Upto(k, g) == g[0] = base /\ \A i \in 1 .. k : g[i] = op[<<g[i - 1], i>>]
           Good == {k \in 0 .. n : \E g \in [0 .. k -> S] : Upto(k, g)}
<1>1. 0 \in Good
  <2> DEFINE g == [i \in 0 .. 0 |-> base]
  <2>1. g \in [0 .. 0 -> S] /\ g[0] = base /\ \A i \in 1 .. 0 : FALSE
    OBVIOUS
  <2> HIDE DEF g
  <2> QED
    BY <2>1
<1>2. ASSUME NEW k \in 1 .. n, k - 1 \in Good PROVE k \in Good
  <2>1. PICK g \in [0 .. k - 1 -> S] : Upto(k - 1, g)
    BY <1>2
  <2> DEFINE h == [i \in 0 .. k |-> IF i = k THEN op[<<g[k - 1], k>>] ELSE g[i]]
  <2>2. op[<<g[k - 1], k>>] \in S
    OBVIOUS
  <2>3. h \in [0 .. k -> S]
    BY <2>2
  <2>4. h[0] = base
    BY <2>1
  <2>5. ASSUME NEW i \in 1 .. k PROVE h[i] = op[<<h[i - 1], i>>]
    <3>1. h[i - 1] = g[i - 1]
      OBVIOUS
    <3>2. CASE i = k
      <4>1. h[k] = op[<<g[k - 1], k>>] /\ h[k - 1] = g[k - 1]
        OBVIOUS
      <4> QED
        BY <3>2, <4>1
    <3>3. CASE i # k
      <4>1. i \in 1 .. k - 1
        BY <3>3
      <4>2. h[i] = g[i]
        BY <3>3
      <4> QED
        BY <2>1, <3>1, <4>1, <4>2
    <3> QED
      BY <3>2, <3>3
  <2> HIDE DEF h
  <2> QED
    BY <2>3, <2>4, <2>5
<1> HIDE DEF Good
<1>3. 0 .. n \subseteq Good
  BY <1>1, <1>2, Upward
<1> QED
  BY <1>3, SMTT(20) DEF Good, Iterates

-----------------------------------------------------------------------------
(* Sequences of items.                                                      *)

\* The elements of a sequence and one more.
LEMMA AppendToSet ==
  ASSUME NEW T, NEW s \in Seq(T), NEW x \in T
  PROVE  Append(s, x) \in Seq(T) /\ ToSet(Append(s, x)) = ToSet(s) \union {x}
<1>1. /\ Append(s, x) \in Seq(T) /\ Len(s) \in Nat /\ DOMAIN s = 1 .. Len(s)
      /\ DOMAIN Append(s, x) = 1 .. Len(s) + 1
      /\ \A i \in 1 .. Len(s) : Append(s, x)[i] = s[i]
      /\ Append(s, x)[Len(s) + 1] = x
  OBVIOUS
<1>2. 1 .. Len(s) + 1 = (1 .. Len(s)) \union {Len(s) + 1}
  BY <1>1
<1> QED
  BY <1>1, <1>2 DEF ToSet

\* No two items of a sequence are of one file.
Distinct(s) == \A i, k \in 1 .. Len(s) : s[i].file = s[k].file => i = k

\* An item of another file.
LEMMA AppendDistinct ==
  ASSUME NEW T, NEW s \in Seq(T), Distinct(s), NEW x \in T,
         \A y \in ToSet(s) : y.file # x.file
  PROVE  Distinct(Append(s, x))
<1>1. /\ Len(s) \in Nat /\ DOMAIN s = 1 .. Len(s) /\ Len(Append(s, x)) = Len(s) + 1
      /\ \A i \in 1 .. Len(s) : Append(s, x)[i] = s[i] /\ s[i] \in ToSet(s)
      /\ Append(s, x)[Len(s) + 1] = x
  BY DEF ToSet
<1>2. \A i \in 1 .. Len(s) + 1 : i = Len(s) + 1 \/ i \in 1 .. Len(s)
  BY <1>1
<1> QED
  BY <1>1, <1>2 DEF Distinct

\* In such a sequence a file stands for its item.
LEMMA DistinctSet ==
  ASSUME NEW T, NEW s \in Seq(T), Distinct(s),
         NEW x \in ToSet(s), NEW y \in ToSet(s), x.file = y.file
  PROVE  x = y
<1>1. DOMAIN s = 1 .. Len(s)
  OBVIOUS
<1>2. PICK i \in 1 .. Len(s), k \in 1 .. Len(s) : x = s[i] /\ y = s[k]
  BY <1>1 DEF ToSet
<1> QED
  BY <1>2 DEF Distinct

\* The steps of Select.
Selecting(s, S, h) ==
  h = [i \in 0 .. Len(s) |->
        IF i = 0 THEN <<>>
        ELSE IF s[i] \in S THEN Append(h[i - 1], s[i])
        ELSE h[i - 1]]

\* Select keeps what is in the set, and nothing else, and repeats no file.
LEMMA SelectKeeps ==
  ASSUME NEW T, NEW s \in Seq(T), NEW S
  PROVE  /\ Select(s, S) \in Seq(T)
         /\ ToSet(Select(s, S)) = ToSet(s) \intersect S
         /\ Distinct(s) => Distinct(Select(s, S))
<1> DEFINE n  == Len(s)
           op == [p \in Seq(T) \X (1 .. n) |->
                   IF s[p[2]] \in S THEN Append(p[1], s[p[2]]) ELSE p[1]]
           h  == CHOOSE g : Selecting(s, S, g)
<1>1. n \in Nat /\ DOMAIN s = 1 .. n /\ \A i \in 1 .. n : s[i] \in T
  OBVIOUS
<1>2. op \in [Seq(T) \X (1 .. n) -> Seq(T)]
  BY <1>1
<1>3. PICK g : Iterates(g, Seq(T), <<>>, n, op)
  <2>1. <<>> \in Seq(T)
    OBVIOUS
  <2> HIDE DEF op, n
  <2> QED
    BY <1>1, <1>2, <2>1, Iteration
<1>4. Selecting(s, S, g)
  <2>1. ASSUME NEW i \in 0 .. n
        PROVE  g[i] = IF i = 0 THEN <<>>
                      ELSE IF s[i] \in S THEN Append(g[i - 1], s[i])
                      ELSE g[i - 1]
    <3>1. CASE i = 0
      BY <1>3, <3>1 DEF Iterates
    <3>2. CASE i # 0
      <4>1. i \in 1 .. n /\ g[i - 1] \in Seq(T)
        BY <1>1, <1>3, <3>2 DEF Iterates
      <4>2. g[i] = op[<<g[i - 1], i>>]
        BY <1>3, <4>1 DEF Iterates
      <4> QED
        BY <3>2, <4>1, <4>2
    <3> QED
      BY <3>1, <3>2
  <2>2. g \in [0 .. n -> Seq(T)]
    BY <1>3 DEF Iterates
  <2> HIDE DEF n
  <2> QED
    BY <2>1, <2>2 DEF Selecting, n
<1>5. Selecting(s, S, h)
  BY <1>4, Zenon
<1>6. Select(s, S) = h[n]
  BY DEF Select, Selecting
<1> HIDE DEF h, op, n
<1> DEFINE Good == {i \in 0 .. n : /\ h[i] \in Seq(T)
                                   /\ ToSet(h[i]) = {s[k] : k \in 1 .. i} \intersect S
                                   /\ Distinct(s) => Distinct(h[i])}
<1>7. 0 \in Good
  <2>1. h[0] = <<>> /\ 0 \in 0 .. n
    BY <1>1, <1>5 DEF Selecting, n
  <2>2. <<>> \in Seq(T) /\ ToSet(<<>>) = {} /\ {s[k] : k \in 1 .. 0} = {}
    BY DEF ToSet
  <2>3. Distinct(<<>>)
    BY DEF Distinct
  <2> QED
    BY <2>1, <2>2, <2>3
<1>8. ASSUME NEW i \in 1 .. n, i - 1 \in Good PROVE i \in Good
  <2>1. /\ h[i] = IF s[i] \in S THEN Append(h[i - 1], s[i]) ELSE h[i - 1]
        /\ i \in 0 .. n
    <3>1. i \in 0 .. n /\ i # 0
      BY <1>1
    <3>2. \A k \in 0 .. n : h[k] = IF k = 0 THEN <<>>
                                  ELSE IF s[k] \in S THEN Append(h[k - 1], s[k])
                                  ELSE h[k - 1]
      BY <1>5, Zenon DEF Selecting, n
    <3> QED
      BY <3>1, <3>2
  <2>2. /\ h[i - 1] \in Seq(T) /\ s[i] \in T
        /\ ToSet(h[i - 1]) = {s[k] : k \in 1 .. i - 1} \intersect S
        /\ Distinct(s) => Distinct(h[i - 1])
    BY <1>1, <1>8
  <2>3. {s[k] : k \in 1 .. i} = {s[k] : k \in 1 .. i - 1} \union {s[i]}
    <3>1. 1 .. i = (1 .. i - 1) \union {i}
      BY <1>1
    <3> QED
      BY <3>1
  <2>4. CASE s[i] \in S
    <3>1. h[i] \in Seq(T) /\ ToSet(h[i]) = ToSet(h[i - 1]) \union {s[i]}
      BY <2>1, <2>2, <2>4, AppendToSet
    <3>2. ASSUME Distinct(s) PROVE Distinct(h[i])
      <4>1. \A k \in 1 .. i - 1 : s[k].file # s[i].file
        BY <1>1, <3>2 DEF Distinct, n
      <4>2. \A y \in ToSet(h[i - 1]) : y.file # s[i].file
        BY <2>2, <4>1
      <4> QED
        BY <2>1, <2>2, <2>4, <3>2, <4>2, AppendDistinct
    <3> QED
      BY <2>1, <2>2, <2>3, <2>4, <3>1, <3>2
  <2>5. CASE s[i] \notin S
    BY <2>1, <2>2, <2>3, <2>5
  <2> QED
    BY <2>4, <2>5
<1> HIDE DEF Good
<1>9. n \in Good
  <2>1. 0 .. n \subseteq Good
    BY <1>1, <1>7, <1>8, Upward
  <2> QED
    BY <1>1, <2>1
<1> QED
  <2>1. ToSet(s) = {s[k] : k \in 1 .. n}
    BY <1>1 DEF ToSet
  <2> QED
    BY <1>6, <1>9, <2>1 DEF Good

\* A sequence has finitely many elements.
LEMMA ToSetFinite ==
  ASSUME NEW T, NEW s \in Seq(T)
  PROVE  IsFiniteSet(ToSet(s)) /\ ToSet(s) \subseteq T
<1>1. Len(s) \in Nat /\ s \in [1 .. Len(s) -> T]
  OBVIOUS
<1>2. s \in Surjection(1 .. Len(s), ToSet(s))
  BY <1>1 DEF Surjection, ToSet
<1>3. IsFiniteSet(1 .. Len(s))
  BY <1>1, FS_Interval
<1>4. IsFiniteSet(ToSet(s))
  BY <1>2, <1>3, FS_Surjection
<1> QED
  BY <1>1, <1>4 DEF ToSet

\* Each element of X with what D counts of it.
Pairs(X, D) == UNION {{x} \X D[x] : x \in X}

\* What is counted of each element of a finite set adds up to a number.
LEMMA AddsUp ==
  ASSUME NEW X, IsFiniteSet(X), NEW D, \A x \in X : IsFiniteSet(D[x])
  PROVE  IsFiniteSet(Pairs(X, D)) /\ Cardinality(Pairs(X, D)) \in Nat
<1> DEFINE f == [x \in X |-> {x} \X D[x]]
           Y == {{x} \X D[x] : x \in X}
<1>1. f \in Surjection(X, Y)
  BY DEF Surjection
<1>2. IsFiniteSet(Y)
  <2> HIDE DEF f, Y
  <2> QED
    BY <1>1, FS_Surjection
<1>3. ASSUME NEW y \in Y PROVE IsFiniteSet(y)
  <2>1. PICK x \in X : y = {x} \X D[x]
    BY <1>3
  <2>2. IsFiniteSet({x})
    BY FS_Singleton
  <2> QED
    BY <2>1, <2>2, FS_Product
<1>4. Pairs(X, D) = UNION Y
  BY DEF Pairs
<1> HIDE DEF Y
<1>5. IsFiniteSet(UNION Y)
  BY <1>2, <1>3, FS_UNION
<1> QED
  BY <1>4, <1>5, FS_CardinalityType

\* The bytes of the ranges of X, each with its range: coverage_subquery counts them.
Cells(X) == UNION {{x} \X (x.lo + 1 .. x.hi) : x \in X}

\* The lengths of finitely many ranges add up to a number.
LEMMA RangesAddUp ==
  ASSUME NEW X, IsFiniteSet(X), \A x \in X : x.lo \in Int /\ x.hi \in Int
  PROVE  IsFiniteSet(Cells(X)) /\ Cardinality(Cells(X)) \in Nat
<1> DEFINE D == [x \in X |-> x.lo + 1 .. x.hi]
<1>1. \A x \in X : IsFiniteSet(D[x])
  BY FS_Interval
<1>2. Cells(X) = Pairs(X, D)
  <2>1. \A x \in X : D[x] = x.lo + 1 .. x.hi
    OBVIOUS
  <2> HIDE DEF D
  <2> QED
    BY <2>1 DEF Cells, Pairs
<1> HIDE DEF D
<1> QED
  BY <1>1, <1>2, AddsUp

-----------------------------------------------------------------------------
(* The types.                                                               *)

Items == [file : File, lo : Nat, hi : Nat, copy : BOOLEAN, split : BOOLEAN,
          whole : BOOLEAN, of : Content, hash : Contents]

RowFields == {"file", "medium", "slot", "lo", "hi", "split", "batch", "of", "txn"}

RowOK(r) ==
  /\ DOMAIN r = RowFields
  /\ r.file \in File /\ r.medium \in Medium /\ r.of \in Content
  /\ r.lo \in Nat /\ r.hi \in Nat

JobFields == {"pc", "medium", "base", "batch", "items", "chunk", "first", "created",
              "pending", "cover", "bytes", "skipped", "touched", "cancelled"}

\* A job that runs.  What it has still to do is in the index, for good.
RunOK(j) ==
  /\ DOMAIN j = JobFields
  /\ j.pc \in {"assemble", "chunk", "write", "commit"}
  /\ j.medium \in Medium /\ j.base \in Nat /\ j.bytes \in Nat
  /\ j.items \in Seq(Items) /\ j.chunk \in Seq(Items)
  /\ \A x \in ToSet(j.items) \union ToSet(j.chunk) : indexed[x.file] # Gone
  /\ IsFiniteSet(j.pending) /\ \A r \in j.pending : RowOK(r)
  /\ j.cover \subseteq File

JobsOK == /\ job = [w \in Worker |-> job[w]]
          /\ \A w \in Worker : job[w] = Idle \/ RunOK(job[w])

IndexOK ==
  /\ disk \in [File -> Contents] /\ indexed \in [File -> Contents]
  /\ hash \in [File -> Contents] /\ deleted \in [File -> BOOLEAN]

RowsOK ==
  /\ redundancy = [f \in File |-> redundancy[f]]
  /\ IsFiniteSet(versions) /\ \A v \in versions : RowOK(v)
  /\ coverage \subseteq File \X Medium

MediaOK ==
  /\ used \in [Medium -> Nat]
  /\ mstatus \in [Medium -> Statuses]

DataOK == /\ IndexOK /\ RowsOK /\ MediaOK
          /\ txn \in Nat \ {0} /\ writes \in 0 .. MaxWrites

TypeInv == DataOK /\ JobsOK

-----------------------------------------------------------------------------
(* What a batch is made of.                                                 *)

\* An item for m: the range of a file that follows what is covered of it, up to
\* its end unless no medium like m is large enough, or a whole copy of a file that
\* wants more of them.
Choice(x, m) ==
  /\ Archivable(x.file) /\ x.of = indexed[x.file] /\ x.hash = hash[x.file]
  /\ x.whole <=> x.lo = 0 /\ x.hi = SizeOf(x.file)
  /\ ~x.split => x.whole
  /\ x.copy => ~x.split
  /\ IF x.copy THEN x.file \in Redundant(m)
     ELSE /\ x.file \in FirstTime(m) /\ x.lo = CoveredBytes(x.file) /\ x.lo <= x.hi
          /\ x.hi = SizeOf(x.file) \/ SizeOf(x.file) > Capacity[m]

Chosen(m) == {x \in Items : Choice(x, m)}

Batches(m) == [items : Seq(Chosen(m)), size : Int, shut : BOOLEAN]

\* The files that are offered are in the index, with a size.
LEMMA OfferedHasSize ==
  ASSUME IndexOK, NEW m, NEW f \in FirstTime(m) \union Redundant(m)
  PROVE  /\ f \in File /\ Archivable(f)
         /\ indexed[f] \in Content /\ hash[f] \in Contents /\ SizeOf(f) \in Nat
<1>1. f \in File /\ Archivable(f)
  BY DEF FirstTime, Redundant, Unbacked
<1>2. indexed[f] \in Content /\ hash[f] \in Contents
  BY <1>1 DEF IndexOK, Contents, Archivable
<1> QED
  BY <1>1, <1>2, ArchiveConstants DEF SizeOf

\* The ranges of a file's versions add up to a number.
LEMMA CoveredIsNumber ==
  ASSUME RowsOK, NEW f
  PROVE  CoveredBytes(f) \in Nat
<1>1. VersionsOf(f) \subseteq versions
  BY DEF VersionsOf
<1>2. IsFiniteSet(VersionsOf(f))
  BY <1>1, FS_Subset DEF RowsOK
<1>3. \A v \in VersionsOf(f) : v.lo \in Int /\ v.hi \in Int
  BY <1>1 DEF RowsOK, RowOK
<1>4. CoveredBytes(f) = Cardinality(Cells(VersionsOf(f)))
  BY DEF CoveredBytes, Cells
<1> QED
  BY <1>2, <1>3, <1>4, RangesAddUp

\* A range of a file that is offered for the first time.
LEMMA FirstTimeChosen ==
  ASSUME IndexOK, NEW m, NEW f \in FirstTime(m), NEW lo \in Nat, NEW hi \in Nat,
         lo = CoveredBytes(f), lo <= hi, hi <= SizeOf(f),
         hi = SizeOf(f) \/ SizeOf(f) > Capacity[m]
  PROVE  Item(f, lo, hi, FALSE) \in Chosen(m)
<1> DEFINE x == Item(f, lo, hi, FALSE)
<1>1. /\ f \in File /\ Archivable(f) /\ SizeOf(f) \in Nat
      /\ indexed[f] \in Content /\ hash[f] \in Contents
  BY OfferedHasSize
<1>2. x \in Items
  BY <1>1 DEF Item, Items
<1>3. /\ x.file = f /\ x.lo = lo /\ x.hi = hi /\ x.copy = FALSE
      /\ x.of = indexed[f] /\ x.hash = hash[f]
  BY DEF Item
<1>4. /\ x.split <=> lo > 0 \/ hi < SizeOf(f)
      /\ x.whole <=> lo = 0 /\ hi = SizeOf(f)
  BY DEF Item
<1> HIDE DEF x
<1>5. Choice(x, m)
  BY <1>1, <1>3, <1>4 DEF Choice
<1> QED
  BY <1>2, <1>5 DEF Chosen, x

\* A further copy.
LEMMA CopyChosen ==
  ASSUME IndexOK, NEW m, NEW f \in Redundant(m)
  PROVE  Item(f, 0, SizeOf(f), TRUE) \in Chosen(m)
<1> DEFINE x == Item(f, 0, SizeOf(f), TRUE)
<1>1. /\ f \in File /\ Archivable(f) /\ SizeOf(f) \in Nat
      /\ indexed[f] \in Content /\ hash[f] \in Contents
  BY OfferedHasSize
<1>2. x \in Items
  BY <1>1 DEF Item, Items
<1>3. Choice(x, m)
  BY <1>1 DEF Item, Choice
<1> QED
  BY <1>2, <1>3 DEF Chosen

\* c is the batch b, with at most one item more, of the file f.
Adds(b, c, f, m) ==
  /\ c \in Batches(m)
  /\ \/ c.items = b.items
     \/ \E x \in Chosen(m) : x.file = f /\ c.items = Append(b.items, x)

\* One more item.
LEMMA TakeChosen ==
  ASSUME NEW m, NEW b \in Batches(m), NEW x \in Chosen(m)
  PROVE  /\ Adds(b, Take(b, x), x.file, m)
         /\ Adds(b, [Take(b, x) EXCEPT !.shut = TRUE], x.file, m)
<1>1. x.lo \in Nat /\ x.hi \in Nat
  BY DEF Chosen, Items
<1>2. Append(b.items, x) \in Seq(Chosen(m)) /\ b.size + Length(x) \in Int
  BY <1>1, AppendToSet DEF Batches, Length
<1>3. Take(b, x) \in Batches(m) /\ Take(b, x).items = Append(b.items, x)
  BY <1>2 DEF Take, Batches
<1> PICK c : c = Take(b, x)
  OBVIOUS
<1>4. [c EXCEPT !.shut = TRUE] \in Batches(m) /\ [c EXCEPT !.shut = TRUE].items = c.items
  BY <1>3 DEF Batches
<1> QED
  BY <1>3, <1>4 DEF Adds

\* No more of a file is covered than there is when it is offered for the first time.
LEMMA OfferedCovers ==
  ASSUME IndexOK, RowsOK, NEW m, NEW f \in FirstTime(m)
  PROVE  CoveredBytes(f) \in Nat /\ SizeOf(f) \in Nat /\ CoveredBytes(f) <= SizeOf(f)
<1>1. CoveredBytes(f) \in Nat /\ SizeOf(f) \in Nat
  BY CoveredIsNumber, OfferedHasSize
<1>2. CoveredBytes(f) < SizeOf(f) \/ VersionsOf(f) = {}
  BY DEF FirstTime, Unbacked
<1>3. ASSUME VersionsOf(f) = {} PROVE CoveredBytes(f) = 0
  <2>1. UNION {{v} \X (v.lo + 1 .. v.hi) : v \in {}} = {}
    OBVIOUS
  <2> QED
    BY <1>3, <2>1, FS_EmptySet DEF CoveredBytes
<1> QED
  BY <1>1, <1>2, <1>3

\* Phase 1, one file.
LEMMA AddFirstTimeKeeps ==
  ASSUME IndexOK, RowsOK, NEW m \in Medium, NEW room \in Int, NEW b \in Batches(m),
         NEW f \in FirstTime(m)
  PROVE  Adds(b, AddFirstTime(m, room, b, f), f, m)
<1> DEFINE lo   == CoveredBytes(f)
           hi   == SizeOf(f)
           left == room - b.size
<1>1. /\ lo \in Nat /\ hi \in Nat /\ lo <= hi /\ left \in Int
      /\ MinFragment \in Nat \ {0}
  BY OfferedCovers, ArchiveConstants DEF Batches
<1>2. Adds(b, b, f, m) /\ Adds(b, [b EXCEPT !.shut = TRUE], f, m)
  BY DEF Adds, Batches
<1>3. ASSUME NEW l \in Nat, NEW h \in Nat, l = lo, l <= h, h <= hi, h = hi \/ hi > Capacity[m]
      PROVE  /\ Adds(b, Take(b, Item(f, l, h, FALSE)), f, m)
             /\ Adds(b, [Take(b, Item(f, l, h, FALSE)) EXCEPT !.shut = TRUE], f, m)
  <2>1. Item(f, l, h, FALSE) \in Chosen(m)
    BY <1>3, FirstTimeChosen
  <2>2. Item(f, l, h, FALSE).file = f
    BY DEF Item
  <2> QED
    BY <2>1, <2>2, TakeChosen
<1>4. hi = 0 => Adds(b, Take(b, Item(f, 0, 0, FALSE)), f, m)
  <2>1. hi = 0 => 0 \in Nat /\ 0 = lo /\ 0 <= 0 /\ 0 <= hi /\ 0 = hi
    BY <1>1
  <2> HIDE DEF lo, hi
  <2> QED
    BY <1>3, <2>1, Zenon
<1>5. Adds(b, Take(b, Item(f, lo, hi, FALSE)), f, m)
  <2>1. hi <= hi
    BY <1>1
  <2> HIDE DEF lo, hi
  <2> QED
    BY <1>1, <1>3, <2>1, Zenon
<1>6. hi > Capacity[m] /\ left >= MinFragment /\ ~(hi - lo <= left)
        => Adds(b, [Take(b, Item(f, lo, lo + left, FALSE)) EXCEPT !.shut = TRUE], f, m)
  <2>1. left >= MinFragment /\ ~(hi - lo <= left)
          => lo + left \in Nat /\ lo <= lo + left /\ lo + left <= hi
    BY <1>1
  <2> HIDE DEF lo, hi, left
  <2> QED
    BY <1>1, <1>3, <2>1, Zenon
<1> QED
  BY <1>2, <1>4, <1>5, <1>6 DEF AddFirstTime

\* Phase 2, one file, when the batch has nothing of it.
LEMMA AddCopyKeeps ==
  ASSUME IndexOK, NEW m, NEW room, NEW b \in Batches(m), NEW f \in Redundant(m)
  PROVE  /\ Adds(b, AddCopy(room, b, f), f, m)
         /\ \/ AddCopy(room, b, f).items = b.items
            \/ \A y \in ToSet(b.items) : y.file # f
<1>1. Adds(b, b, f, m)
  BY DEF Adds
<1>2. Adds(b, Take(b, Item(f, 0, SizeOf(f), TRUE)), f, m)
  <2>1. Item(f, 0, SizeOf(f), TRUE).file = f
    BY DEF Item
  <2> QED
    BY <2>1, CopyChosen, TakeChosen
<1>3. AddCopy(room, b, f) = b
        \/ /\ AddCopy(room, b, f) = Take(b, Item(f, 0, SizeOf(f), TRUE))
           /\ \A i \in DOMAIN b.items : b.items[i].file # f
  BY DEF AddCopy
<1>4. (\A i \in DOMAIN b.items : b.items[i].file # f) => \A y \in ToSet(b.items) : y.file # f
  BY DEF ToSet
<1> QED
  BY <1>1, <1>2, <1>3, <1>4

\* The steps of Batch.
Batching(m, room, first, second, h) ==
  h = [i \in 0 .. Len(first) + Len(second) |->
        IF i = 0 THEN [items |-> <<>>, size |-> 0, shut |-> FALSE]
        ELSE IF i <= Len(first) THEN AddFirstTime(m, room, h[i - 1], first[i])
        ELSE AddCopy(room, h[i - 1], second[i - Len(first)])]

\* An order of a finite set.
LEMMA OrderIsSeq ==
  ASSUME NEW S, IsFiniteSet(S), NEW s \in SetToSeqs(S)
  PROVE  /\ Len(s) \in Nat /\ \A i \in 1 .. Len(s) : s[i] \in S
         /\ \A i, k \in 1 .. Len(s) : s[i] = s[k] => i = k
<1>1. /\ s \in [1 .. Cardinality(S) -> S] /\ Cardinality(S) \in Nat
      /\ \A i, k \in DOMAIN s : s[i] = s[k] => i = k
  BY FS_CardinalityType DEF SetToSeqs, IsInjective
<1>2. s \in Seq(S) /\ Len(s) = Cardinality(S)
  BY <1>1
<1> QED
  BY <1>1, <1>2

\* A batch for m has only items for m, and one of a file.
LEMMA BatchChosen ==
  ASSUME IndexOK, RowsOK, NEW m \in Medium, NEW room \in Int,
         NEW first \in SetToSeqs(FirstTime(m)), NEW second \in SetToSeqs(Redundant(m))
  PROVE  /\ Batch(m, room, first, second) \in Seq(Chosen(m))
         /\ Distinct(Batch(m, room, first, second))
<1> DEFINE n     == Len(first)
           k     == n + Len(second)
           empty == [items |-> <<>>, size |-> 0, shut |-> FALSE]
           op    == [p \in Batches(m) \X (1 .. k) |->
                      IF p[2] <= n THEN AddFirstTime(m, room, p[1], first[p[2]])
                      ELSE AddCopy(room, p[1], second[p[2] - n])]
           h     == CHOOSE g : Batching(m, room, first, second, g)
<1>1. /\ n \in Nat /\ \A i \in 1 .. n : first[i] \in FirstTime(m)
      /\ \A i, l \in 1 .. n : first[i] = first[l] => i = l
      /\ Len(second) \in Nat /\ \A i \in 1 .. Len(second) : second[i] \in Redundant(m)
  <2>1. IsFiniteSet(FirstTime(m)) /\ IsFiniteSet(Redundant(m))
    BY ArchiveConstants, FS_Subset DEF FirstTime, Redundant
  <2> QED
    BY <2>1, OrderIsSeq
<1>2. k \in Nat /\ n \in 0 .. k
  BY <1>1
<1>3. empty \in Batches(m) /\ Distinct(empty.items) /\ ToSet(empty.items) = {}
  BY DEF Batches, Distinct, ToSet
<1>4. ASSUME NEW b \in Batches(m), NEW i \in 1 .. n
      PROVE  Adds(b, AddFirstTime(m, room, b, first[i]), first[i], m)
  BY <1>1, AddFirstTimeKeeps
<1>5. ASSUME NEW b \in Batches(m), NEW i \in 1 .. k, ~(i <= n)
      PROVE  LET c == AddCopy(room, b, second[i - n]) IN
             /\ Adds(b, c, second[i - n], m)
             /\ c.items = b.items \/ \A y \in ToSet(b.items) : y.file # second[i - n]
  <2>1. i - n \in 1 .. Len(second)
    BY <1>1, <1>5
  <2>2. second[i - n] \in Redundant(m)
    BY <1>1, <2>1
  <2> QED
    BY <2>2, AddCopyKeeps
<1> HIDE DEF n, k
<1>6. op \in [Batches(m) \X (1 .. k) -> Batches(m)]
  <2>1. ASSUME NEW b \in Batches(m), NEW i \in 1 .. k
        PROVE  (IF i <= n THEN AddFirstTime(m, room, b, first[i])
                ELSE AddCopy(room, b, second[i - n])) \in Batches(m)
    <3>1. CASE i <= n
      <4>1. i \in 1 .. n
        BY <1>2, <3>1
      <4> QED
        BY <1>4, <3>1, <4>1 DEF Adds
    <3>2. CASE ~(i <= n)
      BY <1>5, <3>2 DEF Adds
    <3> QED
      BY <3>1, <3>2
  <2> QED
    BY <2>1
<1>7. PICK g : Iterates(g, Batches(m), empty, k, op)
  <2> HIDE DEF op, empty
  <2> QED
    BY <1>2, <1>3, <1>6, Iteration
<1> HIDE DEF empty
<1>8. Batching(m, room, first, second, g)
  <2>1. ASSUME NEW i \in 0 .. k
        PROVE  g[i] = IF i = 0 THEN empty
                      ELSE IF i <= n THEN AddFirstTime(m, room, g[i - 1], first[i])
                      ELSE AddCopy(room, g[i - 1], second[i - n])
    <3>1. CASE i = 0
      BY <1>7, <3>1 DEF Iterates
    <3>2. CASE i # 0
      <4>1. i \in 1 .. k /\ g[i - 1] \in Batches(m)
        BY <1>2, <1>7, <3>2 DEF Iterates
      <4>2. g[i] = op[<<g[i - 1], i>>]
        BY <1>7, <4>1 DEF Iterates
      <4> QED
        BY <3>2, <4>1, <4>2
    <3> QED
      BY <3>1, <3>2
  <2>2. g \in [0 .. k -> Batches(m)]
    BY <1>7 DEF Iterates
  <2>3. g = [i \in 0 .. k |-> g[i]]
    BY <2>2
  <2> HIDE DEF op
  <2> QED
    BY <2>1, <2>3, Zenon DEF Batching, n, k, empty
<1>9. Batching(m, room, first, second, h)
  BY <1>8, Zenon
<1>10. Batch(m, room, first, second) = h[IF Target > 1 THEN k ELSE n].items
  BY Zenon DEF Batch, Batching, n, k
<1> HIDE DEF h, op
\* Of the first files the batch has at most those it has come to.
<1> DEFINE Good == {i \in 0 .. k :
                      /\ h[i] \in Batches(m) /\ Distinct(h[i].items)
                      /\ i <= n => \A y \in ToSet(h[i].items) :
                                     \E l \in 1 .. i : y.file = first[l]}
<1>11. \A i \in 0 .. k :
         h[i] = IF i = 0 THEN empty
                ELSE IF i <= n THEN AddFirstTime(m, room, h[i - 1], first[i])
                ELSE AddCopy(room, h[i - 1], second[i - n])
  BY <1>9, Zenon DEF Batching, n, k, empty
<1>12. 0 \in Good
  <2>1. 0 \in 0 .. k /\ h[0] = empty
    BY <1>2, <1>11
  <2> QED
    BY <1>3, <2>1
<1>13. ASSUME NEW i \in 1 .. k, i - 1 \in Good PROVE i \in Good
  <2> PICK b : b = h[i - 1]
    OBVIOUS
  <2> PICK c : c = h[i]
    OBVIOUS
  <2>1. i \in 0 .. k /\ i # 0 /\ b \in Batches(m) /\ Distinct(b.items)
    BY <1>2, <1>13
  <2>2. b.items \in Seq(Chosen(m))
    BY <2>1 DEF Batches
  <2>3. ASSUME NEW f, Adds(b, c, f, m),
               c.items = b.items \/ \A y \in ToSet(b.items) : y.file # f
        PROVE  /\ c \in Batches(m) /\ Distinct(c.items)
               /\ \A y \in ToSet(c.items) : y \in ToSet(b.items) \/ y.file = f
    <3>1. CASE c.items = b.items
      BY <2>1, <2>3, <3>1 DEF Adds
    <3>2. CASE c.items # b.items
      <4>1. PICK x \in Chosen(m) : x.file = f /\ c.items = Append(b.items, x)
        BY <2>3, <3>2 DEF Adds
      <4>2. \A y \in ToSet(b.items) : y.file # x.file
        BY <2>3, <3>2, <4>1
      <4>3. Distinct(c.items) /\ ToSet(c.items) = ToSet(b.items) \union {x}
        BY <2>1, <2>2, <4>1, <4>2, AppendToSet, AppendDistinct
      <4> QED
        BY <2>3, <4>1, <4>3 DEF Adds
    <3> QED
      BY <3>1, <3>2
  <2>4. CASE i <= n
    <3>1. i \in 1 .. n /\ i - 1 <= n
      BY <1>2, <2>4
    <3>2. c = AddFirstTime(m, room, b, first[i])
      BY <1>11, <2>1, <2>4
    <3>3. \A y \in ToSet(b.items) : \E l \in 1 .. i - 1 : y.file = first[l]
      BY <1>13, <3>1
    <3>4. \A y \in ToSet(b.items) : y.file # first[i]
      <4>1. \A l \in 1 .. i - 1 : l \in 1 .. n /\ l # i
        BY <1>1, <3>1 DEF n
      <4> QED
        BY <1>1, <3>1, <3>3, <4>1
    <3>5. /\ c \in Batches(m) /\ Distinct(c.items)
          /\ \A y \in ToSet(c.items) : y \in ToSet(b.items) \/ y.file = first[i]
      BY <1>4, <2>1, <2>3, <3>1, <3>2, <3>4
    <3>6. \A y \in ToSet(c.items) : \E l \in 1 .. i : y.file = first[l]
      <4>1. i \in 1 .. i /\ \A l \in 1 .. i - 1 : l \in 1 .. i
        BY <1>1, <3>1 DEF n
      <4> QED
        BY <3>3, <3>5, <4>1
    <3> QED
      BY <2>1, <3>5, <3>6
  <2>5. CASE ~(i <= n)
    <3>1. c = AddCopy(room, b, second[i - n])
      BY <1>11, <2>1, <2>5
    <3>2. c \in Batches(m) /\ Distinct(c.items)
      BY <1>5, <2>1, <2>3, <2>5, <3>1
    <3> QED
      BY <2>1, <2>5, <3>2
  <2> QED
    BY <2>4, <2>5
<1>14. 0 .. k \subseteq Good
  <2> HIDE DEF Good
  <2> QED
    BY <1>2, <1>12, <1>13, Upward
<1>15. \A i \in 0 .. k : h[i].items \in Seq(Chosen(m)) /\ Distinct(h[i].items)
  BY <1>14 DEF Batches
<1> QED
  BY <1>2, <1>10, <1>15

-----------------------------------------------------------------------------
(* The steps of a job keep the types.                                       *)

\* A step that leaves rows, index and media alone.
LEMMA DataStays ==
  ASSUME DataOK, UNCHANGED <<disks, index, rows, used, mstatus>>
  PROVE  DataOK'
BY DEF DataOK, IndexOK, RowsOK, MediaOK, RowOK, disks, index, rows

\* A step of one job.
LEMMA JobStep ==
  ASSUME TypeInv, NEW w \in Worker, NEW j, job' = [job EXCEPT ![w] = j],
         j = Idle \/ RunOK(j), UNCHANGED indexed, DataOK'
  PROVE  TypeInv'
<1>1. \A v \in Worker : job'[v] = Idle \/ RunOK(job'[v])
  BY DEF TypeInv, JobsOK
<1>2. \A v \in Worker : (job[v] = Idle \/ RunOK(job[v]))'
  BY <1>1 DEF RunOK
<1>3. job' = [v \in Worker |-> job'[v]]
  BY DEF TypeInv, JobsOK
<1> QED
  BY <1>2, <1>3 DEF TypeInv, JobsOK

\* What is known of a job that is not idle.
LEMMA RunsOK ==
  ASSUME TypeInv, NEW w \in Worker, job[w].pc # "idle"
  PROVE  RunOK(job[w])
BY DEF TypeInv, JobsOK, Idle

\* The first part and the last part of a sequence.
LEMMA Parts ==
  ASSUME NEW T, NEW s \in Seq(T), NEW k \in 0 .. Len(s)
  PROVE  /\ SubSeq(s, 1, k) \in Seq(T) /\ ToSet(SubSeq(s, 1, k)) \subseteq ToSet(s)
         /\ SubSeq(s, k + 1, Len(s)) \in Seq(T)
         /\ ToSet(SubSeq(s, k + 1, Len(s))) \subseteq ToSet(s)
<1>1. Len(s) \in Nat /\ DOMAIN s = 1 .. Len(s) /\ \A i \in 1 .. Len(s) : s[i] \in ToSet(s)
  BY DEF ToSet
<1>2. s \in Seq(ToSet(s))
  BY <1>1
<1>3. SubSeq(s, 1, k) \in Seq(ToSet(s)) /\ SubSeq(s, k + 1, Len(s)) \in Seq(ToSet(s))
  BY <1>1, <1>2, SubSeqProperties
<1>4. SubSeq(s, 1, k) \in Seq(T) /\ SubSeq(s, k + 1, Len(s)) \in Seq(T)
  BY <1>1, SubSeqProperties
<1> QED
  BY <1>3, <1>4, ToSetFinite

\* The whole of a sequence.
LEMMA WholePart ==
  ASSUME NEW T, NEW s \in Seq(T)
  PROVE  SubSeq(s, 1, Len(s)) = s
BY SubSeqFull

\* EmptyFirst changes the order only.
LEMMA EmptyFirstKeeps ==
  ASSUME NEW T, NEW s \in Seq(T)
  PROVE  /\ EmptyFirst(s) \in Seq(T)
         /\ ToSet(EmptyFirst(s)) = ToSet(s)
         /\ Distinct(s) => Distinct(EmptyFirst(s))
<1> DEFINE empty == {x \in ToSet(s) : Length(x) = 0}
           a     == Select(s, empty)
           b     == Select(s, ToSet(s) \ empty)
<1>1. /\ a \in Seq(T) /\ ToSet(a) = ToSet(s) \intersect empty
      /\ b \in Seq(T) /\ ToSet(b) = ToSet(s) \intersect (ToSet(s) \ empty)
      /\ Distinct(s) => Distinct(a) /\ Distinct(b)
  BY SelectKeeps
<1>2. EmptyFirst(s) = a \o b
  BY DEF EmptyFirst
<1> HIDE DEF a, b
<1>3. /\ a \o b \in Seq(T) /\ Len(a) \in Nat /\ Len(b) \in Nat
      /\ DOMAIN a = 1 .. Len(a) /\ DOMAIN b = 1 .. Len(b)
      /\ DOMAIN (a \o b) = 1 .. Len(a) + Len(b)
      /\ \A i \in 1 .. Len(a) : (a \o b)[i] = a[i]
      /\ \A i \in 1 .. Len(b) : (a \o b)[Len(a) + i] = b[i]
  BY <1>1
<1>4. ToSet(a \o b) = ToSet(a) \union ToSet(b)
  <2>1. \A i \in 1 .. Len(a) + Len(b) : i \in 1 .. Len(a) \/ i - Len(a) \in 1 .. Len(b)
    BY <1>3
  <2>2. ASSUME NEW i \in 1 .. Len(a) + Len(b)
        PROVE  (a \o b)[i] \in ToSet(a) \union ToSet(b)
    <3>1. CASE i \in 1 .. Len(a)
      BY <1>3, <3>1 DEF ToSet
    <3>2. CASE i - Len(a) \in 1 .. Len(b)
      <4>1. i = Len(a) + (i - Len(a))
        BY <1>3
      <4>2. (a \o b)[i] = b[i - Len(a)]
        BY <1>3, <3>2, <4>1
      <4> QED
        BY <1>3, <3>2, <4>2 DEF ToSet
    <3> QED
      BY <2>1, <3>1, <3>2
  <2>3. ToSet(a) \subseteq ToSet(a \o b)
    BY <1>3 DEF ToSet
  <2>4. ToSet(b) \subseteq ToSet(a \o b)
    <3>1. \A i \in 1 .. Len(b) : Len(a) + i \in 1 .. Len(a) + Len(b)
      BY <1>3
    <3> QED
      BY <1>3, <3>1 DEF ToSet
  <2>5. ToSet(a \o b) \subseteq ToSet(a) \union ToSet(b)
    BY <1>3, <2>2 DEF ToSet
  <2> QED
    BY <2>3, <2>4, <2>5
<1>5. ASSUME Distinct(s) PROVE Distinct(a \o b)
  <2>1. ASSUME NEW i \in 1 .. Len(a), NEW k \in 1 .. Len(b) PROVE a[i].file # b[k].file
    <3>1. a[i] \in ToSet(a) /\ b[k] \in ToSet(b)
      BY <1>3 DEF ToSet
    <3>2. a[i] # b[k] /\ a[i] \in ToSet(s) /\ b[k] \in ToSet(s)
      BY <1>1, <3>1
    <3> QED
      BY <1>5, <3>2, DistinctSet
  <2>2. \A i \in 1 .. Len(a) + Len(b) :
          \/ i \in 1 .. Len(a) /\ (a \o b)[i] = a[i]
          \/ i - Len(a) \in 1 .. Len(b) /\ (a \o b)[i] = b[i - Len(a)]
    <3>1. ASSUME NEW i \in 1 .. Len(a) + Len(b), i \notin 1 .. Len(a)
          PROVE  i - Len(a) \in 1 .. Len(b) /\ (a \o b)[i] = b[i - Len(a)]
      <4>1. i - Len(a) \in 1 .. Len(b) /\ i = Len(a) + (i - Len(a))
        BY <1>3, <3>1
      <4> QED
        BY <1>3, <4>1
    <3> QED
      BY <1>3, <3>1
  <2>3. ASSUME NEW i \in 1 .. Len(a) + Len(b), NEW k \in 1 .. Len(a) + Len(b),
               (a \o b)[i].file = (a \o b)[k].file
        PROVE  i = k
    <3>1. CASE i \in 1 .. Len(a) /\ k \in 1 .. Len(a)
      BY <1>1, <1>3, <1>5, <2>3, <3>1 DEF Distinct
    <3>2. CASE i \notin 1 .. Len(a) /\ k \notin 1 .. Len(a)
      <4>1. i - Len(a) = k - Len(a)
        BY <1>1, <1>5, <2>2, <2>3, <3>2 DEF Distinct
      <4> QED
        BY <1>3, <4>1
    <3>3. CASE i \in 1 .. Len(a) /\ k \notin 1 .. Len(a)
      BY <1>3, <2>1, <2>2, <2>3, <3>3
    <3>4. CASE i \notin 1 .. Len(a) /\ k \in 1 .. Len(a)
      BY <1>3, <2>1, <2>2, <2>3, <3>4
    <3> QED
      BY <3>1, <3>2, <3>3, <3>4
  <2>4. Len(a \o b) = Len(a) + Len(b)
    BY <1>3
  <2> QED
    BY <2>3, <2>4 DEF Distinct
<1> QED
  BY <1>1, <1>2, <1>3, <1>4, <1>5

\* The start of a job.
LEMMA BeginTyped ==
  ASSUME TypeInv, NEW w \in Worker, NEW m \in Medium, Begin(w, m)
  PROVE  TypeInv'
<1> DEFINE n == [pc |-> "assemble", medium |-> m, base |-> used[m], batch |-> 0,
                 items |-> <<>>, chunk |-> <<>>, first |-> TRUE, created |-> FALSE,
                 pending |-> {}, cover |-> {}, bytes |-> 0,
                 skipped |-> {}, touched |-> {}, cancelled |-> FALSE]
<1>1. job' = [job EXCEPT ![w] = n] /\ UNCHANGED <<disks, index, rows, used, mstatus>>
  BY DEF Begin, media
<1>2. /\ DOMAIN n = JobFields /\ n.pc = "assemble" /\ n.medium = m /\ n.base = used[m]
      /\ n.items = <<>> /\ n.chunk = <<>> /\ n.pending = {} /\ n.cover = {} /\ n.bytes = 0
  BY DEF JobFields
<1>3. used[m] \in Nat
  BY DEF TypeInv, DataOK, MediaOK
<1>4. ToSet(<<>>) = {} /\ IsFiniteSet({})
  BY FS_EmptySet DEF ToSet
<1> HIDE DEF n
<1>5. RunOK(n)
  BY <1>2, <1>3, <1>4 DEF RunOK
<1> QED
  BY <1>1, <1>5, DataStays, JobStep DEF TypeInv, index

\* What Assemble makes of a job.
Assembled(w, items) ==
  LET n == NewBatch(w, items) IN
  /\ items \in Seq(Chosen(job[w].medium)) /\ Distinct(items)
  /\ job' = [job EXCEPT ![w] = IF items = <<>> THEN Idle ELSE n]
  /\ DOMAIN n = JobFields /\ n.pc = "chunk" /\ n.items = EmptyFirst(items)
  /\ n.medium = job[w].medium /\ n.base = job[w].base /\ n.chunk = job[w].chunk
  /\ n.pending = job[w].pending /\ n.cover = job[w].cover /\ n.bytes = job[w].bytes
  /\ n.cancelled = job[w].cancelled

\* Assemble gives a job items for its medium and changes nothing else.
LEMMA AssembledFields ==
  ASSUME TypeInv, NEW w \in Worker, Assemble(w)
  PROVE  /\ RunOK(job[w]) /\ job[w].pc = "assemble"
         /\ UNCHANGED <<disks, index, rows, media, store>>
         /\ \E items : Assembled(w, items)
<1> DEFINE m    == job[w].medium
           room == Capacity[m] - job[w].base
<1>1. job[w].pc = "assemble" /\ UNCHANGED <<disks, index, rows, media, store>>
  BY DEF Assemble
<1>2. RunOK(job[w])
  BY <1>1, RunsOK
<1>3. m \in Medium /\ room \in Int
  BY <1>2, ArchiveConstants DEF RunOK
<1>4. PICK first \in SetToSeqs(FirstTime(m)), second \in SetToSeqs(Redundant(m)) :
        LET items == Batch(m, room, first, second) IN
        job' = [job EXCEPT ![w] = IF items = <<>> THEN Idle ELSE NewBatch(w, items)]
  BY Zenon DEF Assemble
<1> DEFINE items == Batch(m, room, first, second)
           n     == NewBatch(w, items)
<1>5. items \in Seq(Chosen(m)) /\ Distinct(items)
  <2> HIDE DEF m, room
  <2> QED
    BY <1>3, BatchChosen DEF TypeInv, DataOK
<1>6. job' = [job EXCEPT ![w] = IF items = <<>> THEN Idle ELSE n]
  BY <1>4
<1> HIDE DEF items
<1>7. /\ DOMAIN n = JobFields /\ n.pc = "chunk" /\ n.items = EmptyFirst(items)
      /\ n.medium = m /\ n.base = job[w].base /\ n.chunk = job[w].chunk
      /\ n.pending = job[w].pending /\ n.cover = job[w].cover /\ n.bytes = job[w].bytes
      /\ n.cancelled = job[w].cancelled
  BY <1>2 DEF NewBatch, RunOK, JobFields
<1>8. Assembled(w, items)
  <2> HIDE DEF n
  <2> QED
    BY <1>5, <1>6, <1>7 DEF Assembled, n
<1> QED
  BY <1>1, <1>2, <1>8

\* The choice of a batch.
LEMMA AssembleTyped ==
  ASSUME TypeInv, NEW w \in Worker, Assemble(w)
  PROVE  TypeInv'
<1>1. PICK items : Assembled(w, items)
  BY AssembledFields
<1>2. RunOK(job[w]) /\ UNCHANGED <<disks, index, rows, used, mstatus>>
  BY AssembledFields DEF media
<1> DEFINE m == job[w].medium
           n == NewBatch(w, items)
<1>3. items \in Seq(Chosen(m))
  BY <1>1 DEF Assembled
<1>4. /\ job' = [job EXCEPT ![w] = IF items = <<>> THEN Idle ELSE n]
      /\ DOMAIN n = JobFields /\ n.pc = "chunk" /\ n.items = EmptyFirst(items)
      /\ n.medium = m /\ n.base = job[w].base /\ n.chunk = job[w].chunk
      /\ n.pending = job[w].pending /\ n.cover = job[w].cover /\ n.bytes = job[w].bytes
  BY <1>1 DEF Assembled
<1>5. /\ EmptyFirst(items) \in Seq(Items)
      /\ \A x \in ToSet(EmptyFirst(items)) : indexed[x.file] # Gone
  <2>1. Chosen(m) \subseteq Items /\ \A x \in Chosen(m) : indexed[x.file] # Gone
    BY DEF Chosen, Choice, Archivable
  <2> HIDE DEF m
  <2>2. EmptyFirst(items) \in Seq(Chosen(m)) /\ ToSet(EmptyFirst(items)) \subseteq Chosen(m)
    BY <1>3, EmptyFirstKeeps, ToSetFinite
  <2>3. EmptyFirst(items) \in Seq(Items)
    BY <2>1, <2>2, SeqMonotonic
  <2> QED
    BY <2>1, <2>2, <2>3
<1> HIDE DEF n
<1>6. RunOK(n)
  BY <1>2, <1>4, <1>5 DEF RunOK
<1> QED
  BY <1>2, <1>4, <1>6, DataStays, JobStep DEF TypeInv, index

\* A chunk of what a job has still to do, as the index now has it.
Chunk(j, n) ==
  IF j.first THEN SubSeq(j.items, 1, n) ELSE [i \in 1 .. n |-> Reloaded(j.items[i])]

\* Reloading leaves file and range alone.
LEMMA ReloadedOK ==
  ASSUME IndexOK, NEW x \in Items, indexed[x.file] # Gone
  PROVE  /\ Reloaded(x) \in Items
         /\ Reloaded(x).file = x.file /\ Reloaded(x).lo = x.lo /\ Reloaded(x).hi = x.hi
         /\ Reloaded(x).split = x.split /\ Reloaded(x).copy = x.copy
         /\ Reloaded(x).of = indexed[x.file] /\ Reloaded(x).hash = hash[x.file]
         /\ Reloaded(x).whole <=> x.lo = 0 /\ x.hi = SizeOf(x.file)
<1>1. x.file \in File
  BY DEF Items
<1>2. indexed[x.file] \in Content /\ hash[x.file] \in Contents
  BY <1>1 DEF IndexOK, Contents
<1> QED
  BY <1>2 DEF Items, Reloaded

\* A chunk has the items the job had, or those reloaded.
LEMMA ChunkOK ==
  ASSUME IndexOK, NEW j, RunOK(j), NEW n \in 0 .. Len(j.items)
  PROVE  /\ Chunk(j, n) \in Seq(Items)
         /\ \A x \in ToSet(Chunk(j, n)) : \E y \in ToSet(j.items) :
              x = IF j.first THEN y ELSE Reloaded(y)
<1>1. j.items \in Seq(Items) /\ \A x \in ToSet(j.items) : indexed[x.file] # Gone
  BY DEF RunOK
<1>2. CASE j.first
  BY <1>1, <1>2, Parts DEF Chunk
<1>3. CASE ~j.first
  <2>1. \A i \in 1 .. n : j.items[i] \in Items /\ j.items[i] \in ToSet(j.items)
    BY <1>1 DEF ToSet
  <2>2. \A i \in 1 .. n : Reloaded(j.items[i]) \in Items
    BY <1>1, <2>1, ReloadedOK
  <2>3. Chunk(j, n) = [i \in 1 .. n |-> Reloaded(j.items[i])] /\ n \in Nat
    BY <1>1, <1>3 DEF Chunk
  <2>4. Chunk(j, n) \in [1 .. n -> Items] /\ DOMAIN Chunk(j, n) = 1 .. n
    BY <2>2, <2>3
  <2>5. Chunk(j, n) \in Seq(Items)
    BY <2>3, <2>4, SeqDef
  <2>6. ASSUME NEW x \in ToSet(Chunk(j, n))
        PROVE  \E y \in ToSet(j.items) : x = Reloaded(y)
    <3>1. PICK i \in 1 .. n : x = Chunk(j, n)[i]
      BY <2>4 DEF ToSet
    <3> QED
      BY <2>1, <2>3, <3>1
  <2> QED
    BY <1>3, <2>5, <2>6
<1> QED
  BY <1>2, <1>3

\* The links of a chunk.
LEMMA LinksOK ==
  ASSUME RowsOK, NEW linked, IsFiniteSet(linked), linked \subseteq Items,
         NEW v, \A x \in linked : v[x] \in Dupes(x)
  PROVE  /\ IsFiniteSet({Link(x, v[x]) : x \in linked})
         /\ \A r \in {Link(x, v[x]) : x \in linked} : RowOK(r)
<1> DEFINE f == [x \in linked |-> Link(x, v[x])]
           Y == {Link(x, v[x]) : x \in linked}
<1>1. f \in Surjection(linked, Y)
  BY DEF Surjection
<1>2. IsFiniteSet(Y)
  <2> HIDE DEF f, Y
  <2> QED
    BY <1>1, FS_Surjection
<1>3. ASSUME NEW x \in linked PROVE RowOK(Link(x, v[x]))
  <2>1. v[x] \in versions /\ x.hash # Gone
    BY DEF Dupes
  <2>2. v[x].medium \in Medium
    BY <2>1 DEF RowsOK, RowOK
  <2>3. x.file \in File /\ x.lo \in Nat /\ x.hi \in Nat /\ x.hash \in Content
    BY <2>1 DEF Items, Contents
  <2> QED
    BY <2>2, <2>3 DEF RowOK, Link, RowFields
<1> QED
  BY <1>2, <1>3

\* What Prepare makes of a job.
Prepared(w, n, v) ==
  LET j      == job[w]
      chunk  == Chunk(j, n)
      linked == {x \in ToSet(chunk) : Dupes(x) # {}}
      rest   == Select(chunk, {x \in ToSet(chunk) \ linked : x.file \notin j.skipped})
      write  == Select(rest, {x \in ToSet(rest) : x.file \notin Unstable(w)})
  IN  [j EXCEPT !.pc = IF write = <<>> THEN "commit" ELSE "write",
                !.items   = SubSeq(j.items, n + 1, Len(j.items)),
                !.chunk   = write,
                !.first   = FALSE,
                !.base    = IF j.first THEN j.base ELSE used[j.medium],
                !.created = j.created \/ linked # {},
                !.skipped = j.skipped
                              \union ({x.file : x \in ToSet(rest)} \intersect Unstable(w)),
                !.pending = {Link(x, v[x]) : x \in linked}]

Linked(w, n) == {x \in ToSet(Chunk(job[w], n)) : Dupes(x) # {}}

\* Its fields, when v gives the versions that are linked to.
PreparedBy(w, n, v) ==
  LET p == Prepared(w, n, v) IN
  /\ \A x \in Linked(w, n) : v[x] \in Dupes(x)
  /\ job' = [job EXCEPT ![w] = p]
  /\ DOMAIN p = JobFields /\ p.pc \in {"write", "commit"}
  /\ p.medium = job[w].medium /\ p.base \in {job[w].base, used[job[w].medium]}
  /\ p.batch = job[w].batch /\ p.cancelled = job[w].cancelled
  /\ p.cover = job[w].cover /\ p.bytes = job[w].bytes
  /\ p.items \in Seq(Items) /\ ToSet(p.items) \subseteq ToSet(job[w].items)
  /\ p.items = SubSeq(job[w].items, n + 1, Len(job[w].items))
  /\ p.chunk \in Seq(Items) /\ ToSet(p.chunk) \subseteq ToSet(Chunk(job[w], n))
  /\ ToSet(p.chunk) \intersect Linked(w, n) = {}
  /\ p.pending = {Link(x, v[x]) : x \in Linked(w, n)}

\* Prepare is Prepared, for some choice of the versions that are linked to.
LEMMA PreparedFields ==
  ASSUME TypeInv, NEW w \in Worker, NEW n \in Nat, Prepare(w, n)
  PROVE  /\ RunOK(job[w]) /\ job[w].pc = "chunk" /\ n \in 0 .. Len(job[w].items)
         /\ UNCHANGED <<disks, index, rows, media, store>>
         /\ \E v : PreparedBy(w, n, v)
<1>1. /\ job[w].pc = "chunk" /\ n <= Len(job[w].items)
      /\ UNCHANGED <<disks, index, rows, media, store>>
  BY DEF Prepare
<1>2. RunOK(job[w])
  BY <1>1, RunsOK
<1>3. Len(job[w].items) \in Nat /\ n \in 0 .. Len(job[w].items) /\ job[w].items \in Seq(Items)
  BY <1>1, <1>2 DEF RunOK
<1>4. PICK v : /\ \A x \in Linked(w, n) : v[x] \in Dupes(x)
               /\ job' = [job EXCEPT ![w] = Prepared(w, n, v)]
  <2> DEFINE j      == job[w]
             chunk  == IF j.first THEN SubSeq(j.items, 1, n)
                       ELSE [i \in 1 .. n |-> Reloaded(j.items[i])]
             linked == {x \in ToSet(chunk) : Dupes(x) # {}}
             rest   == Select(chunk, {x \in ToSet(chunk) \ linked : x.file \notin j.skipped})
             write  == Select(rest, {x \in ToSet(rest) : x.file \notin Unstable(w)})
             next(v) == [j EXCEPT !.pc = IF write = <<>> THEN "commit" ELSE "write",
                !.items   = SubSeq(j.items, n + 1, Len(j.items)),
                !.chunk   = write,
                !.first   = FALSE,
                !.base    = IF j.first THEN j.base ELSE used[j.medium],
                !.created = j.created \/ linked # {},
                !.skipped = j.skipped
                              \union ({x.file : x \in ToSet(rest)} \intersect Unstable(w)),
                !.pending = {Link(x, v[x]) : x \in linked}]
  <2>1. PICK v \in [linked -> versions] : /\ \A x \in linked : v[x] \in Dupes(x)
                                          /\ job' = [job EXCEPT ![w] = next(v)]
    BY Zenon DEF Prepare
  <2>2. next(v) = Prepared(w, n, v) /\ linked = Linked(w, n)
    BY Zenon DEF Prepared, Chunk, Linked
  <2> HIDE DEF next, linked
  <2> QED
    BY <2>1, <2>2
<1> DEFINE chunk == Chunk(job[w], n)
           rest  == Select(chunk, {x \in ToSet(chunk) \ Linked(w, n) :
                                     x.file \notin job[w].skipped})
           write == Select(rest, {x \in ToSet(rest) : x.file \notin Unstable(w)})
           items == SubSeq(job[w].items, n + 1, Len(job[w].items))
           p     == Prepared(w, n, v)
<1>5. /\ DOMAIN p = JobFields /\ p.pc \in {"write", "commit"}
      /\ p.medium = job[w].medium /\ p.base \in {job[w].base, used[job[w].medium]}
      /\ p.batch = job[w].batch /\ p.cancelled = job[w].cancelled
      /\ p.cover = job[w].cover /\ p.bytes = job[w].bytes
      /\ p.items = items /\ p.chunk = write
      /\ p.pending = {Link(x, v[x]) : x \in Linked(w, n)}
  <2>1. DOMAIN job[w] = JobFields
    BY <1>2 DEF RunOK
  <2> QED
    BY <2>1 DEF Prepared, JobFields, Linked
<1>6. items \in Seq(Items) /\ ToSet(items) \subseteq ToSet(job[w].items)
  BY <1>3, Parts
<1>7. /\ write \in Seq(Items) /\ ToSet(write) \subseteq ToSet(chunk)
      /\ ToSet(write) \intersect Linked(w, n) = {}
  <2>1. chunk \in Seq(Items)
    BY <1>2, <1>3, ChunkOK DEF TypeInv, DataOK
  <2> HIDE DEF chunk
  <2>2. rest \in Seq(Items) /\ ToSet(rest) \subseteq ToSet(chunk) \ Linked(w, n)
    BY <2>1, SelectKeeps
  <2> HIDE DEF rest
  <2> QED
    BY <2>2, SelectKeeps
<1>8. PreparedBy(w, n, v)
  <2>1. p.items = SubSeq(job[w].items, n + 1, Len(job[w].items))
    BY <1>5
  <2> HIDE DEF items, write, p, chunk
  <2> QED
    BY <1>4, <1>5, <1>6, <1>7, <2>1 DEF PreparedBy, p, chunk
<1> HIDE DEF items, write, chunk, p
<1> QED
  BY <1>1, <1>2, <1>3, <1>8

\* A chunk and its links.
LEMMA PrepareTyped ==
  ASSUME TypeInv, NEW w \in Worker, NEW n \in Nat, Prepare(w, n)
  PROVE  TypeInv'
<1>1. /\ RunOK(job[w]) /\ n \in 0 .. Len(job[w].items)
      /\ UNCHANGED <<disks, index, rows, used, mstatus>>
  BY PreparedFields DEF media
<1>2. PICK v : PreparedBy(w, n, v)
  BY PreparedFields
<1> DEFINE p == Prepared(w, n, v)
<1>3. IsFiniteSet(Linked(w, n)) /\ Linked(w, n) \subseteq Items
  <2>1. Chunk(job[w], n) \in Seq(Items)
    BY <1>1, ChunkOK DEF TypeInv, DataOK
  <2>2. IsFiniteSet(ToSet(Chunk(job[w], n))) /\ ToSet(Chunk(job[w], n)) \subseteq Items
    BY <2>1, ToSetFinite
  <2> QED
    BY <2>2, FS_Subset DEF Linked
<1>4. IsFiniteSet(p.pending) /\ \A r \in p.pending : RowOK(r)
  <2>1. /\ \A x \in Linked(w, n) : v[x] \in Dupes(x)
        /\ p.pending = {Link(x, v[x]) : x \in Linked(w, n)}
    BY <1>2 DEF PreparedBy
  <2> HIDE DEF p
  <2> QED
    BY <1>3, <2>1, LinksOK DEF TypeInv, DataOK
<1>5. used[job[w].medium] \in Nat
  BY <1>1 DEF TypeInv, DataOK, MediaOK, RunOK
<1>6. RunOK(p)
  <2>1. /\ DOMAIN p = JobFields /\ p.pc \in {"write", "commit"}
        /\ p.medium = job[w].medium /\ p.base \in {job[w].base, used[job[w].medium]}
        /\ p.cover = job[w].cover /\ p.bytes = job[w].bytes
        /\ p.items \in Seq(Items) /\ ToSet(p.items) \subseteq ToSet(job[w].items)
        /\ p.chunk \in Seq(Items) /\ ToSet(p.chunk) \subseteq ToSet(Chunk(job[w], n))
    BY <1>2 DEF PreparedBy
  <2> HIDE DEF p
  <2>2. ASSUME NEW x \in ToSet(p.chunk) PROVE indexed[x.file] # Gone
    <3>1. PICK y \in ToSet(job[w].items) : x = IF job[w].first THEN y ELSE Reloaded(y)
      BY <1>1, <2>1, ChunkOK DEF TypeInv, DataOK
    <3>2. ToSet(job[w].items) \subseteq Items /\ indexed[y.file] # Gone
      BY <1>1, ToSetFinite DEF RunOK
    <3>3. x.file = y.file
      BY <3>1, <3>2, ReloadedOK DEF TypeInv, DataOK
    <3> QED
      BY <3>2, <3>3
  <2> QED
    BY <1>1, <1>4, <1>5, <2>1, <2>2 DEF RunOK
<1>7. job' = [job EXCEPT ![w] = p]
  BY <1>2 DEF PreparedBy
<1> HIDE DEF p
<1> QED
  BY <1>1, <1>6, <1>7, DataStays, JobStep DEF TypeInv, index

\* What a writer has reached of its chunk, and what of that is there.
LEMMA ReachedOK ==
  ASSUME NEW w, job[w].chunk \in Seq(Items), NEW n \in Reached(w)
  PROVE  LET done == Present(SubSeq(job[w].chunk, 1, n)) IN
         /\ n \in 0 .. Len(job[w].chunk)
         /\ done \in Seq(Items) /\ ToSet(done) \subseteq ToSet(job[w].chunk)
<1> DEFINE part == SubSeq(job[w].chunk, 1, n)
<1>1. n \in 0 .. Len(job[w].chunk)
  BY DEF Reached
<1>2. part \in Seq(Items) /\ ToSet(part) \subseteq ToSet(job[w].chunk)
  BY <1>1, Parts
<1> HIDE DEF part
<1>3. Present(part) \in Seq(Items) /\ ToSet(Present(part)) \subseteq ToSet(part)
  BY <1>2, SelectKeeps DEF Present
<1> QED
  BY <1>1, <1>2, <1>3 DEF part

\* The rows for a set of items, which f names the slots of.
LEMMA RowsForItems ==
  ASSUME NEW w, job[w].medium \in Medium, NEW X, IsFiniteSet(X), X \subseteq Items,
         NEW f
  PROVE  /\ IsFiniteSet({Row(w, x, f[x]) : x \in X})
         /\ \A r \in {Row(w, x, f[x]) : x \in X} : RowOK(r)
<1> DEFINE g == [x \in X |-> Row(w, x, f[x])]
           Y == {Row(w, x, f[x]) : x \in X}
<1>1. g \in Surjection(X, Y)
  BY DEF Surjection
<1>2. IsFiniteSet(Y)
  <2> HIDE DEF g, Y
  <2> QED
    BY <1>1, FS_Surjection
<1>3. ASSUME NEW x \in X PROVE RowOK(Row(w, x, f[x]))
  <2>1. x.file \in File /\ x.lo \in Nat /\ x.hi \in Nat /\ x.of \in Content
    BY DEF Items
  <2> QED
    BY <2>1 DEF RowOK, Row, RowFields
<1> QED
  BY <1>2, <1>3

\* The bytes a writer counts.
LEMMA LengthIsNumber ==
  ASSUME NEW s \in Seq(Items)
  PROVE  TotalLength(s) \in Nat
<1>1. IsFiniteSet(ToSet(s)) /\ ToSet(s) \subseteq Items
  BY ToSetFinite
<1>2. \A x \in ToSet(s) : x.lo \in Int /\ x.hi \in Int
  BY <1>1 DEF Items
<1>3. TotalLength(s) = Cardinality(Cells(ToSet(s)))
  BY DEF TotalLength, Cells
<1> QED
  BY <1>1, <1>2, <1>3, RangesAddUp

\* A member has as many bytes as its range is long, the whole file for tar.
LEMMA MemberBytes ==
  ASSUME NEW x \in Items, disk[x.file] \in Content
  PROVE  IsFiniteSet(DOMAIN Member(x).bytes) /\ IsFiniteSet(DOMAIN WholeMember(x).bytes)
<1>1. x.lo \in Nat /\ x.hi \in Nat /\ Size[disk[x.file]] \in Nat
  BY ArchiveConstants DEF Items
<1>2. /\ Member(x).bytes = ReadRange(disk[x.file], x.lo, x.hi)
      /\ WholeMember(x).bytes = ReadRange(disk[x.file], 0, Size[disk[x.file]])
  BY DEF Member, WholeMember, Bytes
<1>3. /\ DOMAIN Member(x).bytes = 1 .. (x.hi - x.lo)
      /\ DOMAIN WholeMember(x).bytes = 1 .. (Size[disk[x.file]] - 0)
  BY <1>2 DEF ReadRange
<1>4. x.hi - x.lo \in Int /\ Size[disk[x.file]] - 0 \in Int
  BY <1>1
<1> QED
  BY <1>3, <1>4, FS_Interval

\* What a staged archive adds to bytes_used is a number.
LEMMA BytesIsNumber ==
  ASSUME IndexOK, NEW s \in Seq(Items)
  PROVE  TotalBytes(StagedMembers(s)) \in Nat
<1> DEFINE files == ToSet(Present(s))
           M     == StagedMembers(s)
           f     == [x \in files |-> WholeMember(x)]
           g     == [x \in files |-> Member(x)]
<1>1. /\ IsFiniteSet(files) /\ files \subseteq Items
      /\ \A x \in files : disk[x.file] # Gone
  <2> DEFINE here == {x \in ToSet(s) : disk[x.file] # Gone}
  <2>1. Select(s, here) \in Seq(Items) /\ ToSet(Select(s, here)) = ToSet(s) \intersect here
    BY SelectKeeps
  <2>2. files = ToSet(Select(s, here))
    BY DEF Present
  <2>3. IsFiniteSet(ToSet(Select(s, here))) /\ ToSet(Select(s, here)) \subseteq Items
    BY <2>1, ToSetFinite
  <2> QED
    BY <2>1, <2>2, <2>3
<1>2. \A x \in files : disk[x.file] \in Content
  BY <1>1 DEF Items, IndexOK, Contents
<1>3. M = {WholeMember(x) : x \in files} \/ M = {Member(x) : x \in files}
  BY DEF StagedMembers
<1> HIDE DEF files
<1>4. \A y \in M : IsFiniteSet(DOMAIN y.bytes)
  BY <1>1, <1>2, <1>3, MemberBytes
<1>5. f \in Surjection(files, {WholeMember(x) : x \in files})
  BY DEF Surjection
<1>6. g \in Surjection(files, {Member(x) : x \in files})
  BY DEF Surjection
<1> HIDE DEF f, g, M
<1>7. IsFiniteSet(M)
  BY <1>1, <1>3, <1>5, <1>6, FS_Surjection
<1> DEFINE D == [y \in M |-> DOMAIN y.bytes]
<1>8. Cardinality(Pairs(M, D)) \in Nat
  <2>1. \A y \in M : IsFiniteSet(D[y])
    BY <1>4
  <2> HIDE DEF D
  <2> QED
    BY <1>7, <2>1, AddsUp
<1>9. Pairs(M, D) = UNION {{y} \X DOMAIN y.bytes : y \in M}
  BY DEF Pairs
<1> QED
  BY <1>8, <1>9 DEF TotalBytes, M

\* What the writers leave.
LEMMA WrittenTyped ==
  ASSUME TypeInv, NEW w \in Worker, job[w].pc # "idle",
         NEW for, IsFiniteSet(for), \A r \in for : RowOK(r), NEW bytes \in Nat,
         job' = [job EXCEPT ![w] = Written(w, for, bytes)],
         UNCHANGED <<disks, index, rows, used, mstatus>>
  PROVE  TypeInv'
<1> DEFINE n == Written(w, for, bytes)
<1>1. RunOK(job[w])
  BY RunsOK
<1>2. /\ DOMAIN n = JobFields /\ n.pc = "commit" /\ n.medium = job[w].medium
      /\ n.base = job[w].base /\ n.items = job[w].items /\ n.chunk = job[w].chunk
      /\ n.bytes = bytes /\ n.pending = job[w].pending \union for
      /\ n.cover = {x.file : x \in {y \in ToSet(job[w].chunk) : y.whole}}
  <2>1. DOMAIN job[w] = JobFields
    BY <1>1 DEF RunOK
  <2> QED
    BY <2>1 DEF Written, JobFields
<1>3. n.cover \subseteq File
  <2>1. ToSet(job[w].chunk) \subseteq Items
    BY <1>1, ToSetFinite DEF RunOK
  <2> QED
    BY <1>2, <2>1 DEF Items
<1>4. IsFiniteSet(job[w].pending \union for)
  BY <1>1, FS_Union DEF RunOK
<1> HIDE DEF n
<1>5. RunOK(n)
  BY <1>1, <1>2, <1>3, <1>4 DEF RunOK
<1> QED
  BY <1>5, DataStays, JobStep DEF TypeInv, index, n

\* Writing to a medium.
LEMMA WriteTyped ==
  ASSUME TypeInv, NEW w \in Worker, CopyFiles(w) \/ StreamArchive(w) \/ StageArchive(w)
  PROVE  TypeInv'
<1>1. job[w].pc # "idle" /\ UNCHANGED <<disks, index, rows, used, mstatus>>
  BY DEF CopyFiles, StreamArchive, StageArchive, media
<1>2. job[w].chunk \in Seq(Items) /\ job[w].medium \in Medium
  BY <1>1, RunsOK DEF RunOK
<1>3. ASSUME NEW s \in Seq(Items), NEW f, NEW bytes \in Nat,
             job' = [job EXCEPT ![w] = Written(w, {Row(w, x, f[x]) : x \in ToSet(s)}, bytes)]
      PROVE  TypeInv'
  <2> DEFINE for == {Row(w, x, f[x]) : x \in ToSet(s)}
  <2>1. IsFiniteSet(ToSet(s)) /\ ToSet(s) \subseteq Items
    BY ToSetFinite
  <2>2. IsFiniteSet(for) /\ \A r \in for : RowOK(r)
    BY <1>2, <2>1, RowsForItems
  <2>3. job' = [job EXCEPT ![w] = Written(w, for, bytes)]
    BY <1>3
  <2> HIDE DEF for
  <2> QED
    BY <1>1, <2>2, <2>3, WrittenTyped
<1>4. CASE CopyFiles(w)
  <2>1. PICK n \in Reached(w) :
          LET done == Present(SubSeq(job[w].chunk, 1, n)) IN
          job' = [job EXCEPT ![w] =
                   Written(w, {Row(w, x, ObjectName(x)) : x \in ToSet(done)}, TotalLength(done))]
    BY <1>4, Zenon DEF CopyFiles
  <2> DEFINE done == Present(SubSeq(job[w].chunk, 1, n))
             f    == [x \in ToSet(done) |-> ObjectName(x)]
  <2>2. done \in Seq(Items)
    BY <1>2, ReachedOK
  <2>3. TotalLength(done) \in Nat
    BY <2>2, LengthIsNumber
  <2>4. job' = [job EXCEPT ![w] =
                 Written(w, {Row(w, x, ObjectName(x)) : x \in ToSet(done)}, TotalLength(done))]
    BY <2>1
  <2> HIDE DEF done
  <2>5. {Row(w, x, ObjectName(x)) : x \in ToSet(done)} = {Row(w, x, f[x]) : x \in ToSet(done)}
    OBVIOUS
  <2> HIDE DEF f
  <2> QED
    BY <1>3, <2>2, <2>3, <2>4, <2>5
<1>5. CASE StreamArchive(w) \/ StageArchive(w)
  <2> DEFINE slot == NextArchive(job[w].medium)
             f    == [x \in ToSet(job[w].chunk) |-> slot]
  <2>1. PICK bytes \in Nat :
          job' = [job EXCEPT ![w] =
                   Written(w, {Row(w, x, slot) : x \in ToSet(job[w].chunk)}, bytes)]
    <3>1. TotalLength(job[w].chunk) \in Nat
      BY <1>2, LengthIsNumber
    <3>2. TotalBytes(StagedMembers(job[w].chunk)) \in Nat
      BY <1>2, BytesIsNumber DEF TypeInv, DataOK
    <3>3. CASE StreamArchive(w)
      BY <3>1, <3>3, Zenon DEF StreamArchive
    <3>4. CASE StageArchive(w)
      BY <3>2, <3>4, Zenon DEF StageArchive
    <3> QED
      BY <1>5, <3>3, <3>4
  <2> HIDE DEF slot
  <2>2. {Row(w, x, slot) : x \in ToSet(job[w].chunk)}
          = {Row(w, x, f[x]) : x \in ToSet(job[w].chunk)}
    OBVIOUS
  <2> HIDE DEF f
  <2> QED
    BY <1>2, <1>3, <2>1, <2>2
<1> QED
  BY <1>4, <1>5

\* A job that fails, is cancelled or drops its staged archive.
LEMMA StopTyped ==
  ASSUME TypeInv, NEW w \in Worker, WriteFault(w) \/ MediumLost(w) \/ DropStaged(w) \/ Cancel(w)
  PROVE  TypeInv'
<1> DEFINE stopped  == [job[w] EXCEPT !.pc = "chunk"]
           canceled == [job[w] EXCEPT !.cancelled = TRUE]
<1>1. /\ job[w].pc # "idle"
      /\ UNCHANGED <<disks, index, rows, used, mstatus>>
      /\ \E n \in {Idle, stopped, canceled} : job' = [job EXCEPT ![w] = n]
  BY DEF WriteFault, MediumLost, DropStaged, Cancel, Step, media
<1>2. RunOK(job[w])
  BY <1>1, RunsOK
<1>3. RunOK(stopped) /\ RunOK(canceled)
  BY <1>2 DEF RunOK, JobFields
<1> HIDE DEF stopped, canceled
<1> QED
  BY <1>1, <1>3, DataStays, JobStep DEF TypeInv, index

\* The rows of a session keep their types when they are inserted.
LEMMA StampOK ==
  ASSUME NEW set, IsFiniteSet(set), \A r \in set : RowOK(r)
  PROVE  IsFiniteSet(Stamp(set)) /\ \A r \in Stamp(set) : RowOK(r)
<1> DEFINE f == [r \in set |-> [r EXCEPT !.txn = txn]]
<1>1. f \in Surjection(set, Stamp(set))
  BY DEF Surjection, Stamp
<1> HIDE DEF f
<1>2. IsFiniteSet(Stamp(set))
  BY <1>1, FS_Surjection
<1>3. ASSUME NEW r \in set PROVE RowOK([r EXCEPT !.txn = txn])
  <2>1. RowOK(r)
    OBVIOUS
  <2> QED
    BY <2>1 DEF RowOK, RowFields
<1> QED
  BY <1>2, <1>3 DEF Stamp

\* The checkpoint after a chunk.
LEMMA CommitTyped ==
  ASSUME TypeInv, NEW w \in Worker, Commit(w)
  PROVE  TypeInv'
<1> DEFINE j == job[w]
           m == j.medium
           n == [j EXCEPT !.pc = "chunk", !.chunk = <<>>, !.pending = {}, !.cover = {},
                          !.bytes = 0]
<1>1. j.pc # "idle" /\ UNCHANGED <<disks, index, mstatus>>
  BY DEF Commit
<1>2. RunOK(j)
  BY <1>1, RunsOK
<1>3. CASE job' = [job EXCEPT ![w] = Idle] /\ UNCHANGED <<rows, used>>
  <2>1. DataOK'
    BY <1>1, <1>3, DataStays DEF TypeInv
  <2> QED
    BY <1>1, <1>3, <2>1, JobStep DEF index
<1>4. CASE /\ versions' = versions \union Stamp(j.pending)
           /\ AddCoverage({<<f, m>> : f \in j.cover})
           /\ used' = [used EXCEPT ![m] = IF j.bytes > 0 THEN j.base + j.bytes ELSE used[m]]
           /\ txn'  = IF j.pending = {} THEN txn ELSE txn + 1
           /\ job'  = [job EXCEPT ![w] = n]
  <2>1. ToSet(<<>>) = {} /\ IsFiniteSet({})
    BY FS_EmptySet DEF ToSet
  <2>2. /\ DOMAIN n = JobFields /\ n.pc = "chunk" /\ n.medium = m /\ n.base = j.base
        /\ n.items = j.items /\ n.chunk = <<>> /\ n.pending = {} /\ n.cover = {} /\ n.bytes = 0
    <3>1. DOMAIN j = JobFields
      BY <1>2 DEF RunOK
    <3> QED
      BY <3>1 DEF JobFields
  <2>3. RunOK(n)
    <3> HIDE DEF n
    <3> QED
      BY <1>2, <2>1, <2>2 DEF RunOK
  <2>4. IsFiniteSet(versions') /\ \A v \in versions' : RowOK(v)
    <3>1. IsFiniteSet(Stamp(j.pending)) /\ \A r \in Stamp(j.pending) : RowOK(r)
      BY <1>2, StampOK DEF RunOK
    <3> QED
      BY <1>4, <3>1, FS_Union DEF TypeInv, DataOK, RowsOK
  <2>5. coverage' \subseteq File \X Medium
    BY <1>2, <1>4 DEF AddCoverage, TypeInv, DataOK, RowsOK, RunOK
  <2>6. redundancy' = [f \in File |-> redundancy'[f]]
    BY <1>4 DEF AddCoverage
  <2>7. used' \in [Medium -> Nat] /\ txn' \in Nat \ {0}
    <3>1. m \in Medium /\ j.base + j.bytes \in Nat
      BY <1>2 DEF RunOK
    <3> QED
      BY <1>4, <3>1 DEF TypeInv, DataOK, MediaOK
  <2>8. \A v \in versions' : RowOK(v)'
    BY <2>4 DEF RowOK
  <2>9. DataOK'
    <3>1. IndexOK' /\ writes' \in 0 .. MaxWrites
      BY <1>1 DEF IndexOK, TypeInv, DataOK, disks, index
    <3>2. RowsOK'
      BY <2>4, <2>5, <2>6, <2>8 DEF RowsOK
    <3>3. MediaOK'
      BY <1>1, <2>7 DEF MediaOK, TypeInv, DataOK
    <3> QED
      BY <2>7, <3>1, <3>2, <3>3 DEF DataOK
  <2> HIDE DEF n
  <2> QED
    BY <1>1, <1>4, <2>3, <2>9, JobStep DEF index
<1> QED
  BY <1>3, <1>4 DEF Commit

\* The end of a batch.
LEMMA EndBatchTyped ==
  ASSUME TypeInv, NEW w \in Worker, EndBatch(w)
  PROVE  TypeInv'
<1> DEFINE j == job[w]
           n == [j EXCEPT !.pc = "assemble", !.base = used[j.medium]]
<1>1. /\ j.pc # "idle" /\ UNCHANGED <<disks, index, coverage, redundancy, used>>
      /\ mstatus' \in {mstatus, [mstatus EXCEPT ![j.medium] = "full"]}
      /\ \/ UNCHANGED <<versions, txn>>
         \/ /\ versions' = versions \union Stamp(j.pending)
            /\ txn' \in {txn, txn + 1}
      /\ \/ job' = [job EXCEPT ![w] = Idle]
         \/ job' = [job EXCEPT ![w] = n]
  BY DEF EndBatch
<1>2. RunOK(j)
  BY <1>1, RunsOK
<1>3. used[j.medium] \in Nat
  BY <1>2 DEF RunOK, TypeInv, DataOK, MediaOK
<1>4. RunOK(n)
  <2>1. DOMAIN j = JobFields
    BY <1>2 DEF RunOK
  <2>2. /\ DOMAIN n = JobFields /\ n.pc = "assemble" /\ n.base = used[j.medium]
        /\ n.medium = j.medium /\ n.items = j.items /\ n.chunk = j.chunk
        /\ n.pending = j.pending /\ n.cover = j.cover /\ n.bytes = j.bytes
    BY <2>1 DEF JobFields
  <2> HIDE DEF n
  <2> QED
    BY <1>2, <1>3, <2>2 DEF RunOK
<1>5. /\ IsFiniteSet(versions') /\ \A v \in versions' : RowOK(v)
      /\ txn' \in Nat \ {0}
  <2>1. IsFiniteSet(Stamp(j.pending)) /\ \A r \in Stamp(j.pending) : RowOK(r)
    BY <1>2, StampOK DEF RunOK
  <2>2. IsFiniteSet(versions) /\ (\A v \in versions : RowOK(v)) /\ txn \in Nat \ {0}
    BY DEF TypeInv, DataOK, RowsOK
  <2>3. IsFiniteSet(versions \union Stamp(j.pending))
    BY <2>1, <2>2, FS_Union
  <2>4. versions' \in {versions, versions \union Stamp(j.pending)}
    BY <1>1
  <2>5. txn' \in Nat \ {0}
    BY <1>1, <2>2
  <2> HIDE DEF j
  <2> QED
    BY <2>1, <2>2, <2>3, <2>4, <2>5
<1>6. DataOK'
  <2>1. IndexOK' /\ writes' \in 0 .. MaxWrites
    BY <1>1 DEF IndexOK, TypeInv, DataOK, disks, index
  <2>2. RowsOK'
    BY <1>1, <1>5 DEF RowsOK, RowOK, TypeInv, DataOK
  <2>3. MediaOK'
    BY <1>1 DEF MediaOK, TypeInv, DataOK, Statuses
  <2> QED
    BY <1>5, <2>1, <2>2, <2>3 DEF DataOK
<1> HIDE DEF n
<1> QED
  BY <1>1, <1>4, <1>6, JobStep DEF index

\* The administration of the media.
LEMMA AdminTyped ==
  ASSUME TypeInv, NEW m \in Medium,
         \/ \E s \in {"active", "RETIRED"} : UpdateMedia(m, s)
         \/ DeleteMedia(m) \/ InitializeMedia(m)
  PROVE  TypeInv'
<1>1. /\ UNCHANGED <<disks, index, txn, job>>
      /\ versions' \subseteq versions /\ coverage' \subseteq coverage
      /\ UNCHANGED redundancy \/ \E g : redundancy' = [f \in File |-> g[f]]
      /\ used' \in {used, [used EXCEPT ![m] = 0]}
      /\ mstatus' \in [Medium -> Statuses]
  <2>1. mstatus \in [Medium -> Statuses]
    BY DEF TypeInv, DataOK, MediaOK
  <2>2. ASSUME Purge(m)
        PROVE  /\ versions' \subseteq versions /\ coverage' \subseteq coverage
               /\ \E g : redundancy' = [f \in File |-> g[f]]
    <3> DEFINE g == [f \in File |-> IF <<f, m>> \in coverage THEN redundancy[f] - 1
                                    ELSE redundancy[f]]
    <3>1. redundancy' = [f \in File |-> g[f]]
      BY <2>2 DEF Purge
    <3>2. versions' \subseteq versions /\ coverage' \subseteq coverage
      BY <2>2 DEF Purge
    <3> HIDE DEF g
    <3> QED
      BY <3>1, <3>2
  <2>3. CASE \E s \in {"active", "RETIRED"} : UpdateMedia(m, s)
    BY <2>1, <2>2, <2>3 DEF UpdateMedia, Statuses
  <2>4. CASE DeleteMedia(m)
    BY <2>1, <2>2, <2>4 DEF DeleteMedia, Statuses
  <2>5. CASE InitializeMedia(m)
    BY <2>1, <2>2, <2>5 DEF InitializeMedia
  <2> QED
    BY <2>3, <2>4, <2>5
<1>2. IndexOK' /\ writes' \in 0 .. MaxWrites /\ txn' \in Nat \ {0}
  BY <1>1 DEF IndexOK, TypeInv, DataOK, disks, index
<1>3. RowsOK'
  <2>1. IsFiniteSet(versions')
    BY <1>1, FS_Subset DEF RowsOK, TypeInv, DataOK
  <2>2. redundancy' = [f \in File |-> redundancy'[f]]
    BY <1>1 DEF RowsOK, TypeInv, DataOK
  <2> QED
    BY <1>1, <2>1, <2>2 DEF RowsOK, RowOK, TypeInv, DataOK
<1>4. MediaOK'
  BY <1>1 DEF MediaOK, TypeInv, DataOK
<1>5. JobsOK'
  BY <1>1 DEF TypeInv, JobsOK, RunOK, RowOK, index
<1> QED
  BY <1>2, <1>3, <1>4, <1>5 DEF TypeInv, DataOK

\* The source disk and the scanner.
LEMMA WriteFileTyped ==
  ASSUME TypeInv, NEW f \in File, NEW c \in Content, WriteFile(f, c)
  PROVE  TypeInv'
<1> DEFINE n(w) == [job[w] EXCEPT !.touched = job[w].touched \union {f}]
<1>1. /\ UNCHANGED <<index, rows, used, mstatus>>
      /\ writes < MaxWrites /\ writes' = writes + 1 /\ disk' = [disk EXCEPT ![f] = c]
      /\ job' = [w \in Worker |-> IF job[w].pc = "idle" THEN Idle ELSE n(w)]
  BY DEF WriteFile, media
<1>2. ASSUME NEW w \in Worker PROVE job'[w] = Idle \/ RunOK(job'[w])
  <2>1. CASE job[w].pc = "idle"
    BY <1>1, <2>1
  <2>2. CASE job[w].pc # "idle"
    <3>1. RunOK(job[w]) /\ job'[w] = n(w)
      BY <1>1, <2>2, RunsOK
    <3>2. RunOK(n(w))
      BY <3>1 DEF RunOK, JobFields
    <3> QED
      BY <3>1, <3>2
  <2> QED
    BY <2>1, <2>2
<1>3. JobsOK'
  <2>1. \A w \in Worker : (job[w] = Idle \/ RunOK(job[w]))'
    BY <1>1, <1>2 DEF RunOK, RowOK, index
  <2>2. job' = [w \in Worker |-> job'[w]]
    BY <1>1
  <2> QED
    BY <2>1, <2>2 DEF JobsOK
<1>4. IndexOK'
  BY <1>1 DEF IndexOK, TypeInv, DataOK, index, Contents
<1>5. RowsOK' /\ MediaOK' /\ txn' \in Nat \ {0}
  BY <1>1 DEF RowsOK, RowOK, MediaOK, TypeInv, DataOK, rows
<1>6. writes' \in 0 .. MaxWrites
  BY <1>1, ArchiveConstants DEF TypeInv, DataOK
<1> QED
  BY <1>3, <1>4, <1>5, <1>6 DEF TypeInv, DataOK

\* What is learnt of the disk has the types of the disk.
LEMMA IndexTyped ==
  ASSUME TypeInv, Scan \/ \E f \in File : RemoveFile(f) \/ HashFile(f)
  PROVE  TypeInv'
<1>1. UNCHANGED <<rows, used, mstatus, job>>
  BY DEF Scan, RemoveFile, HashFile, media
<1>2. /\ disk' \in [File -> Contents] /\ indexed' \in [File -> Contents]
      /\ hash' \in [File -> Contents] /\ deleted' \in [File -> BOOLEAN]
      /\ writes' \in 0 .. MaxWrites
      /\ \A f \in File : indexed[f] # Gone => indexed'[f] # Gone
  <2>1. /\ IndexOK /\ writes \in 0 .. MaxWrites /\ Gone \in Contents
    BY DEF TypeInv, DataOK, Contents
  <2>2. CASE Scan
    BY <2>1, <2>2 DEF Scan, IndexOK, disks
  <2>3. CASE \E f \in File : RemoveFile(f)
    BY <2>1, <2>3, ArchiveConstants DEF RemoveFile, IndexOK, index
  <2>4. CASE \E f \in File : HashFile(f)
    BY <2>1, <2>4 DEF HashFile, IndexOK, disks
  <2> QED
    BY <2>2, <2>3, <2>4
<1>3. RowsOK' /\ MediaOK' /\ txn' \in Nat \ {0}
  BY <1>1 DEF RowsOK, RowOK, MediaOK, TypeInv, DataOK, rows
<1>4. ASSUME NEW w \in Worker PROVE (job[w] = Idle \/ RunOK(job[w]))'
  <2>1. job'[w] = job[w] /\ (job[w] = Idle \/ RunOK(job[w]))
    BY <1>1 DEF TypeInv, JobsOK
  <2>2. CASE RunOK(job[w])
    <3>1. \A x \in ToSet(job[w].items) \union ToSet(job[w].chunk) : x.file \in File
      <4>1. ToSet(job[w].items) \subseteq Items /\ ToSet(job[w].chunk) \subseteq Items
        BY <2>2, ToSetFinite DEF RunOK
      <4> QED
        BY <4>1 DEF Items
    <3>2. \A x \in ToSet(job[w].items) \union ToSet(job[w].chunk) : indexed'[x.file] # Gone
      BY <1>2, <2>2, <3>1 DEF RunOK
    <3> QED
      BY <2>1, <2>2, <3>2 DEF RunOK, RowOK
  <2> QED
    BY <2>1, <2>2
<1>5. JobsOK'
  BY <1>1, <1>4 DEF TypeInv, JobsOK
<1> QED
  BY <1>2, <1>3, <1>5 DEF TypeInv, DataOK, IndexOK

\* Everything stops.
LEMMA CrashTyped ==
  ASSUME TypeInv, Crash PROVE TypeInv'
<1>1. /\ UNCHANGED <<disks, index, rows, used, mstatus>>
      /\ job' = [w \in Worker |-> Idle]
  BY DEF Crash, media
<1>2. JobsOK'
  BY <1>1 DEF JobsOK
<1> QED
  BY <1>1, <1>2, DataStays DEF TypeInv

\* The types hold in the beginning.
LEMMA TypeInit == Init => TypeInv
<1> SUFFICES ASSUME Init PROVE TypeInv
  OBVIOUS
<1>1. IndexOK
  BY DEF Init, IndexOK, Contents
<1>2. RowsOK
  BY FS_EmptySet DEF Init, RowsOK
<1>3. MediaOK
  BY DEF Init, MediaOK, Statuses
<1>4. JobsOK /\ txn \in Nat \ {0} /\ writes \in 0 .. MaxWrites
  BY ArchiveConstants DEF Init, JobsOK
<1> QED
  BY <1>1, <1>2, <1>3, <1>4 DEF TypeInv, DataOK

\* Every step keeps the types.
LEMMA TypeNext == TypeInv /\ [Next]_vars => TypeInv'
<1> SUFFICES ASSUME TypeInv, [Next]_vars PROVE TypeInv'
  OBVIOUS
<1>1. ASSUME NEW w \in Worker, WorkerStep(w) PROVE TypeInv'
  <2>1. ASSUME NEW n \in 1 .. Cardinality(File), Prepare(w, n) PROVE TypeInv'
    <3>1. n \in Nat
      BY ArchiveConstants, FS_CardinalityType
    <3> QED
      BY <2>1, <3>1, PrepareTyped
  <2> QED
    BY <1>1, <2>1, AssembleTyped, WriteTyped, StopTyped, CommitTyped, EndBatchTyped
       DEF WorkerStep
<1>2. ASSUME NEW w \in Worker, \/ \E m \in Medium : Begin(w, m)
                               \/ WriteFault(w) \/ Cancel(w)
      PROVE  TypeInv'
  BY <1>2, BeginTyped, StopTyped
<1>3. ASSUME NEW m \in Medium, \/ \E s \in {"active", "RETIRED"} : UpdateMedia(m, s)
                               \/ DeleteMedia(m) \/ InitializeMedia(m)
      PROVE  TypeInv'
  BY <1>3, AdminTyped
<1>4. ASSUME NEW f \in File, NEW c \in Content, WriteFile(f, c) PROVE TypeInv'
  BY <1>4, WriteFileTyped
<1>5. CASE UNCHANGED vars
  <2>1. DataOK' /\ JobsOK'
    BY <1>5 DEF vars, TypeInv, DataOK, IndexOK, RowsOK, MediaOK, JobsOK, RunOK, RowOK
  <2> QED
    BY <2>1 DEF TypeInv
<1> QED
  BY <1>1, <1>2, <1>3, <1>4, <1>5, IndexTyped, CrashTyped DEF Next

\* The count of a file is at most the number of media.
LEMMA CountInRange ==
  ASSUME TypeInv, CountInv
  PROVE  redundancy \in [File -> 0 .. Cardinality(Medium)]
<1>1. ASSUME NEW f \in File PROVE redundancy[f] \in 0 .. Cardinality(Medium)
  <2> DEFINE g == [p \in CoverageOf(f) |-> p[2]]
  <2>1. /\ IsFiniteSet(CoverageOf(f)) /\ redundancy[f] = Cardinality(CoverageOf(f))
        /\ \A p \in CoverageOf(f) : p = <<f, p[2]>> /\ p[2] \in Medium
    BY <1>1 DEF CountInv, CountIsCoverage, CoverageOf, TypeInv, DataOK, RowsOK
  <2>2. g \in Injection(CoverageOf(f), Medium)
    BY <2>1 DEF Injection, IsInjective
  <2> HIDE DEF g
  <2>3. Cardinality(CoverageOf(f)) <= Cardinality(Medium)
    BY <2>2, ArchiveConstants, FS_Injection
  <2>4. Cardinality(CoverageOf(f)) \in Nat /\ Cardinality(Medium) \in Nat
    BY <2>1, ArchiveConstants, FS_CardinalityType
  <2> QED
    BY <2>1, <2>3, <2>4
<1> QED
  BY <1>1 DEF TypeInv, DataOK, RowsOK

\* Every variable keeps its type; what is typed of a job is also what each step of a
\* backup relies on.
THEOREM TypeCorrect == Spec => []TypeOK
<1>1. TypeInv /\ CountInv => TypeOK
  <2> SUFFICES ASSUME TypeInv, CountInv PROVE TypeOK
    OBVIOUS
  <2>1. \A w \in Worker : job[w].pc \in {"idle", "assemble", "chunk", "write", "commit"}
    BY DEF TypeInv, JobsOK, RunOK, Idle
  <2> QED
    BY <2>1, CountInRange
       DEF TypeOK, TypeInv, DataOK, IndexOK, RowsOK, RowOK, MediaOK, Statuses
<1> QED
  BY TypeInit, TypeNext, CountInit, CountNext, <1>1, PTL DEF Spec

=============================================================================
