------------------------------ MODULE LedgerProofs ------------------------------
(***************************************************************************)
(* The ledger is honest, for any files and any finite set of media: every   *)
(* claim is backed by a copy, and the number of claims is never more than   *)
(* the number of copies.  Together with KeepsLedgerHolds, that the archive  *)
(* implements the ledger, this is what redundancy_count is worth.           *)
(***************************************************************************)
EXTENDS Ledger, FiniteSetTheorems, TLAPS

FiniteMedia == IsFiniteSet(Medium)

Inv == TypeOK /\ Backed /\ count = Counts(claims)

\* The media that pairs name for a file are finitely many.
LEMMA MediaFinite ==
  ASSUME FiniteMedia, NEW pairs, NEW f
  PROVE  IsFiniteSet(MediaOf(pairs, f))
<1>1. MediaOf(pairs, f) \subseteq Medium
  BY DEF MediaOf
<1> QED
  BY <1>1, FS_Subset DEF FiniteMedia

\* A function that counts what pairs name has numbers as values.
LEMMA CountsType ==
  ASSUME FiniteMedia, NEW pairs
  PROVE  Counts(pairs) \in [File -> Nat]
<1>1. \A f \in File : Cardinality(MediaOf(pairs, f)) \in Nat
  BY MediaFinite, FS_CardinalityType
<1> QED
  BY <1>1 DEF Counts

\* More pairs do not count less.
LEMMA CountsMonotone ==
  ASSUME FiniteMedia, NEW few, NEW many, few \subseteq many, NEW f \in File
  PROVE  Cardinality(MediaOf(few, f)) <= Cardinality(MediaOf(many, f))
<1>1. MediaOf(few, f) \subseteq MediaOf(many, f)
  BY DEF MediaOf
<1> QED
  BY <1>1, MediaFinite, FS_Subset

\* Nothing is stored or claimed at first, and no count is anything but zero.
LEMMA InitInv == FiniteMedia /\ Init => Inv
<1> SUFFICES ASSUME FiniteMedia, Init PROVE Inv
  OBVIOUS
<1>1. TypeOK /\ Backed
  BY DEF Init, TypeOK, Backed
<1>2. ASSUME NEW f \in File PROVE Cardinality(MediaOf(claims, f)) = 0
  <2>1. MediaOf(claims, f) = {}
    BY DEF Init, MediaOf
  <2> QED
    BY <2>1, FS_EmptySet
<1>3. count = Counts(claims)
  BY <1>2 DEF Init, Counts
<1> QED
  BY <1>1, <1>3 DEF Inv

\* Recording and taking back both count anew what is claimed afterwards.
LEMMA NextInv == FiniteMedia /\ Inv /\ [Next]_vars => Inv'
<1> SUFFICES ASSUME FiniteMedia, Inv, [Next]_vars PROVE Inv'
  OBVIOUS
<1> USE DEF Inv
<1>1. CASE Record
  <2>1. copies' \subseteq File \X Medium /\ claims' \subseteq copies'
    BY <1>1 DEF Record
  <2>2. count' = Counts(claims') /\ count' \in [File -> Nat]
    BY <1>1, CountsType DEF Record
  <2>3. (Counts(claims))' = Counts(claims')
    BY DEF Counts, MediaOf
  <2> QED
    BY <2>1, <2>2, <2>3 DEF TypeOK, Backed
<1>2. ASSUME NEW m \in Medium, TakeBack(m) PROVE Inv'
  <2>1. copies' \subseteq copies /\ claims' \subseteq copies'
    BY <1>2 DEF TakeBack, Backed
  <2>2. count' = Counts(claims') /\ count' \in [File -> Nat]
    BY <1>2, CountsType DEF TakeBack
  <2>3. (Counts(claims))' = Counts(claims')
    BY DEF Counts, MediaOf
  <2> QED
    BY <2>1, <2>2, <2>3 DEF TypeOK, Backed
<1>3. CASE UNCHANGED vars
  BY <1>3 DEF vars, TypeOK, Backed, Counts, MediaOf
<1> QED
  BY <1>1, <1>2, <1>3 DEF Next

\* What is shown beside a file is backed by that many whole copies of it.
LEMMA InvMeans == FiniteMedia /\ Inv => Backed /\ Counted
<1> SUFFICES ASSUME FiniteMedia, Inv PROVE Backed /\ Counted
  OBVIOUS
<1>1. Backed /\ claims \subseteq copies /\ count = Counts(claims)
  BY DEF Inv, Backed
<1>2. ASSUME NEW f \in File
      PROVE  /\ count[f] = Cardinality(MediaOf(claims, f))
             /\ count[f] <= Cardinality(MediaOf(copies, f))
  <2>1. count[f] = Cardinality(MediaOf(claims, f))
    BY <1>1 DEF Counts
  <2> QED
    BY <1>1, <2>1, CountsMonotone
<1> QED
  BY <1>1, <1>2 DEF Counted

\* The values of the ledger keep their types (retiring a medium cannot make a
\* count negative).
THEOREM LedgerTyped ==
  ASSUME FiniteMedia
  PROVE  Spec => []TypeOK
<1>1. Inv => TypeOK
  BY DEF Inv
<1> QED
  BY InitInv, NextInv, <1>1, PTL DEF Spec

\* The ledger claims what is there, and counts what it claims.
THEOREM LedgerHonest ==
  ASSUME FiniteMedia
  PROVE  Spec => [](Backed /\ Counted)
  BY InitInv, NextInv, InvMeans, PTL DEF Spec
=============================================================================
