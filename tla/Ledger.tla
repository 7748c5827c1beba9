--------------------------------- MODULE Ledger ---------------------------------
(***************************************************************************)
(* What TapeHoard promises of redundancy, without saying how: it claims for *)
(* a file only media that hold a whole copy of it, the number shown beside  *)
(* a file is the number of its claims, and everything a medium held is      *)
(* taken back in one step.  Module Archive is shown to implement this: the  *)
(* claims are the rows of file_media_coverage, the number is                *)
(* FilesystemState.redundancy_count, which two triggers keep, and a copy is *)
(* held when rows of file_versions lead to all of its bytes.                *)
(***************************************************************************)
EXTENDS Naturals, FiniteSets

CONSTANTS File, Medium

VARIABLES
  copies,   \* <<f, m>>: the medium m holds a whole copy of f
  claims,   \* <<f, m>>: and the ledger says so
  count     \* [File -> Nat]: how many media the ledger says

vars == <<copies, claims, count>>

MediaOf(pairs, f) == {m \in Medium : <<f, m>> \in pairs}

Counts(pairs) == [f \in File |-> Cardinality(MediaOf(pairs, f))]

Init == copies = {} /\ claims = {} /\ count = [f \in File |-> 0]

\* A backup has stored copies, and some of what is stored is claimed.
Record ==
  /\ copies \subseteq copies' /\ claims \subseteq claims'
  /\ claims' \subseteq copies' /\ copies' \subseteq File \X Medium
  /\ count' = Counts(claims')

\* A medium is retired, removed or wiped.
TakeBack(m) ==
  /\ copies' = {p \in copies : p[2] # m}
  /\ claims' = {p \in claims : p[2] # m}
  /\ count' = Counts(claims')

Next == Record \/ \E m \in Medium : TakeBack(m)

Spec == Init /\ [][Next]_vars

-----------------------------------------------------------------------------
TypeOK ==
  /\ copies \subseteq File \X Medium /\ claims \subseteq File \X Medium
  /\ count \in [File -> Nat]

\* No claim without its copy.
Backed == claims \subseteq copies

\* The number is the number of claims, and no more than there are copies.
Counted ==
  \A f \in File : /\ count[f] = Cardinality(MediaOf(claims, f))
                  /\ count[f] <= Cardinality(MediaOf(copies, f))
=============================================================================
