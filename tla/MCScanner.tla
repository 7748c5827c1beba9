------------------------------ MODULE MCScanner ------------------------------
(* Small instances of Scanner: see the .cfg files.                           *)
EXTENDS Scanner, TLC

\* Files and threads are interchangeable (used by the safety run only).
Symmetry == Permutations(File) \union Permutations(Scanning) \union Permutations(Hashing)
=============================================================================
