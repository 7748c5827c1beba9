------------------------------- MODULE MCJobs -------------------------------
(* Small instances of Jobs: see the .cfg files.                             *)
EXTENDS Jobs, TLC

\* Rows and handlers are interchangeable (used by the safety runs only).
Symmetry == Permutations(Job) \union Permutations(Request)
=============================================================================
