--------------------------------- MODULE MCTape ---------------------------------
(* Two cartridges, one drive, and a backup that may be cancelled under another. *)
EXTENDS Tape, TLC

Symmetry == Permutations(Writer)
=============================================================================
