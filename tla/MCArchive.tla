------------------------------ MODULE MCArchive ------------------------------
(* Small instances of Archive: see the .cfg files.                            *)
EXTENDS Archive

CONSTANTS f1, f2, a, b, c, d, m1, m2, m3, w1, w2

\* Two contents of the same size, a larger and an empty one.
SizeSmall == [x \in Content |-> CASE x = a -> 2 [] x = b -> 2 [] x = c -> 3 [] OTHER -> 0]

\* c is larger than either medium.
SizeLarge == [x \in Content |-> IF x = c THEN 5 ELSE 1]

Roomy == [m \in Medium |-> 6]
Tight == [m \in Medium |-> 3]

Symmetry == Permutations(File)
=============================================================================
