------------------------------- MODULE MCRestore -------------------------------
(* One file in two fragments on a tape and a disk, one whole on another tape,  *)
(* one linked to the archive of that.                                          *)
EXTENDS Restore, TLC

CONSTANTS f1, f2, f3, t1, t2, d

Sizes    == [a |-> 2, b |-> 1, c |-> 3]
Contents == (f1 :> "a") @@ (f2 :> "b") @@ (f3 :> "b")
Edited   == (f1 :> "c") @@ (f2 :> "c")

Named    == {{f2}, {f1, f2, f3}}

Object(f, x, split, lo, hi) == [file |-> f, content |-> x, split |-> split, lo |-> lo, hi |-> hi]
Row(f, o, id, m, n, at) ==
  [file |-> f, content |-> o.content, split |-> o.split, splitId |-> id, lo |-> o.lo, hi |-> o.hi,
   medium |-> m, archive |-> n, at |-> at]

Head1 == Object(f1, "a", TRUE, 0, 1)
Tail1 == Object(f1, "a", TRUE, 1, 2)
Whole2 == Object(f2, "b", FALSE, 0, 1)

Versions == {Row(f1, Head1, 1, t1, 1, 1), Row(f1, Tail1, 2, d, 1, 2),
             Row(f2, Whole2, 0, t2, 1, 3), Row(f3, Whole2, 0, t2, 1, 4)}
Stored == (t1 :> <<{Head1}>>) @@ (d :> <<{Tail1}>>) @@ (t2 :> <<{Whole2}>>)
=============================================================================
