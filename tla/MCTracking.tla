------------------------------ MODULE MCTracking ------------------------------
(* A directory, one inside it, and a sibling whose name LIKE takes for the    *)
(* first: /d_1, /d_1/e and /dX1.                                              *)
EXTENDS Tracking

Files == {<<"d_1", "e", "g">>, <<"dX1", "h">>}
Dirs  == {<<"d_1">>, <<"d_1", "e">>}
Lists ==
  {<<{}, {<<"d_1">>}>>, <<{}, {<<"d_1", "e">>}>>,
   <<{<<"d_1", "e">>}, {<<"d_1">>}>>, <<{<<"d_1">>}, {<<"d_1", "e">>}>>}
Names == {<<"d_1", "dX1">>}
Globs == {{}, {<<"d_1", "e", "g">>, <<"dX1", "h">>}}
=============================================================================
