------------------------- MODULE MCPostPublication -------------------------
(***************************************************************************)
(* Two tabs, one text that may be saved again while it is being published, *)
(* and two posts, one after the other or, if something is wrong, at once.  *)
(***************************************************************************)
EXTENDS PostPublication, TLC

CONSTANTS t1, t2, n1, n2, x1, x2, none

MCSymmetry == Permutations({t1, t2}) \cup Permutations({n1, n2}) \cup Permutations({x1, x2})
=============================================================================
