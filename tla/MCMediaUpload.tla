--------------------------- MODULE MCMediaUpload ----------------------------
(***************************************************************************)
(* An upload of two bytes that come in two chunks, out of order, twice, or *)
(* in one chunk with a wrong byte, and an infected upload of one byte.     *)
(***************************************************************************)
EXTENDS MediaUpload, TLC

CONSTANTS u1, u2, c1, c2

MCDeclared == u1 :> <<1, 2>> @@ u2 :> <<1>>
MCOneDeclared == u1 :> <<1, 2>>
MCBytes == {1, 2, 3}
MCChunks == {[at |-> 0, bytes |-> <<1>>], [at |-> 1, bytes |-> <<2>>],
             [at |-> 0, bytes |-> <<3, 2>>]}
MCSymmetry == Permutations({c1, c2})
=============================================================================
