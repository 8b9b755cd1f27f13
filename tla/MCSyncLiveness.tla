--------------------------- MODULE MCSyncLiveness ---------------------------
(***************************************************************************)
(* A history small enough for the fairness of every single call: an        *)
(* identity, a profile whose manifest may be missing for ever, and a post  *)
(* behind it in the same slot.                                             *)
(***************************************************************************)
EXTENDS SolanaSync

CONSTANTS a

MCNumEvents == 3
MCIdentities == {a}
MCKind == <<"create", "profile", "post">>
MCActor == <<a, a, a>>
MCSeq == <<0, 1, 2>>
MCTarget == <<0, 0, 0>>
MCTxOf == <<1, 2, 3>>
MCTxSlot == <<1, 2, 2>>
MCSlot == [e \in 1..3 |-> MCTxSlot[MCTxOf[e]]]
MCFailedTxs == {}
=============================================================================
