---------------------------- MODULE MCSolanaSync ----------------------------
(***************************************************************************)
(* Six events in five transactions of one identity, and a failed one:      *)
(* transactions that share a slot, a transaction with two logs, a post     *)
(* whose manifest may not verify next to profiles that do, a last event    *)
(* the decoder may not know, pages smaller than the history.               *)
(***************************************************************************)
EXTENDS SolanaSync

CONSTANTS a

MCNumEvents == 6
MCIdentities == {a}
MCKind == <<"create", "profile", "post", "profile", "tombstone", "other">>
MCActor == <<a, a, a, a, a, a>>
MCSeq == <<0, 1, 2, 3, 4, 5>>
MCTarget == <<0, 0, 0, 0, 3, 0>>
MCTxOf == <<1, 2, 3, 5, 5, 6>>
MCTxSlot == <<1, 2, 2, 3, 3, 4>>
MCSlot == [e \in 1..6 |-> MCTxSlot[MCTxOf[e]]]
MCFailedTxs == {4}
=============================================================================
