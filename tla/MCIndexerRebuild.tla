-------------------------- MODULE MCIndexerRebuild --------------------------
(***************************************************************************)
(* A history in which a rebuild meets everything it treats in its own way: *)
(* a profile that a later one supersedes, a post that a later tombstone    *)
(* hides, and slots that several events share.  Identity b has no events.  *)
(***************************************************************************)
EXTENDS IndexerRebuild

CONSTANTS a, b

MCNumEvents == 5
MCIdentities == {a, b}
MCKind == <<"create", "profile", "post", "profile", "tombstone">>
MCActor == <<a, a, a, a, a>>
MCSeq == <<0, 1, 2, 3, 4>>
MCTarget == <<0, 0, 0, 0, 3>>
MCSlot == <<0, 1, 1, 1, 2>>
=============================================================================
