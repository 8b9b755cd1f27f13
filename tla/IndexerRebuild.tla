--------------------------- MODULE IndexerRebuild ---------------------------
(***************************************************************************)
(* An operator rebuilds the projection from the durable raw-event ledger   *)
(* (rebuild.ts) while the store has other callers.                         *)
(*                                                                         *)
(* The ledger is loaded with the disposition of every event, by one query. *)
(* Then its events are replayed one after another, in the order of the     *)
(* chain, on a shadow: a fresh store in memory.  What was pending or       *)
(* rejected stays so without any I/O, and neither is an accepted manifest  *)
(* fetched that a later event makes obsolete; every other accepted         *)
(* manifest is fetched and verified again.  At last the store replaces its *)
(* projection, in one transaction, by replaying the same items, if its     *)
(* ledger still is the one that was loaded.  Any failure, and a dry run,   *)
(* ends the rebuild without a trace.                                       *)
(***************************************************************************)
EXTENDS ProjectionStore

VARIABLES
    plan,        \* the dispositions that were loaded; all "absent" when no
                 \* rebuild is going on
    replayed,    \* the last event that was replayed on the shadow; 0 when none
    shadowDisposition, shadowDeadLetter, shadowCheckpoint, shadowLastEvent,
    shadowLatestProfile, shadowProfile, shadowPost

shadowVars == <<shadowDisposition, shadowDeadLetter, shadowCheckpoint, shadowLastEvent,
                shadowLatestProfile, shadowProfile, shadowPost>>
rebuildVars == <<plan, replayed, shadowVars>>

\* The shadow is a store of its own.
Shadow == INSTANCE ProjectionStore
    WITH disposition   <- shadowDisposition,
         deadLetter    <- shadowDeadLetter,
         checkpoint    <- shadowCheckpoint,
         lastEvent     <- shadowLastEvent,
         latestProfile <- shadowLatestProfile,
         profile       <- shadowProfile,
         post          <- shadowPost

NoPlan == [e \in Events |-> "absent"]
Rebuilding == plan # NoPlan

RebuildInit ==
    /\ StoreInit
    /\ Shadow!StoreInit
    /\ plan = NoPlan
    /\ replayed = 0

\* The shadow is a fresh store.
FreshShadow ==
    /\ replayed' = 0
    /\ shadowDisposition' = [e \in Events |-> "absent"]
    /\ shadowDeadLetter' = [e \in Events |-> "none"]
    /\ shadowCheckpoint' = -1
    /\ shadowLastEvent' = [i \in Identities |-> 0]
    /\ shadowLatestProfile' = [i \in Identities |-> 0]
    /\ shadowProfile' = [i \in Identities |-> 0]
    /\ shadowPost' = [e \in Events |-> "absent"]

(* The ledger is loaded.  An empty one is refused, and one with a pending  *)
(* event that has no retryable dead letter.                                *)
LoadDurableRawEventLedger ==
    /\ ~Rebuilding
    /\ \E e \in Events : Recorded(e)
    /\ \A e \in Events : disposition[e] = "pending" => deadLetter[e] \in {"waiting", "due"}
    /\ plan' = disposition
    /\ FreshShadow
    /\ UNCHANGED storeVars

\* The rebuild is over, whether its projection was applied or not.
EndRebuild == plan' = NoPlan /\ FreshShadow

-----------------------------------------------------------------------------

(* An accepted manifest is obsolete once the ledger holds a later profile  *)
(* pointer of the identity, or a later tombstone of the post.              *)
Suppressed(e) ==
    /\ plan[e] = "accepted"
    /\ \E f \in Events :
          /\ e < f
          /\ plan[f] # "absent"
          /\ \/ Kind[e] = "profile" /\ Kind[f] = "profile" /\ Actor[f] = Actor[e]
             \/ Kind[e] = "post" /\ Kind[f] = "tombstone" /\ Target[f] = e

\* Mutant: the rows are replayed as the query returns them, unsorted.
AnyToReplay(e) == plan[e] # "absent" /\ ~Shadow!Recorded(e)

\* e is the next event of the loaded ledger, in the order of the chain.
NextToReplay(e) ==
    /\ plan[e] # "absent"
    /\ replayed < e
    /\ \A f \in Events : replayed < f /\ f < e => plan[f] = "absent"

(* The next event is replayed on the shadow.  For an accepted one with a   *)
(* manifest that is not obsolete the bytes were fetched and verified.      *)
ReplayOnShadow(e) ==
    /\ NextToReplay(e)
    /\ replayed' = e
    /\ \/ plan[e] = "pending" /\ Shadow!DeferManifestEvent(e)
       \/ plan[e] = "terminal" /\ Shadow!QuarantineManifestEvent(e)
       \/ Suppressed(e) /\ Shadow!DeferManifestEvent(e)
       \/ plan[e] = "accepted" /\ ~Suppressed(e) /\ Shadow!Apply(e)
    /\ UNCHANGED <<storeVars, plan>>

\* Bytes are missing or fail verification, or this is a dry run.
EndWithoutApplying ==
    /\ Rebuilding
    /\ EndRebuild
    /\ UNCHANGED storeVars

\* Mutant: only the coordinates of the events are compared, not their state.
SameEvents == \A e \in Events : plan[e] # "absent" <=> Recorded(e)

\* The ledger still is the one that was loaded, disposition by disposition.
LedgerUnchanged == plan = disposition

(* The materialized projection and the checkpoint are cleared and the      *)
(* items replayed once more, as on the shadow: a suppressed manifest       *)
(* advances its identity and the profile pointer and materializes nothing, *)
(* like the deferred one of the shadow.  The dead letters stay, but for    *)
(* those of pending and terminal manifests, which are written again with   *)
(* the next attempt that was loaded.                                       *)
RebuildProjection ==
    /\ Rebuilding
    /\ \A e \in Events : replayed < e => plan[e] = "absent"
    /\ LedgerUnchanged
    /\ checkpoint' = shadowCheckpoint
    /\ lastEvent' = shadowLastEvent
    /\ latestProfile' = shadowLatestProfile
    /\ profile' = shadowProfile
    /\ post' = shadowPost
    /\ \E due \in SUBSET {e \in Events : plan[e] = "pending"} :
          deadLetter' = [e \in Events |->
              CASE plan[e] = "terminal" -> "terminal"
                [] plan[e] = "pending"  -> IF e \in due THEN "due" ELSE "waiting"
                [] OTHER                -> deadLetter[e]]
    /\ EndRebuild
    /\ UNCHANGED disposition

RebuildNext ==
    \/ StoreNext /\ UNCHANGED rebuildVars
    \/ LoadDurableRawEventLedger
    \/ \E e \in Events : ReplayOnShadow(e)
    \/ EndWithoutApplying
    \/ RebuildProjection

RebuildSpec == RebuildInit /\ [][RebuildNext]_<<storeVars, rebuildVars>>

-----------------------------------------------------------------------------
(* Properties. *)

(* A rebuild is not to be seen: whatever the store was asked meanwhile,    *)
(* the identities, the profiles served and the public posts are those that *)
(* ingestion, hydration and rejection in their own order had left, and the *)
(* checkpoint does not run ahead (rebuildProjection; PROTOCOL.md, "Indexer *)
(* conformance" 8).                                                        *)
RebuildUnseen ==
    [][RebuildProjection =>
          /\ UNCHANGED <<lastEvent, latestProfile, profile>>
          /\ \A e \in Events : post[e] = "live" <=> post'[e] = "live"
          /\ checkpoint' <= checkpoint]_<<storeVars, rebuildVars>>

(* The shadow never refuses an event as stale, though the order of the     *)
(* chain is another one than that in which the ledger was written: what    *)
(* ingestion recorded can be rebuilt (prepareIndexerRebuild).              *)
NeverStale ==
    \A e \in Events : NextToReplay(e) => ~Shadow!Recorded(e) /\ Shadow!Admissible(e)
=============================================================================
