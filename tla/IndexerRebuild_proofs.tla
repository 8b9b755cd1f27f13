----------------------- MODULE IndexerRebuild_proofs ------------------------
(***************************************************************************)
(* Proofs about a rebuild that goes on while the store has other callers,  *)
(* for every finalized history.                                            *)
(*                                                                         *)
(* The shadow is a store, so what is proved of the store holds of it too:  *)
(* what it holds is determined by its ledger.  Its ledger is the part of   *)
(* the loaded one that has been replayed, with obsolete manifests left     *)
(* pending.  If the ledger of the store is still the loaded one at the     *)
(* end, the two projections are therefore determined by ledgers that       *)
(* differ only in manifests which serve nothing.                           *)
(***************************************************************************)
EXTENDS IndexerRebuild, ProjectionStore_proofs

\* The facts about the store, of the shadow.
ShadowFacts == INSTANCE ProjectionStore_proofs
    WITH disposition   <- shadowDisposition,
         deadLetter    <- shadowDeadLetter,
         checkpoint    <- shadowCheckpoint,
         lastEvent     <- shadowLastEvent,
         latestProfile <- shadowLatestProfile,
         profile       <- shadowProfile,
         post          <- shadowPost

allVars == <<storeVars, rebuildVars>>

\* The checkpoint covers every recorded event.
CheckpointCovers == \A e \in Events : Recorded(e) => Slot[e] <= checkpoint

\* What was loaded is recorded, and leaves out no event of an identity.
PlanLoaded ==
    /\ plan \in [Events -> Dispositions]
    /\ \A e \in Events : plan[e] # "absent" => Recorded(e)
    /\ \A e, f \in Events :
          Actor[f] = Actor[e] /\ f < e /\ plan[e] # "absent" => plan[f] # "absent"

\* The ledger of the shadow is what was replayed of the loaded one.
ShadowReplays ==
    /\ replayed \in 0..NumEvents
    /\ \A e \in Events :
          shadowDisposition[e] = IF plan[e] = "absent" \/ replayed < e THEN "absent"
                                 ELSE IF Suppressed(e) THEN "pending"
                                 ELSE plan[e]
    /\ \A e \in Events : shadowDisposition[e] # "absent" => Slot[e] <= shadowCheckpoint
    /\ shadowCheckpoint <= checkpoint

RebuildInv ==
    /\ StoreInv
    /\ CheckpointCovers
    /\ PlanLoaded
    /\ ShadowFacts!StoreInv
    /\ ShadowReplays

-----------------------------------------------------------------------------
(* The shadow as a store *)

LEMMA ShadowInit == ShadowFacts!StoreInit => ShadowFacts!StoreInv
<1> QED BY ShadowFacts!StoreInvInit, HistoryShape, HistoryOrder
        DEF ShadowFacts!Events, ShadowFacts!Kinds, Events, Kinds

LEMMA ShadowStep ==
    ShadowFacts!StoreInv /\ [ShadowFacts!StoreNext]_(ShadowFacts!storeVars)
        => ShadowFacts!StoreInv'
<1> QED BY ShadowFacts!StoreInvStep, HistoryShape, HistoryOrder
        DEF ShadowFacts!Events, ShadowFacts!Kinds, Events, Kinds

\* A fresh shadow satisfies what holds of every store.
LEMMA ShadowFresh == ASSUME FreshShadow PROVE ShadowFacts!StoreInv'
<1>1. ShadowFacts!StoreInit'
  BY DEF FreshShadow, ShadowFacts!StoreInit, ShadowFacts!Events, Events
<1>2. ShadowFacts!StoreInit' => ShadowFacts!StoreInv'
  BY ShadowInit, PTL
<1> QED BY <1>1, <1>2

\* An insertion into the shadow.
LEMMA ShadowInserts ==
    ASSUME NEW e \in Events, NEW d \in Dispositions, Shadow!Insert(e, d),
           shadowDisposition \in [Events -> Dispositions]
    PROVE  /\ shadowDisposition' = [shadowDisposition EXCEPT ![e] = d]
           /\ shadowCheckpoint' = IF Slot[e] > shadowCheckpoint
                                  THEN Slot[e] ELSE shadowCheckpoint
           /\ shadowDisposition[e] = "absent"
  BY DEF Shadow!Insert, Shadow!Later, Shadow!Recorded

\* What the rebuild asks of the shadow, a store may be asked.
LEMMA ShadowAsked ==
    ASSUME NEW e \in Events,
           \/ Shadow!Apply(e)
           \/ Shadow!DeferManifestEvent(e)
           \/ Shadow!QuarantineManifestEvent(e)
    PROVE  ShadowFacts!StoreNext
<1>1. e \in ShadowFacts!Events
  BY DEF Events, ShadowFacts!Events
<1>2. CASE Shadow!Apply(e)
  <2>1. ShadowFacts!Apply(e)
    BY <1>2 DEF Shadow!Apply, ShadowFacts!Apply, Shadow!Insert, ShadowFacts!Insert,
      Shadow!PointProfileAt, ShadowFacts!PointProfileAt, Shadow!Later, ShadowFacts!Later,
      Shadow!Recorded, ShadowFacts!Recorded, Shadow!Admissible, ShadowFacts!Admissible,
      Shadow!Active, ShadowFacts!Active, Shadow!Tombstone, ShadowFacts!Tombstone
  <2> QED BY <2>1, <1>1 DEF ShadowFacts!StoreNext
<1>3. CASE Shadow!DeferManifestEvent(e)
  <2>1. ShadowFacts!DeferManifestEvent(e)
    BY <1>3 DEF Shadow!DeferManifestEvent, ShadowFacts!DeferManifestEvent,
      Shadow!Insert, ShadowFacts!Insert, Shadow!BearsManifest, ShadowFacts!BearsManifest,
      Shadow!PointProfileAt, ShadowFacts!PointProfileAt, Shadow!Later, ShadowFacts!Later,
      Shadow!Recorded, ShadowFacts!Recorded, Shadow!Admissible, ShadowFacts!Admissible,
      Shadow!Active, ShadowFacts!Active
  <2> QED BY <2>1, <1>1 DEF ShadowFacts!StoreNext
<1>4. CASE Shadow!QuarantineManifestEvent(e)
  <2>1. ShadowFacts!QuarantineManifestEvent(e)
    BY <1>4 DEF Shadow!QuarantineManifestEvent, ShadowFacts!QuarantineManifestEvent,
      Shadow!Insert, ShadowFacts!Insert, Shadow!BearsManifest, ShadowFacts!BearsManifest,
      Shadow!PointProfileAt, ShadowFacts!PointProfileAt, Shadow!Later, ShadowFacts!Later,
      Shadow!Recorded, ShadowFacts!Recorded, Shadow!Admissible, ShadowFacts!Admissible,
      Shadow!Active, ShadowFacts!Active, Shadow!Tombstone, ShadowFacts!Tombstone
  <2> QED BY <2>1, <1>1 DEF ShadowFacts!StoreNext
<1> QED BY <1>2, <1>3, <1>4

\* What holds of every store, of the shadow and in terms of its variables.
LEMMA ShadowHolds ==
    ASSUME ShadowFacts!StoreInv
    PROVE  /\ shadowDisposition \in [Events -> Dispositions]
           /\ shadowCheckpoint \in Nat \cup {-1}
           /\ shadowLastEvent \in [Identities -> 0..NumEvents]
           /\ shadowLatestProfile \in [Identities -> 0..NumEvents]
           /\ shadowProfile \in [Identities -> 0..NumEvents]
           /\ shadowPost \in [Events -> {"absent", "live", "tombstoned"}]
           /\ \A i \in Identities :
                 shadowLastEvent[i] # 0 => Actor[shadowLastEvent[i]] = i
           /\ \A e \in Events :
                 shadowDisposition[e] # "absent" <=> e <= shadowLastEvent[Actor[e]]
           /\ \A i \in Identities :
                 /\ shadowLatestProfile[i] # 0 =>
                        /\ IsProfileOf(shadowLatestProfile[i], i)
                        /\ shadowDisposition[shadowLatestProfile[i]] # "absent"
                 /\ \A e \in Events : IsProfileOf(e, i) /\ shadowDisposition[e] # "absent"
                        => e <= shadowLatestProfile[i]
                 /\ shadowProfile[i] =
                        IF /\ shadowLatestProfile[i] # 0
                           /\ shadowDisposition[shadowLatestProfile[i]] = "accepted"
                        THEN shadowLatestProfile[i] ELSE 0
           /\ \A e \in Events :
                 shadowPost[e] = "live" <=>
                     /\ Kind[e] = "post"
                     /\ shadowDisposition[e] = "accepted"
                     /\ ~\E t \in Events : /\ shadowDisposition[t] # "absent"
                                           /\ Kind[t] = "tombstone"
                                           /\ Target[t] = e
                                           /\ e < t
           /\ \A e \in Events : shadowPost[e] # "absent" =>
                 Kind[e] = "post" /\ shadowDisposition[e] = "accepted"
<1>1. ShadowFacts!StoreTypeOK /\ ShadowFacts!LedgerPrefix /\ ShadowFacts!ProfilePointer
      /\ ShadowFacts!PointerServed /\ ShadowFacts!PublishedPosts
  BY DEF ShadowFacts!StoreInv
<1>2. Events = ShadowFacts!Events /\ Dispositions = ShadowFacts!Dispositions
  BY DEF Events, ShadowFacts!Events, Dispositions, ShadowFacts!Dispositions
<1>3. /\ shadowDisposition \in [Events -> Dispositions]
      /\ shadowCheckpoint \in Nat \cup {-1}
      /\ shadowLastEvent \in [Identities -> 0..NumEvents]
      /\ shadowLatestProfile \in [Identities -> 0..NumEvents]
      /\ shadowProfile \in [Identities -> 0..NumEvents]
      /\ shadowPost \in [Events -> {"absent", "live", "tombstoned"}]
  BY <1>1, <1>2 DEF ShadowFacts!StoreTypeOK
<1>4. /\ \A i \in Identities :
            shadowLastEvent[i] # 0 => Actor[shadowLastEvent[i]] = i
      /\ \A e \in Events :
            shadowDisposition[e] # "absent" <=> e <= shadowLastEvent[Actor[e]]
  BY <1>1, <1>2 DEF ShadowFacts!LedgerPrefix, ShadowFacts!Recorded
<1>5. ASSUME NEW i \in Identities
      PROVE  /\ shadowLatestProfile[i] # 0 =>
                    /\ IsProfileOf(shadowLatestProfile[i], i)
                    /\ shadowDisposition[shadowLatestProfile[i]] # "absent"
             /\ \A e \in Events : IsProfileOf(e, i) /\ shadowDisposition[e] # "absent"
                    => e <= shadowLatestProfile[i]
             /\ shadowProfile[i] =
                    IF /\ shadowLatestProfile[i] # 0
                       /\ shadowDisposition[shadowLatestProfile[i]] = "accepted"
                    THEN shadowLatestProfile[i] ELSE 0
  BY <1>1, <1>2 DEF ShadowFacts!ProfilePointer, ShadowFacts!PointerServed,
    ShadowFacts!IsProfileOf, IsProfileOf, ShadowFacts!Recorded
<1>6. ASSUME NEW e \in Events
      PROVE  /\ shadowPost[e] = "live" <=>
                    /\ Kind[e] = "post"
                    /\ shadowDisposition[e] = "accepted"
                    /\ ~\E t \in Events : /\ shadowDisposition[t] # "absent"
                                          /\ Kind[t] = "tombstone"
                                          /\ Target[t] = e
                                          /\ e < t
             /\ shadowPost[e] # "absent" =>
                    Kind[e] = "post" /\ shadowDisposition[e] = "accepted"
  BY <1>1, <1>2 DEF ShadowFacts!PublishedPosts, ShadowFacts!LaterTombstone,
    ShadowFacts!Recorded
<1> QED BY <1>3, <1>4, <1>5, <1>6
-----------------------------------------------------------------------------
(* The invariant *)

(* No operation of the store takes an event back, and the checkpoint only  *)
(* grows and covers what is recorded.                                      *)
LEMMA StoreGrows ==
    ASSUME StoreInv, CheckpointCovers, StoreNext
    PROVE  /\ \A e \in Events : Recorded(e) => Recorded(e)'
           /\ CheckpointCovers'
           /\ checkpoint <= checkpoint'
<1>0. StoreTypeOK /\ checkpoint \in Int /\ \A e \in Events : Slot[e] \in Nat
  BY HistoryShape DEF StoreInv, StoreTypeOK
<1>1. ASSUME NEW e \in Events, NEW d \in Dispositions \ {"absent"}, Insert(e, d)
      PROVE  /\ \A f \in Events : Recorded(f) => Recorded(f)'
             /\ CheckpointCovers'
             /\ checkpoint <= checkpoint'
  <2>1. /\ disposition' = [disposition EXCEPT ![e] = d]
        /\ checkpoint' = IF Slot[e] > checkpoint THEN Slot[e] ELSE checkpoint
    BY <1>1 DEF Insert, Later
  <2>2. checkpoint <= checkpoint' /\ Slot[e] <= checkpoint' /\ checkpoint' \in Int
    BY <2>1, <1>0
  <2>3. \A f \in Events : Recorded(f)' <=> (f = e \/ Recorded(f))
    BY <2>1, <1>0 DEF Recorded, StoreTypeOK
  <2>4. ASSUME NEW f \in Events, Recorded(f) PROVE Slot[f] <= checkpoint'
    BY <2>2, <2>4, <1>0 DEF CheckpointCovers
  <2> QED BY <2>2, <2>3, <2>4 DEF CheckpointCovers
<1>2. ASSUME NEW e \in Events, disposition[e] = "pending",
             NEW d \in {"accepted", "terminal"},
             disposition' = [disposition EXCEPT ![e] = d], checkpoint' = checkpoint
      PROVE  /\ \A f \in Events : Recorded(f) => Recorded(f)'
             /\ CheckpointCovers'
             /\ checkpoint <= checkpoint'
  <2>1. \A f \in Events : Recorded(f)' <=> Recorded(f)
    BY <1>2, <1>0 DEF Recorded, StoreTypeOK
  <2> QED BY <2>1, <1>2, <1>0 DEF CheckpointCovers
<1>3. ASSUME UNCHANGED disposition, checkpoint' \in Int, checkpoint <= checkpoint'
      PROVE  /\ \A f \in Events : Recorded(f) => Recorded(f)'
             /\ CheckpointCovers'
             /\ checkpoint <= checkpoint'
  <2>1. \A f \in Events : Recorded(f)' <=> Recorded(f)
    BY <1>3 DEF Recorded
  <2>2. ASSUME NEW f \in Events, Recorded(f) PROVE Slot[f] <= checkpoint'
    BY <2>2, <1>3, <1>0 DEF CheckpointCovers
  <2> QED BY <2>1, <2>2, <1>3 DEF CheckpointCovers
<1>4. ASSUME NEW s \in 0..FinalSlot, AdvanceCheckpoint(s)
      PROVE  checkpoint' \in Int /\ checkpoint <= checkpoint' /\ UNCHANGED disposition
  BY <1>4, <1>0, HistoryShape DEF AdvanceCheckpoint, Later
<1>5. ASSUME NEW e \in Events,
             Apply(e) \/ DeferManifestEvent(e) \/ QuarantineManifestEvent(e)
      PROVE  \E d \in Dispositions \ {"absent"} : Insert(e, d)
  BY <1>5 DEF Apply, DeferManifestEvent, QuarantineManifestEvent, Dispositions
<1>6. ASSUME NEW e \in Events, PromoteManifestEvent(e) \/ RejectPendingManifestEvent(e)
      PROVE  /\ disposition[e] = "pending"
             /\ checkpoint' = checkpoint
             /\ \E d \in {"accepted", "terminal"} :
                   disposition' = [disposition EXCEPT ![e] = d]
  BY <1>6 DEF PromoteManifestEvent, RejectPendingManifestEvent
<1>7. ASSUME NEW e \in Events,
             \/ ReschedulePendingManifestEvent(e) \/ RecordDeadLetter(e)
             \/ ResolveDeadLetter(e) \/ AttemptComesDue(e)
      PROVE  UNCHANGED disposition /\ checkpoint' \in Int /\ checkpoint <= checkpoint'
  BY <1>7, <1>0 DEF ReschedulePendingManifestEvent, RecordDeadLetter,
                    ResolveDeadLetter, AttemptComesDue
<1> QED BY <1>1, <1>2, <1>3, <1>4, <1>5, <1>6, <1>7 DEF StoreNext

LEMMA RebuildInvInit == RebuildInit => RebuildInv
<1> SUFFICES ASSUME RebuildInit PROVE RebuildInv
  OBVIOUS
<1>1. StoreInv
  BY StoreInvInit DEF RebuildInit
<1>2. ShadowFacts!StoreInv
  <2>1. ShadowFacts!StoreInit
    BY DEF RebuildInit, Shadow!StoreInit, ShadowFacts!StoreInit,
           Events, Shadow!Events, ShadowFacts!Events
  <2> QED BY <2>1, ShadowInit
<1>3. CheckpointCovers
  BY DEF RebuildInit, StoreInit, CheckpointCovers, Recorded
<1>4. PlanLoaded
  BY DEF RebuildInit, PlanLoaded, NoPlan, Dispositions
<1>5. ShadowReplays
  BY HistoryShape DEF RebuildInit, StoreInit, Shadow!StoreInit, ShadowReplays, NoPlan,
                      Events, Shadow!Events
<1> QED BY <1>1, <1>2, <1>3, <1>4, <1>5 DEF RebuildInv

\* A fresh shadow has replayed nothing, of whatever plan.
LEMMA FreshReplaysNothing ==
    ASSUME FreshShadow, plan' \in [Events -> Dispositions], checkpoint' \in Nat \cup {-1}
    PROVE  ShadowReplays'
<1>1. replayed' = 0 /\ replayed' \in 0..NumEvents
  BY HistoryShape DEF FreshShadow
<1>2. \A e \in Events : replayed' < e
  BY <1>1 DEF Events
<1>3. \A e \in Events : shadowDisposition'[e] = "absent"
  BY DEF FreshShadow
<1>4. shadowCheckpoint' <= checkpoint'
  BY DEF FreshShadow
<1> QED BY <1>1, <1>2, <1>3, <1>4 DEF ShadowReplays

(* What the store is asked meanwhile disturbs neither plan nor shadow.     *)
LEMMA StoreStepKeeps ==
    ASSUME RebuildInv, StoreNext, UNCHANGED rebuildVars
    PROVE  RebuildInv'
<1>1. /\ StoreInv /\ CheckpointCovers /\ PlanLoaded /\ ShadowReplays
      /\ ShadowFacts!StoreInv
  BY DEF RebuildInv
<1>2. StoreInv'
  BY <1>1, StoreInvStep
<1>3. /\ \A e \in Events : Recorded(e) => Recorded(e)'
      /\ CheckpointCovers'
      /\ checkpoint <= checkpoint'
  BY <1>1, StoreGrows
<1>4. UNCHANGED <<plan, replayed>> /\ UNCHANGED shadowVars
  BY DEF rebuildVars
<1>5. PlanLoaded'
  BY <1>1, <1>3, <1>4 DEF PlanLoaded
<1>6. ShadowFacts!StoreInv'
  <2>1. UNCHANGED ShadowFacts!storeVars
    BY <1>4 DEF shadowVars, ShadowFacts!storeVars
  <2> QED BY <2>1, <1>1, ShadowStep
<1>7. ShadowReplays'
  <2>1. shadowCheckpoint' <= checkpoint'
    <3>1. shadowCheckpoint \in Int /\ checkpoint \in Int /\ checkpoint' \in Int
      BY <1>1, <1>2, ShadowHolds DEF StoreInv, StoreTypeOK
    <3>2. shadowCheckpoint <= checkpoint /\ shadowCheckpoint' = shadowCheckpoint
      BY <1>1, <1>4 DEF ShadowReplays, shadowVars
    <3> QED BY <3>1, <3>2, <1>3
  <2>2. \A e \in Events : Suppressed(e)' <=> Suppressed(e)
    BY <1>4 DEF Suppressed
  <2> QED BY <2>1, <2>2, <1>1, <1>4 DEF ShadowReplays, shadowVars
<1> QED BY <1>2, <1>3, <1>5, <1>6, <1>7 DEF RebuildInv

LEMMA LoadKeeps ==
    ASSUME RebuildInv, LoadDurableRawEventLedger
    PROVE  RebuildInv'
<1>1. /\ StoreInv /\ CheckpointCovers /\ StoreTypeOK /\ LedgerPrefix
      /\ plan' = disposition /\ FreshShadow /\ UNCHANGED storeVars
  BY DEF RebuildInv, StoreInv, LoadDurableRawEventLedger
<1>2. StoreInv'
  BY <1>1, StoreInvStep
<1>3. CheckpointCovers'
  BY <1>1 DEF CheckpointCovers, Recorded, storeVars
<1>4. PlanLoaded'
  <2>1. plan' \in [Events -> Dispositions]
    BY <1>1 DEF StoreTypeOK
  <2>2. \A e \in Events : plan'[e] # "absent" <=> Recorded(e)
    BY <1>1 DEF Recorded
  <2>3. ASSUME NEW e \in Events, NEW f \in Events, Actor[f] = Actor[e], f < e, Recorded(e)
        PROVE  Recorded(f)
    <3>1. e <= lastEvent[Actor[e]] /\ lastEvent[Actor[e]] \in 0..NumEvents
      BY <1>1, <2>3, HistoryShape DEF LedgerPrefix, StoreTypeOK
    <3>2. f <= lastEvent[Actor[f]]
      BY <3>1, <2>3, HistoryShape DEF Events
    <3> QED BY <3>2, <1>1 DEF LedgerPrefix
  <2>4. \A e \in Events : Recorded(e)' <=> Recorded(e)
    BY <1>1 DEF Recorded, storeVars
  <2> QED BY <2>1, <2>2, <2>3, <2>4 DEF PlanLoaded
<1>5. ShadowFacts!StoreInv'
  BY <1>1, ShadowFresh
<1>6. ShadowReplays'
  <2>1. checkpoint' \in Nat \cup {-1}
    BY <1>2 DEF StoreInv, StoreTypeOK
  <2> QED BY <2>1, <1>1, <1>4, FreshReplaysNothing DEF PlanLoaded
<1> QED BY <1>2, <1>3, <1>4, <1>5, <1>6 DEF RebuildInv

LEMMA ReplayKeeps ==
    ASSUME RebuildInv, NEW e \in Events, ReplayOnShadow(e)
    PROVE  RebuildInv'
<1>1. /\ StoreInv /\ CheckpointCovers /\ PlanLoaded /\ ShadowReplays
      /\ ShadowFacts!StoreInv /\ StoreTypeOK
  BY DEF RebuildInv, StoreInv
<1>2. /\ NextToReplay(e) /\ replayed' = e
      /\ UNCHANGED storeVars /\ UNCHANGED plan
  BY DEF ReplayOnShadow
<1>3. PICK d \in Dispositions :
          /\ Shadow!Insert(e, d)
          /\ d = IF Suppressed(e) THEN "pending" ELSE plan[e]
  <2>1. CASE plan[e] = "pending" /\ Shadow!DeferManifestEvent(e)
    <3>1. ~Suppressed(e) /\ Shadow!Insert(e, "pending")
      BY <2>1 DEF Suppressed, Shadow!DeferManifestEvent
    <3> QED BY <3>1, <2>1 DEF Dispositions
  <2>2. CASE plan[e] = "terminal" /\ Shadow!QuarantineManifestEvent(e)
    <3>1. ~Suppressed(e) /\ Shadow!Insert(e, "terminal")
      BY <2>2 DEF Suppressed, Shadow!QuarantineManifestEvent
    <3> QED BY <3>1, <2>2 DEF Dispositions
  <2>3. CASE Suppressed(e) /\ Shadow!DeferManifestEvent(e)
    <3>1. Shadow!Insert(e, "pending")
      BY <2>3 DEF Shadow!DeferManifestEvent
    <3> QED BY <3>1, <2>3 DEF Dispositions
  <2>4. CASE plan[e] = "accepted" /\ ~Suppressed(e) /\ Shadow!Apply(e)
    <3>1. Shadow!Insert(e, "accepted")
      BY <2>4 DEF Shadow!Apply
    <3> QED BY <3>1, <2>4 DEF Dispositions
  <2> QED BY <2>1, <2>2, <2>3, <2>4 DEF ReplayOnShadow
<1>4. StoreInv'
  BY <1>1, <1>2, StoreInvStep
<1>5. CheckpointCovers' /\ \A f \in Events : Recorded(f)' <=> Recorded(f)
  BY <1>1, <1>2 DEF CheckpointCovers, Recorded, storeVars
<1>6. PlanLoaded'
  BY <1>1, <1>2, <1>5 DEF PlanLoaded
<1>7. ShadowFacts!StoreInv'
  <2>1. ShadowFacts!StoreNext
    BY ShadowAsked DEF ReplayOnShadow
  <2> QED BY <2>1, <1>1, ShadowStep
<1>8. /\ shadowDisposition' = [shadowDisposition EXCEPT ![e] = d]
      /\ shadowCheckpoint' = IF Slot[e] > shadowCheckpoint
                             THEN Slot[e] ELSE shadowCheckpoint
      /\ shadowDisposition \in [Events -> Dispositions]
      /\ shadowCheckpoint \in Int /\ checkpoint \in Int
      /\ \A f \in Events : Slot[f] \in Int
  BY <1>1, <1>3, ShadowInserts, ShadowHolds, HistoryShape DEF StoreTypeOK
<1>9. ShadowReplays'
  <2>1. replayed' \in 0..NumEvents /\ replayed \in 0..NumEvents
    BY <1>1, <1>2 DEF Events, ShadowReplays
  <2>2. \A f \in Events : Suppressed(f)' <=> Suppressed(f)
    BY <1>2 DEF Suppressed
  <2>3. ASSUME NEW f \in Events
        PROVE  shadowDisposition'[f] = IF plan[f] = "absent" \/ e < f THEN "absent"
                                       ELSE IF Suppressed(f) THEN "pending"
                                       ELSE plan[f]
    <3>1. CASE f = e
      BY <3>1, <1>2, <1>3, <1>8 DEF NextToReplay, Events
    <3>2. CASE f # e
      <4>1. shadowDisposition'[f] = shadowDisposition[f]
        BY <3>2, <1>8
      <4>2. plan[f] = "absent" \/ (e < f <=> replayed < f)
        BY <3>2, <1>2, <2>1 DEF NextToReplay, Events
      <4> QED BY <4>1, <4>2, <1>1 DEF ShadowReplays
    <3> QED BY <3>1, <3>2
  <2>4. ASSUME NEW f \in Events, shadowDisposition'[f] # "absent"
        PROVE  Slot[f] <= shadowCheckpoint'
    <3>1. CASE f = e
      BY <3>1, <1>8
    <3>2. CASE f # e
      <4>1. Slot[f] <= shadowCheckpoint
        BY <3>2, <2>4, <1>1, <1>8 DEF ShadowReplays
      <4> QED BY <4>1, <1>8
    <3> QED BY <3>1, <3>2
  <2>5. shadowCheckpoint' <= checkpoint'
    <3>1. Slot[e] <= checkpoint
      BY <1>1, <1>2 DEF PlanLoaded, CheckpointCovers, NextToReplay
    <3>2. shadowCheckpoint <= checkpoint /\ checkpoint' = checkpoint
      BY <1>1, <1>2 DEF ShadowReplays, storeVars
    <3> QED BY <3>1, <3>2, <1>8
  <2> QED BY <1>2, <2>1, <2>2, <2>3, <2>4, <2>5 DEF ShadowReplays
<1> QED BY <1>4, <1>5, <1>6, <1>7, <1>9 DEF RebuildInv

\* No plan is loaded any more, and the shadow is fresh.
LEMMA EndKeeps ==
    ASSUME StoreInv', CheckpointCovers', EndRebuild
    PROVE  RebuildInv'
<1>1. plan' \in [Events -> Dispositions] /\ \A e \in Events : plan'[e] = "absent"
  BY DEF EndRebuild, NoPlan, Dispositions
<1>2. PlanLoaded'
  BY <1>1 DEF PlanLoaded
<1>3. FreshShadow /\ checkpoint' \in Nat \cup {-1}
  BY DEF EndRebuild, StoreInv, StoreTypeOK
<1>4. ShadowFacts!StoreInv' /\ ShadowReplays'
  BY <1>1, <1>3, ShadowFresh, FreshReplaysNothing
<1> QED BY <1>2, <1>4 DEF RebuildInv

(* Once all is replayed, and the ledger is the one that was loaded, the    *)
(* shadow serves what the store serves: what they record is the same, and  *)
(* a suppressed manifest is not the last profile and not a public post.    *)
LEMMA SameProjection ==
    ASSUME RebuildInv, RebuildProjection
    PROVE  /\ UNCHANGED <<lastEvent, latestProfile, profile>>
           /\ \A e \in Events : post'[e] = "live" <=> post[e] = "live"
           /\ \A e \in Events : post'[e] # "absent" =>
                  Kind[e] = "post" /\ disposition[e] = "accepted"
           /\ post' \in [Events -> {"absent", "live", "tombstoned"}]
           /\ checkpoint' \in Nat \cup {-1} /\ checkpoint' <= checkpoint
           /\ \A e \in Events : Recorded(e) => Slot[e] <= checkpoint'
<1>1. /\ StoreTypeOK /\ LedgerPrefix /\ ProfilePointer /\ PointerServed /\ PublishedPosts
      /\ ShadowReplays /\ ShadowFacts!StoreInv
  BY DEF RebuildInv, StoreInv
<1>2. /\ plan = disposition
      /\ \A e \in Events : replayed < e => plan[e] = "absent"
      /\ checkpoint' = shadowCheckpoint /\ lastEvent' = shadowLastEvent
      /\ latestProfile' = shadowLatestProfile /\ profile' = shadowProfile
      /\ post' = shadowPost
  BY DEF RebuildProjection, LedgerUnchanged
<1>3. \A e \in Events :
          /\ shadowDisposition[e] # "absent" <=> Recorded(e)
          /\ shadowDisposition[e] = "accepted" <=>
                 disposition[e] = "accepted" /\ ~Suppressed(e)
  BY <1>1, <1>2 DEF ShadowReplays, Recorded
<1>4. ASSUME NEW i \in Identities PROVE lastEvent[i] = shadowLastEvent[i]
  <2>1. lastEvent[i] \in 0..NumEvents /\ shadowLastEvent[i] \in 0..NumEvents
    BY <1>1, ShadowHolds DEF StoreTypeOK
  <2>2. lastEvent[i] <= shadowLastEvent[i]
    <3> SUFFICES ASSUME lastEvent[i] # 0 PROVE lastEvent[i] <= shadowLastEvent[i]
      BY <2>1, HistoryShape
    <3>1. lastEvent[i] \in Events /\ Actor[lastEvent[i]] = i
      BY <1>1, <2>1, HistoryShape DEF LedgerPrefix, Events
    <3>2. Recorded(lastEvent[i])
      BY <1>1, <3>1, <2>1 DEF LedgerPrefix
    <3> QED BY <3>1, <3>2, <1>1, <1>3, ShadowHolds
  <2>3. shadowLastEvent[i] <= lastEvent[i]
    <3> SUFFICES ASSUME shadowLastEvent[i] # 0 PROVE shadowLastEvent[i] <= lastEvent[i]
      BY <2>1, HistoryShape
    <3>1. shadowLastEvent[i] \in Events /\ Actor[shadowLastEvent[i]] = i
      BY <1>1, <2>1, HistoryShape, ShadowHolds DEF Events
    <3>2. shadowDisposition[shadowLastEvent[i]] # "absent"
      BY <1>1, <3>1, <2>1, ShadowHolds
    <3> QED BY <3>1, <3>2, <1>1, <1>3 DEF LedgerPrefix
  <2> QED BY <2>1, <2>2, <2>3
<1>5. ASSUME NEW i \in Identities PROVE latestProfile[i] = shadowLatestProfile[i]
  <2>1. latestProfile[i] \in 0..NumEvents /\ shadowLatestProfile[i] \in 0..NumEvents
    BY <1>1, ShadowHolds DEF StoreTypeOK
  <2>2. latestProfile[i] <= shadowLatestProfile[i]
    <3> SUFFICES ASSUME latestProfile[i] # 0
                 PROVE  latestProfile[i] <= shadowLatestProfile[i]
      BY <2>1, HistoryShape
    <3>1. /\ latestProfile[i] \in Events /\ IsProfileOf(latestProfile[i], i)
          /\ Recorded(latestProfile[i])
      BY <1>1, <2>1, HistoryShape DEF ProfilePointer, Events
    <3> QED BY <3>1, <1>1, <1>3, ShadowHolds
  <2>3. shadowLatestProfile[i] <= latestProfile[i]
    <3> SUFFICES ASSUME shadowLatestProfile[i] # 0
                 PROVE  shadowLatestProfile[i] <= latestProfile[i]
      BY <2>1, HistoryShape
    <3>1. /\ shadowLatestProfile[i] \in Events
          /\ IsProfileOf(shadowLatestProfile[i], i)
          /\ shadowDisposition[shadowLatestProfile[i]] # "absent"
      BY <1>1, <2>1, HistoryShape, ShadowHolds DEF Events
    <3> QED BY <3>1, <1>1, <1>3 DEF ProfilePointer
  <2> QED BY <2>1, <2>2, <2>3
<1>6. ASSUME NEW i \in Identities PROVE profile[i] = shadowProfile[i]
  <2> DEFINE p == latestProfile[i]
  <2>1. CASE p = 0
    BY <2>1, <1>1, <1>5, ShadowHolds DEF PointerServed
  <2>2. CASE p # 0
    <3>1. p \in Events /\ IsProfileOf(p, i)
      BY <2>2, <1>1, HistoryShape DEF StoreTypeOK, ProfilePointer, Events
    <3>2. ~Suppressed(p)
      <4> SUFFICES ASSUME Suppressed(p) PROVE FALSE
        OBVIOUS
      <4>1. PICK f \in Events : p < f /\ Recorded(f) /\ IsProfileOf(f, i)
        BY <3>1, <1>2 DEF Suppressed, Recorded, IsProfileOf
      <4>2. f <= p
        BY <4>1, <1>1 DEF ProfilePointer
      <4> QED BY <3>1, <4>1, <4>2 DEF Events
    <3>3. shadowDisposition[p] = "accepted" <=> disposition[p] = "accepted"
      BY <3>1, <3>2, <1>3
    <3>4. shadowProfile[i] = IF p # 0 /\ shadowDisposition[p] = "accepted" THEN p ELSE 0
      BY <1>1, <1>5, ShadowHolds
    <3>5. profile[i] = IF p # 0 /\ disposition[p] = "accepted" THEN p ELSE 0
      BY <1>1 DEF PointerServed
    <3> QED BY <3>3, <3>4, <3>5
  <2> QED BY <2>1, <2>2
<1>7. UNCHANGED <<lastEvent, latestProfile, profile>>
  <2>1. /\ lastEvent \in [Identities -> 0..NumEvents]
        /\ latestProfile \in [Identities -> 0..NumEvents]
        /\ profile \in [Identities -> 0..NumEvents]
    BY <1>1 DEF StoreTypeOK
  <2>2. /\ shadowLastEvent \in [Identities -> 0..NumEvents]
        /\ shadowLatestProfile \in [Identities -> 0..NumEvents]
        /\ shadowProfile \in [Identities -> 0..NumEvents]
    BY <1>1, ShadowHolds
  <2>3. lastEvent = shadowLastEvent
    BY <2>1, <2>2, <1>4
  <2>4. latestProfile = shadowLatestProfile
    BY <2>1, <2>2, <1>5
  <2>5. profile = shadowProfile
    BY <2>1, <2>2, <1>6
  <2> QED BY <2>3, <2>4, <2>5, <1>2
<1>8. ASSUME NEW e \in Events
      PROVE  /\ post'[e] = "live" <=> post[e] = "live"
             /\ post'[e] # "absent" => Kind[e] = "post" /\ disposition[e] = "accepted"
  <2>1. LaterTombstone(e) <=>
            \E t \in Events : /\ shadowDisposition[t] # "absent"
                              /\ Kind[t] = "tombstone"
                              /\ Target[t] = e
                              /\ e < t
    BY <1>3 DEF LaterTombstone
  <2>2. Kind[e] = "post" /\ ~LaterTombstone(e) => ~Suppressed(e)
    BY <1>2 DEF Suppressed, LaterTombstone, Recorded
  <2>3. shadowPost[e] = "live" <=>
            Kind[e] = "post" /\ shadowDisposition[e] = "accepted" /\ ~LaterTombstone(e)
    BY <1>1, <2>1, ShadowHolds
  <2>4. post[e] = "live" <=>
            Kind[e] = "post" /\ disposition[e] = "accepted" /\ ~LaterTombstone(e)
    BY <1>1 DEF PublishedPosts
  <2>5. shadowPost[e] # "absent" => Kind[e] = "post" /\ shadowDisposition[e] = "accepted"
    BY <1>1, ShadowHolds
  <2> QED BY <2>2, <2>3, <2>4, <2>5, <1>2, <1>3
<1>9. /\ checkpoint' \in Nat \cup {-1} /\ checkpoint' <= checkpoint
      /\ \A e \in Events : Recorded(e) => Slot[e] <= checkpoint'
      /\ post' \in [Events -> {"absent", "live", "tombstoned"}]
  BY <1>1, <1>2, <1>3, ShadowHolds DEF ShadowReplays
<1> QED BY <1>7, <1>8, <1>9

LEMMA RebuildKeeps ==
    ASSUME RebuildInv, RebuildProjection
    PROVE  RebuildInv'
<1>1. /\ StoreTypeOK /\ LedgerPrefix /\ ProfilePointer /\ PointerServed
      /\ PublishedPosts /\ RetryState
  BY DEF RebuildInv, StoreInv
<1>2. /\ disposition' = disposition /\ plan = disposition /\ EndRebuild
      /\ \A e \in Events : disposition[e] \in Dispositions
  BY <1>1 DEF RebuildProjection, LedgerUnchanged, StoreTypeOK
<1>3. UNCHANGED <<lastEvent, latestProfile, profile>>
  BY SameProjection
<1>4. \A e \in Events : (Recorded(e)' <=> Recorded(e))
                        /\ (LaterTombstone(e)' <=> LaterTombstone(e))
  BY <1>2 DEF Recorded, LaterTombstone
<1>5. \A e \in Events :
          /\ deadLetter'[e] \in Retries
          /\ disposition[e] = "pending" => deadLetter'[e] \in {"waiting", "due"}
          /\ disposition[e] = "terminal" <=> deadLetter'[e] = "terminal"
  <2>1. PICK due \in SUBSET {e \in Events : plan[e] = "pending"} :
            deadLetter' = [e \in Events |->
                CASE plan[e] = "terminal" -> "terminal"
                  [] plan[e] = "pending"  -> IF e \in due THEN "due" ELSE "waiting"
                  [] OTHER                -> deadLetter[e]]
    BY DEF RebuildProjection
  <2> SUFFICES ASSUME NEW e \in Events
               PROVE  /\ deadLetter'[e] \in Retries
                      /\ disposition[e] = "pending" => deadLetter'[e] \in {"waiting", "due"}
                      /\ disposition[e] = "terminal" <=> deadLetter'[e] = "terminal"
    OBVIOUS
  <2>2. CASE plan[e] = "terminal"
    <3>1. deadLetter'[e] = "terminal"
      BY <2>1, <2>2
    <3> QED BY <3>1, <2>2, <1>2 DEF Retries
  <2>3. CASE plan[e] = "pending"
    <3>1. deadLetter'[e] = IF e \in due THEN "due" ELSE "waiting"
      BY <2>1, <2>3
    <3> QED BY <3>1, <2>3, <1>2 DEF Retries
  <2>4. CASE plan[e] # "terminal" /\ plan[e] # "pending"
    <3>1. deadLetter'[e] = deadLetter[e]
      BY <2>1, <2>4
    <3> QED BY <3>1, <2>4, <1>1, <1>2 DEF RetryState, StoreTypeOK
  <2> QED BY <2>2, <2>3, <2>4
<1>6. StoreTypeOK'
  <2>1. DOMAIN deadLetter' = Events /\ deadLetter' = [e \in Events |-> deadLetter'[e]]
    BY DEF RebuildProjection
  <2>2. deadLetter' \in [Events -> Retries]
    BY <2>1, <1>5
  <2> QED BY <2>2, <1>1, <1>2, <1>3, SameProjection DEF StoreTypeOK
<1>7. LedgerPrefix' /\ ProfilePointer' /\ PointerServed'
  <2>1. LedgerPrefix'
    BY <1>1, <1>3, <1>4 DEF LedgerPrefix
  <2>2. ProfilePointer'
    <3> SUFFICES ASSUME NEW i \in Identities
                 PROVE  /\ latestProfile'[i] # 0 => /\ IsProfileOf(latestProfile'[i], i)
                                                   /\ disposition'[latestProfile'[i]] # "absent"
                        /\ \A e \in Events :
                              IsProfileOf(e, i) /\ disposition'[e] # "absent"
                                  => e <= latestProfile'[i]
      BY DEF ProfilePointer, Recorded, IsProfileOf
    <3> QED BY <1>1, <1>2, <1>3 DEF ProfilePointer, Recorded
  <2>3. PointerServed'
    BY <1>1, <1>2, <1>3 DEF PointerServed
  <2> QED BY <2>1, <2>2, <2>3
<1>8. PublishedPosts'
  BY <1>1, <1>2, <1>4, SameProjection DEF PublishedPosts
<1>9. RetryState'
  BY <1>2, <1>5 DEF RetryState
<1>10. CheckpointCovers'
  BY <1>4, SameProjection DEF CheckpointCovers
<1>11. StoreInv'
  BY <1>6, <1>7, <1>8, <1>9 DEF StoreInv
<1> QED BY <1>2, <1>10, <1>11, EndKeeps

LEMMA RebuildInvStep == RebuildInv /\ [RebuildNext]_allVars => RebuildInv'
<1> SUFFICES ASSUME RebuildInv, [RebuildNext]_allVars PROVE RebuildInv'
  OBVIOUS
<1>1. CASE StoreNext /\ UNCHANGED rebuildVars
  BY <1>1, StoreStepKeeps
<1>2. CASE LoadDurableRawEventLedger
  BY <1>2, LoadKeeps
<1>3. ASSUME NEW e \in Events, ReplayOnShadow(e) PROVE RebuildInv'
  BY <1>3, ReplayKeeps
<1>4. CASE EndWithoutApplying
  <2>1. StoreInv /\ CheckpointCovers /\ UNCHANGED storeVars /\ EndRebuild
    BY <1>4 DEF RebuildInv, EndWithoutApplying
  <2>2. StoreInv'
    BY <2>1, StoreInvStep
  <2>3. CheckpointCovers'
    BY <2>1 DEF CheckpointCovers, Recorded, storeVars
  <2> QED BY <2>1, <2>2, <2>3, EndKeeps
<1>5. CASE RebuildProjection
  BY <1>5, RebuildKeeps
<1>6. CASE UNCHANGED allVars
  <2>1. /\ StoreInv /\ CheckpointCovers /\ PlanLoaded /\ ShadowReplays
        /\ ShadowFacts!StoreInv
    BY DEF RebuildInv
  <2>2. UNCHANGED storeVars /\ UNCHANGED <<plan, replayed>> /\ UNCHANGED shadowVars
    BY <1>6 DEF allVars, rebuildVars
  <2>3. StoreInv'
    BY <2>1, <2>2, StoreInvStep
  <2>4. CheckpointCovers' /\ PlanLoaded'
    BY <2>1, <2>2 DEF CheckpointCovers, PlanLoaded, Recorded, storeVars
  <2>5. ShadowFacts!StoreInv'
    <3>1. UNCHANGED ShadowFacts!storeVars
      BY <2>2 DEF shadowVars, ShadowFacts!storeVars
    <3> QED BY <2>1, <3>1, ShadowStep
  <2>6. ShadowReplays'
    <3>1. \A e \in Events : Suppressed(e)' <=> Suppressed(e)
      BY <2>2 DEF Suppressed
    <3> QED BY <2>1, <2>2, <3>1 DEF ShadowReplays, storeVars, shadowVars
  <2> QED BY <2>3, <2>4, <2>5, <2>6 DEF RebuildInv
<1> QED BY <1>1, <1>2, <1>3, <1>4, <1>5, <1>6 DEF RebuildNext

\* RebuildInv is an invariant of the store with a rebuild.
THEOREM RebuildInvariance == RebuildSpec => []RebuildInv
<1>1. RebuildInit => RebuildInv
  BY RebuildInvInit
<1>2. RebuildInv /\ [RebuildNext]_<<storeVars, rebuildVars>> => RebuildInv'
  BY RebuildInvStep DEF allVars
<1> QED BY <1>1, <1>2, PTL DEF RebuildSpec

-----------------------------------------------------------------------------
(* The theorems *)

(* The types of the store (the maps of MemoryProjectionStore) survive a    *)
(* rebuild.                                                                *)
THEOREM RebuiltTypeCorrect == RebuildSpec => []StoreTypeOK
<1>1. RebuildInv => StoreTypeOK
  BY DEF RebuildInv, StoreInv
<1> QED BY <1>1, RebuildInvariance, PTL

(* The profile that is served is the verified one of the last profile      *)
(* event, before, during and after a rebuild (apply, promoteManifestEvent, *)
(* rebuildProjection).                                                     *)
THEOREM RebuiltProfile == RebuildSpec => []ServedProfile
<1>1. RebuildInv => StoreInv
  BY DEF RebuildInv
<1>2. StoreInv => ServedProfile
  BY ServedFromPointer
<1> QED BY <1>1, <1>2, RebuildInvariance, PTL

(* A tombstoned post does not reappear, whatever was rebuilt               *)
(* (rebuildProjection, promoteManifestEvent).                              *)
THEOREM RebuiltPosts == RebuildSpec => []PublishedPosts
<1>1. RebuildInv => PublishedPosts
  BY DEF RebuildInv, StoreInv
<1> QED BY <1>1, RebuildInvariance, PTL

(* A rebuild leaves every pending manifest a retry, and makes no terminal  *)
(* one retryable (rebuildProjection).                                      *)
THEOREM RebuiltRetries == RebuildSpec => []RetryState
<1>1. RebuildInv => RetryState
  BY DEF RebuildInv, StoreInv
<1> QED BY <1>1, RebuildInvariance, PTL

(* A rebuild that is applied changes nothing a reader sees, and does not   *)
(* move the checkpoint ahead (rebuildProjection).                          *)
THEOREM RebuildIsUnseen == RebuildSpec => RebuildUnseen
<1>1. RebuildInv /\ [RebuildNext]_<<storeVars, rebuildVars>> =>
          [RebuildProjection =>
              /\ UNCHANGED <<lastEvent, latestProfile, profile>>
              /\ \A e \in Events : post[e] = "live" <=> post'[e] = "live"
              /\ checkpoint' <= checkpoint]_<<storeVars, rebuildVars>>
  BY SameProjection
<1> QED BY <1>1, RebuildInvariance, PTL DEF RebuildSpec, RebuildUnseen

(* What ingestion recorded can be replayed: the next event of the loaded   *)
(* ledger comes right after the last one of its identity that the shadow   *)
(* holds (prepareIndexerRebuild, #validateIdentityLifecycle).              *)
THEOREM ReplayNeverStale == RebuildSpec => []NeverStale
<1>1. RebuildInv => NeverStale
  <2> SUFFICES ASSUME RebuildInv, NEW e \in Events, NextToReplay(e)
               PROVE  ~Shadow!Recorded(e) /\ Shadow!Admissible(e)
    BY DEF NeverStale
  <2>1. /\ PlanLoaded /\ ShadowReplays /\ ShadowFacts!StoreInv
        /\ plan[e] # "absent" /\ replayed < e
        /\ \A f \in Events : replayed < f /\ f < e => plan[f] = "absent"
        /\ replayed \in 0..NumEvents /\ NumEvents \in Nat
    BY HistoryShape DEF RebuildInv, NextToReplay, ShadowReplays
  <2>2. ~Shadow!Recorded(e)
    BY <2>1 DEF ShadowReplays, Shadow!Recorded
  <2>3. CASE Seq[e] = 0
    BY <2>2, <2>3, HistoryOrder DEF Shadow!Admissible
  <2>4. CASE Seq[e] # 0
    <3>1. Seq[e] \in Nat /\ Seq[e] > 0
      BY <2>4, HistoryShape
    <3>2. PICK f \in Events : Actor[f] = Actor[e] /\ Seq[f] = Seq[e] - 1
      BY <3>1, HistoryOrder
    <3>3. Seq[f] \in Nat /\ f < e
      BY <3>1, <3>2, HistoryShape, HistoryOrder
    <3>4. plan[f] # "absent"
      BY <3>2, <3>3, <2>1 DEF PlanLoaded
    <3>5. ~(replayed < f)
      BY <3>3, <3>4, <2>1
    <3>6. shadowDisposition[f] # "absent"
      BY <3>4, <3>5, <2>1 DEF ShadowReplays
    <3> DEFINE l == shadowLastEvent[Actor[e]]
    <3>7. Actor[e] \in Identities /\ l \in 0..NumEvents /\ f <= l
      BY <3>2, <3>6, <2>1, ShadowHolds, HistoryShape
    <3>8. l \in Events /\ l # 0 /\ Actor[l] = Actor[e] /\ shadowDisposition[l] # "absent"
      <4>1. l \in Events /\ l # 0
        BY <3>7, <2>1 DEF Events
      <4>2. Actor[l] = Actor[e]
        BY <3>7, <4>1, <2>1, ShadowHolds
      <4> QED BY <4>1, <4>2, <3>7, <2>1, ShadowHolds
    <3>9. l < e
      <4>1. ~(replayed < l)
        BY <3>8, <2>1 DEF ShadowReplays
      <4> QED BY <4>1, <3>8, <2>1 DEF Events
    <3>10. Seq[l] \in Nat /\ Seq[l] < Seq[e]
      BY <3>8, <3>9, HistoryShape, HistoryOrder
    <3>11. f = l \/ Seq[f] < Seq[l]
      BY <3>2, <3>7, <3>8, HistoryOrder DEF Events
    <3>12. Seq[e] = Seq[l] + 1
      BY <3>1, <3>2, <3>3, <3>10, <3>11
    <3>13. Kind[l] # "deactivate"
      BY <3>8, <3>9, HistoryOrder DEF Events
    <3> QED BY <2>2, <3>8, <3>9, <3>12, <3>13 DEF Shadow!Admissible, Shadow!Active
  <2>5. Seq[e] = 0 \/ Seq[e] # 0
    OBVIOUS
  <2> QED BY <2>3, <2>4, <2>5
<1> QED BY <1>1, RebuildInvariance, PTL

(* A rebuild settles no manifest and records no event, so the store with a *)
(* rebuild still implements the abstract ledger (rebuildProjection).       *)
THEOREM RebuildKeepsLedger == RebuildSpec => ImplementsLedger
<1>1. RebuildInit => Ledger!Init
  BY LedgerStarts DEF RebuildInit
<1>2. RebuildInv /\ [RebuildNext]_<<storeVars, rebuildVars>> => [Ledger!Next]_disposition
  <2> SUFFICES ASSUME RebuildInv, [RebuildNext]_<<storeVars, rebuildVars>>
               PROVE  [Ledger!Next]_disposition
    OBVIOUS
  <2>1. CASE StoreNext
    BY <2>1, LedgerSteps DEF RebuildInv
  <2>2. CASE UNCHANGED disposition
    BY <2>2
  <2> QED BY <2>1, <2>2 DEF RebuildNext, LoadDurableRawEventLedger, ReplayOnShadow,
                            EndWithoutApplying, RebuildProjection, storeVars
<1> QED BY <1>1, <1>2, RebuildInvariance, PTL DEF RebuildSpec, ImplementsLedger, Ledger!Spec
=============================================================================
