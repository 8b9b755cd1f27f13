----------------------- MODULE ProjectionStore_proofs -----------------------
(***************************************************************************)
(* Proofs about the projection store, for every finalized history: what it *)
(* holds is determined by its ledger, whatever its callers ask of it, and  *)
(* the ledger is the abstract one.                                         *)
(*                                                                         *)
(* ServedProfile is not inductive by itself: that a promotion serves the   *)
(* right profile depends on the pointer, and that the pointer is the last  *)
(* profile event depends on events being recorded in order.                *)
(***************************************************************************)
EXTENDS ProjectionStore, TLAPS

\* The recorded events of an identity are those up to its last event.
LedgerPrefix ==
    /\ \A i \in Identities : lastEvent[i] # 0 => Actor[lastEvent[i]] = i
    /\ \A e \in Events : Recorded(e) <=> e <= lastEvent[Actor[e]]

\* The pointer of an identity is its last recorded profile event.
ProfilePointer ==
    \A i \in Identities :
        /\ latestProfile[i] # 0 =>
               IsProfileOf(latestProfile[i], i) /\ Recorded(latestProfile[i])
        /\ \A e \in Events : IsProfileOf(e, i) /\ Recorded(e) => e <= latestProfile[i]

\* What is served is what the pointer names, once that is accepted.
PointerServed ==
    \A i \in Identities :
        profile[i] = IF latestProfile[i] # 0 /\ disposition[latestProfile[i]] = "accepted"
                     THEN latestProfile[i] ELSE 0

StoreInv ==
    /\ StoreTypeOK
    /\ LedgerPrefix
    /\ ProfilePointer
    /\ PointerServed
    /\ PublishedPosts
    /\ RetryState

-----------------------------------------------------------------------------

(* An admissible event that is not recorded comes right after the recorded *)
(* events of its identity.  (#validateIdentityLifecycle)                   *)
LEMMA AdmissibleIsNext ==
    ASSUME StoreTypeOK, LedgerPrefix, NEW e \in Events, ~Recorded(e), Admissible(e),
           NEW f \in Events, Actor[f] = Actor[e]
    PROVE  f < e <=> Recorded(f)
<1> DEFINE last == lastEvent[Actor[e]]
<1>1. /\ e \in Nat \ {0} /\ f \in Nat \ {0}
      /\ Actor[e] \in Identities
      /\ Seq[e] \in Nat /\ Seq[f] \in Nat
  BY HistoryShape DEF Events
<1>2. last \in 0..NumEvents
  BY <1>1 DEF StoreTypeOK
<1>3. last < e
  BY <1>1, <1>2, HistoryShape DEF LedgerPrefix
<1>4. Recorded(f) <=> f <= last
  BY DEF LedgerPrefix
<1>5. CASE Kind[e] = "create"
  <2>1. Seq[e] = 0
    BY <1>5, HistoryOrder
  <2>2. ~(f < e)
    BY <2>1, <1>1, HistoryOrder
  <2>3. last = 0
    <3>1. SUFFICES ASSUME last # 0 PROVE FALSE
      OBVIOUS
    <3>2. last \in Events /\ Actor[last] = Actor[e]
      <4>1. last \in Events
        BY <3>1, <1>2, HistoryShape DEF Events
      <4> QED BY <3>1, <1>1, <4>1 DEF LedgerPrefix
    <3>3. Seq[last] < Seq[e] /\ Seq[last] \in Nat
      BY <3>2, <1>3, HistoryOrder, HistoryShape
    <3> QED BY <3>3, <2>1
  <2> QED BY <2>2, <2>3, <1>1, <1>4
<1>6. CASE Kind[e] # "create"
  <2>1. last # 0 /\ Seq[e] = Seq[last] + 1
    BY <1>6 DEF Admissible, Active
  <2>2. last \in Events /\ Actor[last] = Actor[e]
    BY <2>1, <1>1, <1>2, HistoryShape DEF LedgerPrefix, Events
  <2>3. Seq[last] \in Nat
    BY <2>2, HistoryShape
  <2>4. f < e => Seq[f] < Seq[e]
    BY HistoryOrder
  <2>5. last < f => Seq[last] < Seq[f]
    BY <2>2, HistoryOrder
  <2> QED BY <2>1, <2>3, <2>4, <2>5, <1>1, <1>2, <1>3, <1>4, HistoryShape
<1> QED BY <1>5, <1>6

(* An insertion keeps the ledger a prefix.                                 *)
LEMMA InsertKeepsPrefix ==
    ASSUME StoreTypeOK, LedgerPrefix, NEW e \in Events,
           NEW d \in Dispositions \ {"absent"}, Insert(e, d)
    PROVE  /\ LedgerPrefix'
           /\ disposition' \in [Events -> Dispositions]
           /\ lastEvent' \in [Identities -> 0..NumEvents]
           /\ checkpoint' \in Nat \cup {-1}
           /\ \A f \in Events : Recorded(f)' <=> (f = e \/ Recorded(f))
<1>1. /\ ~Recorded(e) /\ Admissible(e)
      /\ disposition' = [disposition EXCEPT ![e] = d]
      /\ lastEvent' = [lastEvent EXCEPT ![Actor[e]] = e]
      /\ checkpoint' = Later(Slot[e])
  BY DEF Insert
<1>2. e \in 0..NumEvents /\ Actor[e] \in Identities /\ Slot[e] \in Nat
  BY HistoryShape DEF Events
<1>3. /\ disposition' \in [Events -> Dispositions]
      /\ lastEvent' \in [Identities -> 0..NumEvents]
      /\ checkpoint' \in Nat \cup {-1}
  BY <1>1, <1>2 DEF StoreTypeOK, Later
<1>4. \A f \in Events : Recorded(f)' <=> (f = e \/ Recorded(f))
  BY <1>1 DEF Recorded, StoreTypeOK
<1>5. ASSUME NEW i \in Identities, lastEvent'[i] # 0 PROVE Actor[lastEvent'[i]] = i
  BY <1>1, <1>2, <1>5 DEF LedgerPrefix, StoreTypeOK
<1>6. ASSUME NEW f \in Events PROVE Recorded(f)' <=> f <= lastEvent'[Actor[f]]
  <2>1. CASE Actor[f] # Actor[e]
    BY <2>1, <1>1, <1>2, <1>4 DEF LedgerPrefix, StoreTypeOK
  <2>2. CASE Actor[f] = Actor[e]
    <3>1. f < e <=> Recorded(f)
      BY <2>2, <1>1, AdmissibleIsNext
    <3>2. lastEvent'[Actor[f]] = e
      BY <2>2, <1>1, <1>2 DEF StoreTypeOK
    <3> QED BY <3>1, <3>2, <1>4 DEF Events
  <2> QED BY <2>1, <2>2
<1> QED BY <1>3, <1>4, <1>5, <1>6 DEF LedgerPrefix

(* An insertion moves the profile pointer along, and serves what it serves *)
(* if the profile inserted is accepted.                                    *)
LEMMA InsertMovesPointer ==
    ASSUME StoreInv, NEW e \in Events, NEW d \in Dispositions \ {"absent"},
           Insert(e, d), PointProfileAt(e, d)
    PROVE  /\ ProfilePointer'
           /\ PointerServed'
           /\ latestProfile' \in [Identities -> 0..NumEvents]
           /\ profile' \in [Identities -> 0..NumEvents]
<1>1. /\ StoreTypeOK /\ LedgerPrefix /\ ProfilePointer /\ PointerServed
      /\ ~Recorded(e) /\ Admissible(e)
      /\ disposition' = [disposition EXCEPT ![e] = d]
  BY DEF StoreInv, Insert
<1>2. e \in 0..NumEvents /\ e # 0 /\ Actor[e] \in Identities
  BY HistoryShape DEF Events
<1>3. /\ latestProfile' \in [Identities -> 0..NumEvents]
      /\ profile' \in [Identities -> 0..NumEvents]
  BY <1>1, <1>2, HistoryShape DEF StoreTypeOK, PointProfileAt
<1>4. \A f \in Events : Recorded(f)' <=> (f = e \/ Recorded(f))
  BY <1>1, InsertKeepsPrefix
<1>5. ASSUME NEW i \in Identities, IsProfileOf(e, i)
      PROVE  /\ latestProfile'[i] = e
             /\ profile'[i] = IF d = "accepted" THEN e ELSE 0
             /\ disposition'[e] = d
  BY <1>1, <1>5 DEF PointProfileAt, IsProfileOf, StoreTypeOK
<1>6. ASSUME NEW i \in Identities, ~IsProfileOf(e, i)
      PROVE  latestProfile'[i] = latestProfile[i] /\ profile'[i] = profile[i]
  BY <1>1, <1>2, <1>6 DEF PointProfileAt, IsProfileOf, StoreTypeOK
<1>7. ASSUME NEW i \in Identities
      PROVE  /\ latestProfile'[i] # 0 =>
                    /\ IsProfileOf(latestProfile'[i], i)
                    /\ disposition'[latestProfile'[i]] # "absent"
             /\ \A f \in Events : IsProfileOf(f, i) /\ Recorded(f)'
                                    => f <= latestProfile'[i]
  <2>1. CASE IsProfileOf(e, i)
    <3>1. latestProfile'[i] = e
      BY <2>1, <1>5
    <3>2. ASSUME NEW f \in Events, IsProfileOf(f, i), Recorded(f)' PROVE f <= e
      <4>1. CASE f = e
        BY <4>1, <1>2
      <4>2. CASE f # e
        <5>1. Recorded(f) /\ Actor[f] = Actor[e]
          BY <3>2, <4>2, <2>1, <1>4 DEF IsProfileOf
        <5>2. f < e
          BY <5>1, <1>1, AdmissibleIsNext
        <5> QED BY <5>2, <1>2 DEF Events
      <4> QED BY <4>1, <4>2
    <3> QED BY <3>1, <3>2, <2>1, <1>4 DEF Recorded
  <2>2. CASE ~IsProfileOf(e, i)
    <3>1. latestProfile'[i] = latestProfile[i]
      BY <2>2, <1>6
    <3>2. latestProfile[i] # 0 => latestProfile[i] \in Events
      BY <1>1, HistoryShape DEF StoreTypeOK, Events
    <3> QED BY <3>1, <3>2, <2>2, <1>1, <1>4 DEF ProfilePointer, Recorded
  <2> QED BY <2>1, <2>2
<1>8. ASSUME NEW i \in Identities
      PROVE  profile'[i] =
               IF latestProfile'[i] # 0 /\ disposition'[latestProfile'[i]] = "accepted"
               THEN latestProfile'[i] ELSE 0
  <2>1. CASE IsProfileOf(e, i)
    BY <2>1, <1>2, <1>5
  <2>2. CASE ~IsProfileOf(e, i)
    <3>1. latestProfile[i] # e
      BY <1>1, <1>2 DEF ProfilePointer
    <3>2. latestProfile[i] # 0 => latestProfile[i] \in Events
      BY <1>1, HistoryShape DEF StoreTypeOK, Events
    <3>3. latestProfile[i] # 0 => disposition'[latestProfile[i]] = disposition[latestProfile[i]]
      BY <3>1, <3>2, <1>1 DEF StoreTypeOK
    <3> QED BY <2>2, <3>3, <1>1, <1>6 DEF PointerServed
  <2> QED BY <2>1, <2>2
<1> QED BY <1>3, <1>7, <1>8 DEF ProfilePointer, PointerServed, Recorded

(* Which posts the ledger holds a tombstone for, after an insertion.       *)
LEMMA TombstonesAfterInsert ==
    ASSUME StoreInv, NEW e \in Events, NEW d \in Dispositions \ {"absent"}, Insert(e, d)
    PROVE  /\ \A f \in Events : LaterTombstone(f)' <=>
                  (LaterTombstone(f) \/ (Kind[e] = "tombstone" /\ Target[e] = f))
           /\ ~LaterTombstone(e)
<1>1. StoreTypeOK /\ LedgerPrefix /\ ~Recorded(e) /\ Admissible(e)
  BY DEF StoreInv, Insert
<1>2. \A f \in Events : Recorded(f)' <=> (f = e \/ Recorded(f))
  BY <1>1, InsertKeepsPrefix
<1>3. Kind[e] = "tombstone" => Target[e] < e
  BY HistoryOrder
<1>4. ASSUME NEW t \in Events, Recorded(t), Kind[t] = "tombstone", Target[t] = e, e < t
      PROVE  FALSE
  <2>1. Actor[t] = Actor[e]
    BY <1>4, HistoryOrder
  <2>2. t < e
    BY <2>1, <1>1, <1>4, AdmissibleIsNext
  <2> QED BY <2>2, <1>4 DEF Events
<1> QED BY <1>2, <1>3, <1>4 DEF LaterTombstone

LEMMA ApplyKeepsPosts ==
    ASSUME StoreInv, NEW e \in Events, Apply(e)
    PROVE  PublishedPosts' /\ post' \in [Events -> {"absent", "live", "tombstoned"}]
<1>1. /\ StoreTypeOK /\ PublishedPosts
      /\ Insert(e, "accepted")
      /\ disposition' = [disposition EXCEPT ![e] = "accepted"]
      /\ disposition[e] = "absent"
  BY DEF StoreInv, Apply, Insert, Recorded
<1>2. /\ \A f \in Events : LaterTombstone(f)' <=>
             (LaterTombstone(f) \/ (Kind[e] = "tombstone" /\ Target[e] = f))
      /\ ~LaterTombstone(e)
  BY <1>1, TombstonesAfterInsert DEF Dispositions
<1>3. post' = CASE Kind[e] = "post"      -> [post EXCEPT ![e] = "live"]
                [] Kind[e] = "tombstone" -> Tombstone(e)
                [] OTHER                 -> post
  BY DEF Apply
<1>4. Kind[e] = "tombstone" => Target[e] \in Events /\ Kind[Target[e]] = "post"
  BY HistoryOrder
<1>5. CASE Kind[e] = "post"
  <2>1. post' = [post EXCEPT ![e] = "live"]
    BY <1>3, <1>5
  <2> QED BY <2>1, <1>1, <1>2, <1>5 DEF PublishedPosts, StoreTypeOK
<1>6. CASE Kind[e] = "tombstone"
  <2>1. post' = Tombstone(e)
    BY <1>3, <1>6
  <2> QED BY <2>1, <1>1, <1>2, <1>4, <1>6 DEF PublishedPosts, StoreTypeOK, Tombstone
<1>7. CASE Kind[e] \notin {"post", "tombstone"}
  <2>1. post' = post
    BY <1>3, <1>7
  <2> QED BY <2>1, <1>1, <1>2, <1>7 DEF PublishedPosts, StoreTypeOK
<1> QED BY <1>5, <1>6, <1>7

LEMMA QuarantineKeepsPosts ==
    ASSUME StoreInv, NEW e \in Events, QuarantineManifestEvent(e)
    PROVE  PublishedPosts' /\ post' \in [Events -> {"absent", "live", "tombstoned"}]
<1>1. /\ StoreTypeOK /\ PublishedPosts
      /\ Insert(e, "terminal")
      /\ disposition' = [disposition EXCEPT ![e] = "terminal"]
      /\ disposition[e] = "absent"
      /\ post' = IF Kind[e] = "tombstone" THEN Tombstone(e) ELSE post
  BY DEF StoreInv, QuarantineManifestEvent, Insert, Recorded
<1>2. \A f \in Events : LaterTombstone(f)' <=>
          (LaterTombstone(f) \/ (Kind[e] = "tombstone" /\ Target[e] = f))
  BY <1>1, TombstonesAfterInsert DEF Dispositions
<1>3. Kind[e] = "tombstone" => Target[e] \in Events /\ Kind[Target[e]] = "post"
  BY HistoryOrder
<1> QED BY <1>1, <1>2, <1>3 DEF PublishedPosts, StoreTypeOK, Tombstone

LEMMA DeferKeepsPosts ==
    ASSUME StoreInv, NEW e \in Events, DeferManifestEvent(e)
    PROVE  PublishedPosts' /\ post' \in [Events -> {"absent", "live", "tombstoned"}]
<1>1. /\ StoreTypeOK /\ PublishedPosts
      /\ Insert(e, "pending")
      /\ disposition' = [disposition EXCEPT ![e] = "pending"]
      /\ disposition[e] = "absent"
      /\ Kind[e] # "tombstone"
      /\ post' = post
  BY DEF StoreInv, DeferManifestEvent, Insert, Recorded, BearsManifest
<1>2. \A f \in Events : LaterTombstone(f)' <=> LaterTombstone(f)
  BY <1>1, TombstonesAfterInsert DEF Dispositions
<1> QED BY <1>1, <1>2 DEF PublishedPosts, StoreTypeOK

(* A settlement of a pending manifest leaves the ledger's order alone.     *)
LEMMA SettlementKeepsOrder ==
    ASSUME StoreInv, NEW e \in Events, disposition[e] = "pending",
           NEW d \in {"accepted", "terminal"},
           disposition' = [disposition EXCEPT ![e] = d],
           UNCHANGED <<checkpoint, lastEvent, latestProfile>>
    PROVE  /\ disposition' \in [Events -> Dispositions]
           /\ \A f \in Events : Recorded(f)' <=> Recorded(f)
           /\ \A f \in Events : LaterTombstone(f)' <=> LaterTombstone(f)
           /\ LedgerPrefix'
           /\ ProfilePointer'
<1>1. StoreTypeOK /\ LedgerPrefix /\ ProfilePointer
  BY DEF StoreInv
<1>2. disposition' \in [Events -> Dispositions]
  BY <1>1 DEF StoreTypeOK, Dispositions
<1>3. \A f \in Events : Recorded(f)' <=> Recorded(f)
  BY <1>1 DEF StoreTypeOK, Recorded
<1>4. \A f \in Events : LaterTombstone(f)' <=> LaterTombstone(f)
  BY <1>3 DEF LaterTombstone
<1>5. LedgerPrefix'
  BY <1>1, <1>3 DEF LedgerPrefix
<1>6. ASSUME NEW i \in Identities, latestProfile[i] # 0
      PROVE  disposition'[latestProfile[i]] # "absent"
  <2>1. latestProfile[i] \in Events
    BY <1>1, <1>6, HistoryShape DEF StoreTypeOK, Events
  <2>2. disposition[latestProfile[i]] # "absent"
    BY <1>1, <1>6 DEF ProfilePointer, Recorded
  <2> QED BY <2>1, <2>2, <1>3 DEF Recorded
<1>7. ProfilePointer'
  BY <1>1, <1>3, <1>6 DEF ProfilePointer, Recorded
<1> QED BY <1>2, <1>3, <1>4, <1>5, <1>7

(* The store invariant is inductive.                                       *)
LEMMA StoreInvInit == StoreInit => StoreInv
<1> SUFFICES ASSUME StoreInit PROVE StoreInv
  OBVIOUS
<1>1. StoreTypeOK
  BY HistoryShape DEF StoreInit, StoreTypeOK, Dispositions, Retries
<1>2. \A e \in Events : ~Recorded(e) /\ Actor[e] \in Identities /\ ~(e <= 0)
  BY HistoryShape DEF StoreInit, Recorded, Events
<1>3. LedgerPrefix /\ ProfilePointer
  BY <1>2 DEF StoreInit, LedgerPrefix, ProfilePointer
<1>4. PointerServed /\ PublishedPosts /\ RetryState
  BY DEF StoreInit, PointerServed, PublishedPosts, RetryState
<1> QED BY <1>1, <1>3, <1>4 DEF StoreInv

LEMMA StoreInvStep == StoreInv /\ [StoreNext]_storeVars => StoreInv'
<1> SUFFICES ASSUME StoreInv, [StoreNext]_storeVars PROVE StoreInv'
  OBVIOUS
<1>0. /\ StoreTypeOK /\ LedgerPrefix /\ ProfilePointer
      /\ PointerServed /\ PublishedPosts /\ RetryState
  BY DEF StoreInv
<1>1. ASSUME NEW e \in Events, Apply(e) PROVE StoreInv'
  <2>1. Insert(e, "accepted") /\ PointProfileAt(e, "accepted") /\ deadLetter' = deadLetter
    BY <1>1 DEF Apply
  <2>2. "accepted" \in Dispositions \ {"absent"}
    BY DEF Dispositions
  <2>3. /\ LedgerPrefix'
        /\ disposition' \in [Events -> Dispositions]
        /\ lastEvent' \in [Identities -> 0..NumEvents]
        /\ checkpoint' \in Nat \cup {-1}
    BY <1>0, <2>1, <2>2, InsertKeepsPrefix
  <2>4. /\ ProfilePointer' /\ PointerServed'
        /\ latestProfile' \in [Identities -> 0..NumEvents]
        /\ profile' \in [Identities -> 0..NumEvents]
    BY <2>1, <2>2, InsertMovesPointer
  <2>5. PublishedPosts' /\ post' \in [Events -> {"absent", "live", "tombstoned"}]
    BY <1>1, ApplyKeepsPosts
  <2>6. StoreTypeOK'
    BY <1>0, <2>1, <2>3, <2>4, <2>5 DEF StoreTypeOK
  <2>7. RetryState'
    BY <1>0, <2>1 DEF RetryState, Insert, Recorded, StoreTypeOK
  <2> QED BY <2>3, <2>4, <2>5, <2>6, <2>7 DEF StoreInv
<1>2. ASSUME NEW e \in Events, DeferManifestEvent(e) PROVE StoreInv'
  <2>1. /\ Insert(e, "pending") /\ PointProfileAt(e, "pending")
        /\ deadLetter' = [deadLetter EXCEPT ![e] = "waiting"]
    BY <1>2 DEF DeferManifestEvent
  <2>2. "pending" \in Dispositions \ {"absent"}
    BY DEF Dispositions
  <2>3. /\ LedgerPrefix'
        /\ disposition' \in [Events -> Dispositions]
        /\ lastEvent' \in [Identities -> 0..NumEvents]
        /\ checkpoint' \in Nat \cup {-1}
    BY <1>0, <2>1, <2>2, InsertKeepsPrefix
  <2>4. /\ ProfilePointer' /\ PointerServed'
        /\ latestProfile' \in [Identities -> 0..NumEvents]
        /\ profile' \in [Identities -> 0..NumEvents]
    BY <2>1, <2>2, InsertMovesPointer
  <2>5. PublishedPosts' /\ post' \in [Events -> {"absent", "live", "tombstoned"}]
    BY <1>2, DeferKeepsPosts
  <2>6. StoreTypeOK'
    BY <1>0, <2>1, <2>3, <2>4, <2>5 DEF StoreTypeOK, Retries
  <2>7. RetryState'
    BY <1>0, <2>1 DEF RetryState, Insert, Recorded, StoreTypeOK
  <2> QED BY <2>3, <2>4, <2>5, <2>6, <2>7 DEF StoreInv
<1>3. ASSUME NEW e \in Events, QuarantineManifestEvent(e) PROVE StoreInv'
  <2>1. /\ Insert(e, "terminal") /\ PointProfileAt(e, "terminal")
        /\ deadLetter' = [deadLetter EXCEPT ![e] = "terminal"]
    BY <1>3 DEF QuarantineManifestEvent
  <2>2. "terminal" \in Dispositions \ {"absent"}
    BY DEF Dispositions
  <2>3. /\ LedgerPrefix'
        /\ disposition' \in [Events -> Dispositions]
        /\ lastEvent' \in [Identities -> 0..NumEvents]
        /\ checkpoint' \in Nat \cup {-1}
    BY <1>0, <2>1, <2>2, InsertKeepsPrefix
  <2>4. /\ ProfilePointer' /\ PointerServed'
        /\ latestProfile' \in [Identities -> 0..NumEvents]
        /\ profile' \in [Identities -> 0..NumEvents]
    BY <2>1, <2>2, InsertMovesPointer
  <2>5. PublishedPosts' /\ post' \in [Events -> {"absent", "live", "tombstoned"}]
    BY <1>3, QuarantineKeepsPosts
  <2>6. StoreTypeOK'
    BY <1>0, <2>1, <2>3, <2>4, <2>5 DEF StoreTypeOK, Retries
  <2>7. RetryState'
    BY <1>0, <2>1 DEF RetryState, Insert, Recorded, StoreTypeOK
  <2> QED BY <2>3, <2>4, <2>5, <2>6, <2>7 DEF StoreInv
<1>4. ASSUME NEW e \in Events, PromoteManifestEvent(e) PROVE StoreInv'
  <2>1. /\ disposition[e] = "pending"
        /\ disposition' = [disposition EXCEPT ![e] = "accepted"]
        /\ profile' = IF PromotesProfile(e)
                      THEN [profile EXCEPT ![Actor[e]] = e]
                      ELSE profile
        /\ post' = IF Kind[e] = "post"
                   THEN [post EXCEPT ![e] = PromotedPost(e)]
                   ELSE post
        /\ deadLetter' = [deadLetter EXCEPT ![e] = IF @ = "terminal" THEN @ ELSE "none"]
        /\ UNCHANGED <<checkpoint, lastEvent, latestProfile>>
    BY <1>4 DEF PromoteManifestEvent
  <2>2. /\ disposition' \in [Events -> Dispositions]
        /\ \A f \in Events : LaterTombstone(f)' <=> LaterTombstone(f)
        /\ LedgerPrefix' /\ ProfilePointer'
    BY <2>1, SettlementKeepsOrder
  <2>3. e \in 0..NumEvents /\ e # 0 /\ Actor[e] \in Identities
    BY HistoryShape DEF Events
  <2>4. StoreTypeOK'
    BY <1>0, <2>1, <2>2, <2>3 DEF StoreTypeOK, Retries, PromotedPost
  <2>5. ASSUME NEW i \in Identities
        PROVE  profile'[i] =
                 IF latestProfile[i] # 0 /\ disposition'[latestProfile[i]] = "accepted"
                 THEN latestProfile[i] ELSE 0
    <3>1. CASE latestProfile[i] = e
      <4>1. Kind[e] = "profile" /\ Actor[e] = i
        BY <3>1, <2>3, <1>0 DEF ProfilePointer, IsProfileOf
      <4> QED BY <3>1, <4>1, <2>1, <2>3, <1>0 DEF StoreTypeOK, PromotesProfile
    <3>2. CASE latestProfile[i] # e
      <4>1. profile'[i] = profile[i]
        BY <3>2, <2>1, <2>3, <1>0 DEF StoreTypeOK, PromotesProfile
      <4>2. latestProfile[i] # 0 => latestProfile[i] \in Events
        BY <1>0, HistoryShape DEF StoreTypeOK, Events
      <4>3. latestProfile[i] # 0 =>
                disposition'[latestProfile[i]] = disposition[latestProfile[i]]
        BY <3>2, <4>2, <2>1, <1>0 DEF StoreTypeOK
      <4> QED BY <4>1, <4>3, <1>0 DEF PointerServed
    <3> QED BY <3>1, <3>2
  <2>6. PointerServed'
    BY <2>1, <2>5 DEF PointerServed
  <2>7. PublishedPosts'
    BY <1>0, <2>1, <2>2 DEF PublishedPosts, StoreTypeOK, PromotedPost
  <2>8. RetryState'
    BY <1>0, <2>1 DEF RetryState, StoreTypeOK
  <2> QED BY <2>2, <2>4, <2>6, <2>7, <2>8 DEF StoreInv
<1>5. ASSUME NEW e \in Events, RejectPendingManifestEvent(e) PROVE StoreInv'
  <2>1. /\ disposition[e] = "pending"
        /\ disposition' = [disposition EXCEPT ![e] = "terminal"]
        /\ deadLetter' = [deadLetter EXCEPT ![e] = "terminal"]
        /\ UNCHANGED <<checkpoint, lastEvent, latestProfile, profile, post>>
    BY <1>5 DEF RejectPendingManifestEvent
  <2>2. /\ disposition' \in [Events -> Dispositions]
        /\ \A f \in Events : LaterTombstone(f)' <=> LaterTombstone(f)
        /\ LedgerPrefix' /\ ProfilePointer'
    BY <2>1, SettlementKeepsOrder
  <2>3. StoreTypeOK'
    BY <1>0, <2>1, <2>2 DEF StoreTypeOK, Retries
  <2>4. ASSUME NEW i \in Identities, latestProfile[i] # 0
        PROVE  disposition'[latestProfile[i]] = "accepted"
                 <=> disposition[latestProfile[i]] = "accepted"
    <3>1. latestProfile[i] \in Events
      BY <2>4, <1>0, HistoryShape DEF StoreTypeOK, Events
    <3> QED BY <3>1, <2>1, <1>0 DEF StoreTypeOK
  <2>5. PointerServed'
    BY <2>1, <2>4, <1>0 DEF PointerServed
  <2>6. PublishedPosts'
    BY <1>0, <2>1, <2>2 DEF PublishedPosts, StoreTypeOK
  <2>7. RetryState'
    BY <1>0, <2>1 DEF RetryState, StoreTypeOK
  <2> QED BY <2>2, <2>3, <2>5, <2>6, <2>7 DEF StoreInv
<1>6. ASSUME UNCHANGED <<disposition, lastEvent, latestProfile, profile, post>>,
             checkpoint' \in Nat \cup {-1},
             deadLetter' \in [Events -> Retries], RetryState'
      PROVE  StoreInv'
  <2>1. \A f \in Events : Recorded(f)' <=> Recorded(f)
    BY <1>6 DEF Recorded
  <2>2. \A f \in Events : LaterTombstone(f)' <=> LaterTombstone(f)
    BY <2>1 DEF LaterTombstone
  <2>3. StoreTypeOK'
    BY <1>0, <1>6 DEF StoreTypeOK
  <2>4. LedgerPrefix' /\ ProfilePointer' /\ PointerServed'
    BY <1>0, <1>6 DEF LedgerPrefix, ProfilePointer, PointerServed, Recorded
  <2>5. PublishedPosts'
    BY <1>0, <1>6, <2>2 DEF PublishedPosts
  <2> QED BY <2>3, <2>4, <2>5, <1>6 DEF StoreInv
<1>7. ASSUME NEW e \in Events, ReschedulePendingManifestEvent(e) PROVE StoreInv'
  <2>1. deadLetter' \in [Events -> Retries] /\ RetryState' /\ checkpoint' \in Nat \cup {-1}
    BY <1>0, <1>7 DEF ReschedulePendingManifestEvent, RetryState, StoreTypeOK, Retries
  <2> QED BY <2>1, <1>6, <1>7 DEF ReschedulePendingManifestEvent
<1>8. ASSUME NEW e \in Events, RecordDeadLetter(e) PROVE StoreInv'
  <2>1. deadLetter' \in [Events -> Retries] /\ RetryState' /\ checkpoint' \in Nat \cup {-1}
    BY <1>0, <1>8 DEF RecordDeadLetter, RetryState, StoreTypeOK, Retries
  <2> QED BY <2>1, <1>6, <1>8 DEF RecordDeadLetter
<1>9. ASSUME NEW e \in Events, ResolveDeadLetter(e) PROVE StoreInv'
  <2>1. deadLetter' \in [Events -> Retries] /\ RetryState' /\ checkpoint' \in Nat \cup {-1}
    BY <1>0, <1>9 DEF ResolveDeadLetter, Resolvable, RetryState, StoreTypeOK, Retries
  <2> QED BY <2>1, <1>6, <1>9 DEF ResolveDeadLetter
<1>10. ASSUME NEW e \in Events, AttemptComesDue(e) PROVE StoreInv'
  <2>1. deadLetter' \in [Events -> Retries] /\ RetryState' /\ checkpoint' \in Nat \cup {-1}
    BY <1>0, <1>10 DEF AttemptComesDue, RetryState, StoreTypeOK, Retries
  <2> QED BY <2>1, <1>6, <1>10 DEF AttemptComesDue
<1>11. ASSUME NEW s \in 0..FinalSlot, AdvanceCheckpoint(s) PROVE StoreInv'
  <2>1. checkpoint' \in Nat \cup {-1}
    BY <1>0, <1>11, HistoryShape DEF AdvanceCheckpoint, Later, StoreTypeOK
  <2>2. deadLetter' \in [Events -> Retries] /\ RetryState'
    BY <1>0, <1>11 DEF AdvanceCheckpoint, StoreTypeOK, RetryState
  <2> QED BY <2>1, <2>2, <1>6, <1>11 DEF AdvanceCheckpoint
<1>12. CASE UNCHANGED storeVars
  <2>1. /\ deadLetter' \in [Events -> Retries] /\ RetryState'
        /\ checkpoint' \in Nat \cup {-1}
    BY <1>0, <1>12 DEF storeVars, StoreTypeOK, RetryState
  <2> QED BY <2>1, <1>6, <1>12 DEF storeVars
<1> QED BY <1>1, <1>2, <1>3, <1>4, <1>5, <1>7, <1>8, <1>9, <1>10, <1>11, <1>12
        DEF StoreNext

(* Whatever its callers ask, the store keeps its type, serves the profile  *)
(* of the last profile event, publishes exactly the accepted posts without *)
(* a tombstone, and keeps retries and dispositions consistent.             *)
THEOREM StoreInvariance == StoreSpec => []StoreInv
<1> QED BY StoreInvInit, StoreInvStep, PTL DEF StoreSpec

(* The type of the store's variables (the maps of MemoryProjectionStore).  *)
THEOREM StoreTypeCorrect == StoreSpec => []StoreTypeOK
<1>1. StoreInv => StoreTypeOK
  BY DEF StoreInv
<1> QED BY <1>1, StoreInvariance, PTL

\* What the last profile event points to is what is served.
LEMMA ServedFromPointer == StoreInv => ServedProfile
<1> SUFFICES ASSUME StoreInv PROVE ServedProfile
  OBVIOUS
<1>0. StoreTypeOK /\ ProfilePointer /\ PointerServed
  BY DEF StoreInv
<1> SUFFICES ASSUME NEW i \in Identities
             PROVE  /\ profile[i] # 0 => IsProfileOf(profile[i], i)
                    /\ \A e \in Events : IsProfileOf(e, i) =>
                          (profile[i] = e <=>
                              /\ disposition[e] = "accepted"
                              /\ \A f \in Events : IsProfileOf(f, i) /\ Recorded(f)
                                                     => f <= e)
  BY DEF ServedProfile
<1>1. profile[i] # 0 => IsProfileOf(profile[i], i)
  BY <1>0 DEF PointerServed, ProfilePointer
<1>2. ASSUME NEW e \in Events, IsProfileOf(e, i), profile[i] = e
      PROVE  /\ disposition[e] = "accepted"
             /\ \A f \in Events : IsProfileOf(f, i) /\ Recorded(f) => f <= e
  <2>1. e # 0
    BY DEF Events
  <2> QED BY <2>1, <1>0, <1>2 DEF PointerServed, ProfilePointer
<1>3. ASSUME NEW e \in Events, IsProfileOf(e, i), disposition[e] = "accepted",
             \A f \in Events : IsProfileOf(f, i) /\ Recorded(f) => f <= e
      PROVE  profile[i] = e
  <2>1. Recorded(e) /\ e <= latestProfile[i]
    BY <1>0, <1>3 DEF Recorded, ProfilePointer
  <2>2. latestProfile[i] \in Events
    BY <2>1, <1>0, HistoryShape DEF Events, StoreTypeOK
  <2>3. latestProfile[i] <= e
    BY <2>2, <1>0, <1>3 DEF ProfilePointer, Events
  <2>4. latestProfile[i] = e
    BY <2>1, <2>2, <2>3 DEF Events
  <2> QED BY <2>4, <2>2, <1>0, <1>3 DEF PointerServed, Events
<1> QED BY <1>1, <1>2, <1>3

(* The served profile is the one of the identity's last profile event.     *)
(* (apply, deferManifestEvent, promoteManifestEvent, quarantine)           *)
THEOREM ServedProfileCorrect == StoreSpec => []ServedProfile
<1> QED BY ServedFromPointer, StoreInvariance, PTL

(* A post is public exactly while its manifest is accepted and the ledger  *)
(* holds no tombstone for it, in whatever order the two were ingested.     *)
THEOREM PublishedPostsCorrect == StoreSpec => []PublishedPosts
<1>1. StoreInv => PublishedPosts
  BY DEF StoreInv
<1> QED BY <1>1, StoreInvariance, PTL

(* A pending manifest always has a retryable dead letter, and a dead       *)
(* letter is terminal exactly for a terminal manifest.                     *)
THEOREM RetryStateCorrect == StoreSpec => []RetryState
<1>1. StoreInv => RetryState
  BY DEF StoreInv
<1> QED BY <1>1, StoreInvariance, PTL

-----------------------------------------------------------------------------

LEMMA LedgerStarts == StoreInit => Ledger!Init
  BY DEF StoreInit, Ledger!Init

(* An insertion is a Record of the abstract ledger, a promotion or a       *)
(* rejection a Settle, and everything else leaves it alone.                *)
LEMMA LedgerSteps == StoreInv /\ [StoreNext]_storeVars => [Ledger!Next]_disposition
<1> SUFFICES ASSUME StoreInv, [StoreNext]_storeVars
             PROVE  [Ledger!Next]_disposition
  OBVIOUS
<1>0. StoreTypeOK /\ LedgerPrefix
  BY DEF StoreInv
<1>1. ASSUME NEW e \in Events, NEW d \in {"accepted", "pending", "terminal"}, Insert(e, d)
      PROVE  Ledger!Record(e, d)
  <2>1. \A f \in Events : f < e /\ Actor[f] = Actor[e] => Recorded(f)
    BY <1>0, <1>1, AdmissibleIsNext DEF Insert
  <2> QED BY <2>1, <1>1 DEF Ledger!Record, Insert, Recorded
<1>2. ASSUME NEW e \in Events, Apply(e) PROVE Ledger!Next
  BY <1>1, <1>2 DEF Apply, Ledger!Next
<1>3. ASSUME NEW e \in Events, DeferManifestEvent(e) PROVE Ledger!Next
  BY <1>1, <1>3 DEF DeferManifestEvent, Ledger!Next
<1>4. ASSUME NEW e \in Events, QuarantineManifestEvent(e) PROVE Ledger!Next
  BY <1>1, <1>4 DEF QuarantineManifestEvent, Ledger!Next
<1>5. ASSUME NEW e \in Events, PromoteManifestEvent(e) PROVE Ledger!Next
  BY <1>5 DEF PromoteManifestEvent, Ledger!Next, Ledger!Settle
<1>6. ASSUME NEW e \in Events, RejectPendingManifestEvent(e) PROVE Ledger!Next
  BY <1>6 DEF RejectPendingManifestEvent, Ledger!Next, Ledger!Settle
<1>7. ASSUME NEW e \in Events,
             \/ ReschedulePendingManifestEvent(e)
             \/ RecordDeadLetter(e)
             \/ ResolveDeadLetter(e)
             \/ AttemptComesDue(e)
      PROVE  disposition' = disposition
  BY <1>7 DEF ReschedulePendingManifestEvent, RecordDeadLetter, ResolveDeadLetter,
              AttemptComesDue
<1>8. ASSUME NEW s \in 0..FinalSlot, AdvanceCheckpoint(s)
      PROVE  disposition' = disposition
  BY <1>8 DEF AdvanceCheckpoint
<1>9. CASE UNCHANGED storeVars
  BY <1>9 DEF storeVars
<1> QED BY <1>2, <1>3, <1>4, <1>5, <1>6, <1>7, <1>8, <1>9 DEF StoreNext

(* The store implements the abstract ledger.                               *)
THEOREM StoreImplementsLedger == StoreSpec => ImplementsLedger
<1> QED BY LedgerStarts, LedgerSteps, StoreInvariance, PTL
        DEF StoreSpec, ImplementsLedger, Ledger!Spec
=============================================================================
