--------------------------- MODULE ProjectionStore --------------------------
(***************************************************************************)
(* The indexer's projection store: the raw-event ledger with the           *)
(* disposition of every manifest, the retry records (dead letters), the    *)
(* finalized checkpoint and the public projection of profiles and posts.   *)
(*                                                                         *)
(* Each operation of the store runs under a lock on its network (a promise *)
(* chain in MemoryProjectionStore, an advisory transaction lock in         *)
(* PostgresProjectionStore), so each is one action here.  The store does   *)
(* not choose the order its callers use: StoreNext lets any caller ask for *)
(* any operation on any event at any time, and what the store refuses, by  *)
(* throwing or by returning false, is an action that is not enabled.       *)
(***************************************************************************)
EXTENDS FinalizedHistory

Dispositions == {"absent", "accepted", "pending", "terminal"}

(* A dead letter with a next attempt is "waiting" until that time has      *)
(* come and "due" afterwards; one with a terminal failure code is          *)
(* "terminal".                                                             *)
Retries == {"none", "waiting", "due", "terminal"}

VARIABLES
    disposition,     \* #events, #pendingManifestEvents, #terminalManifestFailures
    deadLetter,      \* #deadLetters at the coordinate of an event
    checkpoint,      \* #checkpoints; -1 when the network has none
    lastEvent,       \* #identities, #identitySequencePositions: the last event
                     \* that advanced an identity; 0 when it is not indexed
    latestProfile,   \* #latestProfileManifestEvents; 0 when none
    profile,         \* #profiles: the event whose profile is served; 0 when none
    post             \* #posts, at the event that published the post

storeVars == <<disposition, deadLetter, checkpoint, lastEvent,
               latestProfile, profile, post>>

StoreTypeOK ==
    /\ disposition \in [Events -> Dispositions]
    /\ deadLetter \in [Events -> Retries]
    /\ checkpoint \in Nat \cup {-1}
    /\ lastEvent \in [Identities -> 0..NumEvents]
    /\ latestProfile \in [Identities -> 0..NumEvents]
    /\ profile \in [Identities -> 0..NumEvents]
    /\ post \in [Events -> {"absent", "live", "tombstoned"}]

StoreInit ==
    /\ disposition = [e \in Events |-> "absent"]
    /\ deadLetter = [e \in Events |-> "none"]
    /\ checkpoint = -1
    /\ lastEvent = [i \in Identities |-> 0]
    /\ latestProfile = [i \in Identities |-> 0]
    /\ profile = [i \in Identities |-> 0]
    /\ post = [e \in Events |-> "absent"]

-----------------------------------------------------------------------------

Recorded(e) == disposition[e] # "absent"

\* The events whose manifest must be fetched before they are projected.
BearsManifest(e) == Kind[e] \in {"profile", "post"}

Active(i) == lastEvent[i] # 0 /\ Kind[lastEvent[i]] # "deactivate"

\* Mutant: only the position of the event is checked, not its sequence.
AdmissibleInAnyOrder(e) ==
    Kind[e] = "create" \/ (Active(Actor[e]) /\ lastEvent[Actor[e]] < e)

(* #validateIdentityLifecycle: the identity is indexed and active and the  *)
(* event is its exact next sequence at a later position.                   *)
Admissible(e) ==
    \/ Kind[e] = "create"
    \/ /\ Active(Actor[e])
       /\ Seq[e] = Seq[lastEvent[Actor[e]]] + 1
       /\ lastEvent[Actor[e]] < e

Later(s) == IF s > checkpoint THEN s ELSE checkpoint

\* What every operation that inserts a raw event has in common.
Insert(e, d) ==
    /\ ~Recorded(e)
    /\ Admissible(e)
    /\ disposition' = [disposition EXCEPT ![e] = d]
    /\ lastEvent' = [lastEvent EXCEPT ![Actor[e]] = e]
    /\ checkpoint' = Later(Slot[e])

\* Mutant: what is not served is marked as a missing checkpoint is.
PointProfileAtMinusOne(e, d) ==
    IF Kind[e] = "profile"
    THEN /\ latestProfile' = [latestProfile EXCEPT ![Actor[e]] = e]
         /\ profile' = [profile EXCEPT ![Actor[e]] = IF d = "accepted" THEN e ELSE -1]
    ELSE UNCHANGED <<latestProfile, profile>>

\* The profile pointer moves to e, which is served if it is accepted.
PointProfileAt(e, d) ==
    IF Kind[e] = "profile"
    THEN /\ latestProfile' = [latestProfile EXCEPT ![Actor[e]] = e]
         /\ profile' = [profile EXCEPT ![Actor[e]] = IF d = "accepted" THEN e ELSE 0]
    ELSE UNCHANGED <<latestProfile, profile>>

\* A tombstone hides the post it names, if that post is projected.
Tombstone(e) ==
    [post EXCEPT ![Target[e]] = IF @ = "absent" THEN @ ELSE "tombstoned"]

Apply(e) ==
    /\ Insert(e, "accepted")
    /\ PointProfileAt(e, "accepted")
    /\ post' = CASE Kind[e] = "post"      -> [post EXCEPT ![e] = "live"]
                 [] Kind[e] = "tombstone" -> Tombstone(e)
                 [] OTHER                 -> post
    /\ UNCHANGED deadLetter

DeferManifestEvent(e) ==
    /\ BearsManifest(e)
    /\ deadLetter[e] # "terminal"
    /\ Insert(e, "pending")
    /\ PointProfileAt(e, "pending")
    /\ deadLetter' = [deadLetter EXCEPT ![e] = "waiting"]
    /\ UNCHANGED post

QuarantineManifestEvent(e) ==
    /\ BearsManifest(e) \/ Kind[e] = "tombstone"
    /\ Insert(e, "terminal")
    /\ PointProfileAt(e, "terminal")
    /\ post' = IF Kind[e] = "tombstone" THEN Tombstone(e) ELSE post
    /\ deadLetter' = [deadLetter EXCEPT ![e] = "terminal"]

\* #laterTombstoneAt: the ledger holds a tombstone of the post e publishes.
LaterTombstone(e) ==
    \E t \in Events : Recorded(t) /\ Kind[t] = "tombstone" /\ Target[t] = e /\ e < t

\* Mutant: a hydrated profile is served even if a later one superseded it.
PromotesAnyProfile(e) == Kind[e] = "profile"

\* A profile that is hydrated late is served only if it is still the last one.
PromotesProfile(e) == Kind[e] = "profile" /\ latestProfile[Actor[e]] = e

\* Mutant: a hydrated post is live, though it was tombstoned meanwhile.
PromotedPostIsLive(e) == "live"

\* A post that is hydrated late is born hidden if it was tombstoned meanwhile.
PromotedPost(e) == IF LaterTombstone(e) THEN "tombstoned" ELSE "live"

PromoteManifestEvent(e) ==
    /\ disposition[e] = "pending"
    /\ disposition' = [disposition EXCEPT ![e] = "accepted"]
    /\ profile' = IF PromotesProfile(e)
                  THEN [profile EXCEPT ![Actor[e]] = e]
                  ELSE profile
    /\ post' = IF Kind[e] = "post"
               THEN [post EXCEPT ![e] = PromotedPost(e)]
               ELSE post
    /\ deadLetter' = [deadLetter EXCEPT ![e] = IF @ = "terminal" THEN @ ELSE "none"]
    /\ UNCHANGED <<checkpoint, lastEvent, latestProfile>>

RejectPendingManifestEvent(e) ==
    /\ disposition[e] = "pending"
    /\ disposition' = [disposition EXCEPT ![e] = "terminal"]
    /\ deadLetter' = [deadLetter EXCEPT ![e] = "terminal"]
    /\ UNCHANGED <<checkpoint, lastEvent, latestProfile, profile, post>>

ReschedulePendingManifestEvent(e) ==
    /\ disposition[e] = "pending"
    /\ deadLetter[e] \in {"waiting", "due"}
    /\ deadLetter' = [deadLetter EXCEPT ![e] = "waiting"]
    /\ UNCHANGED <<disposition, checkpoint, lastEvent, latestProfile, profile, post>>

RecordDeadLetter(e) ==
    /\ disposition[e] # "pending"
    /\ deadLetter[e] # "terminal"
    /\ deadLetter' = [deadLetter EXCEPT ![e] = "waiting"]
    /\ UNCHANGED <<disposition, checkpoint, lastEvent, latestProfile, profile, post>>

\* Mutant: the dead letter of a pending manifest is resolved too.
ResolvableIfPending(e) == deadLetter[e] # "terminal"

Resolvable(e) == disposition[e] # "pending" /\ deadLetter[e] # "terminal"

ResolveDeadLetter(e) ==
    /\ deadLetter' = [deadLetter EXCEPT ![e] = IF Resolvable(e) THEN "none" ELSE @]
    /\ UNCHANGED <<disposition, checkpoint, lastEvent, latestProfile, profile, post>>

AdvanceCheckpoint(s) ==
    /\ checkpoint' = Later(s)
    /\ UNCHANGED <<disposition, deadLetter, lastEvent, latestProfile, profile, post>>

\* The next attempt of a retryable dead letter comes due.
AttemptComesDue(e) ==
    /\ deadLetter[e] = "waiting"
    /\ deadLetter' = [deadLetter EXCEPT ![e] = "due"]
    /\ UNCHANGED <<disposition, checkpoint, lastEvent, latestProfile, profile, post>>

StoreNext ==
    \/ \E e \in Events :
          \/ Apply(e)
          \/ DeferManifestEvent(e)
          \/ QuarantineManifestEvent(e)
          \/ PromoteManifestEvent(e)
          \/ RejectPendingManifestEvent(e)
          \/ ReschedulePendingManifestEvent(e)
          \/ RecordDeadLetter(e)
          \/ ResolveDeadLetter(e)
          \/ AttemptComesDue(e)
    \/ \E s \in 0..FinalSlot : AdvanceCheckpoint(s)

StoreSpec == StoreInit /\ [][StoreNext]_storeVars

-----------------------------------------------------------------------------
(***************************************************************************)
(* Properties.                                                             *)
(***************************************************************************)

IsProfileOf(e, i) == Kind[e] = "profile" /\ Actor[e] = i

(* The profile served for an identity is the one its last profile event    *)
(* points to, if its bytes are verified; while they are pending or         *)
(* rejected nothing is served, and a manifest that is hydrated late never  *)
(* brings back a superseded profile.  (apply, deferManifestEvent,          *)
(* promoteManifestEvent, quarantineManifestEvent in any order.)            *)
ServedProfile ==
    \A i \in Identities :
        /\ profile[i] # 0 => IsProfileOf(profile[i], i)
        /\ \A e \in Events : IsProfileOf(e, i) =>
              (profile[i] = e <=>
                  /\ disposition[e] = "accepted"
                  /\ \A f \in Events : IsProfileOf(f, i) /\ Recorded(f) => f <= e)

(* A post is public (app.ts answers 404 to the others) exactly while its   *)
(* manifest is accepted and the ledger holds no tombstone for it, even if  *)
(* the tombstone was ingested while the bytes of the post were missing.    *)
PublishedPosts ==
    \A e \in Events :
        /\ post[e] = "live" <=>
               Kind[e] = "post" /\ disposition[e] = "accepted" /\ ~LaterTombstone(e)
        /\ post[e] # "absent" => Kind[e] = "post" /\ disposition[e] = "accepted"

(* The retry metadata and the disposition never disagree, for which        *)
(* duePendingManifestEvents and reschedulePendingManifestEvent would throw *)
(* on every later poll: a pending manifest has a retryable dead letter and *)
(* a dead letter is terminal exactly for a terminal manifest.              *)
RetryState ==
    \A e \in Events :
        /\ disposition[e] = "pending" => deadLetter[e] \in {"waiting", "due"}
        /\ disposition[e] = "terminal" <=> deadLetter[e] = "terminal"

(* Every history of the store is one of the abstract ledger: dispositions  *)
(* are immutable but for one settlement of a pending manifest, and the     *)
(* events of an identity are recorded in chain order without a gap.        *)
Ledger == INSTANCE ManifestLedger

ImplementsLedger == Ledger!Spec
=============================================================================
