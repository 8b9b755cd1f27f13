--------------------- MODULE AuthorityProjection_proofs ---------------------
(***************************************************************************)
(* Proofs about the indexer's projection of an identity, for every set of  *)
(* keys, policies and requests and a delayed command: no event is refused, *)
(* the projection agrees with the accounts on whose signature counts, and  *)
(* what it answers of a past position never changes.                       *)
(*                                                                         *)
(* The argument is a relation between the projection and the accounts: the *)
(* fields that both keep are equal, and the positions only the projection  *)
(* keeps grow with the sequence.  That the projection can do without the   *)
(* root a delegation was issued by rests on EpochRoot: in one rotation     *)
(* count the identity has one root.                                        *)
(***************************************************************************)
EXTENDS AuthorityProjection, Identity_proofs

Positions == 0 .. identity.sequence

IdentityMirrored ==
    /\ ~refused
    /\ known = identity
    /\ deactivatedAt \in Positions
    /\ identity.active <=> deactivatedAt = 0

RootRecords == [authority : Keys, rotations : Nat, at : Nat]

RootsMirrored ==
    /\ roots \in Seq(RootRecords)
    /\ Len(roots) # 0
    /\ \A i \in DOMAIN roots : roots[i].at \in Positions
    /\ \A i, j \in DOMAIN roots : i < j => roots[i].at < roots[j].at
    /\ roots[Len(roots)].authority = identity.root
    /\ roots[Len(roots)].rotations = identity.rotations

GrantMirrors(grant, delegation) ==
    /\ grant = [delegate |-> delegation.delegate, scopes |-> delegation.scopes,
                expires |-> delegation.expires, rotations |-> delegation.rotations,
                created |-> grant.created, revoked |-> grant.revoked]
    /\ grant.created \in Positions
    /\ grant.revoked \in Positions
    /\ delegation.active <=> grant.revoked = 0

GrantsMirrored ==
    /\ grants = [i \in DOMAIN delegations |-> grants[i]]
    /\ \A i \in DOMAIN delegations : GrantMirrors(grants[i], delegations[i])

EpochRoot ==
    \A i \in DOMAIN delegations :
        delegations[i].rotations = identity.rotations => delegations[i].root = identity.root

PolicyMirrored ==
    /\ recovery = [sequence |-> policy.sequence, at |-> recovery.at, active |-> policy.active,
                   guardians |-> policy.guardians, threshold |-> policy.threshold,
                   delay |-> policy.delay]
    /\ recovery.at \in Positions

RecoveryRecords ==
    [state : {"absent", "pending", "executed", "cancelled"}, policy : Nat, root : Keys,
     sequence : Nat, rotations : Nat, target : Keys, guardians : Seq(Keys), threshold : Nat,
     approvals : SUBSET (1 .. MaxGuardians), count : Nat, executeAfter : Nat, terminal : Nat]

RecoveryMirrors(r, request) ==
    /\ r.state = request.state
    /\ r.sequence \in Positions
    /\ r.terminal \in Positions
    /\ request.state # "absent" =>
         /\ r.policy = request.policy
         /\ r.root = request.root
         /\ r.sequence = request.sequence
         /\ r.rotations = request.rotations
         /\ r.target = request.target
         /\ r.threshold = request.threshold
         /\ r.approvals = request.approvals
         /\ r.count = Cardinality(request.approvals)
         /\ r.executeAfter = request.executeAfter
         /\ request.policy <= policy.sequence
         /\ request.policy = policy.sequence => r.guardians = policy.guardians

RecoveriesMirrored ==
    /\ recoveries \in [Nonces -> RecoveryRecords]
    /\ \A n \in Nonces : RecoveryMirrors(recoveries[n], requests[n])

ProjectionInv ==
    /\ IdentityMirrored
    /\ RootsMirrored
    /\ GrantsMirrored
    /\ EpochRoot
    /\ PolicyMirrored
    /\ RecoveriesMirrored

(* What a step adds to the history: entries past the present position.     *)
Extends ==
    /\ DOMAIN roots \subseteq DOMAIN roots'
    /\ \A i \in DOMAIN roots : roots'[i] = roots[i]
    /\ \A i \in DOMAIN roots' \ DOMAIN roots : roots'[i].at > identity.sequence
    /\ deactivatedAt' = deactivatedAt \/ (deactivatedAt = 0 /\ deactivatedAt' > identity.sequence)
    /\ DOMAIN grants \subseteq DOMAIN grants'
    /\ \A i \in DOMAIN grants :
         \/ grants'[i] = grants[i]
         \/ /\ grants[i].revoked = 0 /\ grants'[i].revoked = identity.sequence + 1
            /\ grants'[i].delegate = grants[i].delegate
            /\ grants'[i].scopes = grants[i].scopes
            /\ grants'[i].expires = grants[i].expires
            /\ grants'[i].rotations = grants[i].rotations
            /\ grants'[i].created = grants[i].created
    /\ \A i \in DOMAIN grants' \ DOMAIN grants : grants'[i].created > identity.sequence

Projected == ProjectionInv' /\ Extends

-----------------------------------------------------------------------------
(* The numbers and keys the accounts hold.                                 *)
LEMMA AccountTypes ==
    ASSUME IdentityInv
    PROVE  /\ identity \in IdentityRecords
           /\ identity.root \in Keys
           /\ identity.rotations \in Nat
           /\ identity.sequence \in Nat
           /\ identity.active \in BOOLEAN
           /\ delegations \in Seq(DelegationRecords)
           /\ policy \in PolicyRecords
           /\ policy.sequence \in Nat
           /\ requests \in [Nonces -> RequestRecords]
           /\ slot \in Nat
BY BoundsAssumption DEF IdentityInv, TypeOK, IdentityRecords, PolicyRecords

(* No sequence concerning recovery is past the present one.                *)
LEMMA RecoveriesOlder ==
    ASSUME IdentityInv, ProjectionInv, NEW s \in RecoverySequences
    PROVE  s \in Positions
BY DEF RecoverySequences, ProjectionInv, PolicyMirrored, RecoveriesMirrored, RecoveryMirrors

LEMMA AdvancePast ==
    ASSUME IdentityInv, ProjectionInv, identity.active, NEW x, x = identity.sequence + 1
    PROVE  Advances(x) /\ \A s \in RecoverySequences : x > s
<1>1. identity.sequence \in Nat
  BY AccountTypes
<1>2. Advances(x)
  BY <1>1 DEF Advances, ProjectionInv, IdentityMirrored
<1> QED BY <1>1, <1>2, RecoveriesOlder DEF Positions

-----------------------------------------------------------------------------
(* The parts of the relation that a command leaves alone.                  *)
LEMMA RootsStay ==
    ASSUME IdentityInv, RootsMirrored, roots' = roots,
           identity'.root = identity.root, identity'.rotations = identity.rotations,
           identity'.sequence \in Nat, identity'.sequence >= identity.sequence
    PROVE  RootsMirrored'
<1>1. Positions \subseteq Positions'
  BY AccountTypes DEF Positions
<1> QED BY <1>1 DEF RootsMirrored

LEMMA GrantsStay ==
    ASSUME IdentityInv, GrantsMirrored, grants' = grants, delegations' = delegations,
           identity'.sequence \in Nat, identity'.sequence >= identity.sequence
    PROVE  GrantsMirrored'
<1>1. Positions \subseteq Positions'
  BY AccountTypes DEF Positions
<1> QED BY <1>1 DEF GrantsMirrored, GrantMirrors

LEMMA EpochStays ==
    ASSUME EpochRoot, delegations' = delegations,
           identity'.root = identity.root, identity'.rotations = identity.rotations
    PROVE  EpochRoot'
BY DEF EpochRoot

(* A new epoch has no delegation yet.                                      *)
LEMMA EpochStarts ==
    ASSUME IdentityInv, delegations' = delegations,
           identity'.rotations = identity.rotations + 1
    PROVE  EpochRoot'
<1>1. identity.rotations \in Nat
  BY AccountTypes
<1>2. ASSUME NEW i \in DOMAIN delegations PROVE delegations[i].rotations # identity'.rotations
  <2>1. delegations[i] \in DelegationRecords
    BY AccountTypes
  <2>2. delegations[i].rotations \in Nat
    BY <2>1 DEF DelegationRecords
  <2> QED BY <1>1, <2>2 DEF IdentityInv, DelegationInv
<1> QED BY <1>2 DEF EpochRoot

LEMMA PolicyStays ==
    ASSUME IdentityInv, PolicyMirrored, policy' = policy, recovery' = recovery,
           identity'.sequence \in Nat, identity'.sequence >= identity.sequence
    PROVE  PolicyMirrored'
<1>1. Positions \subseteq Positions'
  BY AccountTypes DEF Positions
<1> QED BY <1>1 DEF PolicyMirrored

LEMMA RecoveryStays ==
    ASSUME IdentityInv, NEW n \in Nonces, RecoveryMirrors(recoveries[n], requests[n]),
           recoveries'[n] = recoveries[n], requests'[n] = requests[n], policy' = policy,
           identity'.sequence \in Nat, identity'.sequence >= identity.sequence
    PROVE  RecoveryMirrors(recoveries[n], requests[n])'
<1>1. Positions \subseteq Positions'
  BY AccountTypes DEF Positions
<1> QED BY <1>1 DEF RecoveryMirrors

LEMMA RecoveriesStay ==
    ASSUME IdentityInv, RecoveriesMirrored, recoveries' = recoveries, requests' = requests,
           policy' = policy,
           identity'.sequence \in Nat, identity'.sequence >= identity.sequence
    PROVE  RecoveriesMirrored'
BY RecoveryStays DEF RecoveriesMirrored

(* What a command that advances the sequence and keeps the root leaves.    *)
LEMMA AdvanceMirrored ==
    ASSUME IdentityInv, ProjectionInv, identity.sequence < MaxSequence, identity.active,
           identity' = Advance(identity),
           ~refused', AdvanceTo(identity'.sequence),
           UNCHANGED <<roots, deactivatedAt>>
    PROVE  /\ IdentityMirrored' /\ RootsMirrored'
           /\ identity'.sequence \in Nat /\ identity'.sequence = identity.sequence + 1
           /\ identity'.root = identity.root /\ identity'.rotations = identity.rotations
<1>1. identity \in IdentityRecords /\ identity.sequence \in Nat
  BY AccountTypes
<1>2. /\ identity'.sequence = identity.sequence + 1
      /\ identity'.root = identity.root
      /\ identity'.rotations = identity.rotations
      /\ identity'.active = identity.active
  BY <1>1, AdvanceIdentity
<1>3. identity'.sequence \in Nat /\ identity'.sequence >= identity.sequence
  BY <1>1, <1>2
<1>4. known' = identity'
  <2>1. known = identity
    BY DEF ProjectionInv, IdentityMirrored
  <2> QED BY <1>1, <1>2, <2>1 DEF AdvanceTo, Advance, IdentityRecords
<1>5. IdentityMirrored'
  BY <1>1, <1>2, <1>3, <1>4 DEF ProjectionInv, IdentityMirrored, Positions
<1>6. RootsMirrored'
  BY <1>2, <1>3, RootsStay DEF ProjectionInv
<1> QED BY <1>2, <1>3, <1>5, <1>6

(* A history that does not change is extended.                             *)
LEMMA HistoryStays == ASSUME UNCHANGED <<roots, deactivatedAt, grants>> PROVE Extends
BY DEF Extends

(* post-published and tombstoned.                                          *)
LEMMA PostProjected ==
    ASSUME IdentityInv, ProjectionInv, identity.active, identity.sequence < MaxSequence,
           identity' = Advance(identity), UNCHANGED <<policy, requests, delegations>>,
           PostEvent(identity'.sequence)
    PROVE  Projected
<1>1. identity'.sequence = identity.sequence + 1
  BY AccountTypes, AdvanceIdentity
<1>2. Advances(identity'.sequence)
  BY <1>1, AdvancePast
<1>3. /\ ~refused' /\ AdvanceTo(identity'.sequence)
      /\ UNCHANGED <<roots, deactivatedAt, grants, recovery, recoveries>>
  BY <1>2 DEF PostEvent, Process
<1>4. /\ IdentityMirrored' /\ RootsMirrored'
      /\ identity'.sequence \in Nat /\ identity'.sequence >= identity.sequence
      /\ identity'.root = identity.root /\ identity'.rotations = identity.rotations
  BY <1>1, <1>3, AccountTypes, AdvanceMirrored
<1>5. GrantsMirrored' /\ EpochRoot' /\ PolicyMirrored' /\ RecoveriesMirrored'
  BY <1>3, <1>4, GrantsStay, EpochStays, PolicyStays, RecoveriesStay DEF ProjectionInv
<1> QED BY <1>3, <1>4, <1>5, HistoryStays DEF Projected, ProjectionInv
(* The rotation event, of a rotation or of a recovery.                     *)
LEMMA RotationMirrored ==
    ASSUME IdentityInv, ProjectionInv, identity.active, identity.sequence < MaxSequence,
           NEW k \in Keys,
           identity' = [Advance(identity) EXCEPT !.rotations = @ + 1, !.root = k],
           ~refused', RecordRotation(identity'.root, identity'.rotations, identity'.sequence),
           UNCHANGED <<delegations, deactivatedAt, grants>>
    PROVE  /\ IdentityMirrored' /\ RootsMirrored' /\ GrantsMirrored' /\ EpochRoot' /\ Extends
           /\ roots'[Len(roots')] = [authority |-> identity'.root,
                                     rotations |-> identity'.rotations,
                                     at |-> identity'.sequence]
<1> DEFINE e == [authority |-> identity'.root, rotations |-> identity'.rotations,
                 at |-> identity'.sequence]
<1>1. /\ identity \in IdentityRecords /\ identity.sequence \in Nat
      /\ identity.rotations \in Nat
  BY AccountTypes
<1>2. /\ identity' \in IdentityRecords
      /\ identity'.sequence = identity.sequence + 1
      /\ identity'.root = k
      /\ identity'.rotations = identity.rotations + 1
      /\ identity'.active = identity.active
  BY <1>1, RotatedIdentity
<1>3. /\ identity'.sequence \in Nat /\ identity'.sequence >= identity.sequence
      /\ Positions \subseteq Positions' /\ identity'.sequence \in Positions'
  BY <1>1, <1>2 DEF Positions
<1>4. known' = identity'
  <2>1. known = identity
    BY DEF ProjectionInv, IdentityMirrored
  <2> QED BY <1>1, <1>2, <2>1 DEF RecordRotation, IdentityRecords
<1>5. IdentityMirrored'
  BY <1>2, <1>3, <1>4 DEF ProjectionInv, IdentityMirrored
<1>6. /\ e \in RootRecords
      /\ e.authority = identity'.root /\ e.rotations = identity'.rotations
      /\ e.at = identity'.sequence
  BY <1>1, <1>2, <1>3 DEF RootRecords
<1>7. roots' = Append(roots, e) /\ roots \in Seq(RootRecords)
  BY DEF RecordRotation, ProjectionInv, RootsMirrored
<1> HIDE DEF e
<1>8. /\ roots' \in Seq(RootRecords) /\ Len(roots') = Len(roots) + 1
      /\ \A i \in DOMAIN roots : i \in DOMAIN roots' /\ roots'[i] = roots[i]
      /\ roots'[Len(roots')] = e
      /\ \A i \in DOMAIN roots' \ DOMAIN roots : i = Len(roots')
  BY <1>6, <1>7
<1>9. RootsMirrored'
  <2>1. /\ \A i \in DOMAIN roots : roots[i].at \in Positions
        /\ \A i, j \in DOMAIN roots : i < j => roots[i].at < roots[j].at
    BY DEF ProjectionInv, RootsMirrored
  <2>2. ASSUME NEW i \in DOMAIN roots' PROVE roots'[i].at \in Positions'
    BY <1>3, <1>6, <1>8, <2>1
  <2>3. ASSUME NEW i \in DOMAIN roots', NEW j \in DOMAIN roots', i < j
        PROVE  roots'[i].at < roots'[j].at
    <3>1. i \in DOMAIN roots
      BY <1>7, <1>8, <2>3
    <3>2. CASE j \in DOMAIN roots
      BY <1>8, <2>1, <2>3, <3>1, <3>2
    <3>3. CASE j \notin DOMAIN roots
      BY <1>1, <1>2, <1>6, <1>8, <2>1, <3>1, <3>3 DEF Positions
    <3> QED BY <3>2, <3>3
  <2>4. Len(roots') # 0
    BY <1>7, <1>8
  <2> QED BY <1>6, <1>8, <2>2, <2>3, <2>4 DEF RootsMirrored
<1>10. GrantsMirrored' /\ EpochRoot'
  BY <1>2, <1>3, GrantsStay, EpochStarts DEF ProjectionInv
<1>11. Extends
  BY <1>1, <1>2, <1>6, <1>8 DEF Extends
<1> QED BY <1>5, <1>8, <1>9, <1>10, <1>11 DEF e

LEMMA RotationAdmitted ==
    ASSUME IdentityInv, ProjectionInv, identity.active, identity.sequence < MaxSequence,
           NEW k \in Keys,
           identity' = [Advance(identity) EXCEPT !.rotations = @ + 1, !.root = k]
    PROVE  /\ RotationFits(identity.root, identity'.rotations, identity'.sequence)
           /\ identity'.sequence = identity.sequence + 1
           /\ identity'.rotations = identity.rotations + 1
           /\ identity'.root = k
           /\ identity'.active
<1>1. /\ identity'.sequence = identity.sequence + 1
      /\ identity'.rotations = identity.rotations + 1
      /\ identity'.root = k
      /\ identity'.active
  BY AccountTypes, RotatedIdentity
<1>2. Advances(identity'.sequence)
  BY <1>1, AdvancePast
<1>3. OfRoot(identity.root, identity'.rotations - 1)
  BY <1>1, AccountTypes DEF OfRoot, ProjectionInv, IdentityMirrored
<1> QED BY <1>1, <1>2, <1>3 DEF RotationFits

LEMMA RotateProjected ==
    ASSUME IdentityInv, ProjectionInv, NEW c \in Commands, c.op = "rotate",
           RotateRootAuthority(c), Emit(c)
    PROVE  Projected
<1>1. c.key \in Keys /\ identity.active /\ identity.sequence < MaxSequence
  BY CommandArguments DEF RotateRootAuthority, RootCommand, NextSequence
<1>2. /\ identity' = [Advance(identity) EXCEPT !.rotations = @ + 1, !.root = c.key]
      /\ UNCHANGED <<policy, requests, delegations>>
  BY DEF RotateRootAuthority
<1>3. /\ RotationFits(identity.root, identity'.rotations, identity'.sequence)
      /\ identity'.sequence = identity.sequence + 1
  BY <1>1, <1>2, RotationAdmitted
<1>4. RootAuthorityRotated(identity.root, identity'.root, identity'.rotations,
                           identity'.sequence)
  BY DEF Emit
<1>5. /\ ~refused' /\ RecordRotation(identity'.root, identity'.rotations, identity'.sequence)
      /\ UNCHANGED <<deactivatedAt, grants, recovery, recoveries>>
  BY <1>3, <1>4 DEF RootAuthorityRotated, Process
<1>6. IdentityMirrored' /\ RootsMirrored' /\ GrantsMirrored' /\ EpochRoot' /\ Extends
  BY <1>1, <1>2, <1>5, RotationMirrored
<1>7. identity'.sequence \in Nat /\ identity'.sequence >= identity.sequence
  BY <1>3, AccountTypes
<1>8. PolicyMirrored' /\ RecoveriesMirrored'
  BY <1>2, <1>5, <1>7, PolicyStays, RecoveriesStay DEF ProjectionInv
<1> QED BY <1>6, <1>8 DEF Projected, ProjectionInv

LEMMA DeactivateProjected ==
    ASSUME IdentityInv, ProjectionInv, NEW c \in Commands, c.op = "deactivate",
           DeactivateIdentity(c), Emit(c)
    PROVE  Projected
<1> DEFINE adv == Advance(identity)
<1>1. /\ identity.active /\ identity.sequence < MaxSequence
      /\ identity' = [adv EXCEPT !.active = FALSE]
      /\ UNCHANGED <<policy, requests, delegations>>
  BY DEF DeactivateIdentity, RootCommand, NextSequence
<1>2. /\ identity \in IdentityRecords /\ identity.sequence \in Nat
      /\ adv \in IdentityRecords
      /\ adv.sequence = identity.sequence + 1 /\ adv.root = identity.root
      /\ adv.rotations = identity.rotations
  BY <1>1, AccountTypes, AdvanceIdentity
<1> HIDE DEF adv
<1>3. /\ identity'.sequence = identity.sequence + 1 /\ identity'.root = identity.root
      /\ identity'.rotations = identity.rotations /\ identity'.active = FALSE
      /\ identity'.sequence \in Nat /\ identity'.sequence >= identity.sequence
      /\ identity' \in IdentityRecords
  <2>1. /\ adv \in IdentityRecords /\ identity' = [adv EXCEPT !.active = FALSE]
        /\ adv.sequence = identity.sequence + 1 /\ identity.sequence \in Nat
        /\ adv.root = identity.root /\ adv.rotations = identity.rotations
    BY <1>1, <1>2
  <2>2. /\ identity' \in IdentityRecords /\ identity'.active = FALSE
        /\ identity'.sequence = adv.sequence /\ identity'.root = adv.root
        /\ identity'.rotations = adv.rotations
    BY <2>1 DEF IdentityRecords
  <2> QED BY <2>1, <2>2
<1>4. Advances(identity'.sequence) /\ known.root = identity'.root
  BY <1>1, <1>3, AdvancePast DEF ProjectionInv, IdentityMirrored
<1>5. IdentityDeactivated(identity'.root, identity'.sequence)
  BY DEF Emit
<1>6. /\ ~refused'
      /\ known' = [known EXCEPT !.active = FALSE, !.sequence = identity'.sequence]
      /\ deactivatedAt' = identity'.sequence
      /\ UNCHANGED <<roots, grants, recovery, recoveries>>
  BY <1>4, <1>5 DEF IdentityDeactivated, Process
<1>7. known' = identity'
  <2>1. known = identity
    BY DEF ProjectionInv, IdentityMirrored
  <2> QED BY <1>2, <1>3, <1>6, <2>1 DEF IdentityRecords
<1>8. IdentityMirrored'
  BY <1>2, <1>3, <1>6, <1>7 DEF IdentityMirrored, Positions
<1>9. RootsMirrored' /\ GrantsMirrored' /\ EpochRoot' /\ PolicyMirrored' /\ RecoveriesMirrored'
  BY <1>1, <1>3, <1>6, RootsStay, GrantsStay, EpochStays, PolicyStays, RecoveriesStay
     DEF ProjectionInv
<1>10. Extends
  <2>1. deactivatedAt = 0 /\ deactivatedAt' > identity.sequence
    BY <1>1, <1>2, <1>3, <1>6 DEF ProjectionInv, IdentityMirrored
  <2> QED BY <1>6, <2>1 DEF Extends
<1> QED BY <1>8, <1>9, <1>10 DEF Projected, ProjectionInv
(* A grant mirrors its delegation also once the sequence has grown.        *)
LEMMA GrantStays ==
    ASSUME IdentityInv, identity'.sequence = identity.sequence + 1,
           NEW x, NEW d, GrantMirrors(x, d)
    PROVE  /\ x.created \in Positions' /\ x.revoked \in Positions'
           /\ x = [delegate |-> d.delegate, scopes |-> d.scopes, expires |-> d.expires,
                   rotations |-> d.rotations, created |-> x.created, revoked |-> x.revoked]
           /\ d.active <=> x.revoked = 0
BY AccountTypes DEF GrantMirrors, Positions

LEMMA DelegateProjected ==
    ASSUME IdentityInv, ProjectionInv, NEW c \in Commands, c.op = "delegate",
           CreateDelegation(c), Emit(c)
    PROVE  Projected
<1> DEFINE d == [delegate |-> c.delegate, scopes |-> c.terms.scopes, expires |-> c.terms.expires,
                 root |-> identity.root, rotations |-> identity.rotations, active |-> TRUE]
           x == [delegate |-> d.delegate, scopes |-> d.scopes, expires |-> d.expires,
                 rotations |-> d.rotations, created |-> identity'.sequence, revoked |-> 0]
<1>1. /\ identity.active /\ identity.sequence < MaxSequence
      /\ identity' = Advance(identity) /\ delegations' = Append(delegations, d)
      /\ UNCHANGED <<policy, requests>>
  BY DEF CreateDelegation, RootCommand, NextSequence
<1>2. /\ identity'.sequence = identity.sequence + 1 /\ identity.sequence \in Nat
      /\ identity'.root = identity.root /\ identity'.rotations = identity.rotations
  BY <1>1, AccountTypes, AdvanceIdentity
<1>3. d \in DelegationRecords
  <2>1. c.delegate \in Keys /\ c.terms \in GrantTerms
    BY CommandArguments, GrantsAssumption
  <2> QED BY <2>1, AccountTypes DEF GrantTerms, DelegationRecords
<1>4. /\ d.root = identity.root /\ d.rotations = identity.rotations /\ d.active = TRUE
  OBVIOUS
<1>5. /\ x = [delegate |-> d.delegate, scopes |-> d.scopes, expires |-> d.expires,
              rotations |-> d.rotations, created |-> x.created, revoked |-> x.revoked]
      /\ x.created = identity'.sequence /\ x.revoked = 0
  OBVIOUS
<1> HIDE DEF d
<1>n. PICK n : n = Len(delegations) + 1
  OBVIOUS
<1>6. /\ n \in DOMAIN delegations' /\ n \notin DOMAIN delegations
      /\ DOMAIN delegations' = DOMAIN delegations \cup {n}
      /\ delegations'[n] = d /\ Len(delegations') = n
      /\ \A i \in DOMAIN delegations : delegations'[i] = delegations[i]
  BY <1>n, <1>1, <1>3, AccountTypes
<1>7. DOMAIN grants = DOMAIN delegations
  BY DEF ProjectionInv, GrantsMirrored
<1>8. Advances(identity'.sequence) /\ known.rotations = d.rotations
  BY <1>1, <1>2, <1>4, AdvancePast DEF ProjectionInv, IdentityMirrored
<1>9. DelegationCreated(n, d.delegate, d, d.rotations, identity'.sequence)
  BY <1>6 DEF Emit
<1>10. /\ ~refused' /\ AdvanceTo(identity'.sequence)
       /\ grants' = [i \in DOMAIN grants \cup {n} |-> IF i = n THEN x ELSE grants[i]]
       /\ UNCHANGED <<roots, deactivatedAt, recovery, recoveries>>
  BY <1>6, <1>7, <1>8, <1>9 DEF DelegationCreated, Process
<1> HIDE DEF x
<1>11. /\ DOMAIN grants' = DOMAIN delegations' /\ grants'[n] = x
       /\ \A i \in DOMAIN delegations : grants'[i] = grants[i]
       /\ grants' = [i \in DOMAIN delegations' |-> grants'[i]]
  BY <1>6, <1>7, <1>10
<1>12. /\ IdentityMirrored' /\ RootsMirrored'
       /\ identity'.sequence \in Nat /\ identity'.sequence >= identity.sequence
  BY <1>1, <1>2, <1>10, AdvanceMirrored
<1>13. GrantsMirrored'
  <2>1. ASSUME NEW i \in DOMAIN delegations PROVE GrantMirrors(grants[i], delegations[i])'
    <3>1. GrantMirrors(grants[i], delegations[i])
      BY DEF ProjectionInv, GrantsMirrored
    <3> QED BY <1>2, <1>6, <1>11, <3>1, GrantStays DEF GrantMirrors
  <2>2. GrantMirrors(grants[n], delegations[n])'
    BY <1>2, <1>4, <1>5, <1>6, <1>11 DEF GrantMirrors, Positions
  <2> QED BY <1>6, <1>11, <2>1, <2>2 DEF GrantsMirrored
<1>14. EpochRoot'
  BY <1>2, <1>4, <1>6 DEF ProjectionInv, EpochRoot
<1>15. PolicyMirrored' /\ RecoveriesMirrored'
  BY <1>1, <1>10, <1>12, PolicyStays, RecoveriesStay DEF ProjectionInv
<1>16. Extends
  BY <1>2, <1>5, <1>6, <1>7, <1>10, <1>11 DEF Extends
<1> QED BY <1>12, <1>13, <1>14, <1>15, <1>16 DEF Projected, ProjectionInv

LEMMA RevokeProjected ==
    ASSUME IdentityInv, ProjectionInv, NEW c \in Commands, c.op = "revoke",
           RevokeDelegation(c), Emit(c)
    PROVE  Projected
<1> DEFINE n == c.delegation
<1>1. /\ identity.active /\ identity.sequence < MaxSequence
      /\ identity' = Advance(identity)
      /\ n \in DOMAIN delegations /\ delegations[n].active
      /\ delegations' = [delegations EXCEPT ![n].active = FALSE]
      /\ UNCHANGED <<policy, requests>>
  BY DEF RevokeDelegation, RootCommand, NextSequence
<1>2. /\ identity'.sequence = identity.sequence + 1 /\ identity.sequence \in Nat
      /\ identity'.root = identity.root /\ identity'.rotations = identity.rotations
  BY <1>1, AccountTypes, AdvanceIdentity
<1>3. /\ DOMAIN delegations' = DOMAIN delegations
      /\ \A i \in DOMAIN delegations : i # n => delegations'[i] = delegations[i]
      /\ delegations'[n].active = FALSE
      /\ delegations'[n].delegate = delegations[n].delegate
      /\ delegations'[n].scopes = delegations[n].scopes
      /\ delegations'[n].expires = delegations[n].expires
      /\ delegations'[n].rotations = delegations[n].rotations
      /\ delegations'[n].root = delegations[n].root
  <2>1. delegations \in Seq(DelegationRecords) /\ delegations[n] \in DelegationRecords
    BY <1>1, AccountTypes
  <2> QED BY <1>1, <2>1 DEF DelegationRecords
<1>4. DOMAIN grants = DOMAIN delegations
  BY DEF ProjectionInv, GrantsMirrored
<1>5. GrantMirrors(grants[n], delegations[n])
  BY <1>1 DEF ProjectionInv, GrantsMirrored
<1>6. grants[n].revoked = 0 /\ grants[n].delegate = delegations'[n].delegate
  BY <1>1, <1>3, <1>5 DEF GrantMirrors
<1>7. Advances(identity'.sequence)
  BY <1>1, <1>2, AdvancePast
<1>8. DelegationRevoked(n, delegations'[n].delegate, identity'.sequence)
  BY DEF Emit
<1>9. /\ ~refused' /\ AdvanceTo(identity'.sequence)
      /\ grants' = [grants EXCEPT ![n].revoked = identity'.sequence]
      /\ UNCHANGED <<roots, deactivatedAt, recovery, recoveries>>
  BY <1>1, <1>4, <1>6, <1>7, <1>8 DEF DelegationRevoked, Process
<1> HIDE DEF n
<1>10. /\ DOMAIN grants' = DOMAIN delegations'
       /\ \A i \in DOMAIN delegations : i # n => grants'[i] = grants[i]
       /\ grants'[n] = [grants[n] EXCEPT !.revoked = identity'.sequence]
       /\ grants' = [i \in DOMAIN delegations' |-> grants'[i]]
  BY <1>1, <1>3, <1>4, <1>9
<1>11. /\ IdentityMirrored' /\ RootsMirrored'
       /\ identity'.sequence \in Nat /\ identity'.sequence >= identity.sequence
  BY <1>1, <1>2, <1>9, AdvanceMirrored
<1>12. grants'[n] =
          [delegate |-> delegations[n].delegate, scopes |-> delegations[n].scopes,
           expires |-> delegations[n].expires, rotations |-> delegations[n].rotations,
           created |-> grants[n].created, revoked |-> identity'.sequence]
  BY <1>5, <1>10 DEF GrantMirrors
<1>13. GrantsMirrored'
  <2>1. ASSUME NEW i \in DOMAIN delegations, i # n
        PROVE  GrantMirrors(grants[i], delegations[i])'
    <3>1. GrantMirrors(grants[i], delegations[i])
      BY DEF ProjectionInv, GrantsMirrored
    <3> QED BY <1>2, <1>3, <1>10, <2>1, <3>1, GrantStays DEF GrantMirrors
  <2>2. grants[n].created \in Positions' /\ identity'.sequence \in Positions'
    BY <1>2, <1>5, <1>11, GrantStays DEF Positions
  <2>3. identity'.sequence # 0
    BY <1>2
  <2>4. GrantMirrors(grants[n], delegations[n])'
    BY <1>3, <1>12, <2>2, <2>3 DEF GrantMirrors
  <2> QED BY <1>1, <1>3, <1>10, <2>1, <2>4 DEF GrantsMirrored
<1>14. EpochRoot'
  BY <1>2, <1>3 DEF ProjectionInv, EpochRoot
<1>15. PolicyMirrored' /\ RecoveriesMirrored'
  BY <1>1, <1>9, <1>11, PolicyStays, RecoveriesStay DEF ProjectionInv
<1>16. Extends
  <2>1. /\ grants'[n].revoked = identity.sequence + 1
        /\ grants'[n].delegate = grants[n].delegate /\ grants'[n].scopes = grants[n].scopes
        /\ grants'[n].expires = grants[n].expires
        /\ grants'[n].rotations = grants[n].rotations
        /\ grants'[n].created = grants[n].created
    BY <1>2, <1>5, <1>12 DEF GrantMirrors
  <2> QED BY <1>3, <1>4, <1>6, <1>9, <1>10, <2>1 DEF Extends
<1> QED BY <1>11, <1>13, <1>14, <1>15, <1>16 DEF Projected, ProjectionInv
(* Requests were made under this policy or an earlier one, so a new one    *)
(* leaves what is known of them.                                           *)
LEMMA PolicyAdvances ==
    ASSUME IdentityInv, RecoveriesMirrored, recoveries' = recoveries, requests' = requests,
           policy'.sequence = policy.sequence + 1,
           identity'.sequence = identity.sequence + 1
    PROVE  RecoveriesMirrored'
<1>1. identity.sequence \in Nat /\ policy.sequence \in Nat
  BY AccountTypes
<1>2. Positions \subseteq Positions'
  BY <1>1 DEF Positions
<1>3. ASSUME NEW n \in Nonces PROVE RecoveryMirrors(recoveries[n], requests[n])'
  <2>1. requests[n] \in RequestRecords
    BY AccountTypes
  <2>2. requests[n].policy \in Nat
    BY <2>1 DEF RequestRecords
  <2>3. RecoveryMirrors(recoveries[n], requests[n])
    BY DEF RecoveriesMirrored
  <2>4. /\ requests[n].state # "absent" => requests[n].policy <= policy.sequence
        /\ policy.sequence < policy'.sequence
    BY <1>1, <2>3 DEF RecoveryMirrors
  <2> QED BY <1>1, <1>2, <2>2, <2>3, <2>4 DEF RecoveryMirrors
<1> QED BY <1>3 DEF RecoveriesMirrored

LEMMA ConfigureProjected ==
    ASSUME IdentityInv, ProjectionInv, NEW c \in Commands, c.op = "configure",
           ConfigureRecoveryPolicy(c), Emit(c)
    PROVE  Projected
<1>1. /\ identity.active /\ identity.sequence < MaxSequence
      /\ identity' = Advance(identity)
      /\ policy' = [sequence |-> policy.sequence + 1, active |-> TRUE,
                    guardians |-> c.policy.guardians, threshold |-> c.policy.threshold,
                    delay |-> c.policy.delay]
      /\ UNCHANGED <<requests, delegations>>
  BY DEF ConfigureRecoveryPolicy, RootCommand, NextSequence
<1>2. /\ identity'.sequence = identity.sequence + 1 /\ identity.sequence \in Nat
      /\ identity'.root = identity.root /\ identity'.rotations = identity.rotations
  BY <1>1, AccountTypes, AdvanceIdentity
<1>3. /\ Advances(identity'.sequence) /\ OfRoot(identity'.root, identity'.rotations)
      /\ \A s \in RecoverySequences : identity'.sequence > s
  BY <1>1, <1>2, AdvancePast DEF OfRoot, ProjectionInv, IdentityMirrored
<1>4. policy'.sequence = recovery.sequence + 1
  BY <1>1 DEF ProjectionInv, PolicyMirrored
<1>5. RecoveryPolicyConfigured(identity'.root, identity'.rotations, policy',
                               policy'.sequence, identity'.sequence)
  BY DEF Emit
<1>6. /\ ~refused' /\ AdvanceTo(identity'.sequence)
      /\ recovery' = [sequence |-> policy'.sequence, at |-> identity'.sequence, active |-> TRUE,
                      guardians |-> policy'.guardians, threshold |-> policy'.threshold,
                      delay |-> policy'.delay]
      /\ UNCHANGED <<roots, deactivatedAt, grants, recoveries>>
  BY <1>3, <1>4, <1>5 DEF RecoveryPolicyConfigured, Process
<1>7. /\ IdentityMirrored' /\ RootsMirrored'
      /\ identity'.sequence \in Nat /\ identity'.sequence >= identity.sequence
  BY <1>1, <1>2, <1>6, AdvanceMirrored
<1>8. PolicyMirrored'
  BY <1>1, <1>6, <1>7 DEF PolicyMirrored, Positions
<1>9. RecoveriesMirrored'
  BY <1>1, <1>2, <1>6, PolicyAdvances DEF ProjectionInv
<1>10. GrantsMirrored' /\ EpochRoot' /\ Extends
  BY <1>1, <1>2, <1>6, <1>7, GrantsStay, EpochStays, HistoryStays DEF ProjectionInv
<1> QED BY <1>7, <1>8, <1>9, <1>10 DEF Projected, ProjectionInv

LEMMA DisableProjected ==
    ASSUME IdentityInv, ProjectionInv, NEW c \in Commands, c.op = "disable",
           DisableRecoveryPolicy(c), Emit(c)
    PROVE  Projected
<1>1. /\ identity.active /\ identity.sequence < MaxSequence /\ policy.active
      /\ identity' = Advance(identity)
      /\ policy' = [Advance(policy) EXCEPT !.active = FALSE]
      /\ UNCHANGED <<requests, delegations>>
  BY DEF DisableRecoveryPolicy, RootCommand, NextSequence
<1>2. /\ identity'.sequence = identity.sequence + 1 /\ identity.sequence \in Nat
      /\ identity'.root = identity.root /\ identity'.rotations = identity.rotations
  BY <1>1, AccountTypes, AdvanceIdentity
<1>3. policy' = [sequence |-> policy.sequence + 1, active |-> FALSE,
                 guardians |-> policy.guardians, threshold |-> policy.threshold,
                 delay |-> policy.delay]
  <2>1. policy \in PolicyRecords
    BY AccountTypes
  <2> QED BY <1>1, <2>1 DEF PolicyRecords, Advance
<1>4. recovery = [sequence |-> policy.sequence, at |-> recovery.at, active |-> policy.active,
                  guardians |-> policy.guardians, threshold |-> policy.threshold,
                  delay |-> policy.delay]
  BY DEF ProjectionInv, PolicyMirrored
<1>5. /\ Advances(identity'.sequence) /\ OfRoot(identity'.root, identity'.rotations)
      /\ \A s \in RecoverySequences : identity'.sequence > s
  BY <1>1, <1>2, AdvancePast DEF OfRoot, ProjectionInv, IdentityMirrored
<1>6. recovery.active /\ policy'.sequence = recovery.sequence + 1
  BY <1>1, <1>3, <1>4
<1>7. RecoveryPolicyDisabled(identity'.root, identity'.rotations, policy'.sequence,
                             identity'.sequence)
  BY DEF Emit
<1>8. /\ ~refused' /\ AdvanceTo(identity'.sequence)
      /\ recovery' = [recovery EXCEPT !.sequence = policy'.sequence, !.at = identity'.sequence,
                                      !.active = FALSE]
      /\ UNCHANGED <<roots, deactivatedAt, grants, recoveries>>
  BY <1>5, <1>6, <1>7 DEF RecoveryPolicyDisabled, Process
<1>9. recovery' = [sequence |-> policy.sequence + 1, at |-> identity'.sequence, active |-> FALSE,
                   guardians |-> policy.guardians, threshold |-> policy.threshold,
                   delay |-> policy.delay]
  <2>1. policy'.sequence = policy.sequence + 1
    BY <1>3
  <2>2. PICK t : t = recovery.at
    OBVIOUS
  <2>3. recovery = [sequence |-> policy.sequence, at |-> t, active |-> policy.active,
                    guardians |-> policy.guardians, threshold |-> policy.threshold,
                    delay |-> policy.delay]
    BY <1>4, <2>2
  <2> QED BY <1>8, <2>1, <2>3
<1>10. /\ IdentityMirrored' /\ RootsMirrored'
       /\ identity'.sequence \in Nat /\ identity'.sequence >= identity.sequence
  BY <1>1, <1>2, <1>8, AdvanceMirrored
<1>11. PolicyMirrored'
  BY <1>3, <1>9, <1>10 DEF PolicyMirrored, Positions
<1>12. RecoveriesMirrored'
  BY <1>1, <1>2, <1>3, <1>8, PolicyAdvances DEF ProjectionInv
<1>13. GrantsMirrored' /\ EpochRoot' /\ Extends
  BY <1>1, <1>2, <1>8, <1>10, GrantsStay, EpochStays, HistoryStays DEF ProjectionInv
<1> QED BY <1>10, <1>11, <1>12, <1>13 DEF Projected, ProjectionInv

(* A command that concerns one request.                                    *)
LEMMA OneRecoveryChanged ==
    ASSUME IdentityInv, RecoveriesMirrored, NEW n \in Nonces,
           DOMAIN recoveries' = Nonces, recoveries' = [m \in Nonces |-> recoveries'[m]],
           \A m \in Nonces : m # n =>
               recoveries'[m] = recoveries[m] /\ requests'[m] = requests[m],
           policy' = policy,
           identity'.sequence \in Nat, identity'.sequence >= identity.sequence,
           recoveries'[n] \in RecoveryRecords,
           RecoveryMirrors(recoveries[n], requests[n])'
    PROVE  RecoveriesMirrored'
<1>1. ASSUME NEW m \in Nonces
      PROVE  recoveries'[m] \in RecoveryRecords /\ RecoveryMirrors(recoveries[m], requests[m])'
  <2>1. CASE m = n
    BY <2>1
  <2>2. CASE m # n
    BY <2>2, RecoveryStays DEF RecoveriesMirrored
  <2> QED BY <2>1, <2>2
<1> QED BY <1>1 DEF RecoveriesMirrored

LEMMA RecoveryIs ==
    ASSUME IdentityInv, ProjectionInv, NEW n \in Nonces
    PROVE  /\ recoveries \in [Nonces -> RecoveryRecords]
           /\ recoveries[n] \in RecoveryRecords /\ requests[n] \in RequestRecords
           /\ RecoveryMirrors(recoveries[n], requests[n])
BY AccountTypes DEF ProjectionInv, RecoveriesMirrored
(* A pending request is closed, by its execution or by the root.           *)
LEMMA CloseMirrored ==
    ASSUME IdentityInv, ProjectionInv, NEW n \in Nonces, requests[n].state = "pending",
           NEW st \in {"executed", "cancelled"}, NEW t \in Positions', t \in Nat,
           requests' = [requests EXCEPT ![n].state = st],
           recoveries' = [recoveries EXCEPT ![n].state = st, ![n].terminal = t],
           policy' = policy,
           identity'.sequence \in Nat, identity'.sequence >= identity.sequence
    PROVE  RecoveriesMirrored'
<1>1. /\ recoveries \in [Nonces -> RecoveryRecords] /\ requests \in [Nonces -> RequestRecords]
      /\ recoveries[n] \in RecoveryRecords /\ requests[n] \in RequestRecords
      /\ RecoveryMirrors(recoveries[n], requests[n])
  BY RecoveryIs, AccountTypes
<1>2. /\ recoveries'[n] = [recoveries[n] EXCEPT !.state = st, !.terminal = t]
      /\ requests'[n] = [requests[n] EXCEPT !.state = st]
      /\ \A m \in Nonces : m # n => recoveries'[m] = recoveries[m] /\ requests'[m] = requests[m]
      /\ DOMAIN recoveries' = Nonces /\ recoveries' = [m \in Nonces |-> recoveries'[m]]
  BY <1>1
<1>3. recoveries'[n] \in RecoveryRecords
  BY <1>1, <1>2 DEF RecoveryRecords
<1>4. /\ recoveries'[n].state = st /\ recoveries'[n].terminal = t
      /\ recoveries'[n].sequence = recoveries[n].sequence
      /\ recoveries'[n].policy = recoveries[n].policy
      /\ recoveries'[n].root = recoveries[n].root
      /\ recoveries'[n].rotations = recoveries[n].rotations
      /\ recoveries'[n].target = recoveries[n].target
      /\ recoveries'[n].threshold = recoveries[n].threshold
      /\ recoveries'[n].approvals = recoveries[n].approvals
      /\ recoveries'[n].count = recoveries[n].count
      /\ recoveries'[n].executeAfter = recoveries[n].executeAfter
      /\ recoveries'[n].guardians = recoveries[n].guardians
  BY <1>1, <1>2 DEF RecoveryRecords
<1>5. /\ requests'[n].state = st
      /\ requests'[n].sequence = requests[n].sequence
      /\ requests'[n].policy = requests[n].policy
      /\ requests'[n].root = requests[n].root
      /\ requests'[n].rotations = requests[n].rotations
      /\ requests'[n].target = requests[n].target
      /\ requests'[n].threshold = requests[n].threshold
      /\ requests'[n].approvals = requests[n].approvals
      /\ requests'[n].executeAfter = requests[n].executeAfter
  BY <1>1, <1>2 DEF RequestRecords
<1>6. Positions \subseteq Positions'
  BY AccountTypes DEF Positions
<1>7. RecoveryMirrors(recoveries[n], requests[n])'
  BY <1>1, <1>4, <1>5, <1>6 DEF RecoveryMirrors
<1>8. RecoveriesMirrored
  BY DEF ProjectionInv
<1> QED BY <1>2, <1>3, <1>7, <1>8, OneRecoveryChanged

LEMMA CancelProjected ==
    ASSUME IdentityInv, ProjectionInv, NEW c \in Commands, c.op = "cancel",
           CancelRecovery(c), Emit(c)
    PROVE  Projected
<1> DEFINE n == c.nonce
<1>1. n \in Nonces
  BY CommandArguments
<1> HIDE DEF n
<1>2. /\ identity.active /\ identity.sequence < MaxSequence
      /\ identity' = Advance(identity) /\ requests[n].state = "pending"
      /\ requests' = [requests EXCEPT ![n].state = "cancelled"]
      /\ UNCHANGED <<policy, delegations>>
  BY DEF CancelRecovery, RootCommand, NextSequence, n
<1>3. /\ identity'.sequence = identity.sequence + 1 /\ identity.sequence \in Nat
      /\ identity'.root = identity.root /\ identity'.rotations = identity.rotations
  BY <1>2, AccountTypes, AdvanceIdentity
<1>4. /\ Advances(identity'.sequence) /\ OfRoot(identity'.root, identity'.rotations)
      /\ \A s \in RecoverySequences : identity'.sequence > s
  BY <1>2, <1>3, AdvancePast DEF OfRoot, ProjectionInv, IdentityMirrored
<1>5. requests'[n].policy = requests[n].policy /\ requests'[n].target = requests[n].target
  <2>1. requests \in [Nonces -> RequestRecords] /\ requests[n] \in RequestRecords
    BY <1>1, AccountTypes
  <2> QED BY <1>1, <1>2, <2>1 DEF RequestRecords
<1>6. /\ recoveries[n].policy = requests'[n].policy
      /\ recoveries[n].target = requests'[n].target
      /\ recoveries[n].state = "pending"
  BY <1>1, <1>2, <1>5, RecoveryIs DEF RecoveryMirrors
<1>7. RecoveryCancelled(n, identity'.root, identity'.rotations, requests'[n].policy,
                        requests'[n].target, identity'.sequence)
  BY DEF Emit, n
<1>8. /\ ~refused' /\ AdvanceTo(identity'.sequence)
      /\ recoveries' = [recoveries EXCEPT ![n].state = "cancelled",
                                          ![n].terminal = identity'.sequence]
      /\ UNCHANGED <<roots, deactivatedAt, grants, recovery>>
  BY <1>4, <1>6, <1>7 DEF RecoveryCancelled, Process
<1>9. /\ IdentityMirrored' /\ RootsMirrored'
      /\ identity'.sequence \in Nat /\ identity'.sequence >= identity.sequence
  BY <1>2, <1>3, <1>8, AdvanceMirrored
<1>10. RecoveriesMirrored'
  <2>1. PICK t : t = identity'.sequence
    OBVIOUS
  <2>2. t \in Nat /\ t \in Positions'
    BY <1>9, <2>1 DEF Positions
  <2>3. recoveries' = [recoveries EXCEPT ![n].state = "cancelled", ![n].terminal = t]
    BY <1>8, <2>1
  <2> QED BY <1>1, <1>2, <1>9, <2>2, <2>3, CloseMirrored
<1>11. GrantsMirrored' /\ EpochRoot' /\ PolicyMirrored' /\ Extends
  BY <1>2, <1>3, <1>8, <1>9, GrantsStay, EpochStays, PolicyStays, HistoryStays
     DEF ProjectionInv
<1> QED BY <1>9, <1>10, <1>11 DEF Projected, ProjectionInv

LEMMA ExecuteProjected ==
    ASSUME IdentityInv, ProjectionInv, NEW c \in Commands, c.op = "execute",
           ExecuteRecovery(c), Emit(c)
    PROVE  Projected
<1> DEFINE n == c.nonce
           e == [previous |-> identity.root, root |-> identity'.root,
                 rotations |-> identity'.rotations, sequence |-> identity'.sequence,
                 policy |-> policy.sequence, threshold |-> requests'[n].threshold,
                 count |-> Cardinality(requests'[n].approvals), slot |-> slot]
<1>1. n \in Nonces /\ c.signer \in Keys
  BY CommandArguments
<1>2. RecoveryExecuted(n, e)
  BY DEF Emit
<1>3. /\ e.previous = identity.root /\ e.root = identity'.root
      /\ e.rotations = identity'.rotations /\ e.sequence = identity'.sequence
      /\ e.policy = policy.sequence /\ e.threshold = requests'[n].threshold
      /\ e.count = Cardinality(requests'[n].approvals) /\ e.slot = slot
  OBVIOUS
<1>4. /\ identity.active /\ identity.sequence < MaxSequence
      /\ RequestCurrent(requests[n]) /\ c.signer = requests[n].target
      /\ slot >= requests[n].executeAfter
      /\ Cardinality(requests[n].approvals) >= requests[n].threshold
      /\ identity' = [Advance(identity) EXCEPT !.rotations = @ + 1, !.root = c.signer]
      /\ requests' = [requests EXCEPT ![n].state = "executed"]
      /\ UNCHANGED <<policy, delegations>>
  BY DEF ExecuteRecovery
<1> HIDE DEF n, e
<1>5. /\ RotationFits(e.previous, e.rotations, e.sequence)
      /\ identity'.sequence = identity.sequence + 1
      /\ identity'.rotations = identity.rotations + 1
      /\ identity'.root = c.signer /\ identity'.active
  BY <1>1, <1>3, <1>4, RotationAdmitted
<1>6. /\ requests'[n].threshold = requests[n].threshold
      /\ requests'[n].approvals = requests[n].approvals
  <2>1. requests \in [Nonces -> RequestRecords] /\ requests[n] \in RequestRecords
    BY <1>1, AccountTypes
  <2> QED BY <1>1, <1>4, <2>1 DEF RequestRecords
<1>7. RecordRotation(identity'.root, identity'.rotations, identity'.sequence)
  BY <1>2, <1>3, <1>5 DEF RecoveryExecuted
<1>8. /\ known'.active /\ known'.sequence = e.sequence /\ known'.root = e.root
      /\ known'.rotations = e.rotations
      /\ roots'[Len(roots')] = [authority |-> e.root, rotations |-> e.rotations, at |-> e.sequence]
  <2>1. known = identity /\ identity \in IdentityRecords
    BY AccountTypes DEF ProjectionInv, IdentityMirrored
  <2>2. known'.active /\ known'.sequence = e.sequence /\ known'.root = e.root
        /\ known'.rotations = e.rotations
    BY <1>3, <1>4, <1>7, <2>1 DEF RecordRotation, IdentityRecords
  <2>3. PICK w : w = [authority |-> identity'.root, rotations |-> identity'.rotations,
                      at |-> identity'.sequence]
    OBVIOUS
  <2>4. roots' = Append(roots, w) /\ roots \in Seq(RootRecords)
    BY <1>7, <2>3 DEF RecordRotation, ProjectionInv, RootsMirrored
  <2>5. roots'[Len(roots')] = w
    BY <2>4
  <2> QED BY <1>3, <2>2, <2>3, <2>5
<1>9. /\ requests[n].state = "pending" /\ requests[n].policy = policy.sequence
      /\ requests[n].root = identity.root /\ requests[n].sequence = identity.sequence
      /\ requests[n].rotations = identity.rotations /\ policy.active
  BY <1>4 DEF RequestCurrent
<1>10. RecoveryMirrors(recoveries[n], requests[n])
  BY <1>1, RecoveryIs
<1>11. OfPolicy(e.policy)
  BY <1>3, <1>9 DEF OfPolicy, ProjectionInv, PolicyMirrored
<1>12. /\ recoveries[n].policy = e.policy /\ recoveries[n].root = e.previous
       /\ recoveries[n].target = e.root /\ recoveries[n].state = "pending"
       /\ recoveries[n].threshold = e.threshold /\ recoveries[n].count = e.count
       /\ e.sequence = recoveries[n].sequence + 1
       /\ e.rotations = recoveries[n].rotations + 1
       /\ e.slot >= recoveries[n].executeAfter
       /\ e.count >= e.threshold
  BY <1>3, <1>4, <1>5, <1>6, <1>9, <1>10 DEF RecoveryMirrors
<1>13. \A s \in RecoverySequences : e.sequence > s
  BY <1>3, <1>4, <1>5, AdvancePast
<1>14. ExecutionFits(n, known', roots'[Len(roots')], e)
  BY <1>8, <1>11, <1>12, <1>13 DEF ExecutionFits
<1>15. /\ ~refused'
       /\ recoveries' = [recoveries EXCEPT ![n].state = "executed", ![n].terminal = e.sequence]
       /\ UNCHANGED <<deactivatedAt, grants, recovery>>
  BY <1>2, <1>5, <1>14 DEF RecoveryExecuted
<1>16. IdentityMirrored' /\ RootsMirrored' /\ GrantsMirrored' /\ EpochRoot' /\ Extends
  BY <1>1, <1>4, <1>7, <1>15, RotationMirrored
<1>17. identity'.sequence \in Nat /\ identity'.sequence >= identity.sequence
  BY <1>5, AccountTypes
<1>18. RecoveriesMirrored'
  <2>1. PICK t : t = identity'.sequence
    OBVIOUS
  <2>2. t \in Nat /\ t \in Positions'
    BY <1>17, <2>1 DEF Positions
  <2>3. recoveries' = [recoveries EXCEPT ![n].state = "executed", ![n].terminal = t]
    BY <1>3, <1>15, <2>1
  <2> QED BY <1>1, <1>4, <1>9, <1>17, <2>2, <2>3, CloseMirrored
<1>19. PolicyMirrored'
  BY <1>4, <1>15, <1>17, PolicyStays DEF ProjectionInv
<1> QED BY <1>16, <1>18, <1>19 DEF Projected, ProjectionInv
(* Guardians are distinct, so a guardian has one index.                    *)
LEMMA IndexIsOne ==
    ASSUME IdentityInv, ValidRecoveryPolicy(identity.root, policy),
           NEW i \in DOMAIN policy.guardians
    PROVE  /\ IndexOf(policy.guardians, policy.guardians[i]) = {i}
           /\ i \in 1 .. MaxGuardians
           /\ policy.guardians \in Seq(Keys)
<1>1. policy.guardians \in Seq(Keys)
  BY AccountTypes DEF PolicyRecords
<1>2. i \in Nat /\ i \in 1 .. Len(policy.guardians)
  BY <1>1
<1>3. i \in 1 .. MaxGuardians
  BY <1>1, <1>2 DEF ValidRecoveryPolicy, MaxGuardians, MinGuardians
<1>4. \A j \in DOMAIN policy.guardians : policy.guardians[j] = policy.guardians[i] => i = j
  BY DEF ValidRecoveryPolicy
<1> QED BY <1>1, <1>2, <1>3, <1>4 DEF IndexOf

LEMMA RequestProjected ==
    ASSUME IdentityInv, ProjectionInv, NEW c \in Commands, c.op = "request",
           RequestRecovery(c), Kept, Emit(c)
    PROVE  Projected
<1> DEFINE n == c.nonce
<1>1. n \in Nonces
  BY CommandArguments
<1>2. RecoveryRequested(n, c.signer, requests'[n], slot)
  BY DEF Emit
<1>3. /\ identity.active /\ policy.active /\ requests[n].state = "absent"
      /\ ValidRecoveryPolicy(identity.root, policy)
      /\ UNCHANGED <<identity, policy, delegations>>
  BY DEF RequestRecovery
<1>4. PICK i \in DOMAIN policy.guardians :
         /\ policy.guardians[i] = c.signer
         /\ requests' = [requests EXCEPT ![n] =
                [state |-> "pending", policy |-> policy.sequence, root |-> identity.root,
                 sequence |-> identity.sequence, rotations |-> identity.rotations,
                 target |-> c.target, threshold |-> policy.threshold,
                 guardians |-> Len(policy.guardians), approvals |-> {i},
                 requestedAt |-> slot, executeAfter |-> slot + policy.delay]]
  BY DEF RequestRecovery
<1> HIDE DEF n
<1>5. /\ requests \in [Nonces -> RequestRecords]
      /\ recoveries \in [Nonces -> RecoveryRecords]
      /\ recoveries[n].state = "absent"
  BY <1>1, <1>3, AccountTypes, RecoveryIs DEF RecoveryMirrors
<1>6. /\ requests'[n].state = "pending" /\ requests'[n].policy = policy.sequence
      /\ requests'[n].root = identity.root /\ requests'[n].sequence = identity.sequence
      /\ requests'[n].rotations = identity.rotations
      /\ requests'[n].threshold = policy.threshold
      /\ requests'[n].guardians = Len(policy.guardians)
      /\ requests'[n].approvals = {i}
      /\ requests'[n].executeAfter = slot + policy.delay
      /\ \A m \in Nonces : m # n => requests'[m] = requests[m]
  BY <1>1, <1>4, <1>5
<1>7. PICK r : r = requests'[n]
  OBVIOUS
<1>8. r \in RequestRecords
  BY <1>1, <1>7 DEF Kept, AccountsTypeOK
<1>9. /\ recovery.guardians = policy.guardians /\ recovery.active
      /\ recovery.sequence = policy.sequence /\ recovery.threshold = policy.threshold
      /\ recovery.delay = policy.delay
  BY <1>3 DEF ProjectionInv, PolicyMirrored
<1>10. /\ Snapshot(r.sequence) /\ OfRoot(r.root, r.rotations)
       /\ \A s \in RecoverySequences : r.sequence >= s
  BY <1>3, <1>6, <1>7, AccountTypes, RecoveriesOlder
     DEF Snapshot, OfRoot, ProjectionInv, IdentityMirrored, Positions
<1>11. /\ \A j \in DOMAIN recovery.guardians : recovery.guardians[j] # r.root
       /\ \E j \in DOMAIN recovery.guardians : recovery.guardians[j] = c.signer
  BY <1>3, <1>4, <1>6, <1>7, <1>9 DEF ValidRecoveryPolicy
<1>12. RequestFits(n, c.signer, r, slot)
  BY <1>5, <1>6, <1>7, <1>9, <1>10, <1>11 DEF RequestFits, OfPolicy
<1>13. /\ IndexOf(recovery.guardians, c.signer) = {i} /\ i \in 1 .. MaxGuardians
       /\ recovery.guardians \in Seq(Keys)
  BY <1>3, <1>4, <1>9, IndexIsOne
<1> DEFINE x == [state |-> "pending", policy |-> r.policy, root |-> r.root,
                 sequence |-> r.sequence, rotations |-> r.rotations, target |-> r.target,
                 guardians |-> recovery.guardians, threshold |-> r.threshold,
                 approvals |-> {i}, count |-> 1, executeAfter |-> r.executeAfter,
                 terminal |-> 0]
<1>14. /\ ~refused' /\ recoveries' = [recoveries EXCEPT ![n] = x]
       /\ UNCHANGED <<known, roots, deactivatedAt, grants, recovery>>
  BY <1>2, <1>7, <1>12, <1>13 DEF RecoveryRequested, Process
<1>15. x \in RecoveryRecords
  BY <1>8, <1>13 DEF RequestRecords, RecoveryRecords
<1>16. /\ x.state = "pending" /\ x.policy = r.policy /\ x.root = r.root
       /\ x.sequence = r.sequence /\ x.rotations = r.rotations /\ x.target = r.target
       /\ x.guardians = policy.guardians /\ x.threshold = r.threshold
       /\ x.approvals = {i} /\ x.count = 1 /\ x.executeAfter = r.executeAfter
       /\ x.terminal = 0
  BY <1>9
<1> HIDE DEF x
<1>17. /\ recoveries'[n] = x /\ DOMAIN recoveries' = Nonces
       /\ recoveries' = [m \in Nonces |-> recoveries'[m]]
       /\ \A m \in Nonces : m # n => recoveries'[m] = recoveries[m]
  BY <1>1, <1>5, <1>14
<1>18. identity'.sequence \in Nat /\ identity'.sequence >= identity.sequence
  BY <1>3, AccountTypes
<1>19. Cardinality({i}) = 1
  BY FS_Singleton
<1>20. RecoveryMirrors(recoveries[n], requests[n])'
  <2>1. /\ x.sequence \in Positions' /\ x.terminal \in Positions'
    BY <1>3, <1>6, <1>7, <1>16, AccountTypes DEF Positions
  <2>2. r.policy = policy'.sequence /\ policy'.sequence <= policy'.sequence
    BY <1>3, <1>6, <1>7, AccountTypes
  <2> QED BY <1>3, <1>6, <1>7, <1>16, <1>17, <1>19, <2>1, <2>2 DEF RecoveryMirrors
<1>21. RecoveriesMirrored'
  BY <1>1, <1>3, <1>6, <1>15, <1>17, <1>18, <1>20, OneRecoveryChanged DEF ProjectionInv
<1>22. IdentityMirrored'
  BY <1>3, <1>14 DEF ProjectionInv, IdentityMirrored, Positions
<1>23. RootsMirrored' /\ GrantsMirrored' /\ EpochRoot' /\ PolicyMirrored' /\ Extends
  BY <1>3, <1>14, <1>18, RootsStay, GrantsStay, EpochStays, PolicyStays, HistoryStays
     DEF ProjectionInv
<1> QED BY <1>21, <1>22, <1>23 DEF Projected, ProjectionInv

LEMMA ApproveProjected ==
    ASSUME IdentityInv, ProjectionInv, NEW c \in Commands, c.op = "approve",
           ApproveRecovery(c), Emit(c)
    PROVE  Projected
<1> DEFINE n == c.nonce
<1>1. n \in Nonces
  BY CommandArguments
<1>2. PICK j \in IndexOf(policy.guardians, c.signer) :
         RecoveryApproved(n, c.signer, j, policy.sequence, requests'[n].threshold,
                          Cardinality(requests'[n].approvals))
  BY DEF Emit
<1>3. /\ identity.active /\ RequestCurrent(requests[n])
      /\ UNCHANGED <<identity, policy, delegations>>
  BY DEF ApproveRecovery
<1>4. PICK i \in DOMAIN policy.guardians \ requests[n].approvals :
         /\ policy.guardians[i] = c.signer
         /\ requests' = [requests EXCEPT ![n].approvals = @ \cup {i}]
  BY DEF ApproveRecovery
<1> HIDE DEF n
<1>5. /\ requests[n].state = "pending" /\ requests[n].policy = policy.sequence
      /\ requests[n].root = identity.root /\ requests[n].rotations = identity.rotations
      /\ ValidRecoveryPolicy(identity.root, policy) /\ policy.active
  BY <1>3 DEF RequestCurrent
<1>6. j = i /\ i \in 1 .. MaxGuardians
  BY <1>2, <1>4, <1>5, IndexIsOne
<1>7. /\ requests \in [Nonces -> RequestRecords] /\ requests[n] \in RequestRecords
      /\ recoveries \in [Nonces -> RecoveryRecords] /\ recoveries[n] \in RecoveryRecords
      /\ RecoveryMirrors(recoveries[n], requests[n])
  BY <1>1, AccountTypes, RecoveryIs
<1>8. /\ requests'[n].state = requests[n].state
      /\ requests'[n].sequence = requests[n].sequence
      /\ requests'[n].policy = requests[n].policy
      /\ requests'[n].root = requests[n].root
      /\ requests'[n].rotations = requests[n].rotations
      /\ requests'[n].target = requests[n].target
      /\ requests'[n].threshold = requests[n].threshold
      /\ requests'[n].approvals = requests[n].approvals \cup {i}
      /\ requests'[n].executeAfter = requests[n].executeAfter
      /\ \A m \in Nonces : m # n => requests'[m] = requests[m]
  <2>1. requests'[n] = [requests[n] EXCEPT !.approvals = requests[n].approvals \cup {i}]
    BY <1>1, <1>4, <1>7
  <2>2. \A m \in Nonces : m # n => requests'[m] = requests[m]
    BY <1>4, <1>7
  <2> QED BY <1>7, <2>1, <2>2 DEF RequestRecords
<1>9. /\ Cardinality(requests'[n].approvals) = recoveries[n].count + 1
      /\ requests[n].approvals \subseteq 1 .. MaxGuardians
  <2>1. requests[n].approvals \subseteq 1 .. MaxGuardians
    BY <1>7 DEF RequestRecords
  <2>2. IsFiniteSet(requests[n].approvals)
    <3>1. MaxGuardians \in Int
      BY DEF MaxGuardians
    <3>2. IsFiniteSet(1 .. MaxGuardians)
      BY <3>1, FS_Interval
    <3> QED BY <2>1, <3>2, FS_Subset
  <2>3. Cardinality(requests[n].approvals \cup {i}) = Cardinality(requests[n].approvals) + 1
    BY <1>4, <2>2, FS_AddElement
  <2> QED BY <1>5, <1>7, <1>8, <2>1, <2>3 DEF RecoveryMirrors
<1>10. PICK k : k = Cardinality(requests'[n].approvals)
  OBVIOUS
<1>11. /\ recoveries[n].guardians = policy.guardians
       /\ recoveries[n].approvals = requests[n].approvals
       /\ recoveries[n].policy = policy.sequence /\ recoveries[n].state = "pending"
       /\ recoveries[n].threshold = requests'[n].threshold
  BY <1>5, <1>7, <1>8 DEF RecoveryMirrors
<1>12. /\ known.active /\ OfRoot(recoveries[n].root, recoveries[n].rotations)
       /\ OfPolicy(policy.sequence)
  BY <1>3, <1>5, <1>7
     DEF RecoveryMirrors, OfRoot, OfPolicy, ProjectionInv, IdentityMirrored, PolicyMirrored
<1>13. /\ ~refused'
       /\ recoveries' = [recoveries EXCEPT ![n].approvals = @ \cup {i}, ![n].count = k]
       /\ UNCHANGED <<known, roots, deactivatedAt, grants, recovery>>
  BY <1>2, <1>4, <1>6, <1>9, <1>10, <1>11, <1>12 DEF RecoveryApproved, Process
<1>14. /\ recoveries'[n] = [recoveries[n] EXCEPT !.approvals = recoveries[n].approvals \cup {i},
                                                !.count = k]
       /\ DOMAIN recoveries' = Nonces /\ recoveries' = [m \in Nonces |-> recoveries'[m]]
       /\ \A m \in Nonces : m # n => recoveries'[m] = recoveries[m]
  BY <1>1, <1>7, <1>13
<1>15. k \in Nat /\ k = Cardinality(requests'[n].approvals)
  BY <1>7, <1>9, <1>10 DEF RecoveryRecords
<1>16. recoveries'[n] \in RecoveryRecords
  <2>1. PICK S : S = recoveries[n].approvals \cup {i}
    OBVIOUS
  <2>2. recoveries[n].approvals \in SUBSET (1 .. MaxGuardians)
    BY <1>7 DEF RecoveryRecords
  <2>3. S \in SUBSET (1 .. MaxGuardians)
    BY <1>6, <2>1, <2>2
  <2>4. recoveries'[n] = [recoveries[n] EXCEPT !.approvals = S, !.count = k]
    BY <1>14, <2>1
  <2> QED BY <1>7, <1>15, <2>3, <2>4 DEF RecoveryRecords
<1>17. /\ recoveries'[n].state = recoveries[n].state
       /\ recoveries'[n].sequence = recoveries[n].sequence
       /\ recoveries'[n].terminal = recoveries[n].terminal
       /\ recoveries'[n].policy = recoveries[n].policy
       /\ recoveries'[n].root = recoveries[n].root
       /\ recoveries'[n].rotations = recoveries[n].rotations
       /\ recoveries'[n].target = recoveries[n].target
       /\ recoveries'[n].threshold = recoveries[n].threshold
       /\ recoveries'[n].guardians = recoveries[n].guardians
       /\ recoveries'[n].executeAfter = recoveries[n].executeAfter
       /\ recoveries'[n].approvals = recoveries[n].approvals \cup {i}
       /\ recoveries'[n].count = k
  BY <1>7, <1>14 DEF RecoveryRecords
<1>18. identity'.sequence \in Nat /\ identity'.sequence >= identity.sequence
  BY <1>3, AccountTypes
<1>19. RecoveryMirrors(recoveries[n], requests[n])'
  <2>1. Positions' = Positions
    BY <1>3 DEF Positions
  <2> QED BY <1>3, <1>7, <1>8, <1>11, <1>15, <1>17, <2>1 DEF RecoveryMirrors
<1>20. RecoveriesMirrored'
  BY <1>1, <1>3, <1>8, <1>14, <1>16, <1>18, <1>19, OneRecoveryChanged DEF ProjectionInv
<1>21. IdentityMirrored'
  BY <1>3, <1>13 DEF ProjectionInv, IdentityMirrored, Positions
<1>22. RootsMirrored' /\ GrantsMirrored' /\ EpochRoot' /\ PolicyMirrored' /\ Extends
  BY <1>3, <1>13, <1>18, RootsStay, GrantsStay, EpochStays, PolicyStays, HistoryStays
     DEF ProjectionInv
<1> QED BY <1>20, <1>21, <1>22 DEF Projected, ProjectionInv
-----------------------------------------------------------------------------
LEMMA HandleProjected ==
    ASSUME IdentityInv, ProjectionInv, NEW c \in Commands, Handle(c), Project(c)
    PROVE  Projected
<1>1. Emit(c)
  BY DEF Project, ProjectionInv, IdentityMirrored
<1>2. Kept
  BY HandleKeeps
<1>3. CASE c.op \in {"publish", "publish_delegated", "tombstone", "tombstone_delegated"}
  <2>1. /\ identity.active /\ identity.sequence < MaxSequence
        /\ identity' = Advance(identity) /\ UNCHANGED <<policy, requests, delegations>>
    BY <1>3 DEF Handle, PublishPost, PublishPostDelegated, TombstonePost, TombstonePostDelegated,
                RootCommand, DelegatedCommand, NextSequence
  <2>2. PostEvent(identity'.sequence)
    BY <1>1, <1>3 DEF Emit
  <2> QED BY <2>1, <2>2, PostProjected
<1>4. CASE c.op \notin {"publish", "publish_delegated", "tombstone", "tombstone_delegated"}
  BY <1>1, <1>2, <1>4, RotateProjected, DeactivateProjected, DelegateProjected, RevokeProjected,
     ConfigureProjected, DisableProjected, RequestProjected, ApproveProjected,
     ExecuteProjected, CancelProjected
     DEF Handle
<1> QED BY <1>3, <1>4

LEMMA ProjectionInit == IndexedInit => ProjectionInv
<1> SUFFICES ASSUME IndexedInit PROVE ProjectionInv
  OBVIOUS
<1>1. /\ identity = [root |-> Origin, rotations |-> 0, sequence |-> 0, active |-> TRUE]
      /\ policy = [sequence |-> 0, active |-> FALSE, guardians |-> <<>>, threshold |-> 0,
                   delay |-> 0]
      /\ requests = [n \in Nonces |-> NoRequest]
      /\ delegations = <<>>
  BY DEF IndexedInit, Init
<1>2. 0 \in Positions
  BY <1>1 DEF Positions
<1>3. IdentityMirrored
  BY <1>1, <1>2 DEF IndexedInit, IdentityMirrored
<1>4. RootsMirrored
  <2> DEFINE e == [authority |-> Origin, rotations |-> 0, at |-> 0]
  <2>1. /\ e \in RootRecords /\ e.authority = Origin /\ e.rotations = 0 /\ e.at = 0
    BY OriginAssumption DEF RootRecords
  <2>2. roots = <<e>>
    BY DEF IndexedInit
  <2> HIDE DEF e
  <2>3. roots \in Seq(RootRecords) /\ Len(roots) = 1 /\ roots[1] = e /\ DOMAIN roots = {1}
    BY <2>1, <2>2
  <2> QED BY <1>1, <1>2, <2>1, <2>3 DEF RootsMirrored
<1>5. GrantsMirrored /\ EpochRoot
  <2>1. DOMAIN delegations = {} /\ grants = delegations
    BY <1>1 DEF IndexedInit
  <2>2. grants = [i \in DOMAIN delegations |-> grants[i]]
    BY <1>1, <2>1
  <2> QED BY <2>1, <2>2 DEF GrantsMirrored, EpochRoot
<1>6. PolicyMirrored
  BY <1>1, <1>2 DEF IndexedInit, PolicyMirrored
<1>7. RecoveriesMirrored
  <2>1. recoveries = [n \in Nonces |-> NoRecovery]
    BY DEF IndexedInit
  <2>2. NoRecovery \in RecoveryRecords
    BY OriginAssumption DEF NoRecovery, RecoveryRecords
  <2>3. /\ NoRecovery.state = "absent" /\ NoRecovery.sequence = 0 /\ NoRecovery.terminal = 0
        /\ NoRequest.state = "absent"
    BY DEF NoRecovery, NoRequest
  <2> QED BY <1>1, <1>2, <2>1, <2>2, <2>3 DEF RecoveriesMirrored, RecoveryMirrors
<1> QED BY <1>3, <1>4, <1>5, <1>6, <1>7 DEF ProjectionInv

(* The projection changes nothing of what the accounts do.                 *)
LEMMA StepOfIdentity == [IndexedNext]_indexedVars => [Next]_vars
BY DEF IndexedNext, IndexedDeliver, IndexedSign, IndexedLand, IndexedTick, indexedVars, Next,
       Deliver

LEMMA IndexedIdentity == IndexedSpec => Spec
<1>1. IndexedInit => Init
  BY DEF IndexedInit
<1> QED BY <1>1, StepOfIdentity, PTL DEF IndexedSpec, Spec

LEMMA FrameProjected ==
    ASSUME ProjectionInv, UNCHANGED <<accounts, projection, refused>>
    PROVE  Projected
<1>1. /\ UNCHANGED <<identity, policy, requests, delegations, known, roots, deactivatedAt>>
      /\ UNCHANGED <<grants, recovery, recoveries, refused>>
  BY DEF accounts, projection
<1>2. ProjectionInv'
  BY <1>1 DEF ProjectionInv, IdentityMirrored, RootsMirrored, GrantsMirrored, GrantMirrors,
       EpochRoot, PolicyMirrored, RecoveriesMirrored, RecoveryMirrors, Positions
<1>3. Extends
  BY <1>1, HistoryStays
<1> QED BY <1>2, <1>3 DEF Projected

LEMMA StepProjected ==
    IdentityInv /\ ProjectionInv /\ [IndexedNext]_indexedVars => Projected
<1> SUFFICES ASSUME IdentityInv, ProjectionInv, [IndexedNext]_indexedVars PROVE Projected
  OBVIOUS
<1>1. CASE IndexedDeliver
  <2>1. PICK c \in CommandsNow : Handle(c) /\ Project(c)
    BY <1>1 DEF IndexedDeliver
  <2>2. c \in Commands
    BY CommandsNowAreCommands DEF IdentityInv
  <2> QED BY <2>1, <2>2, HandleProjected
<1>2. CASE IndexedLand
  <2>1. PICK c \in Commands : c = inFlight.command
    BY <1>2 DEF IndexedLand, Land, IdentityInv, TypeOK
  <2>2. Handle(c) /\ Project(c)
    BY <1>2, <2>1 DEF IndexedLand, Land
  <2> QED BY <2>2, HandleProjected
<1>3. CASE IndexedSign \/ IndexedTick
  BY <1>3, FrameProjected DEF IndexedSign, IndexedTick, Sign, Tick
<1>4. CASE UNCHANGED indexedVars
  BY <1>4, FrameProjected DEF indexedVars, vars
<1> QED BY <1>1, <1>2, <1>3, <1>4 DEF IndexedNext

LEMMA ProjectionInvariance == IndexedSpec => [](IdentityInv /\ ProjectionInv)
<1>1. IndexedSpec => []IdentityInv
  BY IndexedIdentity, Invariance, PTL
<1>2. IdentityInv /\ ProjectionInv /\ [IndexedNext]_indexedVars => ProjectionInv'
  BY StepProjected DEF Projected
<1> QED BY <1>1, <1>2, ProjectionInit, PTL DEF IndexedSpec

(* The projection is never stricter than the program: whatever commands    *)
(* land in whatever order, none of their events stops ingestion.           *)
THEOREM NoEventRefused == IndexedSpec => []EventsAccepted
<1>1. ProjectionInv => EventsAccepted
  BY DEF ProjectionInv, IdentityMirrored, EventsAccepted
<1> QED BY <1>1, ProjectionInvariance, PTL

-----------------------------------------------------------------------------
(* Authority.                                                              *)

(* The one root in force now is the present one, if the identity is active. *)
LEMMA PresentRoot ==
    ASSUME IdentityInv, ProjectionInv
    PROVE  RootsAt(identity.sequence)
             = IF identity.active THEN {roots[Len(roots)]} ELSE {}
<1>1. /\ identity.sequence \in Nat /\ identity.active \in BOOLEAN
      /\ deactivatedAt \in Positions
      /\ identity.active <=> deactivatedAt = 0
  BY AccountTypes DEF ProjectionInv, IdentityMirrored
<1>2. CASE ~identity.active
  BY <1>1, <1>2 DEF RootsAt, Positions
<1>3. CASE identity.active
  <2>1. /\ roots \in Seq(RootRecords) /\ Len(roots) # 0
        /\ \A i \in DOMAIN roots : roots[i].at \in Positions
        /\ \A i, j \in DOMAIN roots : i < j => roots[i].at < roots[j].at
    BY DEF ProjectionInv, RootsMirrored
  <2>2. /\ Len(roots) \in DOMAIN roots
        /\ \A i \in DOMAIN roots : i = Len(roots) \/ i < Len(roots)
    BY <2>1
  <2>3. \A i \in DOMAIN roots : roots[i].at \in Nat /\ roots[i].at <= identity.sequence
    BY <1>1, <2>1 DEF Positions
  <2>4. \A i \in DOMAIN roots : roots[i].at <= roots[Len(roots)].at
    BY <2>1, <2>2, <2>3
  <2>5. roots[Len(roots)] \in RootsAt(identity.sequence)
    BY <1>1, <1>3, <2>2, <2>3, <2>4 DEF RootsAt
  <2>6. ASSUME NEW r \in RootsAt(identity.sequence) PROVE r = roots[Len(roots)]
    <3>1. PICK i \in DOMAIN roots : r = roots[i]
      BY DEF RootsAt
    <3>2. roots[Len(roots)].at <= roots[i].at
      BY <2>2, <2>3, <3>1 DEF RootsAt
    <3> QED BY <2>1, <2>2, <2>3, <3>1, <3>2
  <2> QED BY <1>3, <2>5, <2>6
<1> QED BY <1>1, <1>2, <1>3

(* A delegation speaks in the projection exactly when the program lets it. *)
LEMMA PresentGrant ==
    ASSUME IdentityInv, ProjectionInv, NEW i \in DOMAIN delegations, NEW key \in Keys,
           NEW scope \in ObjectScopes
    PROVE  GrantSpeaks(grants[i], key, scope, identity.sequence, slot)
             <=> /\ identity.active
                 /\ delegations[i].delegate = key
                 /\ scope \in DelegationScopes(delegations[i])
<1>1. GrantMirrors(grants[i], delegations[i])
  BY DEF ProjectionInv, GrantsMirrored
<1>2. /\ grants[i].delegate = delegations[i].delegate /\ grants[i].scopes = delegations[i].scopes
      /\ grants[i].expires = delegations[i].expires
      /\ grants[i].rotations = delegations[i].rotations
      /\ delegations[i].active <=> grants[i].revoked = 0
      /\ grants[i].created \in Positions /\ grants[i].revoked \in Positions
  BY <1>1 DEF GrantMirrors
<1>3. /\ identity.sequence \in Nat /\ slot \in Nat
      /\ delegations[i] \in DelegationRecords
  BY AccountTypes
<1>4. /\ grants[i].created <= identity.sequence
      /\ ~(identity.sequence < grants[i].revoked)
      /\ grants[i].expires >= slot <=> slot <= delegations[i].expires
  BY <1>2, <1>3 DEF Positions, DelegationRecords
<1>5. (\E root \in RootsAt(identity.sequence) : grants[i].rotations = root.rotations)
        <=> identity.active /\ delegations[i].rotations = identity.rotations
  BY <1>2, PresentRoot DEF ProjectionInv, RootsMirrored
<1>6. delegations[i].rotations = identity.rotations => delegations[i].root = identity.root
  BY DEF ProjectionInv, EpochRoot
<1> QED BY <1>2, <1>4, <1>5, <1>6 DEF GrantSpeaks, DelegationScopes

(* At the present position the projection, which knows no delegation's     *)
(* root, and the program, which knows no positions, give one answer.       *)
THEOREM ProjectionAgrees == IndexedSpec => []AuthorityAgrees
<1>1. ASSUME IdentityInv, ProjectionInv PROVE AuthorityAgrees
  <2>1. DOMAIN grants = DOMAIN delegations
    BY <1>1 DEF ProjectionInv, GrantsMirrored
  <2>2. ASSUME NEW key \in Keys
        PROVE  AuthorizesRoot(key, identity.sequence)
                 <=> identity.active /\ key = identity.root
    BY <1>1, PresentRoot DEF AuthorizesRoot, ProjectionInv, RootsMirrored
  <2>3. ASSUME NEW key \in Keys, NEW scope \in ObjectScopes
        PROVE  AuthorizesDelegate(key, scope, identity.sequence, slot)
                 <=> /\ identity.active
                     /\ \E i \in DOMAIN delegations :
                          /\ delegations[i].delegate = key
                          /\ scope \in DelegationScopes(delegations[i])
    BY <1>1, <2>1, PresentGrant DEF AuthorizesDelegate
  <2> QED BY <2>2, <2>3 DEF AuthorityAgrees
<1> QED BY <1>1, ProjectionInvariance, PTL

(* A root that was in force stays so when the history is extended.         *)
LEMMA PastRoot ==
    ASSUME IdentityInv, ProjectionInv, Projected, NEW at \in Positions
    PROVE  RootsAt(at)' = RootsAt(at)
<1> USE DEF Projected
<1>1. identity.sequence \in Nat /\ at \in Nat /\ at <= identity.sequence
  BY AccountTypes DEF Positions
<1>2. (deactivatedAt' = 0 \/ at < deactivatedAt') <=> (deactivatedAt = 0 \/ at < deactivatedAt)
  <2>1. deactivatedAt' \in Int
    BY DEF ProjectionInv, IdentityMirrored, Positions
  <2> QED BY <1>1, <2>1 DEF Extends
<1>3. /\ DOMAIN roots \subseteq DOMAIN roots'
      /\ \A i \in DOMAIN roots : roots'[i] = roots[i]
      /\ \A i \in DOMAIN roots' \ DOMAIN roots : ~(roots'[i].at <= at)
  <2>1. ASSUME NEW i \in DOMAIN roots' \ DOMAIN roots PROVE ~(roots'[i].at <= at)
    <3>1. roots'[i].at > identity.sequence /\ roots'[i].at \in Int
      BY DEF Extends, ProjectionInv, RootsMirrored, Positions
    <3> QED BY <1>1, <3>1
  <2> QED BY <2>1 DEF Extends
<1>4. ASSUME NEW r PROVE r \in RootsAt(at)' <=> r \in RootsAt(at)
  BY <1>2, <1>3 DEF RootsAt
<1> QED BY <1>4

(* What is answered of a past position is never changed, so a manifest     *)
(* verified once verifies again whenever it is looked at.                  *)
THEOREM PastAnswersStay == IndexedSpec => HistoryFixed
<1>1. ASSUME IdentityInv, ProjectionInv, [IndexedNext]_indexedVars,
             NEW key \in Keys, NEW at \in 0 .. known.sequence
      PROVE  /\ AuthorizesRoot(key, at)' <=> AuthorizesRoot(key, at)
             /\ \A scope \in ObjectScopes, now \in 0 .. MaxSlot :
                  AuthorizesDelegate(key, scope, at, now)'
                    <=> AuthorizesDelegate(key, scope, at, now)
  <2>1. Projected /\ Extends /\ ProjectionInv'
    BY <1>1, StepProjected DEF Projected
  <2>2. at \in Positions
    BY <1>1 DEF ProjectionInv, IdentityMirrored, Positions
  <2>3. RootsAt(at)' = RootsAt(at)
    BY <1>1, <2>1, <2>2, PastRoot
  <2>4. identity.sequence \in Nat /\ at \in Nat /\ at <= identity.sequence
    BY <1>1, <2>2, AccountTypes DEF Positions
  <2>5. ASSUME NEW i \in DOMAIN grants, NEW scope \in ObjectScopes, NEW now \in 0 .. MaxSlot
        PROVE  GrantSpeaks(grants[i], key, scope, at, now)'
                 <=> GrantSpeaks(grants[i], key, scope, at, now)
    BY <2>1, <2>3, <2>4 DEF Extends, GrantSpeaks
  <2>6. ASSUME NEW i \in DOMAIN grants' \ DOMAIN grants, NEW scope \in ObjectScopes,
               NEW now \in 0 .. MaxSlot
        PROVE  ~GrantSpeaks(grants[i], key, scope, at, now)'
    <3>1. grants'[i].created > identity.sequence
      BY <2>1 DEF Extends
    <3>2. DOMAIN grants' = DOMAIN delegations'
      BY <2>1 DEF ProjectionInv, GrantsMirrored
    <3>3. grants'[i].created \in Int
      BY <2>1, <3>2 DEF ProjectionInv, GrantsMirrored, GrantMirrors, Positions
    <3>4. ~(grants'[i].created <= at)
      BY <2>4, <3>1, <3>3
    <3> QED BY <3>4 DEF GrantSpeaks
  <2>7. DOMAIN grants \subseteq DOMAIN grants'
    BY <2>1 DEF Extends
  <2> QED BY <2>3, <2>5, <2>6, <2>7 DEF AuthorizesRoot, AuthorizesDelegate
<1>2. IdentityInv /\ ProjectionInv /\ [IndexedNext]_indexedVars =>
        [\A key \in Keys, at \in 0 .. known.sequence :
            /\ AuthorizesRoot(key, at)' <=> AuthorizesRoot(key, at)
            /\ \A scope \in ObjectScopes, now \in 0 .. MaxSlot :
                 AuthorizesDelegate(key, scope, at, now)'
                   <=> AuthorizesDelegate(key, scope, at, now)]_<<roots, deactivatedAt, grants>>
  BY <1>1
<1> QED BY <1>2, ProjectionInvariance, PTL DEF IndexedSpec, HistoryFixed
=============================================================================
