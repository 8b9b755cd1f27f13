------------------------ MODULE AuthorityProjection ------------------------
(***************************************************************************)
(* What the indexer makes of one identity: the program's commands of       *)
(* Identity emit events, and the projection takes them in the order of the *)
(* chain, checks each against what it has projected and refuses one that   *)
(* does not continue it.  A refused event is never passed over: ingestion  *)
(* stops at it.  The projection is a function of the events, so its lag is *)
(* left out and an event is projected in the step that emits it.           *)
(*                                                                         *)
(* The position of an event in the chain is the identity's sequence after  *)
(* it.  The projection answers authorizeSigningKey, the question whether a *)
(* key could sign for the identity at a position: it has no delegation     *)
(* account to look at, only the history.                                   *)
(***************************************************************************)
EXTENDS Identity

VARIABLES
    known,          \* the identity: root, rotations, sequence, active
    roots,          \* the roots it had, and the position each came at
    deactivatedAt,  \* the position of its deactivation, 0 if there is none
    grants,         \* the delegations, by delegation sequence
    recovery,       \* the recovery policy, sequence 0 if there is none
    recoveries,     \* the recovery requests, by nonce
    refused         \* an event did not fit the projection

projection == <<known, roots, deactivatedAt, grants, recovery, recoveries>>
indexedVars == <<vars, projection, refused>>

NoRecovery ==
    [state |-> "absent", policy |-> 0, root |-> Origin, sequence |-> 0, rotations |-> 0,
     target |-> Origin, guardians |-> <<>>, threshold |-> 0, approvals |-> {}, count |-> 0,
     executeAfter |-> 0, terminal |-> 0]

-----------------------------------------------------------------------------
(* Checks shared by the events. *)

(* #validateIdentityLifecycle, of an event that advances the sequence and  *)
(* of one that only quotes it.                                             *)
Advances(sequence) == known.active /\ sequence = known.sequence + 1
Snapshot(sequence) == known.active /\ sequence = known.sequence

(* How an admitted event that advances the sequence ends. *)
AdvanceTo(sequence) == known' = [known EXCEPT !.sequence = sequence]

OfRoot(root, rotations) == known.root = root /\ known.rotations = rotations

(* The sequences of #latestRecoveryIdentitySequence. *)
RecoverySequences ==
    {recovery.at} \cup {recoveries[n].sequence : n \in Nonces}
                  \cup {recoveries[n].terminal : n \in Nonces}

(* The event is projected, or it is refused and changes nothing. *)
Process(fits, effect) ==
    /\ refused' = ~fits
    /\ IF fits THEN effect ELSE UNCHANGED projection

-----------------------------------------------------------------------------
(* The events, with the fields the projection looks at. *)

RotationFits(previous, rotations, sequence) ==
    /\ Advances(sequence)
    /\ OfRoot(previous, rotations - 1)

RecordRotation(root, rotations, sequence) ==
    /\ known' = [known EXCEPT !.root = root, !.rotations = rotations, !.sequence = sequence]
    /\ roots' = Append(roots, [authority |-> root, rotations |-> rotations, at |-> sequence])

RootAuthorityRotated(previous, root, rotations, sequence) ==
    Process(RotationFits(previous, rotations, sequence),
            /\ RecordRotation(root, rotations, sequence)
            /\ UNCHANGED <<deactivatedAt, grants, recovery, recoveries>>)

IdentityDeactivated(root, sequence) ==
    Process(/\ Advances(sequence)
            /\ known.root = root,
            /\ known' = [known EXCEPT !.active = FALSE, !.sequence = sequence]
            /\ deactivatedAt' = sequence
            /\ UNCHANGED <<roots, grants, recovery, recoveries>>)

DelegationCreated(number, delegate, terms, rotations, sequence) ==
    Process(/\ Advances(sequence)
            /\ known.rotations = rotations
            /\ number \notin DOMAIN grants,
            /\ AdvanceTo(sequence)
            /\ grants' = [i \in DOMAIN grants \cup {number} |->
                   IF i = number
                   THEN [delegate |-> delegate, scopes |-> terms.scopes,
                         expires |-> terms.expires, rotations |-> rotations,
                         created |-> sequence, revoked |-> 0]
                   ELSE grants[i]]
            /\ UNCHANGED <<roots, deactivatedAt, recovery, recoveries>>)

(* The state sequence of a delegation is left out: it is 1, then 2. *)
DelegationRevoked(number, delegate, sequence) ==
    Process(/\ Advances(sequence)
            /\ number \in DOMAIN grants
            /\ grants[number].delegate = delegate
            /\ grants[number].revoked = 0,
            /\ AdvanceTo(sequence)
            /\ grants' = [grants EXCEPT ![number].revoked = sequence]
            /\ UNCHANGED <<roots, deactivatedAt, recovery, recoveries>>)

RecoveryPolicyConfigured(root, rotations, terms, policySequence, sequence) ==
    Process(/\ Advances(sequence)
            /\ OfRoot(root, rotations)
            /\ policySequence = recovery.sequence + 1
            /\ \A s \in RecoverySequences : sequence > s,
            /\ AdvanceTo(sequence)
            /\ recovery' = [sequence |-> policySequence, at |-> sequence, active |-> TRUE,
                            guardians |-> terms.guardians, threshold |-> terms.threshold,
                            delay |-> terms.delay]
            /\ UNCHANGED <<roots, deactivatedAt, grants, recoveries>>)

RecoveryPolicyDisabled(root, rotations, policySequence, sequence) ==
    Process(/\ Advances(sequence)
            /\ OfRoot(root, rotations)
            /\ recovery.active
            /\ policySequence = recovery.sequence + 1
            /\ \A s \in RecoverySequences : sequence > s,
            /\ AdvanceTo(sequence)
            /\ recovery' = [recovery EXCEPT !.sequence = policySequence, !.at = sequence,
                                            !.active = FALSE]
            /\ UNCHANGED <<roots, deactivatedAt, grants, recoveries>>)

(* What the policy says of a request, and of an approval or execution. *)
OfPolicy(policySequence) == recovery.active /\ recovery.sequence = policySequence

\* Mutant: a request is to be newer than all that concerned recovery before it.
RequestNewer(n, guardian, r, now) ==
    /\ Snapshot(r.sequence)
    /\ OfRoot(r.root, r.rotations)
    /\ OfPolicy(r.policy)
    /\ recovery.threshold = r.threshold
    /\ Len(recovery.guardians) = r.guardians
    /\ r.executeAfter = now + recovery.delay
    /\ \A s \in RecoverySequences : r.sequence > s
    /\ \A i \in DOMAIN recovery.guardians : recovery.guardians[i] # r.root
    /\ \E i \in DOMAIN recovery.guardians : recovery.guardians[i] = guardian
    /\ recoveries[n].state = "absent"

RequestFits(n, guardian, r, now) ==
    /\ Snapshot(r.sequence)
    /\ OfRoot(r.root, r.rotations)
    /\ OfPolicy(r.policy)
    /\ recovery.threshold = r.threshold
    /\ Len(recovery.guardians) = r.guardians
    /\ r.executeAfter = now + recovery.delay
    /\ \A s \in RecoverySequences : r.sequence >= s
    /\ \A i \in DOMAIN recovery.guardians : recovery.guardians[i] # r.root
    /\ \E i \in DOMAIN recovery.guardians : recovery.guardians[i] = guardian
    /\ recoveries[n].state = "absent"

(* The index of a guardian, as indexOf finds it. *)
IndexOf(guardians, key) ==
    {i \in DOMAIN guardians : /\ guardians[i] = key
                             /\ \A j \in DOMAIN guardians : guardians[j] = key => i <= j}

(* The request keeps the guardians of the policy it was made under, and    *)
(* the requesting guardian is the first to approve.                        *)
RecoveryRequested(n, guardian, r, now) ==
    Process(RequestFits(n, guardian, r, now),
            /\ recoveries' = [recoveries EXCEPT ![n] =
                   [state |-> "pending", policy |-> r.policy, root |-> r.root,
                    sequence |-> r.sequence, rotations |-> r.rotations, target |-> r.target,
                    guardians |-> recovery.guardians, threshold |-> r.threshold,
                    approvals |-> IndexOf(recovery.guardians, guardian),
                    count |-> 1, executeAfter |-> r.executeAfter, terminal |-> 0]]
            /\ UNCHANGED <<known, roots, deactivatedAt, grants, recovery>>)

RecoveryApproved(n, guardian, index, policySequence, threshold, count) ==
    Process(/\ known.active
            /\ OfRoot(recoveries[n].root, recoveries[n].rotations)
            /\ OfPolicy(policySequence)
            /\ recoveries[n].policy = policySequence
            /\ recoveries[n].state = "pending"
            /\ recoveries[n].threshold = threshold
            /\ index \in DOMAIN recoveries[n].guardians
            /\ recoveries[n].guardians[index] = guardian
            /\ index \notin recoveries[n].approvals
            /\ count = recoveries[n].count + 1,
            /\ recoveries' = [recoveries EXCEPT ![n].approvals = @ \cup {index},
                                                ![n].count = count]
            /\ UNCHANGED <<known, roots, deactivatedAt, grants, recovery>>)

RecoveryCancelled(n, root, rotations, policySequence, target, sequence) ==
    Process(/\ Advances(sequence)
            /\ OfRoot(root, rotations)
            /\ recoveries[n].policy = policySequence
            /\ recoveries[n].target = target
            /\ recoveries[n].state = "pending"
            /\ \A s \in RecoverySequences : sequence > s,
            /\ AdvanceTo(sequence)
            /\ recoveries' = [recoveries EXCEPT ![n].state = "cancelled",
                                                ![n].terminal = sequence]
            /\ UNCHANGED <<roots, deactivatedAt, grants, recovery>>)

(* Checked once the rotation event of the same transaction is projected:   *)
(* after is the identity and last the last root as that event leaves them. *)
ExecutionFits(n, after, last, e) ==
    /\ after.active
    /\ after.sequence = e.sequence
    /\ after.root = e.root
    /\ after.rotations = e.rotations
    /\ OfPolicy(e.policy)
    /\ recoveries[n].policy = e.policy
    /\ recoveries[n].root = e.previous
    /\ recoveries[n].target = e.root
    /\ recoveries[n].state = "pending"
    /\ recoveries[n].threshold = e.threshold
    /\ recoveries[n].count = e.count
    /\ e.count >= e.threshold
    /\ e.sequence = recoveries[n].sequence + 1
    /\ \A s \in RecoverySequences : e.sequence > s
    /\ e.rotations = recoveries[n].rotations + 1
    /\ e.slot >= recoveries[n].executeAfter
    /\ last = [authority |-> e.root, rotations |-> e.rotations, at |-> e.sequence]

(* execute_recovery emits root-authority-rotated, then recovery-executed.  *)
RecoveryExecuted(n, e) ==
    LET rotates == RotationFits(e.previous, e.rotations, e.sequence)
        executes == rotates /\ ExecutionFits(n, known', roots'[Len(roots')], e)
    IN  /\ IF rotates
           THEN RecordRotation(e.root, e.rotations, e.sequence)
           ELSE UNCHANGED <<known, roots>>
        /\ refused' = ~executes
        /\ recoveries' = IF executes
                         THEN [recoveries EXCEPT ![n].state = "executed",
                                                 ![n].terminal = e.sequence]
                         ELSE recoveries
        /\ UNCHANGED <<deactivatedAt, grants, recovery>>

(* post-published and tombstoned concern the identity by its sequence.     *)
PostEvent(sequence) ==
    Process(Advances(sequence),
            /\ AdvanceTo(sequence)
            /\ UNCHANGED <<roots, deactivatedAt, grants, recovery, recoveries>>)

-----------------------------------------------------------------------------
(* The events a command emits, with values of the accounts as it leaves    *)
(* them, are projected unless ingestion has stopped at one before.         *)
Emit(c) ==
    \/ /\ c.op = "rotate"
       /\ RootAuthorityRotated(identity.root, identity'.root, identity'.rotations,
                               identity'.sequence)
    \/ /\ c.op = "deactivate"
       /\ IdentityDeactivated(identity'.root, identity'.sequence)
    \/ /\ c.op = "delegate"
       /\ LET d == delegations'[Len(delegations')]
          IN  DelegationCreated(Len(delegations'), d.delegate, d, d.rotations,
                                identity'.sequence)
    \/ /\ c.op = "revoke"
       /\ DelegationRevoked(c.delegation, delegations'[c.delegation].delegate,
                            identity'.sequence)
    \/ /\ c.op = "configure"
       /\ RecoveryPolicyConfigured(identity'.root, identity'.rotations, policy',
                                   policy'.sequence, identity'.sequence)
    \/ /\ c.op = "disable"
       /\ RecoveryPolicyDisabled(identity'.root, identity'.rotations, policy'.sequence,
                                 identity'.sequence)
    \/ /\ c.op = "request"
       /\ RecoveryRequested(c.nonce, c.signer, requests'[c.nonce], slot)
    \/ /\ c.op = "approve"
       /\ \E i \in IndexOf(policy.guardians, c.signer) :
            RecoveryApproved(c.nonce, c.signer, i, policy.sequence,
                             requests'[c.nonce].threshold,
                             Cardinality(requests'[c.nonce].approvals))
    \/ /\ c.op = "execute"
       /\ RecoveryExecuted(c.nonce,
              [previous |-> identity.root, root |-> identity'.root,
               rotations |-> identity'.rotations, sequence |-> identity'.sequence,
               policy |-> policy.sequence, threshold |-> requests'[c.nonce].threshold,
               count |-> Cardinality(requests'[c.nonce].approvals), slot |-> slot])
    \/ /\ c.op = "cancel"
       /\ RecoveryCancelled(c.nonce, identity'.root, identity'.rotations,
                            requests'[c.nonce].policy, requests'[c.nonce].target,
                            identity'.sequence)
    \/ /\ c.op \in {"publish", "publish_delegated", "tombstone", "tombstone_delegated"}
       /\ PostEvent(identity'.sequence)

Project(c) == IF refused THEN UNCHANGED <<projection, refused>> ELSE Emit(c)

IndexedDeliver ==
    /\ \E c \in CommandsNow : Handle(c) /\ Project(c)
    /\ UNCHANGED <<slot, inFlight>>

IndexedLand ==
    /\ Land
    /\ Project(inFlight.command)

IndexedSign == Sign /\ UNCHANGED <<projection, refused>>

IndexedTick == Tick /\ UNCHANGED <<projection, refused>>

(* The identity-created event is projected. *)
IndexedInit ==
    /\ Init
    /\ known = [root |-> Origin, rotations |-> 0, sequence |-> 0, active |-> TRUE]
    /\ roots = <<[authority |-> Origin, rotations |-> 0, at |-> 0]>>
    /\ deactivatedAt = 0
    /\ grants = <<>>
    /\ recovery = [sequence |-> 0, at |-> 0, active |-> FALSE, guardians |-> <<>>,
                   threshold |-> 0, delay |-> 0]
    /\ recoveries = [n \in Nonces |-> NoRecovery]
    /\ refused = FALSE

IndexedNext == IndexedDeliver \/ IndexedSign \/ IndexedLand \/ IndexedTick

IndexedSpec == IndexedInit /\ [][IndexedNext]_indexedVars

-----------------------------------------------------------------------------
(* authorizeSigningKey, of a position and a slot. *)

(* The root in force: of those that came by then the last, if any, unless  *)
(* the identity was deactivated by then.                                   *)
RootsAt(at) ==
    {r \in {roots[i] : i \in DOMAIN roots} :
        /\ deactivatedAt = 0 \/ at < deactivatedAt
        /\ r.at <= at
        /\ \A i \in DOMAIN roots : roots[i].at <= at => roots[i].at <= r.at}

\* Mutant: a delegation that was ever revoked never spoke for the identity.
GrantUnrevoked(d, key, scope, at, now) ==
    /\ d.delegate = key
    /\ d.expires >= now
    /\ scope \in d.scopes
    /\ d.created <= at
    /\ d.revoked = 0
    /\ \E root \in RootsAt(at) : d.rotations = root.rotations

\* Mutant: the epoch of a delegation is not compared.
GrantOfAnyEpoch(d, key, scope, at, now) ==
    /\ d.delegate = key
    /\ d.expires >= now
    /\ scope \in d.scopes
    /\ d.created <= at
    /\ d.revoked = 0 \/ at < d.revoked
    /\ RootsAt(at) # {}

GrantSpeaks(d, key, scope, at, now) ==
    /\ d.delegate = key
    /\ d.expires >= now
    /\ scope \in d.scopes
    /\ d.created <= at
    /\ d.revoked = 0 \/ at < d.revoked
    /\ \E root \in RootsAt(at) : d.rotations = root.rotations

AuthorizesRoot(key, at) == \E root \in RootsAt(at) : key = root.authority

AuthorizesDelegate(key, scope, at, now) ==
    \E i \in DOMAIN grants : GrantSpeaks(grants[i], key, scope, at, now)

-----------------------------------------------------------------------------
(* Properties. *)

(* The scopes scopeForObjectType asks for. *)
ObjectScopes == {"profile", "post", "community"}

(* No event the program can emit is refused: whatever the order of         *)
(* commands, and whatever lands late, the checks of the projection are     *)
(* never stricter than those of the program, so ingestion never stops.     *)
EventsAccepted == ~refused

(* The projection and the program agree on whose signature counts, though  *)
(* they decide by different means: the program by the accounts as they     *)
(* are, the projection by positions and rotation counts alone, without the *)
(* root a delegation was issued by.                                        *)
AuthorityAgrees ==
    \A key \in Keys :
        /\ AuthorizesRoot(key, identity.sequence) <=> identity.active /\ key = identity.root
        /\ \A scope \in ObjectScopes :
             AuthorizesDelegate(key, scope, identity.sequence, slot)
               <=> /\ identity.active
                   /\ \E i \in DOMAIN delegations :
                        /\ delegations[i].delegate = key
                        /\ scope \in DelegationScopes(delegations[i])

(* Later events never change what is answered of an earlier position: a    *)
(* manifest verified once verifies again after rotations, revocations and  *)
(* deactivation, as a rebuild or a late hydration needs.                   *)
HistoryFixed ==
    [][\A key \in Keys, at \in 0 .. known.sequence :
          /\ AuthorizesRoot(key, at)' <=> AuthorizesRoot(key, at)
          /\ \A scope \in ObjectScopes, now \in 0 .. MaxSlot :
               AuthorizesDelegate(key, scope, at, now)'
                 <=> AuthorizesDelegate(key, scope, at, now)]_<<roots, deactivatedAt, grants>>
=============================================================================
