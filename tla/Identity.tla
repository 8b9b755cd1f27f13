------------------------------ MODULE Identity ------------------------------
(***************************************************************************)
(* One identity of the social_protocol program and the accounts its        *)
(* authority rests on: the root key, the delegations the root issues, the  *)
(* recovery policy and requests of its guardians, and the posts published  *)
(* in its name.  Every instruction is a handler below; a transaction that  *)
(* fails a check changes nothing and is left out.                          *)
(*                                                                         *)
(* Clients sign a command against the accounts they last read.  A command  *)
(* delivered at once is a step of Deliver; one command at a time may be    *)
(* signed and kept (inFlight), to land late, several times or never, which *)
(* is what a transaction that is rebroadcast may do.                       *)
(***************************************************************************)
EXTENDS Integers, Sequences, FiniteSets

CONSTANTS
    Keys,          \* public keys that may sign
    Origin,        \* the key that creates the identity
    Policies,      \* recovery policies a root may ask for
    Nonces,        \* nonces of recovery requests
    Posts,         \* nonces of posts
    Grants,        \* terms of delegations: scopes and expiry slot
    Delayed,       \* bound: operations of the command that is delayed
    LastSigned,    \* bound: the last sequence at which it is signed
    MaxSequence,   \* bound: identity commands in a behaviour (a u64 in the code)
    MaxSlot        \* bound: the last slot of the clock

MinGuardians == 2
MaxGuardians == 5
MinDelay == 2
MaxDelay == 1000000

PolicyTerms == [guardians : Seq(Keys), threshold : Nat, delay : Nat]
Scopes == {"profile", "post", "social", "community"}
GrantTerms == [scopes : SUBSET Scopes, expires : Nat]

ASSUME OriginAssumption == Origin \in Keys
ASSUME PoliciesAssumption == Policies \subseteq PolicyTerms
ASSUME GrantsAssumption == Grants \subseteq GrantTerms
ASSUME BoundsAssumption == MaxSequence \in Nat /\ MaxSlot \in Nat

VARIABLES
    identity,      \* root, rotations, sequence, active
    policy,        \* the recovery policy account
    requests,      \* recovery request accounts, by nonce
    delegations,   \* delegation accounts, by delegation sequence
    posts,         \* post accounts, by nonce
    slot,          \* the clock
    inFlight       \* a signed command that has not landed, or lands again

accounts == <<identity, policy, requests, delegations, posts>>
vars == <<accounts, slot, inFlight>>

(* What one value of identity.sequence stands for. *)
Versioned == <<identity, policy, delegations, posts>>

NoCommand == [op |-> "none"]
NoPost == [state |-> "absent", by |-> Origin]
NoRequest ==
    [state |-> "absent", policy |-> 0, root |-> Origin, sequence |-> 0, rotations |-> 0,
     target |-> Origin, threshold |-> 0, guardians |-> 0, approvals |-> {},
     requestedAt |-> 0, executeAfter |-> 0]

-----------------------------------------------------------------------------
(* Checks shared by the handlers. *)

ValidRecoveryPolicy(root, p) ==
    /\ Len(p.guardians) \in MinGuardians .. MaxGuardians
    /\ p.delay \in MinDelay .. MaxDelay
    /\ p.threshold \in MinGuardians .. Len(p.guardians)
    /\ \A i \in DOMAIN p.guardians : p.guardians[i] # root
    /\ \A i, j \in DOMAIN p.guardians : p.guardians[i] = p.guardians[j] => i = j

\* Mutant: a request stays current while the policy it was made for does.
RequestOfPolicy(r) == r.state = "pending" /\ policy.active /\ r.policy = policy.sequence

\* Mutant: the sequence of the identity is not compared.
RequestOfEpoch(r) ==
    /\ r.state = "pending"
    /\ policy.active
    /\ r.policy = policy.sequence
    /\ r.root = identity.root
    /\ r.rotations = identity.rotations
    /\ r.target # identity.root

(* The request was made for exactly this policy, root, sequence and epoch. *)
RequestCurrent(r) ==
    /\ r.state = "pending"
    /\ policy.active
    /\ r.policy = policy.sequence
    /\ r.root = identity.root
    /\ r.sequence = identity.sequence
    /\ r.rotations = identity.rotations
    /\ r.threshold = policy.threshold
    /\ r.guardians = Len(policy.guardians)
    /\ ValidRecoveryPolicy(identity.root, policy)
    /\ r.target # identity.root

(* A delegation speaks for the root that issued it, in the epoch it did. *)
DelegationScopes(d) ==
    IF /\ d.root = identity.root
       /\ d.rotations = identity.rotations
       /\ d.active
       /\ slot <= d.expires
    THEN d.scopes ELSE {}

AuthorizeIdentityAction(signer, d, scope) ==
    signer = identity.root \/ (d.delegate = signer /\ scope \in DelegationScopes(d))

\* Mutant: the sequence is not checked for overflow.
UncheckedNextSequence(expected) == identity.active /\ expected = identity.sequence

(* checked_next_sequence of a command of an active identity. *)
NextSequence(expected) ==
    /\ identity.active
    /\ expected = identity.sequence
    /\ identity.sequence < MaxSequence

RootCommand(c) == c.signer = identity.root /\ NextSequence(c.expected)

Advance(account) == [account EXCEPT !.sequence = @ + 1]

-----------------------------------------------------------------------------
(* The handlers: c is the command, with its signer and its arguments. *)

RotateRootAuthority(c) ==
    /\ RootCommand(c)
    /\ c.key # identity.root
    /\ identity' = [Advance(identity) EXCEPT !.rotations = @ + 1, !.root = c.key]
    /\ UNCHANGED <<policy, requests, delegations, posts>>

DeactivateIdentity(c) ==
    /\ RootCommand(c)
    /\ identity' = [Advance(identity) EXCEPT !.active = FALSE]
    /\ UNCHANGED <<policy, requests, delegations, posts>>

CreateDelegation(c) ==
    /\ RootCommand(c)
    /\ c.terms.scopes # {}
    /\ c.terms.expires > slot
    /\ c.delegate # identity.root
    /\ identity' = Advance(identity)
    /\ delegations' = Append(delegations,
           [delegate |-> c.delegate, scopes |-> c.terms.scopes, expires |-> c.terms.expires,
            root |-> identity.root, rotations |-> identity.rotations, active |-> TRUE])
    /\ UNCHANGED <<policy, requests, posts>>

RevokeDelegation(c) ==
    /\ RootCommand(c)
    /\ c.delegation \in DOMAIN delegations
    /\ delegations[c.delegation].active
    /\ identity' = Advance(identity)
    /\ delegations' = [delegations EXCEPT ![c.delegation].active = FALSE]
    /\ UNCHANGED <<policy, requests, posts>>

ConfigureRecoveryPolicy(c) ==
    /\ RootCommand(c)
    /\ ValidRecoveryPolicy(identity.root, c.policy)
    /\ identity' = Advance(identity)
    /\ policy' = [sequence |-> policy.sequence + 1, active |-> TRUE,
                  guardians |-> c.policy.guardians, threshold |-> c.policy.threshold,
                  delay |-> c.policy.delay]
    /\ UNCHANGED <<requests, delegations, posts>>

\* Mutant: disabling the policy leaves the sequence of the identity as it is.
DisableWithoutAdvance(c) ==
    /\ RootCommand(c)
    /\ policy.active
    /\ policy' = [Advance(policy) EXCEPT !.active = FALSE]
    /\ UNCHANGED <<identity, requests, delegations, posts>>

DisableRecoveryPolicy(c) ==
    /\ RootCommand(c)
    /\ policy.active
    /\ identity' = Advance(identity)
    /\ policy' = [Advance(policy) EXCEPT !.active = FALSE]
    /\ UNCHANGED <<requests, delegations, posts>>

(* The request account of a nonce is created once and never closed. *)
RequestRecovery(c) ==
    /\ identity.active
    /\ c.expected = identity.sequence
    /\ requests[c.nonce].state = "absent"
    /\ policy.active
    /\ ValidRecoveryPolicy(identity.root, policy)
    /\ c.target # identity.root
    /\ \E i \in DOMAIN policy.guardians :
         /\ policy.guardians[i] = c.signer
         /\ requests' = [requests EXCEPT ![c.nonce] =
                [state |-> "pending", policy |-> policy.sequence, root |-> identity.root,
                 sequence |-> identity.sequence, rotations |-> identity.rotations,
                 target |-> c.target, threshold |-> policy.threshold,
                 guardians |-> Len(policy.guardians), approvals |-> {i},
                 requestedAt |-> slot, executeAfter |-> slot + policy.delay]]
    /\ UNCHANGED <<identity, policy, delegations, posts>>

\* Mutant: a guardian may approve again.
ApproveAgain(c) ==
    /\ identity.active
    /\ RequestCurrent(requests[c.nonce])
    /\ \E i \in DOMAIN policy.guardians :
         /\ policy.guardians[i] = c.signer
         /\ requests' = [requests EXCEPT ![c.nonce].approvals = @ \cup {i}]
    /\ UNCHANGED <<identity, policy, delegations, posts>>

(* An approval is the bit of the guardian's index in the policy. *)
ApproveRecovery(c) ==
    /\ identity.active
    /\ RequestCurrent(requests[c.nonce])
    /\ \E i \in DOMAIN policy.guardians \ requests[c.nonce].approvals :
         /\ policy.guardians[i] = c.signer
         /\ requests' = [requests EXCEPT ![c.nonce].approvals = @ \cup {i}]
    /\ UNCHANGED <<identity, policy, delegations, posts>>

ExecuteRecovery(c) ==
    /\ identity.active
    /\ identity.sequence < MaxSequence
    /\ LET r == requests[c.nonce]
       IN /\ RequestCurrent(r)
          /\ c.signer = r.target
          /\ r.executeAfter = r.requestedAt + policy.delay
          /\ slot >= r.executeAfter
          /\ Cardinality(r.approvals) >= r.threshold
    /\ identity' = [Advance(identity) EXCEPT !.rotations = @ + 1, !.root = c.signer]
    /\ requests' = [requests EXCEPT ![c.nonce].state = "executed"]
    /\ UNCHANGED <<policy, delegations, posts>>

CancelRecovery(c) ==
    /\ RootCommand(c)
    /\ requests[c.nonce].state = "pending"
    /\ identity' = Advance(identity)
    /\ requests' = [requests EXCEPT ![c.nonce].state = "cancelled"]
    /\ UNCHANGED <<policy, delegations, posts>>

PublishPost(c) ==
    /\ RootCommand(c)
    /\ posts[c.post].state = "absent"
    /\ identity' = Advance(identity)
    /\ posts' = [posts EXCEPT ![c.post] = [state |-> "live", by |-> c.signer]]
    /\ UNCHANGED <<policy, requests, delegations>>

(* Names an account of the identity whose delegate is the signer. *)
DelegatedCommand(c) ==
    /\ NextSequence(c.expected)
    /\ c.delegation \in DOMAIN delegations
    /\ delegations[c.delegation].delegate = c.signer
    /\ AuthorizeIdentityAction(c.signer, delegations[c.delegation], "post")

PublishPostDelegated(c) ==
    /\ DelegatedCommand(c)
    /\ posts[c.post].state = "absent"
    /\ identity' = Advance(identity)
    /\ posts' = [posts EXCEPT ![c.post] = [state |-> "live", by |-> c.signer]]
    /\ UNCHANGED <<policy, requests, delegations>>

TombstonePost(c) ==
    /\ RootCommand(c)
    /\ posts[c.post].state = "live"
    /\ identity' = Advance(identity)
    /\ posts' = [posts EXCEPT ![c.post].state = "tombstoned"]
    /\ UNCHANGED <<policy, requests, delegations>>

TombstonePostDelegated(c) ==
    /\ DelegatedCommand(c)
    /\ posts[c.post].state = "live"
    /\ identity' = Advance(identity)
    /\ posts' = [posts EXCEPT ![c.post].state = "tombstoned"]
    /\ UNCHANGED <<policy, requests, delegations>>

-----------------------------------------------------------------------------
(* The commands with given expected sequences and delegation numbers. *)
CommandSet(Expected, Numbers) ==
    [op : {"rotate"}, signer : Keys, key : Keys, expected : Expected]
    \cup [op : {"deactivate", "disable"}, signer : Keys, expected : Expected]
    \cup [op : {"delegate"}, signer : Keys, delegate : Keys, terms : Grants, expected : Expected]
    \cup [op : {"revoke"}, signer : Keys, delegation : Numbers, expected : Expected]
    \cup [op : {"configure"}, signer : Keys, policy : Policies, expected : Expected]
    \cup [op : {"request"}, signer : Keys, nonce : Nonces, target : Keys, expected : Expected]
    \cup [op : {"approve", "execute"}, signer : Keys, nonce : Nonces]
    \cup [op : {"cancel"}, signer : Keys, nonce : Nonces, expected : Expected]
    \cup [op : {"publish", "tombstone"}, signer : Keys, post : Posts, expected : Expected]
    \cup [op : {"publish_delegated", "tombstone_delegated"}, signer : Keys,
          delegation : Numbers, post : Posts, expected : Expected]

Commands == CommandSet(Nat, Nat)

(* What a client can sign against the accounts as they are. *)
CommandsNow == CommandSet({identity.sequence}, DOMAIN delegations)

(* The signer holds the key that the accounts name for the command. *)
OwnCommand(c) ==
    CASE c.op \in {"request", "approve"} ->
             \E i \in DOMAIN policy.guardians : c.signer = policy.guardians[i]
      [] c.op = "execute" -> c.signer = requests[c.nonce].target
      [] c.op \in {"publish_delegated", "tombstone_delegated"} ->
             c.signer = delegations[c.delegation].delegate
      [] OTHER -> c.signer = identity.root

Handle(c) ==
    \/ c.op = "rotate" /\ RotateRootAuthority(c)
    \/ c.op = "deactivate" /\ DeactivateIdentity(c)
    \/ c.op = "delegate" /\ CreateDelegation(c)
    \/ c.op = "revoke" /\ RevokeDelegation(c)
    \/ c.op = "configure" /\ ConfigureRecoveryPolicy(c)
    \/ c.op = "disable" /\ DisableRecoveryPolicy(c)
    \/ c.op = "request" /\ RequestRecovery(c)
    \/ c.op = "approve" /\ ApproveRecovery(c)
    \/ c.op = "execute" /\ ExecuteRecovery(c)
    \/ c.op = "cancel" /\ CancelRecovery(c)
    \/ c.op = "publish" /\ PublishPost(c)
    \/ c.op = "publish_delegated" /\ PublishPostDelegated(c)
    \/ c.op = "tombstone" /\ TombstonePost(c)
    \/ c.op = "tombstone_delegated" /\ TombstonePostDelegated(c)

(* A command lands as soon as it is signed. *)
Deliver ==
    /\ \E c \in CommandsNow : Handle(c)
    /\ UNCHANGED <<slot, inFlight>>

(* A client signs a command that is delayed. *)
Sign ==
    /\ inFlight.command = NoCommand
    /\ identity.sequence <= LastSigned
    /\ \E c \in CommandsNow :
         /\ c.op \in Delayed
         /\ OwnCommand(c)
         /\ inFlight' = [command |-> c, landed |-> 0]
    /\ UNCHANGED <<accounts, slot>>

(* The delayed command lands, now or again. *)
Land ==
    /\ inFlight.command # NoCommand
    /\ Handle(inFlight.command)
    /\ inFlight' = [inFlight EXCEPT !.landed = @ + 1]
    /\ UNCHANGED slot

Tick ==
    /\ slot < MaxSlot
    /\ slot' = slot + 1
    /\ UNCHANGED <<accounts, inFlight>>

(* create_identity; the policy account does not exist yet. *)
Init ==
    /\ identity = [root |-> Origin, rotations |-> 0, sequence |-> 0, active |-> TRUE]
    /\ policy = [sequence |-> 0, active |-> FALSE, guardians |-> <<>>, threshold |-> 0, delay |-> 0]
    /\ requests = [n \in Nonces |-> NoRequest]
    /\ delegations = <<>>
    /\ posts = [p \in Posts |-> NoPost]
    /\ slot = 0
    /\ inFlight = [command |-> NoCommand, landed |-> 0]

Next == Deliver \/ Sign \/ Land \/ Tick

Spec == Init /\ [][Next]_vars

-----------------------------------------------------------------------------
(* Properties. *)

IdentityRecords ==
    [root : Keys, rotations : Nat, sequence : 0 .. MaxSequence, active : BOOLEAN]
PolicyRecords ==
    [sequence : Nat, active : BOOLEAN, guardians : Seq(Keys), threshold : Nat, delay : Nat]
RequestRecords ==
    [state : {"absent", "pending", "executed", "cancelled"}, policy : Nat, root : Keys,
     sequence : Nat, rotations : Nat, target : Keys, threshold : Nat, guardians : Nat,
     approvals : SUBSET (1 .. MaxGuardians), requestedAt : Nat, executeAfter : Nat]
DelegationRecords ==
    [delegate : Keys, scopes : SUBSET Scopes, expires : Nat, root : Keys, rotations : Nat,
     active : BOOLEAN]
PostRecords == [state : {"absent", "live", "tombstoned"}, by : Keys]

(* Every account holds values of its fields' types. *)
TypeOK ==
    /\ identity \in IdentityRecords
    /\ policy \in PolicyRecords
    /\ requests \in [Nonces -> RequestRecords]
    /\ delegations \in Seq(DelegationRecords)
    /\ posts \in [Posts -> PostRecords]
    /\ slot \in 0 .. MaxSlot
    /\ inFlight \in [command : Commands \cup {NoCommand}, landed : Nat]

(* Of several requests that are ready together at most one is executed:    *)
(* no two recoveries start from one value of the identity's sequence.      *)
OneRecoveryPerVersion ==
    \A m, n \in Nonces :
        /\ requests[m].state = "executed" /\ requests[n].state = "executed"
        /\ requests[m].sequence = requests[n].sequence
        => m = n

(* A signed command, delayed and rebroadcast as often as one likes, takes  *)
(* effect at most once, also where its handler checks no sequence.         *)
LandsAtMostOnce == inFlight.landed <= 1

(* The sequence is a version of the accounts it guards: none of them       *)
(* changes under a client that still reads the sequence it signed for.     *)
SequenceIsVersion ==
    [][Versioned' # Versioned => identity'.sequence > identity.sequence]_vars

Board ==
    IF policy.active
    THEN [guardians |-> {policy.guardians[i] : i \in DOMAIN policy.guardians},
          threshold |-> policy.threshold, delay |-> policy.delay]
    ELSE [guardians |-> {}, threshold |-> 0, delay |-> 0]

Appointments ==
    {[number |-> i, delegate |-> delegations[i].delegate, scopes |-> delegations[i].scopes,
      expires |-> delegations[i].expires] :
        i \in {j \in DOMAIN delegations : /\ delegations[j].active
                                         /\ delegations[j].root = identity.root
                                         /\ delegations[j].rotations = identity.rotations}}

Ballot(r) ==
    IF RequestCurrent(r)
    THEN [target |-> {r.target}, endorsers |-> {policy.guardians[i] : i \in r.approvals},
          opened |-> r.requestedAt]
    ELSE [target |-> {}, endorsers |-> {}, opened |-> 0]

Mandate == INSTANCE AuthorityMandate WITH
    root <- identity.root,
    active <- identity.active,
    board <- Board,
    delegates <- Appointments,
    ballots <- [n \in Nonces |-> Ballot(requests[n])],
    feed <- posts,
    now <- slot,
    Limit <- MaxSlot

(* The accounts keep the mandate: a request that went stale (another root, *)
(* policy or epoch, or any command of the identity since) never counts     *)
(* again, even when an earlier root returns; a recovery has the distinct   *)
(* guardians of the current policy behind it; a delegation of a displaced  *)
(* root never speaks for the identity.                                     *)
ImplementsMandate == Mandate!Spec
=============================================================================
