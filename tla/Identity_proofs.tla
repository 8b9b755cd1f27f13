-------------------------- MODULE Identity_proofs --------------------------
(***************************************************************************)
(* Proofs about the identity accounts, for every set of keys and policies, *)
(* any number of requests and any command delayed for any time: they keep  *)
(* the mandate, at most one of several ready recoveries is executed, and   *)
(* a signed command lands at most once.                                    *)
(*                                                                         *)
(* The argument is that the sequence only grows.  A request remembers the  *)
(* sequence it was made at, so one that is behind it can never be current  *)
(* again; a delegation remembers the rotation count in the same way.       *)
(***************************************************************************)
EXTENDS Identity, FiniteSetTheorems, TLAPS

(* Requests and delegations are no newer than the identity, an executed    *)
(* request is older, and approvals are indices of its guardians.           *)
RequestInv ==
    \A n \in Nonces :
        /\ requests[n].state # "absent" => requests[n].sequence <= identity.sequence
        /\ requests[n].state = "executed" => requests[n].sequence < identity.sequence
        /\ requests[n].approvals \subseteq 1 .. requests[n].guardians
        /\ requests[n].guardians <= MaxGuardians

DelegationInv == \A i \in DOMAIN delegations : delegations[i].rotations <= identity.rotations

(* What keeps a command that has landed from landing again. *)
SequencedOps ==
    {"rotate", "deactivate", "disable", "delegate", "revoke", "configure", "cancel",
     "publish", "tombstone", "publish_delegated", "tombstone_delegated"}

ApprovalSpent(c) ==
    /\ requests[c.nonce].state # "absent"
    /\ \/ requests[c.nonce].state # "pending"
       \/ requests[c.nonce].sequence < identity.sequence
       \/ \E i \in DOMAIN policy.guardians :
            i \in requests[c.nonce].approvals /\ policy.guardians[i] = c.signer

Spent(c) ==
    /\ c.op \in SequencedOps => c.expected < identity.sequence
    /\ c.op = "request" => requests[c.nonce].state # "absent"
    /\ c.op = "execute" => requests[c.nonce].state = "executed"
    /\ c.op = "approve" => ApprovalSpent(c)

InFlightInv ==
    inFlight.landed # 0 =>
        inFlight.landed = 1 /\ inFlight.command \in Commands /\ Spent(inFlight.command)

IdentityInv == TypeOK /\ RequestInv /\ DelegationInv /\ OneRecoveryPerVersion /\ InFlightInv

-----------------------------------------------------------------------------
(* The arguments a command carries. *)
LEMMA CommandArguments ==
    ASSUME NEW c \in Commands
    PROVE  /\ c.signer \in Keys
           /\ c.op \in SequencedOps \cup {"request"} => c.expected \in Nat
           /\ c.op \in {"request", "approve", "execute", "cancel"} => c.nonce \in Nonces
           /\ c.op = "rotate" => c.key \in Keys
           /\ c.op = "delegate" => c.delegate \in Keys /\ c.terms \in Grants
           /\ c.op = "configure" => c.policy \in Policies
           /\ c.op = "request" => c.target \in Keys
           /\ c.op \in {"publish", "tombstone", "publish_delegated", "tombstone_delegated"}
                => c.post \in Posts
           /\ c.op \in SequencedOps \cup {"request", "approve", "execute"}
BY SMTT(60) DEF Commands, CommandSet, SequencedOps

LEMMA CommandsNowAreCommands ==
    ASSUME TypeOK
    PROVE  CommandsNow \subseteq Commands
<1>1. {identity.sequence} \subseteq Nat
  BY BoundsAssumption DEF TypeOK, IdentityRecords
<1>2. DOMAIN delegations \subseteq Nat
  BY DEF TypeOK
<1> QED BY <1>1, <1>2 DEF CommandsNow, Commands, CommandSet

-----------------------------------------------------------------------------
(* What every handler keeps: no account goes back.                         *)
Onward ==
    /\ identity'.sequence >= identity.sequence
    /\ identity'.sequence > identity.sequence \/ (policy' = policy /\ identity' = identity)
    /\ \A n \in Nonces :
         /\ requests[n].state # "absent" =>
              /\ requests'[n].state # "absent"
              /\ requests'[n].sequence = requests[n].sequence
              /\ requests[n].approvals \subseteq requests'[n].approvals
              /\ requests[n].state # "pending" => requests'[n] = requests[n]
         /\ requests'[n].state # "absent" => requests'[n].sequence <= identity.sequence
         /\ requests'[n].state = "executed" /\ requests[n].state # "executed" =>
              requests'[n].sequence = identity.sequence /\ identity'.sequence > identity.sequence
    /\ \A m, n \in Nonces :
         requests'[m] # requests[m] /\ requests'[n] # requests[n] => m = n

AccountsTypeOK ==
    /\ identity \in IdentityRecords
    /\ policy \in PolicyRecords
    /\ requests \in [Nonces -> RequestRecords]
    /\ delegations \in Seq(DelegationRecords)
    /\ posts \in [Posts -> PostRecords]

Kept == AccountsTypeOK' /\ RequestInv' /\ DelegationInv' /\ Onward

(* The identity account after a command that advances the sequence, and    *)
(* after one that also changes the root.                                   *)
LEMMA AdvanceIdentity ==
    ASSUME identity \in IdentityRecords, identity.sequence < MaxSequence
    PROVE  /\ Advance(identity) \in IdentityRecords
           /\ Advance(identity).sequence = identity.sequence + 1
           /\ Advance(identity).root = identity.root
           /\ Advance(identity).rotations = identity.rotations
           /\ Advance(identity).active = identity.active
<1> DEFINE adv == [identity EXCEPT !.sequence = identity.sequence + 1]
<1>1. Advance(identity) = adv
  BY DEF Advance
<1>2. identity.sequence + 1 \in 0 .. MaxSequence
  BY BoundsAssumption DEF IdentityRecords
<1>3. adv \in IdentityRecords
  BY <1>2 DEF IdentityRecords
<1>4. /\ adv.sequence = identity.sequence + 1
      /\ adv.root = identity.root
      /\ adv.rotations = identity.rotations
      /\ adv.active = identity.active
  BY DEF IdentityRecords
<1> HIDE DEF adv
<1>5. QED BY <1>1, <1>3, <1>4

LEMMA RotatedIdentity ==
    ASSUME identity \in IdentityRecords, identity.sequence < MaxSequence, NEW k \in Keys,
           identity' = [Advance(identity) EXCEPT !.rotations = @ + 1, !.root = k]
    PROVE  /\ identity' \in IdentityRecords
           /\ identity'.sequence = identity.sequence + 1
           /\ identity'.root = k
           /\ identity'.rotations = identity.rotations + 1
           /\ identity'.active = identity.active
<1> DEFINE adv == Advance(identity)
           mid == [adv EXCEPT !.rotations = adv.rotations + 1]
           next == [mid EXCEPT !.root = k]
<1>1. /\ adv \in IdentityRecords
      /\ adv.sequence = identity.sequence + 1
      /\ adv.rotations = identity.rotations
      /\ adv.active = identity.active
  BY AdvanceIdentity
<1> HIDE DEF adv
<1>2. adv.rotations + 1 \in Nat
  BY <1>1 DEF IdentityRecords
<1>3. mid \in IdentityRecords
  BY <1>1, <1>2 DEF IdentityRecords
<1>4. mid.sequence = adv.sequence /\ mid.rotations = adv.rotations + 1 /\ mid.active = adv.active
  BY <1>1 DEF IdentityRecords
<1>5. identity' = next
  BY DEF adv
<1> HIDE DEF mid
<1>6. next \in IdentityRecords
  BY <1>3 DEF IdentityRecords
<1>7. /\ next.sequence = mid.sequence
      /\ next.rotations = mid.rotations
      /\ next.active = mid.active
      /\ next.root = k
  BY <1>3 DEF IdentityRecords
<1> HIDE DEF next
<1> QED BY <1>1, <1>4, <1>5, <1>6, <1>7

(* A command that advances the sequence and leaves the requests alone.     *)
LEMMA AdvanceKeeps ==
    ASSUME IdentityInv, requests' = requests,
           identity' \in IdentityRecords,
           identity'.sequence = identity.sequence + 1
    PROVE  RequestInv' /\ Onward
<1>1. identity.sequence \in Nat
  BY BoundsAssumption DEF IdentityInv, TypeOK, IdentityRecords
<1>2. \A n \in Nonces : requests[n].sequence \in Nat
  BY DEF IdentityInv, TypeOK, RequestRecords
<1>3. RequestInv'
  BY <1>1, <1>2 DEF IdentityInv, RequestInv
<1>4. \A n \in Nonces : requests'[n] = requests[n]
  OBVIOUS
<1>5. \A n \in Nonces : requests[n].state # "absent" => requests[n].sequence <= identity.sequence
  BY DEF IdentityInv, RequestInv
<1>6. identity'.sequence > identity.sequence
  BY <1>1
<1>7. Onward
  BY <1>1, <1>4, <1>5, <1>6 DEF Onward
<1> QED BY <1>3, <1>7

(* When the rotation count grows, every delegation stays no newer.         *)
LEMMA DelegationsOlder ==
    ASSUME TypeOK, DelegationInv, delegations' = delegations,
           identity'.rotations = identity.rotations + 1
    PROVE  DelegationInv'
<1>1. identity.rotations \in Nat
  BY DEF TypeOK, IdentityRecords
<1>2. ASSUME NEW i \in DOMAIN delegations PROVE delegations[i].rotations \in Nat
  <2>1. delegations[i] \in DelegationRecords
    BY DEF TypeOK
  <2> QED BY <2>1 DEF DelegationRecords
<1> QED BY <1>1, <1>2 DEF DelegationInv

LEMMA RotateKeeps ==
    ASSUME IdentityInv, NEW c \in Commands, c.op = "rotate", RotateRootAuthority(c)
    PROVE  Kept
<1>1. c.key \in Keys
  BY CommandArguments
<1>2. TypeOK /\ identity.sequence < MaxSequence
  BY DEF IdentityInv, RotateRootAuthority, RootCommand, NextSequence
<1>3. identity' = [Advance(identity) EXCEPT !.rotations = @ + 1, !.root = c.key]
  BY DEF RotateRootAuthority
<1>4. /\ identity' \in IdentityRecords
      /\ identity'.sequence = identity.sequence + 1
      /\ identity'.rotations = identity.rotations + 1
  BY <1>1, <1>2, <1>3, RotatedIdentity DEF TypeOK
<1>5. UNCHANGED <<policy, requests, delegations, posts>>
  BY DEF RotateRootAuthority
<1>6. RequestInv' /\ Onward
  BY <1>4, <1>5, AdvanceKeeps
<1>7. AccountsTypeOK'
  BY <1>2, <1>4, <1>5 DEF AccountsTypeOK, TypeOK
<1>8. DelegationInv'
  BY <1>2, <1>4, <1>5, DelegationsOlder DEF IdentityInv
<1> QED BY <1>6, <1>7, <1>8 DEF Kept

(* The commands of the root that leave requests and rotations alone, and   *)
(* change one of the other accounts within its type.                       *)
LEMMA RootCommandKeeps ==
    ASSUME IdentityInv, identity.sequence < MaxSequence,
           identity' = Advance(identity) \/ identity' = [Advance(identity) EXCEPT !.active = FALSE],
           requests' = requests,
           policy' \in PolicyRecords,
           delegations' \in Seq(DelegationRecords),
           \A i \in DOMAIN delegations' : delegations'[i].rotations <= identity.rotations,
           posts' \in [Posts -> PostRecords]
    PROVE  Kept
<1>1. /\ identity' \in IdentityRecords
      /\ identity'.sequence = identity.sequence + 1
      /\ identity'.rotations = identity.rotations
  <2> DEFINE adv == Advance(identity)
  <2>1. /\ adv \in IdentityRecords
        /\ adv.sequence = identity.sequence + 1
        /\ adv.rotations = identity.rotations
    BY AdvanceIdentity DEF IdentityInv, TypeOK
  <2>2. identity' = adv \/ identity' = [adv EXCEPT !.active = FALSE]
    OBVIOUS
  <2> HIDE DEF adv
  <2> QED BY <2>1, <2>2 DEF IdentityRecords
<1>2. RequestInv' /\ Onward
  BY <1>1, AdvanceKeeps
<1>3. requests' \in [Nonces -> RequestRecords]
  BY DEF IdentityInv, TypeOK
<1>4. AccountsTypeOK'
  BY <1>1, <1>3 DEF AccountsTypeOK
<1>5. DelegationInv'
  BY <1>1 DEF DelegationInv
<1> QED BY <1>2, <1>4, <1>5 DEF Kept
LEMMA DeactivateKeeps ==
    ASSUME IdentityInv, NEW c \in Commands, DeactivateIdentity(c)
    PROVE  Kept
<1>1. /\ policy' \in PolicyRecords
      /\ delegations' \in Seq(DelegationRecords)
      /\ posts' \in [Posts -> PostRecords]
  BY DEF IdentityInv, TypeOK, DeactivateIdentity
<1>2. \A i \in DOMAIN delegations' : delegations'[i].rotations <= identity.rotations
  BY DEF IdentityInv, DelegationInv, DeactivateIdentity
<1>3. identity.sequence < MaxSequence
  BY DEF DeactivateIdentity, RootCommand, NextSequence
<1> QED BY <1>1, <1>2, <1>3, RootCommandKeeps DEF DeactivateIdentity

LEMMA DelegateKeeps ==
    ASSUME IdentityInv, NEW c \in Commands, c.op = "delegate", CreateDelegation(c)
    PROVE  Kept
<1> DEFINE d == [delegate |-> c.delegate, scopes |-> c.terms.scopes, expires |-> c.terms.expires,
                 root |-> identity.root, rotations |-> identity.rotations, active |-> TRUE]
<1>1. d \in DelegationRecords
  <2>1. c.delegate \in Keys /\ c.terms \in GrantTerms
    BY CommandArguments, GrantsAssumption
  <2>2. identity.root \in Keys /\ identity.rotations \in Nat
    BY DEF IdentityInv, TypeOK, IdentityRecords
  <2> QED BY <2>1, <2>2 DEF GrantTerms, DelegationRecords
<1>2. d.rotations = identity.rotations
  OBVIOUS
<1>3. delegations' = Append(delegations, d)
  BY DEF CreateDelegation
<1> HIDE DEF d
<1>4. delegations \in Seq(DelegationRecords)
  BY DEF IdentityInv, TypeOK
<1>5. delegations' \in Seq(DelegationRecords)
  BY <1>1, <1>3, <1>4
<1>6. ASSUME NEW i \in DOMAIN delegations' PROVE delegations'[i].rotations <= identity.rotations
  <2>1. identity.rotations \in Nat
    BY DEF IdentityInv, TypeOK, IdentityRecords
  <2>2. CASE i \in DOMAIN delegations
    <3>1. delegations'[i] = delegations[i]
      BY <1>1, <1>3, <1>4, <2>2
    <3> QED BY <2>2, <3>1 DEF IdentityInv, DelegationInv
  <2>3. CASE i \notin DOMAIN delegations
    <3>1. delegations'[i] = d
      BY <1>1, <1>3, <1>4, <2>3
    <3> QED BY <1>2, <2>1, <3>1
  <2> QED BY <2>2, <2>3
<1>7. policy' \in PolicyRecords /\ posts' \in [Posts -> PostRecords]
  BY DEF IdentityInv, TypeOK, CreateDelegation
<1>8. identity.sequence < MaxSequence
  BY DEF CreateDelegation, RootCommand, NextSequence
<1> QED BY <1>5, <1>6, <1>7, <1>8, RootCommandKeeps DEF CreateDelegation

LEMMA RevokeKeeps ==
    ASSUME IdentityInv, NEW c \in Commands, RevokeDelegation(c)
    PROVE  Kept
<1> DEFINE k == c.delegation
           d == [delegations[k] EXCEPT !.active = FALSE]
<1>1. k \in DOMAIN delegations /\ delegations \in Seq(DelegationRecords)
  BY DEF IdentityInv, TypeOK, RevokeDelegation
<1>2. delegations[k] \in DelegationRecords
  BY <1>1
<1>3. d \in DelegationRecords /\ d.rotations = delegations[k].rotations
  BY <1>2 DEF DelegationRecords
<1>4. delegations' = [delegations EXCEPT ![k] = d]
  BY DEF RevokeDelegation
<1> HIDE DEF k, d
<1>5. delegations' \in Seq(DelegationRecords) /\ DOMAIN delegations' = DOMAIN delegations
  BY <1>1, <1>3, <1>4
<1>6. \A i \in DOMAIN delegations' : delegations'[i].rotations <= identity.rotations
  BY <1>1, <1>3, <1>4, <1>5 DEF IdentityInv, DelegationInv
<1>7. policy' \in PolicyRecords /\ posts' \in [Posts -> PostRecords]
  BY DEF IdentityInv, TypeOK, RevokeDelegation
<1>8. identity.sequence < MaxSequence
  BY DEF RevokeDelegation, RootCommand, NextSequence
<1> QED BY <1>5, <1>6, <1>7, <1>8, RootCommandKeeps DEF RevokeDelegation

LEMMA ConfigureKeeps ==
    ASSUME IdentityInv, NEW c \in Commands, c.op = "configure", ConfigureRecoveryPolicy(c)
    PROVE  Kept
<1>1. c.policy \in PolicyTerms
  BY CommandArguments, PoliciesAssumption
<1>2. policy' \in PolicyRecords
  <2>1. policy.sequence + 1 \in Nat
    BY DEF IdentityInv, TypeOK, PolicyRecords
  <2>2. /\ c.policy.guardians \in Seq(Keys)
        /\ c.policy.threshold \in Nat
        /\ c.policy.delay \in Nat
    BY <1>1 DEF PolicyTerms
  <2>3. policy' = [sequence |-> policy.sequence + 1, active |-> TRUE,
                   guardians |-> c.policy.guardians, threshold |-> c.policy.threshold,
                   delay |-> c.policy.delay]
    BY DEF ConfigureRecoveryPolicy
  <2> QED BY <2>1, <2>2, <2>3 DEF PolicyRecords
<1>3. delegations' \in Seq(DelegationRecords) /\ posts' \in [Posts -> PostRecords]
  BY DEF IdentityInv, TypeOK, ConfigureRecoveryPolicy
<1>4. \A i \in DOMAIN delegations' : delegations'[i].rotations <= identity.rotations
  BY DEF IdentityInv, DelegationInv, ConfigureRecoveryPolicy
<1>5. identity.sequence < MaxSequence
  BY DEF ConfigureRecoveryPolicy, RootCommand, NextSequence
<1> QED BY <1>2, <1>3, <1>4, <1>5, RootCommandKeeps DEF ConfigureRecoveryPolicy

LEMMA DisableKeeps ==
    ASSUME IdentityInv, NEW c \in Commands, DisableRecoveryPolicy(c)
    PROVE  Kept
<1>1. policy' \in PolicyRecords
  <2> DEFINE adv == [policy EXCEPT !.sequence = policy.sequence + 1]
  <2>0. policy \in PolicyRecords
    BY DEF IdentityInv, TypeOK
  <2>1. adv \in PolicyRecords
    BY <2>0 DEF PolicyRecords
  <2>2. policy' = [adv EXCEPT !.active = FALSE]
    BY DEF DisableRecoveryPolicy, Advance
  <2> HIDE DEF adv
  <2> QED BY <2>1, <2>2 DEF PolicyRecords
<1>2. delegations' \in Seq(DelegationRecords) /\ posts' \in [Posts -> PostRecords]
  BY DEF IdentityInv, TypeOK, DisableRecoveryPolicy
<1>3. \A i \in DOMAIN delegations' : delegations'[i].rotations <= identity.rotations
  BY DEF IdentityInv, DelegationInv, DisableRecoveryPolicy
<1>4. identity.sequence < MaxSequence
  BY DEF DisableRecoveryPolicy, RootCommand, NextSequence
<1> QED BY <1>1, <1>2, <1>3, <1>4, RootCommandKeeps DEF DisableRecoveryPolicy

(* The four commands about posts, of the root or of a delegate.            *)
LEMMA PostKeeps ==
    ASSUME IdentityInv, NEW c \in Commands, c.post \in Posts,
           \/ PublishPost(c) \/ PublishPostDelegated(c)
           \/ TombstonePost(c) \/ TombstonePostDelegated(c)
    PROVE  Kept
<1>1. posts \in [Posts -> PostRecords] /\ c.signer \in Keys
  BY CommandArguments DEF IdentityInv, TypeOK
<1>2. \/ posts' = [posts EXCEPT ![c.post] = [state |-> "live", by |-> c.signer]]
      \/ posts' = [posts EXCEPT ![c.post].state = "tombstoned"]
  BY DEF PublishPost, PublishPostDelegated, TombstonePost, TombstonePostDelegated
<1>3. posts' \in [Posts -> PostRecords]
  BY <1>1, <1>2 DEF PostRecords
<1>4. /\ identity.sequence < MaxSequence
      /\ identity' = Advance(identity)
      /\ UNCHANGED <<policy, requests, delegations>>
  BY DEF PublishPost, PublishPostDelegated, TombstonePost, TombstonePostDelegated,
         RootCommand, DelegatedCommand, NextSequence
<1>5. policy' \in PolicyRecords /\ delegations' \in Seq(DelegationRecords)
  BY <1>4 DEF IdentityInv, TypeOK
<1>6. \A i \in DOMAIN delegations' : delegations'[i].rotations <= identity.rotations
  BY <1>4 DEF IdentityInv, DelegationInv
<1> QED BY <1>3, <1>4, <1>5, <1>6, RootCommandKeeps

(* A command that replaces one request.                                    *)
LEMMA RequestCommandKeeps ==
    ASSUME IdentityInv, NEW n \in Nonces, NEW r \in RequestRecords,
           requests' = [requests EXCEPT ![n] = r],
           UNCHANGED <<policy, delegations, posts>>,
           identity' \in IdentityRecords,
           identity' = identity \/ identity'.sequence = identity.sequence + 1,
           identity'.rotations = identity.rotations \/ identity'.rotations = identity.rotations + 1,
           r.approvals \subseteq 1 .. r.guardians,
           r.guardians <= MaxGuardians,
           r.state # "absent",
           r.sequence <= identity.sequence,
           r.state = "executed" =>
               r.sequence = identity.sequence /\ identity'.sequence = identity.sequence + 1,
           requests[n].state \in {"absent", "pending"},
           requests[n].state = "pending" =>
               r.sequence = requests[n].sequence /\ requests[n].approvals \subseteq r.approvals,
           requests[n].state = "absent" => r.state = "pending"
    PROVE  Kept
<1>1. identity.sequence \in Nat /\ identity'.sequence \in Nat /\ identity.rotations \in Nat
  BY BoundsAssumption DEF IdentityInv, TypeOK, IdentityRecords
<1>2. requests \in [Nonces -> RequestRecords] /\ r.sequence \in Nat
  BY DEF IdentityInv, TypeOK, RequestRecords
<1>3. \A m \in Nonces : requests[m].sequence \in Nat
  BY <1>2 DEF RequestRecords
<1>4. requests'[n] = r /\ \A m \in Nonces \ {n} : requests'[m] = requests[m]
  BY <1>2
<1>5. AccountsTypeOK'
  BY <1>2 DEF IdentityInv, TypeOK, AccountsTypeOK
<1>6. RequestInv'
  <2> SUFFICES ASSUME NEW m \in Nonces
               PROVE  /\ requests'[m].state # "absent" => requests'[m].sequence <= identity'.sequence
                      /\ requests'[m].state = "executed" =>
                            requests'[m].sequence < identity'.sequence
                      /\ requests'[m].approvals \subseteq 1 .. requests'[m].guardians
                      /\ requests'[m].guardians <= MaxGuardians
    BY DEF RequestInv
  <2>1. CASE m = n
    BY <1>1, <1>2, <1>4, <2>1
  <2>2. CASE m # n
    BY <1>1, <1>3, <1>4, <2>2 DEF IdentityInv, RequestInv
  <2> QED BY <2>1, <2>2
<1>7. DelegationInv'
  <2>1. CASE identity'.rotations = identity.rotations
    BY <2>1 DEF IdentityInv, DelegationInv
  <2>2. CASE identity'.rotations = identity.rotations + 1
    BY <2>2, DelegationsOlder DEF IdentityInv
  <2> QED BY <2>1, <2>2
<1>8. Onward
  <2>1. identity'.sequence >= identity.sequence
    BY <1>1
  <2>2. identity'.sequence > identity.sequence \/ (policy' = policy /\ identity' = identity)
    BY <1>1
  <2>3. ASSUME NEW m \in Nonces
        PROVE  /\ requests[m].state # "absent" =>
                    /\ requests'[m].state # "absent"
                    /\ requests'[m].sequence = requests[m].sequence
                    /\ requests[m].approvals \subseteq requests'[m].approvals
                    /\ requests[m].state # "pending" => requests'[m] = requests[m]
               /\ requests'[m].state # "absent" => requests'[m].sequence <= identity.sequence
               /\ requests'[m].state = "executed" /\ requests[m].state # "executed" =>
                    requests'[m].sequence = identity.sequence /\ identity'.sequence > identity.sequence
    <3>1. CASE m = n
      BY <1>1, <1>4, <3>1
    <3>2. CASE m # n
      BY <1>4, <3>2 DEF IdentityInv, RequestInv
    <3> QED BY <3>1, <3>2
  <2>4. \A k, m \in Nonces :
          requests'[k] # requests[k] /\ requests'[m] # requests[m] => k = m
    BY <1>4
  <2> QED BY <2>1, <2>2, <2>3, <2>4 DEF Onward
<1> QED BY <1>5, <1>6, <1>7, <1>8 DEF Kept
LEMMA RequestKeeps ==
    ASSUME IdentityInv, NEW c \in Commands, c.op = "request", RequestRecovery(c)
    PROVE  Kept
<1>1. PICK i \in DOMAIN policy.guardians :
        requests' = [requests EXCEPT ![c.nonce] =
                [state |-> "pending", policy |-> policy.sequence, root |-> identity.root,
                 sequence |-> identity.sequence, rotations |-> identity.rotations,
                 target |-> c.target, threshold |-> policy.threshold,
                 guardians |-> Len(policy.guardians), approvals |-> {i},
                 requestedAt |-> slot, executeAfter |-> slot + policy.delay]]
  BY DEF RequestRecovery
<1> DEFINE r == [state |-> "pending", policy |-> policy.sequence, root |-> identity.root,
                 sequence |-> identity.sequence, rotations |-> identity.rotations,
                 target |-> c.target, threshold |-> policy.threshold,
                 guardians |-> Len(policy.guardians), approvals |-> {i},
                 requestedAt |-> slot, executeAfter |-> slot + policy.delay]
<1>2. c.nonce \in Nonces /\ c.target \in Keys
  BY CommandArguments
<1>3. /\ identity \in IdentityRecords /\ policy \in PolicyRecords /\ slot \in Nat
  BY BoundsAssumption DEF IdentityInv, TypeOK
<1>4. Len(policy.guardians) \in 2 .. MaxGuardians /\ i \in 1 .. Len(policy.guardians)
  BY <1>3 DEF RequestRecovery, ValidRecoveryPolicy, MinGuardians, PolicyRecords
<1>5. r \in RequestRecords
  <2>1. i \in 1 .. MaxGuardians /\ Len(policy.guardians) \in Nat
    BY <1>4 DEF MaxGuardians
  <2>2. policy.sequence \in Nat /\ policy.threshold \in Nat /\ slot + policy.delay \in Nat
    BY <1>3 DEF PolicyRecords
  <2>3. identity.root \in Keys /\ identity.sequence \in Nat /\ identity.rotations \in Nat
    BY <1>3, BoundsAssumption DEF IdentityRecords
  <2> QED BY <1>2, <1>3, <2>1, <2>2, <2>3 DEF RequestRecords
<1>6. requests[c.nonce].state = "absent" /\ UNCHANGED <<identity, policy, delegations, posts>>
  BY DEF RequestRecovery
<1>7. /\ r.approvals \subseteq 1 .. r.guardians
      /\ r.guardians <= MaxGuardians
      /\ r.state = "pending"
      /\ r.sequence <= identity.sequence
  <2>1. identity.sequence \in Nat
    BY <1>3, BoundsAssumption DEF IdentityRecords
  <2>2. r.guardians = Len(policy.guardians) /\ r.approvals = {i}
        /\ r.sequence = identity.sequence /\ r.state = "pending"
    OBVIOUS
  <2> HIDE DEF r
  <2>3. r.guardians <= MaxGuardians
    <3>1. Len(policy.guardians) \in 2 .. MaxGuardians
      BY <1>4
    <3>2. r.guardians \in 2 .. MaxGuardians
      BY <2>2, <3>1
    <3> QED BY <3>2 DEF MaxGuardians
  <2>4. r.approvals \subseteq 1 .. r.guardians
    BY <1>4, <2>2
  <2>5. r.state = "pending" /\ r.sequence <= identity.sequence
    BY <2>1, <2>2
  <2> QED BY <2>3, <2>4, <2>5
<1>8. requests' = [requests EXCEPT ![c.nonce] = r]
  BY <1>1
<1> HIDE DEF r
<1> QED BY <1>2, <1>3, <1>5, <1>6, <1>7, <1>8, RequestCommandKeeps

LEMMA ApproveKeeps ==
    ASSUME IdentityInv, NEW c \in Commands, c.op = "approve", ApproveRecovery(c)
    PROVE  Kept
<1> DEFINE old == requests[c.nonce]
<1>1. c.nonce \in Nonces /\ requests \in [Nonces -> RequestRecords]
  BY CommandArguments DEF IdentityInv, TypeOK
<1>2. old \in RequestRecords
  BY <1>1
<1>3. RequestCurrent(old)
  BY DEF ApproveRecovery
<1>4. PICK i \in DOMAIN policy.guardians :
        requests' = [requests EXCEPT ![c.nonce].approvals = @ \cup {i}]
  BY DEF ApproveRecovery
<1> DEFINE r == [old EXCEPT !.approvals = old.approvals \cup {i}]
<1>5. requests' = [requests EXCEPT ![c.nonce] = r]
  BY <1>1, <1>4
<1>6. /\ old.state = "pending" /\ old.sequence = identity.sequence
      /\ old.guardians = Len(policy.guardians)
      /\ Len(policy.guardians) \in 2 .. MaxGuardians
  BY <1>3 DEF RequestCurrent, ValidRecoveryPolicy, MinGuardians
<1>7. old.approvals \subseteq 1 .. old.guardians
  BY <1>1 DEF IdentityInv, RequestInv
<1>8. identity \in IdentityRecords /\ policy \in PolicyRecords
  BY DEF IdentityInv, TypeOK
<1>9. i \in 1 .. old.guardians
  BY <1>6, <1>8 DEF PolicyRecords
<1>10. i \in 1 .. MaxGuardians
  BY <1>6, <1>9 DEF MaxGuardians
<1>11. UNCHANGED <<identity, policy, delegations, posts>>
  BY DEF ApproveRecovery
<1> HIDE DEF old
<1>12. r \in RequestRecords
  BY <1>2, <1>10 DEF RequestRecords
<1>13. /\ r.approvals = old.approvals \cup {i}
       /\ r.guardians = old.guardians
       /\ r.state = old.state
       /\ r.sequence = old.sequence
  BY <1>2 DEF RequestRecords
<1> HIDE DEF r
<1>14. r.sequence <= identity.sequence
  <2>1. identity.sequence \in Nat
    BY <1>8, BoundsAssumption DEF IdentityRecords
  <2> QED BY <1>6, <1>13, <2>1
<1>15. r.guardians <= MaxGuardians /\ r.approvals \subseteq 1 .. r.guardians
  <2>1. r.guardians <= MaxGuardians
    <3>1. r.guardians \in 2 .. MaxGuardians
      BY <1>6, <1>13
    <3> QED BY <3>1 DEF MaxGuardians
  <2>2. r.approvals \subseteq 1 .. r.guardians
    BY <1>7, <1>9, <1>13
  <2> QED BY <2>1, <2>2
<1>16. /\ requests[c.nonce].state = "pending"
       /\ requests[c.nonce].sequence = r.sequence
       /\ requests[c.nonce].approvals \subseteq r.approvals
  BY <1>6, <1>13 DEF old
<1>k. r.state = "pending"
  BY <1>6, <1>13
<1> QED BY <1>1, <1>5, <1>8, <1>11, <1>12, <1>14, <1>15, <1>16, <1>k, RequestCommandKeeps

(* A request that leaves the pending state, with a command that advances   *)
(* the sequence: execution or cancellation.                                *)
LEMMA CloseKeeps ==
    ASSUME IdentityInv, NEW n \in Nonces, NEW s \in {"executed", "cancelled"},
           requests[n].state = "pending",
           s = "executed" => requests[n].sequence = identity.sequence,
           requests' = [requests EXCEPT ![n].state = s],
           UNCHANGED <<policy, delegations, posts>>,
           identity' \in IdentityRecords,
           identity'.sequence = identity.sequence + 1,
           identity'.rotations = identity.rotations \/ identity'.rotations = identity.rotations + 1
    PROVE  Kept
<1> DEFINE old == requests[n]
           r == [old EXCEPT !.state = s]
<1>1. requests \in [Nonces -> RequestRecords]
  BY DEF IdentityInv, TypeOK
<1>2. old \in RequestRecords
  BY <1>1
<1>3. requests' = [requests EXCEPT ![n] = r]
  BY <1>1
<1>4. /\ old.approvals \subseteq 1 .. old.guardians
      /\ old.guardians <= MaxGuardians
      /\ old.sequence <= identity.sequence
      /\ old.state = "pending"
      /\ s = "executed" => old.sequence = identity.sequence
  BY DEF IdentityInv, RequestInv
<1> HIDE DEF old
<1>5. r \in RequestRecords
  BY <1>2 DEF RequestRecords
<1>6. /\ r.approvals = old.approvals
      /\ r.guardians = old.guardians
      /\ r.state = s
      /\ r.sequence = old.sequence
  BY <1>2 DEF RequestRecords
<1> HIDE DEF r
<1>7. /\ r.approvals \subseteq 1 .. r.guardians
      /\ r.guardians <= MaxGuardians
      /\ r.state \in {"executed", "cancelled"}
      /\ r.sequence <= identity.sequence
      /\ r.state = "executed" => r.sequence = identity.sequence
  BY <1>4, <1>6
<1>8. /\ requests[n].sequence = r.sequence
      /\ requests[n].approvals \subseteq r.approvals
  BY <1>6 DEF old
<1> QED BY <1>3, <1>5, <1>7, <1>8, RequestCommandKeeps

LEMMA ExecuteKeeps ==
    ASSUME IdentityInv, NEW c \in Commands, c.op = "execute", ExecuteRecovery(c)
    PROVE  Kept
<1>1. c.nonce \in Nonces /\ c.signer \in Keys
  BY CommandArguments
<1>2. requests[c.nonce].state = "pending" /\ requests[c.nonce].sequence = identity.sequence
  BY DEF ExecuteRecovery, RequestCurrent
<1>3. identity \in IdentityRecords /\ identity.sequence < MaxSequence
  BY DEF IdentityInv, TypeOK, ExecuteRecovery
<1>4. /\ identity' \in IdentityRecords
      /\ identity'.sequence = identity.sequence + 1
      /\ identity'.rotations = identity.rotations + 1
  BY <1>1, <1>3, RotatedIdentity DEF ExecuteRecovery
<1> QED BY <1>1, <1>2, <1>4, CloseKeeps DEF ExecuteRecovery

LEMMA CancelKeeps ==
    ASSUME IdentityInv, NEW c \in Commands, c.op = "cancel", CancelRecovery(c)
    PROVE  Kept
<1>1. c.nonce \in Nonces
  BY CommandArguments
<1>2. identity \in IdentityRecords /\ identity.sequence < MaxSequence
  BY DEF IdentityInv, TypeOK, CancelRecovery, RootCommand, NextSequence
<1>3. /\ identity' \in IdentityRecords
      /\ identity'.sequence = identity.sequence + 1
      /\ identity'.rotations = identity.rotations
  BY <1>2, AdvanceIdentity DEF CancelRecovery
<1> QED BY <1>1, <1>3, CloseKeeps DEF CancelRecovery

LEMMA HandleKeeps ==
    ASSUME IdentityInv, NEW c \in Commands, Handle(c)
    PROVE  Kept
<1>1. c.op \in {"publish", "tombstone", "publish_delegated", "tombstone_delegated"}
        => c.post \in Posts
  BY CommandArguments
<1> QED BY <1>1, RotateKeeps, DeactivateKeeps, DelegateKeeps, RevokeKeeps, ConfigureKeeps,
           DisableKeeps, RequestKeeps, ApproveKeeps, ExecuteKeeps, CancelKeeps, PostKeeps
        DEF Handle
-----------------------------------------------------------------------------
(* What spends a command, and that a spent command stays spent.            *)

LEMMA Sequenced ==
    ASSUME IdentityInv, NEW c \in Commands, c.op \in SequencedOps, Handle(c)
    PROVE  c.expected = identity.sequence /\ identity'.sequence = identity.sequence + 1
<1>1. c.expected = identity.sequence /\ identity.sequence < MaxSequence
  BY DEF SequencedOps, Handle, RotateRootAuthority, DeactivateIdentity, CreateDelegation,
         RevokeDelegation, ConfigureRecoveryPolicy, DisableRecoveryPolicy, CancelRecovery,
         PublishPost, TombstonePost, PublishPostDelegated, TombstonePostDelegated,
         RootCommand, DelegatedCommand, NextSequence
<1>2. identity \in IdentityRecords
  BY DEF IdentityInv, TypeOK
<1>3. CASE c.op = "rotate"
  <2>1. c.key \in Keys /\ RotateRootAuthority(c)
    BY <1>3, CommandArguments DEF Handle
  <2> QED BY <1>1, <1>2, <2>1, RotatedIdentity DEF RotateRootAuthority
<1>4. CASE c.op = "deactivate"
  <2> DEFINE adv == Advance(identity)
  <2>1. identity' = [adv EXCEPT !.active = FALSE]
    BY <1>4 DEF Handle, DeactivateIdentity
  <2>2. adv \in IdentityRecords /\ adv.sequence = identity.sequence + 1
    BY <1>1, <1>2, AdvanceIdentity
  <2> HIDE DEF adv
  <2> QED BY <1>1, <2>1, <2>2 DEF IdentityRecords
<1>5. CASE c.op \notin {"rotate", "deactivate"}
  <2>1. identity' = Advance(identity)
    BY <1>5 DEF SequencedOps, Handle, CreateDelegation, RevokeDelegation,
         ConfigureRecoveryPolicy, DisableRecoveryPolicy, CancelRecovery, PublishPost,
         TombstonePost, PublishPostDelegated, TombstonePostDelegated
  <2> QED BY <1>1, <1>2, <2>1, AdvanceIdentity
<1> QED BY <1>3, <1>4, <1>5

LEMMA HandleSpends ==
    ASSUME IdentityInv, NEW c \in Commands, Handle(c)
    PROVE  Spent(c)'
<1>1. identity.sequence \in Nat
  BY BoundsAssumption DEF IdentityInv, TypeOK, IdentityRecords
<1>2. c.op \in SequencedOps => c.expected < identity'.sequence
  BY <1>1, Sequenced
<1>3. requests \in [Nonces -> RequestRecords]
  BY DEF IdentityInv, TypeOK
<1>4. ASSUME c.op = "request" PROVE requests'[c.nonce].state # "absent"
  <2>1. c.nonce \in Nonces /\ RequestRecovery(c)
    BY <1>4, CommandArguments DEF Handle
  <2> QED BY <1>3, <2>1 DEF RequestRecovery
<1>5. ASSUME c.op = "execute" PROVE requests'[c.nonce].state = "executed"
  <2>1. c.nonce \in Nonces
    BY <1>5, CommandArguments
  <2>2. requests' = [requests EXCEPT ![c.nonce].state = "executed"]
    BY <1>5 DEF Handle, ExecuteRecovery
  <2>3. requests[c.nonce] \in RequestRecords
    BY <1>3, <2>1
  <2> QED BY <1>3, <2>1, <2>2, <2>3 DEF RequestRecords
<1>6. ASSUME c.op = "approve" PROVE ApprovalSpent(c)'
  <2> DEFINE old == requests[c.nonce]
  <2>1. c.nonce \in Nonces
    BY <1>6, CommandArguments
  <2>2. old \in RequestRecords
    BY <1>3, <2>1
  <2>3. /\ UNCHANGED policy
        /\ old.state = "pending"
    BY <1>6 DEF Handle, ApproveRecovery, RequestCurrent
  <2>4. PICK i \in DOMAIN policy.guardians :
          /\ policy.guardians[i] = c.signer
          /\ requests' = [requests EXCEPT ![c.nonce].approvals = @ \cup {i}]
    BY <1>6 DEF Handle, ApproveRecovery
  <2>5. requests'[c.nonce] = [old EXCEPT !.approvals = old.approvals \cup {i}]
    BY <1>3, <2>1, <2>4
  <2> HIDE DEF old
  <2>6. requests'[c.nonce].state = "pending" /\ i \in requests'[c.nonce].approvals
    BY <2>2, <2>3, <2>5 DEF RequestRecords
  <2> QED BY <2>3, <2>4, <2>6 DEF ApprovalSpent
<1> QED BY <1>2, <1>4, <1>5, <1>6 DEF Spent

LEMMA SpentStaysSpent ==
    ASSUME IdentityInv, Kept, NEW c \in Commands, Spent(c)
    PROVE  Spent(c)'
<1>1. identity.sequence \in Nat /\ identity'.sequence \in Nat
  BY BoundsAssumption DEF IdentityInv, TypeOK, Kept, AccountsTypeOK, IdentityRecords
<1>2. identity'.sequence >= identity.sequence
  BY DEF Kept, Onward
<1>3. ASSUME c.op \in SequencedOps PROVE c.expected < identity'.sequence
  <2>1. c.expected \in Nat
    BY <1>3, CommandArguments
  <2> QED BY <1>1, <1>2, <1>3, <2>1 DEF Spent
<1>4. ASSUME c.op = "request" PROVE requests'[c.nonce].state # "absent"
  BY <1>4, CommandArguments DEF Spent, Kept, Onward
<1>5. ASSUME c.op = "execute" PROVE requests'[c.nonce].state = "executed"
  BY <1>5, CommandArguments DEF Spent, Kept, Onward
<1>6. ASSUME c.op = "approve" PROVE ApprovalSpent(c)'
  <2> DEFINE old == requests[c.nonce]
             new == requests'[c.nonce]
  <2>1. c.nonce \in Nonces
    BY <1>6, CommandArguments
  <2>2. old.state # "absent"
    BY <1>6 DEF Spent, ApprovalSpent
  <2>3. /\ new.state # "absent"
        /\ new.sequence = old.sequence
        /\ old.approvals \subseteq new.approvals
        /\ old.state # "pending" => new = old
        /\ new.sequence <= identity.sequence
    BY <2>1, <2>2 DEF Kept, Onward
  <2>4. old.sequence \in Nat
    BY <2>1 DEF IdentityInv, TypeOK, RequestRecords
  <2>5. CASE old.state # "pending"
    BY <2>3, <2>5 DEF ApprovalSpent
  <2>6. CASE old.sequence < identity.sequence
    <3>1. new.sequence < identity'.sequence
      BY <1>1, <1>2, <2>3, <2>4, <2>6
    <3> QED BY <2>3, <3>1 DEF ApprovalSpent
  <2>7. CASE \E i \in DOMAIN policy.guardians :
               i \in old.approvals /\ policy.guardians[i] = c.signer
    <3>1. CASE identity'.sequence > identity.sequence
      <4>1. new.sequence < identity'.sequence
        BY <1>1, <2>3, <2>4, <3>1
      <4> QED BY <2>3, <4>1 DEF ApprovalSpent
    <3>2. CASE policy' = policy
      BY <2>3, <2>7, <3>2 DEF ApprovalSpent
    <3> QED BY <3>1, <3>2 DEF Kept, Onward
  <2> QED BY <1>6, <2>5, <2>6, <2>7 DEF Spent, ApprovalSpent
<1> QED BY <1>3, <1>4, <1>5, <1>6 DEF Spent

LEMMA SpentIsRefused ==
    ASSUME IdentityInv, NEW c \in Commands, Spent(c), Handle(c)
    PROVE  FALSE
<1>1. identity.sequence \in Nat
  BY BoundsAssumption DEF IdentityInv, TypeOK, IdentityRecords
<1>2. CASE c.op \in SequencedOps
  BY <1>1, <1>2, Sequenced DEF Spent
<1>3. CASE c.op = "request"
  BY <1>3 DEF Handle, RequestRecovery, Spent
<1>4. CASE c.op = "execute"
  BY <1>4 DEF Handle, ExecuteRecovery, RequestCurrent, Spent
<1>5. CASE c.op = "approve"
  <2>1. ApproveRecovery(c) /\ ApprovalSpent(c)
    BY <1>5 DEF Handle, Spent
  <2>2. RequestCurrent(requests[c.nonce])
    BY <2>1 DEF ApproveRecovery
  <2>3. requests[c.nonce].state = "pending" /\ ~(requests[c.nonce].sequence < identity.sequence)
    BY <1>1, <2>2 DEF RequestCurrent
  <2>4. PICK i \in DOMAIN policy.guardians :
          i \in requests[c.nonce].approvals /\ policy.guardians[i] = c.signer
    BY <2>1, <2>3 DEF ApprovalSpent
  <2>5. PICK j \in DOMAIN policy.guardians \ requests[c.nonce].approvals :
          policy.guardians[j] = c.signer
    BY <2>1 DEF ApproveRecovery
  <2>6. i = j
    BY <2>2, <2>4, <2>5 DEF RequestCurrent, ValidRecoveryPolicy
  <2> QED BY <2>4, <2>5, <2>6
<1> QED BY <1>2, <1>3, <1>4, <1>5, CommandArguments

(* Only one request is executed at a time, and it is of the present        *)
(* sequence: every executed one is of an earlier sequence.                 *)
LEMMA OneRecoveryKept ==
    ASSUME IdentityInv, Kept
    PROVE  OneRecoveryPerVersion'
<1> SUFFICES ASSUME NEW m \in Nonces, NEW n \in Nonces,
                    requests'[m].state = "executed", requests'[n].state = "executed",
                    requests'[m].sequence = requests'[n].sequence
             PROVE  m = n
  BY DEF OneRecoveryPerVersion
<1>1. identity.sequence \in Nat
  BY BoundsAssumption DEF IdentityInv, TypeOK, IdentityRecords
<1>2. ASSUME NEW k \in Nonces, requests'[k].state = "executed", requests[k].state # "executed"
      PROVE  requests'[k].sequence = identity.sequence /\ requests'[k] # requests[k]
  BY <1>2 DEF Kept, Onward
<1>3. ASSUME NEW k \in Nonces, requests[k].state = "executed"
      PROVE  requests'[k].sequence = requests[k].sequence /\ requests[k].sequence < identity.sequence
  BY <1>3 DEF IdentityInv, RequestInv, Kept, Onward
<1>4. CASE requests[m].state = "executed" /\ requests[n].state = "executed"
  BY <1>3, <1>4 DEF IdentityInv, OneRecoveryPerVersion
<1>5. CASE requests[m].state # "executed" /\ requests[n].state # "executed"
  BY <1>2, <1>5 DEF Kept, Onward
<1>6. CASE requests[m].state = "executed" /\ requests[n].state # "executed"
  BY <1>1, <1>2, <1>3, <1>6
<1>7. CASE requests[m].state # "executed" /\ requests[n].state = "executed"
  BY <1>1, <1>2, <1>3, <1>7
<1> QED BY <1>4, <1>5, <1>6, <1>7
-----------------------------------------------------------------------------
(* The invariant.                                                          *)

LEMMA InitInv == Init => IdentityInv
<1> SUFFICES ASSUME Init PROVE IdentityInv
  OBVIOUS
<1>1. identity \in IdentityRecords
  BY OriginAssumption, BoundsAssumption DEF Init, IdentityRecords
<1>2. policy \in PolicyRecords
  <2>1. <<>> \in Seq(Keys)
    OBVIOUS
  <2> QED BY <2>1 DEF Init, PolicyRecords
<1>3. NoRequest \in RequestRecords
  BY OriginAssumption DEF NoRequest, RequestRecords
<1>4. requests \in [Nonces -> RequestRecords]
  BY <1>3 DEF Init
<1>5. delegations \in Seq(DelegationRecords) /\ DOMAIN delegations = {}
  BY DEF Init
<1>6. posts \in [Posts -> PostRecords]
  BY OriginAssumption DEF Init, NoPost, PostRecords
<1>7. slot \in 0 .. MaxSlot /\ inFlight \in [command : Commands \cup {NoCommand}, landed : Nat]
  BY BoundsAssumption DEF Init
<1>8. RequestInv /\ OneRecoveryPerVersion
  BY DEF Init, NoRequest, RequestInv, OneRecoveryPerVersion, MaxGuardians
<1>9. DelegationInv /\ InFlightInv
  BY <1>5 DEF Init, DelegationInv, InFlightInv
<1> QED BY <1>1, <1>2, <1>4, <1>5, <1>6, <1>7, <1>8, <1>9 DEF IdentityInv, TypeOK

LEMMA FrameInv ==
    ASSUME IdentityInv, UNCHANGED accounts
    PROVE  /\ AccountsTypeOK' /\ RequestInv' /\ DelegationInv' /\ OneRecoveryPerVersion'
BY DEF IdentityInv, TypeOK, AccountsTypeOK, RequestInv, DelegationInv, OneRecoveryPerVersion,
       accounts

LEMMA StepInv == IdentityInv /\ [Next]_vars => IdentityInv'
<1> SUFFICES ASSUME IdentityInv, [Next]_vars PROVE IdentityInv'
  OBVIOUS
<1>1. CASE Deliver
  <2>1. PICK c \in CommandsNow : Handle(c)
    BY <1>1 DEF Deliver
  <2>2. c \in Commands
    BY CommandsNowAreCommands DEF IdentityInv
  <2>3. Kept
    BY <2>1, <2>2, HandleKeeps
  <2>4. UNCHANGED <<slot, inFlight>>
    BY <1>1 DEF Deliver
  <2>5. InFlightInv'
    <3> SUFFICES ASSUME inFlight'.landed # 0
                 PROVE  inFlight'.landed = 1 /\ inFlight'.command \in Commands
                        /\ Spent(inFlight.command)'
      BY DEF InFlightInv
    <3>1. inFlight' = inFlight
      BY <2>4
    <3>2. inFlight.landed = 1 /\ inFlight.command \in Commands /\ Spent(inFlight.command)
      BY <3>1 DEF IdentityInv, InFlightInv
    <3>3. ASSUME NEW x \in Commands, Spent(x) PROVE Spent(x)'
      BY <2>3, <3>3, SpentStaysSpent
    <3> QED BY <3>1, <3>2, <3>3
  <2>6. OneRecoveryPerVersion'
    BY <2>3, OneRecoveryKept
  <2>7. TypeOK'
    BY <2>3, <2>4 DEF IdentityInv, TypeOK, Kept, AccountsTypeOK
  <2> QED BY <2>3, <2>5, <2>6, <2>7 DEF IdentityInv, Kept
<1>2. CASE Sign
  <2>1. PICK c \in CommandsNow : inFlight' = [command |-> c, landed |-> 0]
    BY <1>2 DEF Sign
  <2>2. c \in Commands
    BY CommandsNowAreCommands DEF IdentityInv
  <2>3. UNCHANGED <<accounts, slot>>
    BY <1>2 DEF Sign
  <2>4. InFlightInv'
    BY <2>1 DEF InFlightInv
  <2>5. TypeOK'
    BY <2>1, <2>2, <2>3, FrameInv DEF IdentityInv, TypeOK, AccountsTypeOK
  <2> QED BY <2>3, <2>4, <2>5, FrameInv DEF IdentityInv
<1>3. CASE Land
  <2>1. inFlight \in [command : Commands \cup {NoCommand}, landed : Nat]
    BY DEF IdentityInv, TypeOK
  <2>2. PICK c \in Commands : c = inFlight.command
    BY <1>3, <2>1 DEF Land
  <2>3. inFlight' = [inFlight EXCEPT !.landed = inFlight.landed + 1] /\ UNCHANGED slot
    BY <1>3 DEF Land
  <2>4. Handle(c)
    BY <1>3, <2>2 DEF Land
  <2>5. inFlight.landed = 0
    <3>1. ASSUME Spent(c) PROVE FALSE
      BY <2>4, <3>1, SpentIsRefused
    <3> QED BY <2>2, <3>1 DEF IdentityInv, InFlightInv
  <2>6. inFlight'.command = c /\ inFlight'.landed = 1
    BY <2>1, <2>2, <2>3, <2>5
  <2>7. Spent(c)' /\ Kept
    BY <2>4, HandleSpends, HandleKeeps
  <2>8. InFlightInv'
    BY <2>6, <2>7 DEF InFlightInv
  <2>9. OneRecoveryPerVersion'
    BY <2>7, OneRecoveryKept
  <2>10. inFlight' \in [command : Commands \cup {NoCommand}, landed : Nat]
    BY <2>1, <2>3, <2>5
  <2>11. TypeOK'
    BY <2>3, <2>7, <2>10 DEF IdentityInv, TypeOK, Kept, AccountsTypeOK
  <2> QED BY <2>7, <2>8, <2>9, <2>11 DEF IdentityInv, Kept
<1>4. CASE UNCHANGED <<accounts, inFlight>> /\ slot' \in 0 .. MaxSlot
  <2>1. InFlightInv'
    <3>1. UNCHANGED accounts /\ inFlight' = inFlight
      BY <1>4
    <3>2. Spent(inFlight.command)' <=> Spent(inFlight.command)
      BY <3>1 DEF accounts, Spent, ApprovalSpent
    <3> QED BY <3>1, <3>2 DEF IdentityInv, InFlightInv
  <2>2. TypeOK'
    BY <1>4, FrameInv DEF IdentityInv, TypeOK, AccountsTypeOK
  <2> QED BY <1>4, <2>1, <2>2, FrameInv DEF IdentityInv
<1>5. CASE Tick
  <2>1. slot' \in 0 .. MaxSlot
    BY <1>5, BoundsAssumption DEF Tick, IdentityInv, TypeOK
  <2> QED BY <1>4, <1>5, <2>1 DEF Tick
<1>6. CASE UNCHANGED vars
  <2>1. slot' \in 0 .. MaxSlot
    BY <1>6 DEF vars, IdentityInv, TypeOK
  <2> QED BY <1>4, <1>6, <2>1 DEF vars
<1> QED BY <1>1, <1>2, <1>3, <1>5, <1>6 DEF Next

LEMMA Invariance == Spec => []IdentityInv
BY InitInv, StepInv, PTL DEF Spec
LEMMA ExecuteAdvances ==
    ASSUME IdentityInv, NEW c \in Commands, c.op = "execute", Handle(c)
    PROVE  /\ identity'.sequence = identity.sequence + 1
           /\ identity'.rotations = identity.rotations + 1
           /\ identity'.root = c.signer
           /\ identity'.active = identity.active
<1>1. c.signer \in Keys /\ ExecuteRecovery(c)
  BY CommandArguments DEF Handle
<1> QED BY <1>1, RotatedIdentity DEF ExecuteRecovery, IdentityInv, TypeOK

LEMMA StepVersion ==
    IdentityInv /\ [Next]_vars =>
        [Versioned' # Versioned => identity'.sequence > identity.sequence]_vars
<1> SUFFICES ASSUME IdentityInv, Next, Versioned' # Versioned
             PROVE  identity'.sequence > identity.sequence
  OBVIOUS
<1>1. identity.sequence \in Nat
  BY BoundsAssumption DEF IdentityInv, TypeOK, IdentityRecords
<1>2. ASSUME NEW c \in Commands, Handle(c) PROVE identity'.sequence > identity.sequence
  <2>1. CASE c.op \in SequencedOps
    BY <1>1, <1>2, <2>1, Sequenced
  <2>2. CASE c.op = "execute"
    BY <1>1, <1>2, <2>2, ExecuteAdvances
  <2>3. CASE c.op \in {"request", "approve"}
    BY <1>2, <2>3 DEF Handle, RequestRecovery, ApproveRecovery, Versioned
  <2> QED BY <2>1, <2>2, <2>3, CommandArguments
<1>3. CASE Deliver
  <2>1. PICK c \in CommandsNow : Handle(c)
    BY <1>3 DEF Deliver
  <2>2. c \in Commands
    BY CommandsNowAreCommands DEF IdentityInv
  <2> QED BY <1>2, <2>1, <2>2
<1>4. CASE Land
  <2>1. PICK c \in Commands : c = inFlight.command
    BY <1>4 DEF Land, IdentityInv, TypeOK
  <2>2. Handle(c)
    BY <1>4, <2>1 DEF Land
  <2> QED BY <1>2, <2>2
<1>5. CASE Sign \/ Tick
  BY <1>5 DEF Sign, Tick, accounts, Versioned
<1> QED BY <1>3, <1>4, <1>5 DEF Next

(* The accounts hold values of their types whatever the handlers do.       *)
THEOREM TypeCorrect == Spec => []TypeOK
<1>1. IdentityInv => TypeOK
  BY DEF IdentityInv
<1> QED BY <1>1, Invariance, PTL

(* Of the recoveries that are ready at one sequence at most one is ever    *)
(* executed, however many requests the guardians opened.                   *)
THEOREM RecoverySafe == Spec => []OneRecoveryPerVersion
<1>1. IdentityInv => OneRecoveryPerVersion
  BY DEF IdentityInv
<1> QED BY <1>1, Invariance, PTL

(* Landing a signed command again never has an effect, for any delay.      *)
THEOREM ReplaySafe == Spec => []LandsAtMostOnce
<1>1. IdentityInv => LandsAtMostOnce
  BY DEF IdentityInv, InFlightInv, LandsAtMostOnce, TypeOK
<1> QED BY <1>1, Invariance, PTL

(* No account the sequence guards changes without the sequence growing.    *)
THEOREM SequenceVersions == Spec => SequenceIsVersion
BY Invariance, StepVersion, PTL DEF Spec, SequenceIsVersion
-----------------------------------------------------------------------------
(* The mandate.  The guardians behind a set of approval bits.              *)

Guards(p, bits) == {p.guardians[i] : i \in bits}

LEMMA GuardCount ==
    ASSUME NEW p \in PolicyRecords,
           \A i, j \in DOMAIN p.guardians : p.guardians[i] = p.guardians[j] => i = j,
           NEW bits, bits \subseteq 1 .. Len(p.guardians)
    PROVE  /\ IsFiniteSet(Guards(p, bits))
           /\ Cardinality(Guards(p, bits)) = Cardinality(bits)
<1> DEFINE f == [i \in bits |-> p.guardians[i]]
           T == Guards(p, bits)
<1>1. Len(p.guardians) \in Nat /\ DOMAIN p.guardians = 1 .. Len(p.guardians)
  BY DEF PolicyRecords
<1>2. IsFiniteSet(1 .. Len(p.guardians))
  BY <1>1, FS_Interval
<1>3. IsFiniteSet(bits)
  BY <1>2, FS_Subset
<1>4. f \in [bits -> T]
  BY DEF Guards
<1>5. \A t \in T : \E i \in bits : f[i] = t
  BY DEF Guards
<1>6. \A i, j \in bits : f[i] = f[j] => i = j
  BY <1>1
<1> HIDE DEF f, T
<1>7. f \in Bijection(bits, T)
  BY <1>4, <1>5, <1>6 DEF Bijection, Injection, Surjection, IsInjective
<1>8. ExistsBijection(bits, T)
  BY <1>7 DEF ExistsBijection
<1> QED BY <1>3, <1>8, FS_Bijection DEF T

ClosedBallot == [target |-> {}, endorsers |-> {}, opened |-> 0]

LEMMA BallotsVoid ==
    ASSUME IdentityInv, Kept, identity'.sequence > identity.sequence
    PROVE  Mandate!VoidBallots
<1>1. identity.sequence \in Nat /\ identity'.sequence \in Nat
  BY BoundsAssumption DEF IdentityInv, TypeOK, Kept, AccountsTypeOK, IdentityRecords
<1>2. ASSUME NEW n \in Nonces PROVE ~ RequestCurrent(requests[n])'
  <2>1. requests'[n].state # "absent" => requests'[n].sequence <= identity.sequence
    BY DEF Kept, Onward
  <2>2. requests'[n].sequence \in Nat
    BY DEF Kept, AccountsTypeOK, RequestRecords
  <2> QED BY <1>1, <2>1, <2>2 DEF RequestCurrent
<1>3. \A n \in Nonces : Ballot(requests[n])' = ClosedBallot
  BY <1>2 DEF Ballot, ClosedBallot
<1>4. [n \in Nonces |-> Ballot(requests[n])]' = [n \in Nonces |-> ClosedBallot]
  BY <1>3
<1> QED BY <1>4 DEF Mandate!VoidBallots, Mandate!NoBallot, ClosedBallot

(* Every command but a request and an approval voids the ballots.          *)
LEMMA CommandVoids ==
    ASSUME IdentityInv, NEW c \in Commands, Handle(c), c.op \notin {"request", "approve"}
    PROVE  Mandate!VoidBallots
<1>1. identity.sequence \in Nat
  BY BoundsAssumption DEF IdentityInv, TypeOK, IdentityRecords
<1>2. identity'.sequence > identity.sequence
  BY <1>1, Sequenced, ExecuteAdvances, CommandArguments
<1> QED BY <1>2, HandleKeeps, BallotsVoid

Present(i) ==
    /\ delegations[i].active
    /\ delegations[i].root = identity.root
    /\ delegations[i].rotations = identity.rotations
Appointment(i) ==
    [number |-> i, delegate |-> delegations[i].delegate, scopes |-> delegations[i].scopes,
     expires |-> delegations[i].expires]

LEMMA AppointmentsAre ==
    Appointments = {Appointment(i) : i \in {j \in DOMAIN delegations : Present(j)}}
BY DEF Appointments, Appointment, Present

(* After a change of root no delegation is of the new epoch.               *)
LEMMA RotationDismisses ==
    ASSUME IdentityInv, delegations' = delegations,
           identity'.rotations = identity.rotations + 1
    PROVE  Appointments' = {}
<1>1. identity.rotations \in Nat
  BY DEF IdentityInv, TypeOK, IdentityRecords
<1>2. ASSUME NEW i \in DOMAIN delegations PROVE delegations[i].rotations # identity'.rotations
  <2>1. delegations[i] \in DelegationRecords
    BY DEF IdentityInv, TypeOK
  <2>2. delegations[i].rotations \in Nat /\ delegations[i].rotations <= identity.rotations
    BY <2>1 DEF IdentityInv, DelegationInv, DelegationRecords
  <2> QED BY <1>1, <2>2
<1> QED BY <1>2 DEF Appointments

LEMMA SameAppointments ==
    ASSUME delegations' = delegations, identity'.root = identity.root,
           identity'.rotations = identity.rotations
    PROVE  Appointments' = Appointments
BY DEF Appointments

LEMMA SameBoard ==
    ASSUME policy' = policy PROVE Board' = Board
BY DEF Board
-----------------------------------------------------------------------------
(* Each handler is a step of the mandate.                                  *)

LEMMA RotateMaps ==
    ASSUME IdentityInv, NEW c \in Commands, c.op = "rotate", Handle(c), slot' = slot
    PROVE  Mandate!Rotate
<1>1. c.key \in Keys /\ RotateRootAuthority(c)
  BY CommandArguments DEF Handle
<1>2. identity \in IdentityRecords /\ identity.sequence < MaxSequence /\ identity.active
  BY <1>1 DEF RotateRootAuthority, RootCommand, NextSequence, IdentityInv, TypeOK
<1>3. /\ identity'.rotations = identity.rotations + 1
      /\ identity'.root = c.key
      /\ identity'.active = identity.active
  BY <1>1, <1>2, RotatedIdentity DEF RotateRootAuthority
<1>4. c.key # identity.root /\ UNCHANGED <<policy, requests, delegations, posts>>
  BY <1>1 DEF RotateRootAuthority
<1>5. Mandate!VoidBallots
  BY CommandVoids
<1> QED BY <1>1, <1>2, <1>3, <1>4, <1>5, RotationDismisses, SameBoard DEF Mandate!Rotate

LEMMA DeactivateMaps ==
    ASSUME IdentityInv, NEW c \in Commands, c.op = "deactivate", Handle(c), slot' = slot
    PROVE  Mandate!Deactivate
<1>1. DeactivateIdentity(c)
  BY DEF Handle
<1>2. identity \in IdentityRecords /\ identity.sequence < MaxSequence /\ identity.active
  BY <1>1 DEF DeactivateIdentity, RootCommand, NextSequence, IdentityInv, TypeOK
<1>3. /\ identity'.rotations = identity.rotations
      /\ identity'.root = identity.root
      /\ identity'.active = FALSE
  <2> DEFINE adv == Advance(identity)
  <2>1. /\ adv \in IdentityRecords
        /\ adv.rotations = identity.rotations
        /\ adv.root = identity.root
    BY <1>2, AdvanceIdentity
  <2>2. identity' = [adv EXCEPT !.active = FALSE]
    BY <1>1 DEF DeactivateIdentity
  <2> HIDE DEF adv
  <2> QED BY <2>1, <2>2 DEF IdentityRecords
<1>4. UNCHANGED <<policy, requests, delegations, posts>>
  BY <1>1 DEF DeactivateIdentity
<1>5. Mandate!VoidBallots
  BY CommandVoids
<1> QED BY <1>2, <1>3, <1>4, <1>5, SameAppointments, SameBoard DEF Mandate!Deactivate

LEMMA DelegateMaps ==
    ASSUME IdentityInv, NEW c \in Commands, c.op = "delegate", Handle(c), slot' = slot
    PROVE  Mandate!Appoint
<1>1. CreateDelegation(c)
  BY DEF Handle
<1>2. identity \in IdentityRecords /\ identity.sequence < MaxSequence /\ identity.active
  BY <1>1 DEF CreateDelegation, RootCommand, NextSequence, IdentityInv, TypeOK
<1>3. /\ identity'.rotations = identity.rotations
      /\ identity'.root = identity.root
      /\ identity'.active = identity.active
  BY <1>1, <1>2, AdvanceIdentity DEF CreateDelegation
<1> DEFINE d == [delegate |-> c.delegate, scopes |-> c.terms.scopes, expires |-> c.terms.expires,
                 root |-> identity.root, rotations |-> identity.rotations, active |-> TRUE]
<1>4. d.active /\ d.root = identity.root /\ d.rotations = identity.rotations
  OBVIOUS
<1>5. delegations' = Append(delegations, d)
  BY <1>1 DEF CreateDelegation
<1> HIDE DEF d
<1>6. delegations \in Seq(DelegationRecords)
  BY DEF IdentityInv, TypeOK
<1>k. PICK k \in Nat : k = Len(delegations) + 1
  BY <1>6
<1> DEFINE a == [number |-> k, delegate |-> d.delegate, scopes |-> d.scopes, expires |-> d.expires]
<1>7. /\ DOMAIN delegations' = DOMAIN delegations \cup {k}
      /\ k \notin DOMAIN delegations
      /\ delegations'[k] = d
      /\ \A i \in DOMAIN delegations : delegations'[i] = delegations[i]
  <2>1. Len(delegations) \in Nat /\ DOMAIN delegations = 1 .. Len(delegations)
    BY <1>6
  <2>2. DOMAIN delegations' = 1 .. (Len(delegations) + 1)
    BY <1>5, <1>6
  <2>3. DOMAIN delegations' = DOMAIN delegations \cup {k} /\ k \notin DOMAIN delegations
    BY <1>k, <2>1, <2>2
  <2> QED BY <1>5, <1>6, <1>k, <2>3
<1>8. \A i \in DOMAIN delegations :
        Present(i)' = Present(i) /\ Appointment(i)' = Appointment(i)
  BY <1>3, <1>7 DEF Present, Appointment
<1>9. Present(k)' /\ Appointment(k)' = a
  BY <1>3, <1>4, <1>7 DEF Present, Appointment
<1>10. Appointments' =
         {Appointment(i)' : i \in {j \in DOMAIN delegations' : Present(j)'}}
  BY AppointmentsAre DEF Appointments, Appointment, Present
<1>11. {j \in DOMAIN delegations' : Present(j)'} =
         {j \in DOMAIN delegations : Present(j)} \cup {k}
  BY <1>7, <1>8, <1>9
<1>12. Appointments' = {Appointment(i)' : i \in {j \in DOMAIN delegations : Present(j)} \cup {k}}
  BY <1>10, <1>11
<1>13. Appointments' = Appointments \cup {a}
  <2> DEFINE Current == {j \in DOMAIN delegations : Present(j)}
  <2>1. \A i \in Current : Appointment(i)' = Appointment(i)
    BY <1>8
  <2>2. Appointments = {Appointment(i) : i \in Current}
    BY AppointmentsAre
  <2>3. Appointments' = {Appointment(i)' : i \in Current \cup {k}}
    BY <1>12
  <2> HIDE DEF Current, a
  <2> QED BY <1>9, <2>1, <2>2, <2>3
<1>14. UNCHANGED <<policy, requests, posts>>
  BY <1>1 DEF CreateDelegation
<1>15. Mandate!VoidBallots
  BY CommandVoids
<1> HIDE DEF a
<1>16. \E e \in Appointments' : Appointments' = Appointments \cup {e}
  BY <1>13
<1> QED BY <1>2, <1>3, <1>14, <1>15, <1>16, SameBoard DEF Mandate!Appoint

LEMMA RevokeMaps ==
    ASSUME IdentityInv, NEW c \in Commands, c.op = "revoke", Handle(c), slot' = slot
    PROVE  Mandate!Dismiss \/ Mandate!Act
<1> DEFINE k == c.delegation
           d == [delegations[k] EXCEPT !.active = FALSE]
<1>1. RevokeDelegation(c)
  BY DEF Handle
<1>2. identity \in IdentityRecords /\ identity.sequence < MaxSequence /\ identity.active
  BY <1>1 DEF RevokeDelegation, RootCommand, NextSequence, IdentityInv, TypeOK
<1>3. /\ identity'.rotations = identity.rotations
      /\ identity'.root = identity.root
      /\ identity'.active = identity.active
  BY <1>1, <1>2, AdvanceIdentity DEF RevokeDelegation
<1>4. k \in DOMAIN delegations /\ delegations \in Seq(DelegationRecords) /\ delegations[k].active
  BY <1>1 DEF IdentityInv, TypeOK, RevokeDelegation
<1>5. d.active = FALSE
  <2>1. delegations[k] \in DelegationRecords
    BY <1>4
  <2> QED BY <2>1 DEF DelegationRecords
<1>6. delegations' = [delegations EXCEPT ![k] = d]
  BY <1>1 DEF RevokeDelegation
<1> HIDE DEF k, d
<1>7. /\ DOMAIN delegations' = DOMAIN delegations
      /\ delegations'[k] = d
      /\ \A i \in DOMAIN delegations \ {k} : delegations'[i] = delegations[i]
  BY <1>4, <1>6
<1>8. \A i \in DOMAIN delegations \ {k} :
        Present(i)' = Present(i) /\ Appointment(i)' = Appointment(i)
  BY <1>3, <1>7 DEF Present, Appointment
<1>9. ~ Present(k)'
  BY <1>5, <1>7 DEF Present
<1>10. Appointments' =
         {Appointment(i)' : i \in {j \in DOMAIN delegations' : Present(j)'}}
  BY AppointmentsAre DEF Appointments, Appointment, Present
<1>11. {j \in DOMAIN delegations' : Present(j)'} =
         {j \in DOMAIN delegations \ {k} : Present(j)}
  BY <1>7, <1>8, <1>9
<1>12. Appointments' = {Appointment(i) : i \in {j \in DOMAIN delegations \ {k} : Present(j)}}
  <2>1. \A i \in {j \in DOMAIN delegations \ {k} : Present(j)} : Appointment(i)' = Appointment(i)
    BY <1>8
  <2>2. Appointments' =
          {Appointment(i)' : i \in {j \in DOMAIN delegations \ {k} : Present(j)}}
    BY <1>10, <1>11
  <2> QED BY <2>1, <2>2
<1>13. UNCHANGED <<policy, requests, posts>>
  BY <1>1 DEF RevokeDelegation
<1>14. Mandate!VoidBallots
  BY CommandVoids
<1>15. CASE Present(k)
  <2>1. \A i \in DOMAIN delegations : Appointment(i) = Appointment(k) => i = k
    BY DEF Appointment
  <2>2. Appointments' = Appointments \ {Appointment(k)}
    BY <1>4, <1>12, <2>1, AppointmentsAre
  <2>3. Appointment(k) \in Appointments
    BY <1>4, <1>15, AppointmentsAre
  <2> QED BY <1>2, <1>3, <1>13, <1>14, <2>2, <2>3, SameBoard DEF Mandate!Dismiss
<1>16. CASE ~ Present(k)
  <2>1. {j \in DOMAIN delegations \ {k} : Present(j)} = {j \in DOMAIN delegations : Present(j)}
    BY <1>16
  <2>2. Appointments' = Appointments
    BY <1>12, <2>1, AppointmentsAre
  <2> QED BY <1>2, <1>3, <1>13, <1>14, <2>2, SameBoard DEF Mandate!Act
<1> QED BY <1>15, <1>16
LEMMA SameCardinality == \A S : Mandate!Cardinality(S) = Cardinality(S)
BY DEF Mandate!Cardinality, Cardinality

(* The board of a valid policy. *)
LEMMA SeatedBoard ==
    ASSUME NEW owner, NEW p \in PolicyRecords, p.active, ValidRecoveryPolicy(owner, p),
           policy' = p
    PROVE  Board' \in Mandate!Boards /\ owner \notin Board'.guardians
<1> DEFINE all == 1 .. Len(p.guardians)
           S == Guards(p, all)
<1>1. Len(p.guardians) \in Nat /\ DOMAIN p.guardians = all
  BY DEF PolicyRecords
<1>2. Cardinality(S) = Cardinality(all)
  BY GuardCount DEF ValidRecoveryPolicy
<1>3. Cardinality(all) = Len(p.guardians)
  <2>1. Len(p.guardians) >= 2
    BY <1>1 DEF ValidRecoveryPolicy, MinGuardians
  <2>2. Cardinality(all) = IF 1 > Len(p.guardians) THEN 0 ELSE Len(p.guardians) - 1 + 1
    BY <1>1, FS_Interval
  <2> QED BY <1>1, <2>1, <2>2
<1>4. Board' = [guardians |-> S, threshold |-> p.threshold, delay |-> p.delay]
  BY <1>1 DEF Board, Guards
<1>5. S \in SUBSET Keys
  BY <1>1 DEF Guards, PolicyRecords
<1>6. owner \notin S
  BY <1>1 DEF Guards, ValidRecoveryPolicy
<1>7. p.threshold \in 2 .. Len(p.guardians) /\ p.delay \in Nat /\ p.delay >= 2
  <2>1. p.threshold \in 2 .. Len(p.guardians)
    BY DEF ValidRecoveryPolicy, MinGuardians
  <2>2. p.delay \in 2 .. MaxDelay /\ p.delay \in Nat
    BY DEF ValidRecoveryPolicy, MinDelay, PolicyRecords
  <2>3. p.delay >= 2
    BY <2>2
  <2> QED BY <2>1, <2>2, <2>3
<1>8. p.threshold \in Nat /\ 2 <= p.threshold /\ p.threshold <= Cardinality(S)
  BY <1>1, <1>2, <1>3, <1>7
<1> HIDE DEF S, all
<1>9. PICK b : b = [guardians |-> S, threshold |-> p.threshold, delay |-> p.delay]
  OBVIOUS
<1>10. b.guardians = S /\ b.threshold = p.threshold /\ b.delay = p.delay
  BY <1>9
<1>11. b \in [guardians : SUBSET Keys, threshold : Nat, delay : Nat]
  BY <1>5, <1>7, <1>8, <1>9
<1>12. 2 <= b.threshold /\ b.threshold <= Mandate!Cardinality(b.guardians) /\ 2 <= b.delay
  BY <1>7, <1>8, <1>10, SameCardinality
<1>13. b \in Mandate!Boards
  BY <1>11, <1>12 DEF Mandate!Boards
<1> QED BY <1>4, <1>6, <1>9, <1>10, <1>13

LEMMA SeatMaps ==
    ASSUME IdentityInv, NEW c \in Commands, c.op \in {"configure", "disable"}, Handle(c),
           slot' = slot
    PROVE  Mandate!Seat
<1>1. /\ RootCommand(c)
      /\ identity' = Advance(identity)
      /\ UNCHANGED <<requests, delegations, posts>>
  BY DEF Handle, ConfigureRecoveryPolicy, DisableRecoveryPolicy
<1>2. identity \in IdentityRecords /\ identity.sequence < MaxSequence /\ identity.active
  BY <1>1 DEF RootCommand, NextSequence, IdentityInv, TypeOK
<1>3. /\ identity'.rotations = identity.rotations
      /\ identity'.root = identity.root
      /\ identity'.active = identity.active
  BY <1>1, <1>2, AdvanceIdentity
<1>4. Mandate!VoidBallots
  BY CommandVoids
<1>5. policy' \in PolicyRecords
  BY HandleKeeps DEF Kept, AccountsTypeOK
<1>6. Board' \in Mandate!Boards \cup {Mandate!NoBoard} /\ identity.root \notin Board'.guardians
  <2>1. CASE c.op = "configure"
    <3>1. ConfigureRecoveryPolicy(c)
      BY <2>1 DEF Handle
    <3>2. /\ policy'.active
          /\ policy'.guardians = c.policy.guardians
          /\ policy'.threshold = c.policy.threshold
          /\ policy'.delay = c.policy.delay
      BY <3>1 DEF ConfigureRecoveryPolicy
    <3>3. ValidRecoveryPolicy(identity.root, c.policy)
      BY <3>1 DEF ConfigureRecoveryPolicy
    <3>4. PICK p \in PolicyRecords : p = policy'
      BY <1>5
    <3>5. ValidRecoveryPolicy(identity.root, p)
      BY <3>2, <3>3, <3>4 DEF ValidRecoveryPolicy
    <3>6. PICK owner : owner = identity.root
      OBVIOUS
    <3> QED BY <3>2, <3>4, <3>5, <3>6, SeatedBoard
  <2>2. CASE c.op = "disable"
    <3> DEFINE adv == [policy EXCEPT !.sequence = policy.sequence + 1]
    <3>1. policy \in PolicyRecords
      BY DEF IdentityInv, TypeOK
    <3>2. adv \in PolicyRecords
      BY <3>1 DEF PolicyRecords
    <3>3. policy' = [adv EXCEPT !.active = FALSE]
      BY <2>2 DEF Handle, DisableRecoveryPolicy, Advance
    <3> HIDE DEF adv
    <3>4. policy'.active = FALSE
      BY <3>2, <3>3 DEF PolicyRecords
    <3> QED BY <3>4 DEF Board, Mandate!NoBoard
  <2> QED BY <2>1, <2>2
<1> QED BY <1>1, <1>2, <1>3, <1>4, <1>6, SameAppointments DEF Mandate!Seat

LEMMA CancelMaps ==
    ASSUME IdentityInv, NEW c \in Commands, c.op = "cancel", Handle(c), slot' = slot
    PROVE  Mandate!Act
<1>1. CancelRecovery(c)
  BY DEF Handle
<1>2. identity \in IdentityRecords /\ identity.sequence < MaxSequence /\ identity.active
  BY <1>1 DEF CancelRecovery, RootCommand, NextSequence, IdentityInv, TypeOK
<1>3. /\ identity'.rotations = identity.rotations
      /\ identity'.root = identity.root
      /\ identity'.active = identity.active
  BY <1>1, <1>2, AdvanceIdentity DEF CancelRecovery
<1>4. UNCHANGED <<policy, delegations, posts>>
  BY <1>1 DEF CancelRecovery
<1>5. Mandate!VoidBallots
  BY CommandVoids
<1> QED BY <1>2, <1>3, <1>4, <1>5, SameAppointments, SameBoard DEF Mandate!Act

(* A signer whom a delegation authorizes holds an appointment.             *)
LEMMA DelegateSpeaks ==
    ASSUME NEW c \in Commands, DelegatedCommand(c)
    PROVE  Mandate!SpeaksFor(c.signer)
<1> DEFINE k == c.delegation
<1>1. /\ k \in DOMAIN delegations
      /\ delegations[k].delegate = c.signer
      /\ c.signer = identity.root \/ "post" \in DelegationScopes(delegations[k])
  BY DEF DelegatedCommand, AuthorizeIdentityAction
<1>2. CASE c.signer = identity.root
  BY <1>2 DEF Mandate!SpeaksFor
<1>3. CASE "post" \in DelegationScopes(delegations[k])
  <2>1. /\ Present(k)
        /\ slot <= delegations[k].expires
        /\ "post" \in delegations[k].scopes
    BY <1>3 DEF DelegationScopes, Present
  <2>2. Appointment(k) \in Appointments
    BY <1>1, <2>1, AppointmentsAre
  <2>3. /\ Appointment(k).delegate = c.signer
        /\ Appointment(k).scopes = delegations[k].scopes
        /\ Appointment(k).expires = delegations[k].expires
    BY <1>1 DEF Appointment
  <2> HIDE DEF k
  <2> QED BY <2>1, <2>2, <2>3 DEF Mandate!SpeaksFor
<1> QED BY <1>1, <1>2, <1>3

LEMMA PostMaps ==
    ASSUME IdentityInv, NEW c \in Commands, Handle(c), slot' = slot,
           c.op \in {"publish", "tombstone", "publish_delegated", "tombstone_delegated"}
    PROVE  \E p \in Posts, k \in Keys : Mandate!Publish(p, k) \/ Mandate!Retract(p, k)
<1>1. c.post \in Posts /\ c.signer \in Keys
  BY CommandArguments
<1>2. /\ identity' = Advance(identity)
      /\ RootCommand(c) \/ DelegatedCommand(c)
      /\ UNCHANGED <<policy, requests, delegations>>
  BY DEF Handle, PublishPost, TombstonePost, PublishPostDelegated, TombstonePostDelegated
<1>3. identity \in IdentityRecords /\ identity.sequence < MaxSequence /\ identity.active
  BY <1>2 DEF RootCommand, DelegatedCommand, NextSequence, IdentityInv, TypeOK
<1>4. /\ identity'.rotations = identity.rotations
      /\ identity'.root = identity.root
      /\ identity'.active = identity.active
  BY <1>2, <1>3, AdvanceIdentity
<1>5. Mandate!SpeaksFor(c.signer)
  BY <1>2, DelegateSpeaks DEF RootCommand, Mandate!SpeaksFor
<1>6. Mandate!VoidBallots
  BY CommandVoids
<1>7. \/ /\ posts[c.post].state = "absent"
         /\ posts' = [posts EXCEPT ![c.post] = [state |-> "live", by |-> c.signer]]
      \/ /\ posts[c.post].state = "live"
         /\ posts' = [posts EXCEPT ![c.post].state = "tombstoned"]
  BY DEF Handle, PublishPost, TombstonePost, PublishPostDelegated, TombstonePostDelegated
<1>8. Mandate!Publish(c.post, c.signer) \/ Mandate!Retract(c.post, c.signer)
  BY <1>2, <1>3, <1>4, <1>5, <1>6, <1>7, SameAppointments, SameBoard
     DEF Mandate!Publish, Mandate!Retract
<1> QED BY <1>1, <1>8
(* The ballots after a command that replaces one request and nothing else. *)
LEMMA OneBallot ==
    ASSUME IdentityInv, NEW n \in Nonces, NEW r \in RequestRecords, NEW b,
           requests' = [requests EXCEPT ![n] = r],
           UNCHANGED <<identity, policy>>,
           Ballot(r) = b
    PROVE  [m \in Nonces |-> Ballot(requests[m])]' =
               [[m \in Nonces |-> Ballot(requests[m])] EXCEPT ![n] = b]
<1>1. requests \in [Nonces -> RequestRecords]
  BY DEF IdentityInv, TypeOK
<1>2. requests'[n] = r /\ \A m \in Nonces \ {n} : requests'[m] = requests[m]
  BY <1>1
<1>3. ASSUME NEW x PROVE Ballot(x)' = Ballot(x)
  BY DEF Ballot, RequestCurrent
<1>4. ASSUME NEW m \in Nonces \ {n} PROVE Ballot(requests[m])' = Ballot(requests[m])
  BY <1>2 DEF Ballot, RequestCurrent
<1>5. Ballot(requests[n])' = b
  BY <1>2 DEF Ballot, RequestCurrent
<1>6. [m \in Nonces |-> Ballot(requests[m])]' = [m \in Nonces |-> Ballot(requests[m])']
  OBVIOUS
<1> QED BY <1>4, <1>5, <1>6

LEMMA OpenMaps ==
    ASSUME IdentityInv, NEW c \in Commands, c.op = "request", Handle(c), slot' = slot
    PROVE  \E n \in Nonces, k, t \in Keys : Mandate!Open(n, k, t)
<1>1. RequestRecovery(c)
  BY DEF Handle
<1>2. c.nonce \in Nonces /\ c.target \in Keys /\ c.signer \in Keys
  BY CommandArguments
<1>3. PICK i \in DOMAIN policy.guardians :
        /\ policy.guardians[i] = c.signer
        /\ requests' = [requests EXCEPT ![c.nonce] =
                [state |-> "pending", policy |-> policy.sequence, root |-> identity.root,
                 sequence |-> identity.sequence, rotations |-> identity.rotations,
                 target |-> c.target, threshold |-> policy.threshold,
                 guardians |-> Len(policy.guardians), approvals |-> {i},
                 requestedAt |-> slot, executeAfter |-> slot + policy.delay]]
  BY <1>1 DEF RequestRecovery
<1>4. PICK r : r = [state |-> "pending", policy |-> policy.sequence, root |-> identity.root,
                 sequence |-> identity.sequence, rotations |-> identity.rotations,
                 target |-> c.target, threshold |-> policy.threshold,
                 guardians |-> Len(policy.guardians), approvals |-> {i},
                 requestedAt |-> slot, executeAfter |-> slot + policy.delay]
  OBVIOUS
<1>5. /\ r.state = "pending" /\ r.policy = policy.sequence /\ r.root = identity.root
      /\ r.sequence = identity.sequence /\ r.rotations = identity.rotations
      /\ r.target = c.target /\ r.threshold = policy.threshold
      /\ r.guardians = Len(policy.guardians) /\ r.approvals = {i} /\ r.requestedAt = slot
  BY <1>4
<1>6. requests' = [requests EXCEPT ![c.nonce] = r]
  BY <1>3, <1>4
<1>7. requests \in [Nonces -> RequestRecords] /\ requests' \in [Nonces -> RequestRecords]
  BY HandleKeeps DEF IdentityInv, TypeOK, Kept, AccountsTypeOK
<1>8. r \in RequestRecords
  BY <1>2, <1>6, <1>7
<1>9. /\ identity.active /\ policy.active /\ ValidRecoveryPolicy(identity.root, policy)
      /\ c.target # identity.root /\ requests[c.nonce].state = "absent"
      /\ UNCHANGED <<identity, policy, delegations, posts>>
  BY <1>1 DEF RequestRecovery
<1>10. RequestCurrent(r)
  BY <1>5, <1>9 DEF RequestCurrent
<1> DEFINE b == [target |-> {c.target}, endorsers |-> {c.signer}, opened |-> slot]
<1>11. Ballot(r) = b
  <2>1. {policy.guardians[j] : j \in r.approvals} = {c.signer}
    BY <1>3, <1>5
  <2> QED BY <1>5, <1>10, <2>1 DEF Ballot
<1>12. PICK bb : bb = b
  OBVIOUS
<1>13. [m \in Nonces |-> Ballot(requests[m])]' =
               [[m \in Nonces |-> Ballot(requests[m])] EXCEPT ![c.nonce] = bb]
  BY <1>2, <1>6, <1>8, <1>9, <1>11, <1>12, OneBallot
<1>14. [m \in Nonces |-> Ballot(requests[m])][c.nonce] = Mandate!NoBallot
  BY <1>2, <1>9 DEF Ballot, RequestCurrent, Mandate!NoBallot
<1>15. c.signer \in Board.guardians
  BY <1>3, <1>9 DEF Board
<1>16. /\ Board' = Board /\ Appointments' = Appointments
       /\ UNCHANGED <<identity.root, identity.active, posts>>
  BY <1>9, SameBoard, SameAppointments
<1>17. Mandate!Open(c.nonce, c.signer, c.target)
  BY <1>9, <1>12, <1>13, <1>14, <1>15, <1>16 DEF Mandate!Open
<1> QED BY <1>2, <1>17

LEMMA EndorseMaps ==
    ASSUME IdentityInv, NEW c \in Commands, c.op = "approve", Handle(c), slot' = slot
    PROVE  \E n \in Nonces, k \in Keys : Mandate!Endorse(n, k)
<1>1. ApproveRecovery(c)
  BY DEF Handle
<1>2. c.nonce \in Nonces /\ c.signer \in Keys
  BY CommandArguments
<1>3. PICK i \in DOMAIN policy.guardians :
        /\ policy.guardians[i] = c.signer
        /\ requests' = [requests EXCEPT ![c.nonce].approvals = @ \cup {i}]
  BY <1>1 DEF ApproveRecovery
<1>4. PICK old \in RequestRecords : old = requests[c.nonce]
  BY <1>2 DEF IdentityInv, TypeOK
<1>5. PICK r : r = [old EXCEPT !.approvals = old.approvals \cup {i}]
  OBVIOUS
<1>6. /\ r.state = old.state /\ r.policy = old.policy /\ r.root = old.root
      /\ r.sequence = old.sequence /\ r.rotations = old.rotations
      /\ r.target = old.target /\ r.threshold = old.threshold
      /\ r.guardians = old.guardians /\ r.approvals = old.approvals \cup {i}
      /\ r.requestedAt = old.requestedAt
  BY <1>5 DEF RequestRecords
<1>7. requests \in [Nonces -> RequestRecords] /\ requests' \in [Nonces -> RequestRecords]
  BY HandleKeeps DEF IdentityInv, TypeOK, Kept, AccountsTypeOK
<1>8. requests' = [requests EXCEPT ![c.nonce] = r]
  BY <1>2, <1>3, <1>4, <1>5, <1>7
<1>9. r \in RequestRecords
  BY <1>2, <1>7, <1>8
<1>10. /\ identity.active /\ RequestCurrent(old)
       /\ UNCHANGED <<identity, policy, delegations, posts>>
  BY <1>1, <1>4 DEF ApproveRecovery
<1>11. RequestCurrent(r)
  BY <1>6, <1>10 DEF RequestCurrent
<1>12. PICK was : was = Ballot(old)
  OBVIOUS
<1>13. was = [target |-> {old.target},
              endorsers |-> {policy.guardians[j] : j \in old.approvals},
              opened |-> old.requestedAt]
  BY <1>10, <1>12 DEF Ballot
<1>14. PICK b : b = [was EXCEPT !.endorsers = was.endorsers \cup {c.signer}]
  OBVIOUS
<1>15. Ballot(r) = b
  <2>1. {policy.guardians[j] : j \in r.approvals} =
          {policy.guardians[j] : j \in old.approvals} \cup {c.signer}
    BY <1>3, <1>6
  <2>2. Ballot(r) = [target |-> {r.target},
              endorsers |-> {policy.guardians[j] : j \in r.approvals},
              opened |-> r.requestedAt]
    BY <1>11 DEF Ballot
  <2>3. PICK E : E = {policy.guardians[j] : j \in old.approvals}
    OBVIOUS
  <2>4. was = [target |-> {old.target}, endorsers |-> E, opened |-> old.requestedAt]
    BY <1>13, <2>3
  <2>5. b = [target |-> {old.target}, endorsers |-> E \cup {c.signer}, opened |-> old.requestedAt]
    BY <1>14, <2>4
  <2> QED BY <1>6, <2>1, <2>2, <2>3, <2>5
<1>16. [m \in Nonces |-> Ballot(requests[m])]' =
               [[m \in Nonces |-> Ballot(requests[m])] EXCEPT ![c.nonce] = b]
  BY <1>2, <1>8, <1>9, <1>10, <1>15, OneBallot
<1>17. [m \in Nonces |-> Ballot(requests[m])][c.nonce] = was
  BY <1>2, <1>4, <1>12
<1>18. was # Mandate!NoBallot
  <2>1. was.target = {old.target}
    BY <1>13
  <2>2. Mandate!NoBallot.target = {}
    BY DEF Mandate!NoBallot
  <2> QED BY <2>1, <2>2
<1>19. [m \in Nonces |-> Ballot(requests[m])]' =
         [[m \in Nonces |-> Ballot(requests[m])] EXCEPT
              ![c.nonce] = [was EXCEPT !.endorsers = was.endorsers \cup {c.signer}]]
  BY <1>14, <1>16
<1>20. [m \in Nonces |-> Ballot(requests[m])]' =
         [[m \in Nonces |-> Ballot(requests[m])] EXCEPT
              ![c.nonce].endorsers = @ \cup {c.signer}]
  BY <1>2, <1>17, <1>19
<1>21. c.signer \in Board.guardians
  BY <1>3, <1>10 DEF Board, RequestCurrent
<1>22. /\ Board' = Board /\ Appointments' = Appointments
       /\ UNCHANGED <<identity.root, identity.active, posts>>
  BY <1>10, SameBoard, SameAppointments
<1>23. Mandate!Endorse(c.nonce, c.signer)
  BY <1>10, <1>17, <1>18, <1>20, <1>21, <1>22 DEF Mandate!Endorse
<1> QED BY <1>2, <1>23
LEMMA RecoverMaps ==
    ASSUME IdentityInv, NEW c \in Commands, c.op = "execute", Handle(c), slot' = slot
    PROVE  \E n \in Nonces : Mandate!Recover(n)
<1>1. ExecuteRecovery(c)
  BY DEF Handle
<1>2. c.nonce \in Nonces /\ c.signer \in Keys
  BY CommandArguments
<1>3. PICK r \in RequestRecords : r = requests[c.nonce]
  BY <1>2 DEF IdentityInv, TypeOK
<1>4. /\ RequestCurrent(r) /\ c.signer = r.target
      /\ r.executeAfter = r.requestedAt + policy.delay
      /\ slot >= r.executeAfter
      /\ Cardinality(r.approvals) >= r.threshold
      /\ identity.active
      /\ UNCHANGED <<policy, delegations, posts>>
  BY <1>1, <1>3 DEF ExecuteRecovery
<1>5. PICK p \in PolicyRecords : p = policy
  BY DEF IdentityInv, TypeOK
<1>6. /\ p.active /\ r.threshold = p.threshold /\ r.guardians = Len(p.guardians)
      /\ ValidRecoveryPolicy(identity.root, p)
  BY <1>4, <1>5 DEF RequestCurrent
<1>7. \A i, j \in DOMAIN p.guardians : p.guardians[i] = p.guardians[j] => i = j
  BY <1>6 DEF ValidRecoveryPolicy
<1>8. r.approvals \subseteq 1 .. Len(p.guardians)
  BY <1>2, <1>3, <1>6 DEF IdentityInv, RequestInv
<1>9. PICK bits : bits = r.approvals
  OBVIOUS
<1>10. Cardinality(Guards(p, bits)) = Cardinality(bits)
  BY <1>7, <1>8, <1>9, GuardCount
<1>11. PICK G : G = Guards(p, bits)
  OBVIOUS
<1>12. PICK b : b = [target |-> {r.target}, endorsers |-> G, opened |-> r.requestedAt]
  OBVIOUS
<1>13. Ballot(requests[c.nonce]) = b
  BY <1>3, <1>4, <1>5, <1>9, <1>11, <1>12 DEF Ballot, Guards
<1>14. b.target = {r.target} /\ b.endorsers = G /\ b.opened = r.requestedAt
  BY <1>12
<1>15. [m \in Nonces |-> Ballot(requests[m])][c.nonce] = b
  BY <1>2, <1>13
<1>16. b # Mandate!NoBallot
  <2>1. Mandate!NoBallot.target = {}
    BY DEF Mandate!NoBallot
  <2> QED BY <1>14, <2>1
<1>17. /\ Board.guardians = Guards(p, 1 .. Len(p.guardians))
       /\ Board.threshold = p.threshold /\ Board.delay = p.delay
  <2>1. DOMAIN p.guardians = 1 .. Len(p.guardians)
    BY DEF PolicyRecords
  <2> QED BY <1>5, <1>6, <2>1 DEF Board, Guards
<1>18. b.endorsers \subseteq Board.guardians
  BY <1>8, <1>9, <1>11, <1>14, <1>17 DEF Guards
<1>19. Mandate!Cardinality(b.endorsers) >= Board.threshold
  <2>1. Cardinality(bits) >= p.threshold
    BY <1>4, <1>6, <1>9
  <2>2. Mandate!Cardinality(b.endorsers) = Cardinality(bits)
    BY <1>10, <1>11, <1>14, SameCardinality
  <2> QED BY <1>17, <2>1, <2>2
<1>20. slot >= b.opened + Board.delay
  <2>1. slot >= r.requestedAt + p.delay
    BY <1>4, <1>5
  <2> QED BY <1>14, <1>17, <2>1
<1>21. /\ identity'.rotations = identity.rotations + 1
       /\ identity'.root = c.signer
       /\ identity'.active = identity.active
  BY ExecuteAdvances
<1>22. identity'.root \in b.target
  BY <1>4, <1>14, <1>21
<1>23. Appointments' = {} /\ Board' = Board
  BY <1>4, <1>21, RotationDismisses, SameBoard
<1>24. Mandate!VoidBallots
  BY CommandVoids
<1>25. Mandate!Recover(c.nonce)
  BY <1>4, <1>15, <1>16, <1>18, <1>19, <1>20, <1>21, <1>22, <1>23, <1>24 DEF Mandate!Recover
<1> QED BY <1>2, <1>25

LEMMA HandleMaps ==
    ASSUME IdentityInv, NEW c \in Commands, Handle(c), slot' = slot
    PROVE  Mandate!Next
<1>1. CASE c.op = "rotate"
  BY <1>1, RotateMaps DEF Mandate!Next
<1>2. CASE c.op = "deactivate"
  BY <1>2, DeactivateMaps DEF Mandate!Next
<1>3. CASE c.op = "delegate"
  BY <1>3, DelegateMaps DEF Mandate!Next
<1>4. CASE c.op = "revoke"
  BY <1>4, RevokeMaps DEF Mandate!Next
<1>5. CASE c.op \in {"configure", "disable"}
  BY <1>5, SeatMaps DEF Mandate!Next
<1>6. CASE c.op = "request"
  BY <1>6, OpenMaps DEF Mandate!Next
<1>7. CASE c.op = "approve"
  BY <1>7, EndorseMaps DEF Mandate!Next
<1>8. CASE c.op = "execute"
  BY <1>8, RecoverMaps DEF Mandate!Next
<1>9. CASE c.op = "cancel"
  BY <1>9, CancelMaps DEF Mandate!Next
<1>10. CASE c.op \in {"publish", "tombstone", "publish_delegated", "tombstone_delegated"}
  BY <1>10, PostMaps DEF Mandate!Next
<1> QED BY <1>1, <1>2, <1>3, <1>4, <1>5, <1>6, <1>7, <1>8, <1>9, <1>10, CommandArguments
        DEF SequencedOps

LEMMA InitMaps == Init => Mandate!Init
<1> SUFFICES ASSUME Init PROVE Mandate!Init
  OBVIOUS
<1>1. identity.root = Origin /\ identity.active = TRUE
  BY DEF Init
<1>2. Board = Mandate!NoBoard
  BY DEF Init, Board, Mandate!NoBoard
<1>3. DOMAIN delegations = {}
  BY DEF Init
<1>4. Appointments = {}
  BY <1>3 DEF Appointments
<1>5. \A n \in Nonces : Ballot(requests[n]) = Mandate!NoBallot
  BY DEF Init, NoRequest, Ballot, RequestCurrent, Mandate!NoBallot
<1>6. posts = [p \in Posts |-> [state |-> "absent", by |-> identity.root]] /\ slot = 0
  BY <1>1 DEF Init, NoPost
<1> QED BY <1>1, <1>2, <1>4, <1>5, <1>6, OriginAssumption DEF Mandate!Init

LEMMA StepMaps == IdentityInv /\ [Next]_vars => [Mandate!Next]_(Mandate!vars)
<1> SUFFICES ASSUME IdentityInv, [Next]_vars PROVE [Mandate!Next]_(Mandate!vars)
  OBVIOUS
<1>1. ASSUME UNCHANGED accounts
      PROVE  /\ Board' = Board /\ Appointments' = Appointments
             /\ [n \in Nonces |-> Ballot(requests[n])]' = [n \in Nonces |-> Ballot(requests[n])]
             /\ UNCHANGED <<identity.root, identity.active, posts>>
  BY <1>1 DEF accounts, Board, Appointments, Ballot, RequestCurrent
<1>2. CASE Deliver
  <2>1. PICK c \in CommandsNow : Handle(c)
    BY <1>2 DEF Deliver
  <2>2. c \in Commands
    BY CommandsNowAreCommands DEF IdentityInv
  <2> QED BY <1>2, <2>1, <2>2, HandleMaps DEF Deliver
<1>3. CASE Land
  <2>1. PICK c \in Commands : c = inFlight.command
    BY <1>3 DEF Land, IdentityInv, TypeOK
  <2> QED BY <1>3, <2>1, HandleMaps DEF Land
<1>4. CASE Sign \/ UNCHANGED vars
  BY <1>1, <1>4 DEF Sign, vars, Mandate!vars
<1>5. CASE Tick
  BY <1>1, <1>5 DEF Tick, Mandate!Next, Mandate!Tick
<1> QED BY <1>2, <1>3, <1>4, <1>5 DEF Next

(* The accounts implement the mandate: whatever commands are delayed,      *)
(* replayed or reordered, only the present root and the delegates it       *)
(* appointed act, and a recovery has enough of the present guardians       *)
(* behind it, over their whole delay and with no act in between.           *)
THEOREM MandateKept == Spec => ImplementsMandate
BY InitMaps, StepMaps, Invariance, PTL DEF Spec, ImplementsMandate, Mandate!Spec
=============================================================================
