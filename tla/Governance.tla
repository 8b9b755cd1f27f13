----------------------------- MODULE Governance -----------------------------
(***************************************************************************)
(* One community of the social_protocol program: its memberships, its      *)
(* proposals and the votes on them.  Every instruction is an action; one   *)
(* that fails a check changes nothing and is left out.                     *)
(*                                                                         *)
(* Who may sign for an identity is the subject of module Identity.  The    *)
(* sequences a command expects (expected_...) are left out: they refuse a  *)
(* command that is late, so here also late commands may land, as long as   *)
(* they pass the other checks.  The membership sequence is kept: it is     *)
(* what tells a member at the snapshot of a proposal from a later one.     *)
(***************************************************************************)
EXTENDS Integers, FiniteSets

CONSTANTS
    Identities,        \* identities that may become members
    Creator,           \* the one that created the community
    Proposals,         \* digests of proposal manifests
    SelfJoin,          \* public or unlisted, and open to anyone
    Delays,            \* slots from creation to opening that are asked for
    Durations,         \* slots a window stays open that are asked for
    MaxMemberships,    \* bound: membership changes in a behaviour (a u64)
    MaxSlot            \* bound: the last slot of the clock

MinVotingSlots == 2
MaxVotingSlots == 1000000
MaxStartDelay == 100000
QuorumBps == 5000
ApprovalBps == 5001
Denominator == 10000

Choices == {"yes", "no", "abstain"}
Strategies == {"one_active_member_one_vote", "other"}

ASSUME IdentitiesAssumption == IsFiniteSet(Identities) /\ Creator \in Identities
ASSUME GovernanceBounds == MaxMemberships \in Nat /\ MaxSlot \in Nat
ASSUME WindowsAssumption == Delays \subseteq Nat /\ Durations \subseteq Nat

VARIABLES
    community,     \* membershipSequence, memberCount, strategy
    memberships,   \* membership accounts, by identity
    proposals,     \* proposal accounts, by digest
    votes,         \* vote accounts, by proposal and identity
    inactive,      \* identities that were deactivated
    slot           \* the clock

vars == <<community, memberships, proposals, votes, inactive, slot>>

NoMembership == [state |-> "absent", activeSince |-> 0]
NoProposal ==
    [outcome |-> "absent", eligible |-> 0, snapshot |-> 0, opens |-> 0, closes |-> 0,
     yes |-> 0, no |-> 0, abstain |-> 0]

-----------------------------------------------------------------------------
(* validate_governance_commitment, for the fixed thresholds. *)
SupportedStrategy == community.strategy = "one_active_member_one_vote"

ValidWindow(delay, duration) ==
    /\ delay <= MaxStartDelay
    /\ duration \in MinVotingSlots .. MaxVotingSlots

(* calculate_governance_tally *)
Decisive(q) == q.yes + q.no
Participating(q) == Decisive(q) + q.abstain
\* Mutant: a tally with a full turnout is taken for one that overflows.
CountableIfRoom(q) == q.eligible > 0 /\ Participating(q) < q.eligible
Countable(q) == q.eligible > 0 /\ Participating(q) <= q.eligible
\* Mutant: those who abstain do not count as participants.
QuorumOfDecided(q) == Decisive(q) * Denominator >= q.eligible * QuorumBps
QuorumMet(q) == Participating(q) * Denominator >= q.eligible * QuorumBps
ApprovalMet(q) == Decisive(q) > 0 /\ q.yes * Denominator >= Decisive(q) * ApprovalBps

(* validate_membership_snapshot *)
\* Mutant: any active membership is eligible, also one newer than the snapshot.
EligibleIfActive(m, q) == m.activeSince > 0
EligibleAtSnapshot(m, q) == m.activeSince > 0 /\ m.activeSince <= q.snapshot

\* Mutant: the membership sequence is not checked for overflow.
UncheckedTransition(m, state, since, count) ==
    /\ memberships' = [memberships EXCEPT ![m] = [state |-> state, activeSince |-> since]]
    /\ community' = [community EXCEPT !.membershipSequence = @ + 1, !.memberCount = @ + count]
    /\ UNCHANGED <<proposals, votes, inactive, slot>>

(* The next membership state of m, which counts in the community.          *)
Transition(m, state, since, count) ==
    /\ community.membershipSequence < MaxMemberships
    /\ memberships' = [memberships EXCEPT ![m] = [state |-> state, activeSince |-> since]]
    /\ community' = [community EXCEPT !.membershipSequence = @ + 1, !.memberCount = @ + count]
    /\ UNCHANGED <<proposals, votes, inactive, slot>>

-----------------------------------------------------------------------------
JoinCommunity(m) ==
    /\ SelfJoin
    /\ m \notin inactive
    /\ memberships[m].state \in {"absent", "left", "removed"}
    /\ Transition(m, "active", community.membershipSequence + 1, 1)

LeaveCommunity(m) ==
    /\ m \notin inactive
    /\ memberships[m].state = "active"
    /\ community.memberCount > 0
    /\ Transition(m, "left", 0, -1)

(* A deactivated member can still be moderated. *)
RemoveMember(m) ==
    /\ Creator \notin inactive
    /\ m # Creator
    /\ memberships[m].state = "active"
    /\ community.memberCount > 0
    /\ Transition(m, "removed", 0, -1)

\* Mutant: every ban takes one off the member count.
BanAlwaysCounts(m) ==
    /\ Creator \notin inactive
    /\ m # Creator
    /\ memberships[m].state \in {"active", "left", "removed"}
    /\ Transition(m, "banned", 0, -1)

BanMember(m) ==
    /\ Creator \notin inactive
    /\ m # Creator
    /\ \/ /\ memberships[m].state = "active"
          /\ community.memberCount > 0
          /\ Transition(m, "banned", 0, -1)
       \/ /\ memberships[m].state \in {"left", "removed"}
          /\ Transition(m, "banned", 0, 0)

UpdateCommunityGovernance(strategy) ==
    /\ Creator \notin inactive
    /\ community' = [community EXCEPT !.strategy = strategy]
    /\ UNCHANGED <<memberships, proposals, votes, inactive, slot>>

(* The account of a digest is created once and never closed.               *)
CreateProposal(p, delay, duration) ==
    /\ Creator \notin inactive
    /\ SupportedStrategy
    /\ community.memberCount > 0
    /\ ValidWindow(delay, duration)
    /\ proposals[p].outcome = "absent"
    /\ slot + delay + duration <= MaxSlot
    /\ proposals' = [proposals EXCEPT ![p] =
           [outcome |-> "pending", eligible |-> community.memberCount,
            snapshot |-> community.membershipSequence, opens |-> slot + delay,
            closes |-> slot + delay + duration, yes |-> 0, no |-> 0, abstain |-> 0]]
    /\ UNCHANGED <<community, memberships, votes, inactive, slot>>

CastVote(p, m, choice) ==
    /\ m \notin inactive
    /\ proposals[p].outcome = "pending"
    /\ proposals[p].opens <= slot
    /\ slot < proposals[p].closes
    /\ memberships[m].state = "active"
    /\ EligibleAtSnapshot(memberships[m], proposals[p])
    /\ votes[p][m] = "none"
    /\ Countable(proposals[p])
    /\ Participating(proposals[p]) < proposals[p].eligible
    /\ votes' = [votes EXCEPT ![p][m] = choice]
    /\ proposals' = [proposals EXCEPT ![p][choice] = @ + 1]
    /\ UNCHANGED <<community, memberships, inactive, slot>>

(* Anyone may finalize. *)
FinalizeProposal(p) ==
    /\ proposals[p].outcome = "pending"
    /\ slot >= proposals[p].closes
    /\ Countable(proposals[p])
    /\ proposals' = [proposals EXCEPT ![p].outcome =
           IF QuorumMet(proposals[p]) /\ ApprovalMet(proposals[p])
           THEN "accepted" ELSE "rejected"]
    /\ UNCHANGED <<community, memberships, votes, inactive, slot>>

(* An identity retires for good, wherever it is a member. *)
DeactivateIdentity(i) ==
    /\ i \notin inactive
    /\ inactive' = inactive \cup {i}
    /\ UNCHANGED <<community, memberships, proposals, votes, slot>>

Tick ==
    /\ slot < MaxSlot
    /\ slot' = slot + 1
    /\ UNCHANGED <<community, memberships, proposals, votes, inactive>>

(* create_community; its creator is not a member before it joins. *)
Init ==
    /\ community \in [membershipSequence : {0}, memberCount : {0}, strategy : Strategies]
    /\ memberships = [m \in Identities |-> NoMembership]
    /\ proposals = [p \in Proposals |-> NoProposal]
    /\ votes = [p \in Proposals |-> [m \in Identities |-> "none"]]
    /\ inactive = {}
    /\ slot = 0

Next ==
    \/ Tick
    \/ \E m \in Identities : JoinCommunity(m) \/ LeaveCommunity(m)
    \/ \E m \in Identities : RemoveMember(m) \/ BanMember(m) \/ DeactivateIdentity(m)
    \/ \E s \in Strategies : UpdateCommunityGovernance(s)
    \/ \E p \in Proposals, delay \in Delays, duration \in Durations :
         CreateProposal(p, delay, duration)
    \/ \E p \in Proposals, m \in Identities, choice \in Choices : CastVote(p, m, choice)
    \/ \E p \in Proposals : FinalizeProposal(p)

(* Slots pass, and someone finalizes a proposal that can be finalized.     *)
Fairness == WF_vars(Tick) /\ \A p \in Proposals : WF_vars(FinalizeProposal(p))

Spec == Init /\ [][Next]_vars
FairSpec == Spec /\ Fairness

-----------------------------------------------------------------------------
(* Properties. *)

ProposalRecords ==
    [outcome : {"absent", "pending", "accepted", "rejected"}, eligible : Nat,
     snapshot : Nat, opens : Nat, closes : Nat, yes : Nat, no : Nat, abstain : Nat]

(* Every account holds values of its fields' types. *)
TypeOK ==
    /\ community \in [membershipSequence : 0 .. MaxMemberships, memberCount : Nat,
                      strategy : Strategies]
    /\ memberships \in
         [Identities -> [state : {"absent", "active", "left", "removed", "banned"},
                         activeSince : 0 .. MaxMemberships]]
    /\ proposals \in [Proposals -> ProposalRecords]
    /\ votes \in [Proposals -> [Identities -> Choices \cup {"none"}]]
    /\ inactive \subseteq Identities
    /\ slot \in 0 .. MaxSlot

Members == {m \in Identities : memberships[m].state = "active"}

(* Members of the snapshot whose membership has lasted, and who have not   *)
(* voted.                                                                  *)
Entitled(p) ==
    IF proposals[p].outcome = "absent" THEN {}
    ELSE {m \in Members : /\ EligibleAtSnapshot(memberships[m], proposals[p])
                          /\ votes[p][m] = "none"}

(* The counter is the number of members: it never underflows, so nobody is *)
(* kept in the community by an arithmetic error, and no quorum is wrong.   *)
CountExact == community.memberCount = Cardinality(Members)

(* There is room under the eligible count for everyone who may still vote: *)
(* a member of the snapshot is never refused because of other votes.       *)
NoMemberTurnedAway ==
    \A p \in Proposals :
        Participating(proposals[p]) + Cardinality(Entitled(p)) <= proposals[p].eligible

Hall == INSTANCE Assembly WITH
    members <- Members,
    banned <- {m \in Identities : memberships[m].state = "banned"},
    size <- [p \in Proposals |-> proposals[p].eligible],
    entitled <- [p \in Proposals |-> Entitled(p)],
    cast <- votes,
    window <- [p \in Proposals |-> [opens |-> proposals[p].opens, closes |-> proposals[p].closes]],
    verdict <- [p \in Proposals |->
                  IF proposals[p].outcome = "absent" THEN "none" ELSE proposals[p].outcome],
    now <- slot,
    Limit <- MaxSlot

(* Leaving and joining again never brings a vote back, nor does a member   *)
(* who joined after the snapshot get one; the recorded outcome is that of  *)
(* the votes in the vote accounts, and it is final.                        *)
ImplementsAssembly == Hall!Spec

(* Every proposal is settled, whoever has left or retired by then.         *)
Settled ==
    \A p \in Proposals :
        proposals[p].outcome = "pending" ~> proposals[p].outcome \in {"accepted", "rejected"}
=============================================================================
