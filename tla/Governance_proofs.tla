------------------------- MODULE Governance_proofs -------------------------
(***************************************************************************)
(* Proofs about module Governance: the member count is exact, no member of *)
(* a snapshot is turned away, and the accounts implement module Assembly.  *)
(*                                                                         *)
(* The argument is one inductive invariant.  A membership is active since  *)
(* a sequence that the community has reached, and a snapshot is such a     *)
(* sequence, so whoever joins later is not eligible.  The counters of a    *)
(* proposal are the numbers of its vote accounts.  A vote moves one member *)
(* from those who may still vote to those who did, so that their sum never *)
(* exceeds the members counted when the proposal was created.              *)
(***************************************************************************)
EXTENDS Governance, FiniteSetTheorems, TLAPS

States == {"absent", "active", "left", "removed", "banned"}
MembershipRecords == [state : States, activeSince : 0 .. MaxMemberships]
CommunityRecords ==
    [membershipSequence : 0 .. MaxMemberships, memberCount : Nat, strategy : Strategies]

Voters(p, choice) == {m \in Identities : votes[p][m] = choice}

(* Active memberships, and no others, have a sequence the community reached. *)
SinceReached ==
    \A m \in Identities :
        IF memberships[m].state = "active"
        THEN memberships[m].activeSince \in 1 .. community.membershipSequence
        ELSE memberships[m].activeSince = 0

(* A proposal account that does not exist yet has no votes; one that does  *)
(* exist has a snapshot the community reached, and an electorate.          *)
ProposalsSound ==
    \A p \in Proposals :
        IF proposals[p].outcome = "absent"
        THEN proposals[p] = NoProposal /\ \A m \in Identities : votes[p][m] = "none"
        ELSE /\ proposals[p].snapshot <= community.membershipSequence
             /\ proposals[p].eligible > 0

(* The counters are the numbers of vote accounts. *)
Tallies ==
    \A p \in Proposals :
        /\ proposals[p].yes = Cardinality(Voters(p, "yes"))
        /\ proposals[p].no = Cardinality(Voters(p, "no"))
        /\ proposals[p].abstain = Cardinality(Voters(p, "abstain"))

IInv ==
    TypeOK /\ CountExact /\ SinceReached /\ ProposalsSound /\ Tallies /\ NoMemberTurnedAway

-----------------------------------------------------------------------------
(* Kinds of steps. *)

Joins(m) ==
    /\ memberships[m].state \in {"absent", "left", "removed"}
    /\ Transition(m, "active", community.membershipSequence + 1, 1)

Departs(m, state) ==
    /\ memberships[m].state = "active"
    /\ community.memberCount > 0
    /\ Transition(m, state, 0, -1)

Excludes(m) ==
    /\ memberships[m].state \in {"left", "removed"}
    /\ Transition(m, "banned", 0, 0)

(* Only the clock, the strategy and the retired identities change. *)
Idles ==
    /\ community'.membershipSequence = community.membershipSequence
    /\ community'.memberCount = community.memberCount
    /\ community'.strategy \in Strategies
    /\ community' \in CommunityRecords
    /\ UNCHANGED <<memberships, proposals, votes>>
    /\ inactive' \subseteq Identities
    /\ slot' \in 0 .. MaxSlot
    /\ slot' = slot \/ (slot < MaxSlot /\ slot' = slot + 1)

(* Every step of the community is one of these kinds. *)
LEMMA StepKinds ==
    ASSUME TypeOK, [Next]_vars
    PROVE  \/ Idles
           \/ \E m \in Identities : Joins(m) \/ Excludes(m)
           \/ \E m \in Identities, s \in {"left", "removed", "banned"} : Departs(m, s)
           \/ \E p \in Proposals, delay \in Delays, duration \in Durations :
                CreateProposal(p, delay, duration)
           \/ \E p \in Proposals, m \in Identities, choice \in Choices : CastVote(p, m, choice)
           \/ \E p \in Proposals : FinalizeProposal(p)
<1> USE DEF TypeOK
<1>1. CASE Tick
  <2>1. /\ slot' \in 0 .. MaxSlot /\ slot < MaxSlot /\ slot' = slot + 1
    BY <1>1, GovernanceBounds DEF Tick
  <2> QED
    BY <1>1, <2>1 DEF Tick, Idles, CommunityRecords
<1>2. ASSUME NEW m \in Identities, JoinCommunity(m)
      PROVE  Joins(m)
  BY <1>2 DEF JoinCommunity, Joins
<1>3. ASSUME NEW m \in Identities, LeaveCommunity(m)
      PROVE  Departs(m, "left")
  BY <1>3 DEF LeaveCommunity, Departs
<1>4. ASSUME NEW m \in Identities, RemoveMember(m)
      PROVE  Departs(m, "removed")
  BY <1>4 DEF RemoveMember, Departs
<1>5. ASSUME NEW m \in Identities, BanMember(m)
      PROVE  Departs(m, "banned") \/ Excludes(m)
  BY <1>5 DEF BanMember, Departs, Excludes
<1>6. ASSUME NEW m \in Identities, DeactivateIdentity(m)
      PROVE  Idles
  BY <1>6 DEF DeactivateIdentity, Idles, CommunityRecords
<1>7. ASSUME NEW s \in Strategies, UpdateCommunityGovernance(s)
      PROVE  Idles
  BY <1>7 DEF UpdateCommunityGovernance, Idles, CommunityRecords
<1>8. CASE UNCHANGED vars
  BY <1>8 DEF vars, Idles, CommunityRecords
<1> QED
  BY <1>1, <1>2, <1>3, <1>4, <1>5, <1>6, <1>7, <1>8 DEF Next

-----------------------------------------------------------------------------
(* Finite sets. *)

LEMMA Finite ==
    ASSUME NEW S, S \subseteq Identities
    PROVE  IsFiniteSet(S) /\ Cardinality(S) \in Nat
BY IdentitiesAssumption, FS_Subset, FS_CardinalityType

LEMMA AddOne ==
    ASSUME NEW S, S \subseteq Identities, NEW x \in Identities, x \notin S
    PROVE  Cardinality(S \cup {x}) = Cardinality(S) + 1
BY Finite, FS_AddElement

LEMMA TakeOne ==
    ASSUME NEW S, S \subseteq Identities, NEW x \in Identities, x \in S
    PROVE  Cardinality(S \ {x}) = Cardinality(S) - 1
BY Finite, FS_RemoveElement

LEMMA Smaller ==
    ASSUME NEW S, S \subseteq Identities, NEW T, T \subseteq S
    PROVE  Cardinality(T) <= Cardinality(S)
BY Finite, FS_Subset

-----------------------------------------------------------------------------
(* What a transition of one membership does to the sets. *)

LEMMA TransitionAccounts ==
    ASSUME TypeOK, NEW m \in Identities, NEW state \in States,
           NEW since \in 0 .. MaxMemberships, NEW count \in Int,
           community.memberCount + count \in Nat,
           Transition(m, state, since, count)
    PROVE  /\ memberships'[m].state = state /\ memberships'[m].activeSince = since
           /\ \A k \in Identities : k # m => memberships'[k] = memberships[k]
           /\ community'.membershipSequence = community.membershipSequence + 1
           /\ community'.memberCount = community.memberCount + count
           /\ UNCHANGED <<proposals, votes, slot>>
           /\ TypeOK'
<1>1. memberships \in [Identities -> MembershipRecords]
  BY DEF TypeOK, MembershipRecords, States
<1>2. memberships' = [memberships EXCEPT ![m] = [state |-> state, activeSince |-> since]]
  BY DEF Transition
<1>3. [state |-> state, activeSince |-> since] \in MembershipRecords
  BY DEF MembershipRecords
<1>4. /\ memberships' \in [Identities -> MembershipRecords]
      /\ memberships'[m] = [state |-> state, activeSince |-> since]
      /\ \A k \in Identities : k # m => memberships'[k] = memberships[k]
  BY <1>1, <1>2, <1>3
<1>5. community' = [community EXCEPT !.membershipSequence = community.membershipSequence + 1,
                                     !.memberCount = community.memberCount + count]
  BY DEF Transition
<1>6. community.membershipSequence + 1 \in 0 .. MaxMemberships
  BY GovernanceBounds DEF Transition, TypeOK
<1>7. /\ community'.membershipSequence = community.membershipSequence + 1
      /\ community'.memberCount = community.memberCount + count
      /\ community' \in CommunityRecords
  BY <1>5, <1>6 DEF TypeOK, CommunityRecords
<1> QED
  BY <1>4, <1>7 DEF TypeOK, Transition, MembershipRecords, States, CommunityRecords

LEMMA JoinsShape ==
    ASSUME IInv, NEW m \in Identities, Joins(m)
    PROVE  /\ TypeOK'
           /\ m \notin Members /\ Members' = Members \cup {m}
           /\ \A p \in Proposals : Entitled(p)' = Entitled(p)
           /\ UNCHANGED <<proposals, votes, slot>>
           /\ SinceReached'
           /\ community'.memberCount = community.memberCount + 1
           /\ community'.membershipSequence = community.membershipSequence + 1
           /\ \A k \in Identities : memberships'[k].state = "banned" <=> memberships[k].state = "banned"
<1>1. /\ community.membershipSequence \in Nat /\ community.memberCount \in Nat
      /\ community.membershipSequence + 1 \in 0 .. MaxMemberships
  BY GovernanceBounds DEF IInv, TypeOK, Joins, Transition
<1>2. /\ memberships'[m].state = "active"
      /\ memberships'[m].activeSince = community.membershipSequence + 1
      /\ \A k \in Identities : k # m => memberships'[k] = memberships[k]
      /\ community'.membershipSequence = community.membershipSequence + 1
      /\ community'.memberCount = community.memberCount + 1
      /\ UNCHANGED <<proposals, votes, slot>>
      /\ TypeOK'
  BY <1>1, TransitionAccounts DEF IInv, Joins, States
<1>3. m \notin Members /\ Members' = Members \cup {m}
  BY <1>2 DEF Members, Joins
<1>4. ASSUME NEW p \in Proposals
      PROVE  Entitled(p)' = Entitled(p)
  <2>1. CASE proposals[p].outcome = "absent"
    BY <1>2, <2>1 DEF Entitled
  <2>2. CASE proposals[p].outcome # "absent"
    <3>1. proposals[p].snapshot \in Nat /\ proposals[p].snapshot <= community.membershipSequence
      BY <2>2 DEF IInv, ProposalsSound, TypeOK, ProposalRecords
    <3>2. ~ EligibleAtSnapshot(memberships'[m], proposals[p])
      BY <1>1, <1>2, <3>1 DEF EligibleAtSnapshot
    <3>3. \A k \in Identities \ {m} : memberships'[k] = memberships[k]
      BY <1>2
    <3>4. Entitled(p)' = {k \in Members' : EligibleAtSnapshot(memberships'[k], proposals[p])
                                           /\ votes[p][k] = "none"}
      BY <1>2, <2>2 DEF Entitled, EligibleAtSnapshot
    <3>5. Entitled(p) = {k \in Members : EligibleAtSnapshot(memberships[k], proposals[p])
                                         /\ votes[p][k] = "none"}
      BY <2>2 DEF Entitled
    <3>6. m \notin Members /\ Members \subseteq Identities
      BY <1>3 DEF Members
    <3> QED
      BY <1>3, <3>2, <3>3, <3>4, <3>5, <3>6
  <2> QED
    BY <2>1, <2>2
<1>5. SinceReached'
  BY <1>1, <1>2 DEF IInv, SinceReached
<1>6. \A k \in Identities : memberships'[k].state = "banned" <=> memberships[k].state = "banned"
  BY <1>2 DEF Joins
<1> QED
  BY <1>2, <1>3, <1>4, <1>5, <1>6

LEMMA DepartsShape ==
    ASSUME IInv, NEW m \in Identities, NEW s \in {"left", "removed", "banned"}, Departs(m, s)
    PROVE  /\ TypeOK'
           /\ m \in Members /\ Members' = Members \ {m}
           /\ \A p \in Proposals : Entitled(p)' = Entitled(p) \ {m}
           /\ UNCHANGED <<proposals, votes, slot>>
           /\ SinceReached'
           /\ community'.memberCount = community.memberCount - 1
           /\ community'.membershipSequence = community.membershipSequence + 1
           /\ memberships'[m].state = s
           /\ \A k \in Identities : k # m => memberships'[k] = memberships[k]
<1>1. /\ community.membershipSequence \in Nat /\ community.memberCount \in Nat
      /\ community.memberCount + (-1) \in Nat /\ 0 \in 0 .. MaxMemberships
  BY GovernanceBounds DEF IInv, TypeOK, Departs
<1>2. /\ memberships'[m].state = s
      /\ memberships'[m].activeSince = 0
      /\ \A k \in Identities : k # m => memberships'[k] = memberships[k]
      /\ community'.membershipSequence = community.membershipSequence + 1
      /\ community'.memberCount = community.memberCount + (-1)
      /\ UNCHANGED <<proposals, votes, slot>>
      /\ TypeOK'
  <2>1. Transition(m, s, 0, -1) /\ s \in States /\ -1 \in Int
    BY DEF Departs, States
  <2> QED
    BY <1>1, <2>1, TransitionAccounts DEF IInv
<1>3. m \in Members /\ Members' = Members \ {m}
  BY <1>2 DEF Members, Departs
<1>4. ASSUME NEW p \in Proposals
      PROVE  Entitled(p)' = Entitled(p) \ {m}
  <2>1. CASE proposals[p].outcome = "absent"
    BY <1>2, <2>1 DEF Entitled
  <2>2. CASE proposals[p].outcome # "absent"
    <3>1. Entitled(p)' = {k \in Members' : EligibleAtSnapshot(memberships'[k], proposals[p])
                                           /\ votes[p][k] = "none"}
      BY <1>2, <2>2 DEF Entitled, EligibleAtSnapshot
    <3>2. Entitled(p) = {k \in Members : EligibleAtSnapshot(memberships[k], proposals[p])
                                         /\ votes[p][k] = "none"}
      BY <2>2 DEF Entitled
    <3>3. \A k \in Members \ {m} : memberships'[k] = memberships[k]
      BY <1>2 DEF Members
    <3> QED
      BY <1>3, <3>1, <3>2, <3>3
  <2> QED
    BY <2>1, <2>2
<1>5. SinceReached'
  BY <1>1, <1>2 DEF IInv, SinceReached
<1> QED
  BY <1>1, <1>2, <1>3, <1>4, <1>5

LEMMA ExcludesShape ==
    ASSUME IInv, NEW m \in Identities, Excludes(m)
    PROVE  /\ TypeOK'
           /\ m \notin Members /\ Members' = Members
           /\ \A p \in Proposals : Entitled(p)' = Entitled(p)
           /\ UNCHANGED <<proposals, votes, slot>>
           /\ SinceReached'
           /\ community'.memberCount = community.memberCount
           /\ community'.membershipSequence = community.membershipSequence + 1
           /\ memberships'[m].state = "banned"
           /\ \A k \in Identities : k # m => memberships'[k] = memberships[k]
<1>1. /\ community.membershipSequence \in Nat /\ community.memberCount \in Nat
      /\ community.memberCount + 0 = community.memberCount /\ 0 \in 0 .. MaxMemberships
  BY GovernanceBounds DEF IInv, TypeOK
<1>2. /\ memberships'[m].state = "banned"
      /\ memberships'[m].activeSince = 0
      /\ \A k \in Identities : k # m => memberships'[k] = memberships[k]
      /\ community'.membershipSequence = community.membershipSequence + 1
      /\ community'.memberCount = community.memberCount + 0
      /\ UNCHANGED <<proposals, votes, slot>>
      /\ TypeOK'
  <2>1. Transition(m, "banned", 0, 0) /\ "banned" \in States /\ 0 \in Int
    BY DEF Excludes, States
  <2> QED
    BY <1>1, <2>1, TransitionAccounts DEF IInv
<1>3. m \notin Members /\ Members' = Members
  BY <1>2 DEF Members, Excludes
<1>4. ASSUME NEW p \in Proposals
      PROVE  Entitled(p)' = Entitled(p)
  <2>1. CASE proposals[p].outcome = "absent"
    BY <1>2, <2>1 DEF Entitled
  <2>2. CASE proposals[p].outcome # "absent"
    <3>1. Entitled(p)' = {k \in Members' : EligibleAtSnapshot(memberships'[k], proposals[p])
                                           /\ votes[p][k] = "none"}
      BY <1>2, <2>2 DEF Entitled, EligibleAtSnapshot
    <3>2. Entitled(p) = {k \in Members : EligibleAtSnapshot(memberships[k], proposals[p])
                                         /\ votes[p][k] = "none"}
      BY <2>2 DEF Entitled
    <3>3. \A k \in Members : memberships'[k] = memberships[k]
      BY <1>2, <1>3 DEF Members
    <3> QED
      BY <1>3, <3>1, <3>2, <3>3
  <2> QED
    BY <2>1, <2>2
<1>5. SinceReached'
  BY <1>1, <1>2 DEF IInv, SinceReached
<1> QED
  BY <1>1, <1>2, <1>3, <1>4, <1>5

-----------------------------------------------------------------------------
(* What the instructions on proposals do. *)

LEMMA CastShape ==
    ASSUME IInv, NEW p \in Proposals, NEW m \in Identities, NEW choice \in Choices,
           CastVote(p, m, choice)
    PROVE  /\ votes' = [votes EXCEPT ![p][m] = choice]
           /\ \A q \in Proposals : q # p => proposals'[q] = proposals[q]
           /\ \A q \in Proposals : /\ proposals'[q].outcome = proposals[q].outcome
                                   /\ proposals'[q].eligible = proposals[q].eligible
                                   /\ proposals'[q].snapshot = proposals[q].snapshot
                                   /\ proposals'[q].opens = proposals[q].opens
                                   /\ proposals'[q].closes = proposals[q].closes
           /\ proposals'[p].yes = IF choice = "yes" THEN proposals[p].yes + 1 ELSE proposals[p].yes
           /\ proposals'[p].no = IF choice = "no" THEN proposals[p].no + 1 ELSE proposals[p].no
           /\ proposals'[p].abstain =
                IF choice = "abstain" THEN proposals[p].abstain + 1 ELSE proposals[p].abstain
           /\ UNCHANGED <<community, memberships, inactive, slot>>
           /\ TypeOK'
<1> DEFINE r == proposals[p]
<1>1. /\ proposals \in [Proposals -> ProposalRecords]
      /\ votes \in [Proposals -> [Identities -> Choices \cup {"none"}]]
      /\ r \in ProposalRecords
  BY DEF IInv, TypeOK
<1>2. /\ votes' = [votes EXCEPT ![p][m] = choice]
      /\ UNCHANGED <<community, memberships, inactive, slot>>
  BY DEF CastVote
<1>3. votes' \in [Proposals -> [Identities -> Choices \cup {"none"}]]
  BY <1>1, <1>2
<1>4. /\ \A q \in Proposals : q # p => proposals'[q] = proposals[q]
      /\ proposals'[p] = [r EXCEPT ![choice] = r[choice] + 1]
      /\ DOMAIN proposals' = Proposals
      /\ proposals' = [proposals EXCEPT ![p] = [r EXCEPT ![choice] = r[choice] + 1]]
  BY <1>1 DEF CastVote
<1>5. CASE choice = "yes"
  <2>1. proposals'[p] = [r EXCEPT !.yes = r.yes + 1]
    BY <1>4, <1>5
  <2>2. /\ proposals'[p] \in ProposalRecords
        /\ proposals'[p].yes = r.yes + 1 /\ proposals'[p].no = r.no
        /\ proposals'[p].abstain = r.abstain
        /\ proposals'[p].outcome = r.outcome /\ proposals'[p].eligible = r.eligible
        /\ proposals'[p].snapshot = r.snapshot /\ proposals'[p].opens = r.opens
        /\ proposals'[p].closes = r.closes
    BY <1>1, <2>1 DEF ProposalRecords
  <2>3. proposals' \in [Proposals -> ProposalRecords]
    BY <1>1, <1>4, <2>2
  <2> HIDE DEF r
  <2> QED
    BY <1>2, <1>3, <1>4, <1>5, <2>2, <2>3 DEF r, IInv, TypeOK
<1>6. CASE choice = "no"
  <2>1. proposals'[p] = [r EXCEPT !.no = r.no + 1]
    BY <1>4, <1>6
  <2>2. /\ proposals'[p] \in ProposalRecords
        /\ proposals'[p].yes = r.yes /\ proposals'[p].no = r.no + 1
        /\ proposals'[p].abstain = r.abstain
        /\ proposals'[p].outcome = r.outcome /\ proposals'[p].eligible = r.eligible
        /\ proposals'[p].snapshot = r.snapshot /\ proposals'[p].opens = r.opens
        /\ proposals'[p].closes = r.closes
    BY <1>1, <2>1 DEF ProposalRecords
  <2>3. proposals' \in [Proposals -> ProposalRecords]
    BY <1>1, <1>4, <2>2
  <2> HIDE DEF r
  <2> QED
    BY <1>2, <1>3, <1>4, <1>6, <2>2, <2>3 DEF r, IInv, TypeOK
<1>7. CASE choice = "abstain"
  <2>1. proposals'[p] = [r EXCEPT !.abstain = r.abstain + 1]
    BY <1>4, <1>7
  <2>2. /\ proposals'[p] \in ProposalRecords
        /\ proposals'[p].yes = r.yes /\ proposals'[p].no = r.no
        /\ proposals'[p].abstain = r.abstain + 1
        /\ proposals'[p].outcome = r.outcome /\ proposals'[p].eligible = r.eligible
        /\ proposals'[p].snapshot = r.snapshot /\ proposals'[p].opens = r.opens
        /\ proposals'[p].closes = r.closes
    BY <1>1, <2>1 DEF ProposalRecords
  <2>3. proposals' \in [Proposals -> ProposalRecords]
    BY <1>1, <1>4, <2>2
  <2> HIDE DEF r
  <2> QED
    BY <1>2, <1>3, <1>4, <1>7, <2>2, <2>3 DEF r, IInv, TypeOK
<1> QED
  BY <1>5, <1>6, <1>7 DEF Choices

LEMMA CreateShape ==
    ASSUME IInv, NEW p \in Proposals, NEW delay \in Delays, NEW duration \in Durations,
           CreateProposal(p, delay, duration)
    PROVE  /\ \A q \in Proposals : q # p => proposals'[q] = proposals[q]
           /\ proposals'[p].outcome = "pending"
           /\ proposals'[p].eligible = community.memberCount
           /\ proposals'[p].snapshot = community.membershipSequence
           /\ proposals'[p].opens = slot + delay
           /\ proposals'[p].closes = slot + delay + duration
           /\ proposals'[p].yes = 0 /\ proposals'[p].no = 0 /\ proposals'[p].abstain = 0
           /\ proposals[p].outcome = "absent"
           /\ UNCHANGED <<community, memberships, votes, inactive, slot>>
           /\ TypeOK'
<1> DEFINE r == [outcome |-> "pending", eligible |-> community.memberCount,
                 snapshot |-> community.membershipSequence, opens |-> slot + delay,
                 closes |-> slot + delay + duration, yes |-> 0, no |-> 0, abstain |-> 0]
<1>1. /\ proposals \in [Proposals -> ProposalRecords]
      /\ community.memberCount \in Nat /\ community.membershipSequence \in Nat
      /\ slot \in Nat /\ slot + delay \in Nat /\ slot + delay + duration \in Nat
  BY GovernanceBounds, WindowsAssumption DEF IInv, TypeOK
<1>2. /\ r.outcome = "pending" /\ r.eligible = community.memberCount
      /\ r.snapshot = community.membershipSequence
      /\ r.opens = slot + delay /\ r.closes = slot + delay + duration
      /\ r.yes = 0 /\ r.no = 0 /\ r.abstain = 0
  OBVIOUS
<1>3. /\ proposals' = [proposals EXCEPT ![p] = r]
      /\ proposals[p].outcome = "absent"
      /\ UNCHANGED <<community, memberships, votes, inactive, slot>>
  BY DEF CreateProposal
<1>4. r \in ProposalRecords
  BY <1>1 DEF ProposalRecords
<1> HIDE DEF r
<1>5. /\ proposals'[p] = r
      /\ \A q \in Proposals : q # p => proposals'[q] = proposals[q]
      /\ proposals' \in [Proposals -> ProposalRecords]
  BY <1>1, <1>3, <1>4
<1> QED
  BY <1>2, <1>3, <1>5 DEF IInv, TypeOK

LEMMA FinalizeShape ==
    ASSUME IInv, NEW p \in Proposals, FinalizeProposal(p)
    PROVE  /\ \A q \in Proposals : q # p => proposals'[q] = proposals[q]
           /\ proposals'[p].outcome =
                IF QuorumMet(proposals[p]) /\ ApprovalMet(proposals[p])
                THEN "accepted" ELSE "rejected"
           /\ \A q \in Proposals : /\ proposals'[q].eligible = proposals[q].eligible
                                   /\ proposals'[q].snapshot = proposals[q].snapshot
                                   /\ proposals'[q].opens = proposals[q].opens
                                   /\ proposals'[q].closes = proposals[q].closes
                                   /\ proposals'[q].yes = proposals[q].yes
                                   /\ proposals'[q].no = proposals[q].no
                                   /\ proposals'[q].abstain = proposals[q].abstain
           /\ proposals[p].outcome = "pending"
           /\ UNCHANGED <<community, memberships, votes, inactive, slot>>
           /\ TypeOK'
<1>1. PICK o \in {"accepted", "rejected"} :
         o = IF QuorumMet(proposals[p]) /\ ApprovalMet(proposals[p])
             THEN "accepted" ELSE "rejected"
  OBVIOUS
<1>2. /\ proposals \in [Proposals -> ProposalRecords]
      /\ proposals[p] \in ProposalRecords
  BY DEF IInv, TypeOK
<1>3. /\ proposals' = [proposals EXCEPT ![p].outcome = o]
      /\ proposals[p].outcome = "pending"
      /\ UNCHANGED <<community, memberships, votes, inactive, slot>>
  BY <1>1 DEF FinalizeProposal
<1>4. [proposals[p] EXCEPT !.outcome = o] \in ProposalRecords
  BY <1>2 DEF ProposalRecords
<1>5. proposals' = [proposals EXCEPT ![p] = [proposals[p] EXCEPT !.outcome = o]]
  BY <1>2, <1>3
<1>6. proposals' \in [Proposals -> ProposalRecords]
  BY <1>2, <1>4, <1>5
<1>7. /\ proposals'[p] = [proposals[p] EXCEPT !.outcome = o]
      /\ \A q \in Proposals : q # p => proposals'[q] = proposals[q]
  BY <1>2, <1>5
<1> QED
  BY <1>1, <1>2, <1>3, <1>6, <1>7 DEF IInv, TypeOK, ProposalRecords

(* A vote takes its member from those who may still vote, and adds it to   *)
(* those who chose as it did; it changes nothing for other proposals.      *)
LEMMA CastSets ==
    ASSUME IInv, NEW p \in Proposals, NEW m \in Identities, NEW choice \in Choices,
           CastVote(p, m, choice)
    PROVE  /\ m \in Entitled(p)
           /\ \A q \in Proposals :
                Entitled(q)' = IF q = p THEN Entitled(p) \ {m} ELSE Entitled(q)
           /\ m \notin Voters(p, choice)
           /\ \A q \in Proposals, c \in Choices :
                Voters(q, c)' = IF q = p /\ c = choice THEN Voters(p, choice) \cup {m}
                                ELSE Voters(q, c)
           /\ Members' = Members
<1>1. /\ votes \in [Proposals -> [Identities -> Choices \cup {"none"}]]
      /\ memberships \in [Identities -> MembershipRecords]
  BY DEF IInv, TypeOK, MembershipRecords, States
<1>2. /\ proposals[p].outcome = "pending"
      /\ memberships[m].state = "active"
      /\ EligibleAtSnapshot(memberships[m], proposals[p])
      /\ votes[p][m] = "none"
      /\ votes' = [votes EXCEPT ![p][m] = choice]
      /\ memberships' = memberships
  BY DEF CastVote
<1>3. choice # "none" /\ "none" \notin Choices
  BY DEF Choices
<1>4. /\ votes'[p][m] = choice
      /\ \A q \in Proposals, k \in Identities : (q # p \/ k # m) => votes'[q][k] = votes[q][k]
  BY <1>1, <1>2
<1>5. m \in Entitled(p)
  BY <1>2 DEF Entitled, Members
<1>6. Members' = Members
  BY <1>2 DEF Members
<1>7. ASSUME NEW q \in Proposals
      PROVE  Entitled(q)' = IF q = p THEN Entitled(p) \ {m} ELSE Entitled(q)
  <2>1. /\ proposals'[q].outcome = proposals[q].outcome
        /\ proposals'[q].snapshot = proposals[q].snapshot
    BY CastShape
  <2>2. \A k \in Identities :
          EligibleAtSnapshot(memberships'[k], proposals'[q])
            <=> EligibleAtSnapshot(memberships[k], proposals[q])
    BY <1>2, <2>1 DEF EligibleAtSnapshot
  <2>3. Entitled(q)' = IF proposals[q].outcome = "absent" THEN {}
                       ELSE {k \in Members : EligibleAtSnapshot(memberships[k], proposals[q])
                                             /\ votes'[q][k] = "none"}
    <3>1. Entitled(q)' = IF proposals'[q].outcome = "absent" THEN {}
                         ELSE {k \in Members' :
                                 EligibleAtSnapshot(memberships'[k], proposals'[q])
                                 /\ votes'[q][k] = "none"}
      BY DEF Entitled, EligibleAtSnapshot
    <3>2. Members \subseteq Identities
      BY DEF Members
    <3> QED
      BY <1>6, <2>1, <2>2, <3>1, <3>2
  <2>4. Members \subseteq Identities
    BY DEF Members
  <2>5. CASE q = p
    BY <1>2, <1>3, <1>4, <2>3, <2>4, <2>5 DEF Entitled
  <2>6. CASE q # p
    <3>1. \A k \in Members : votes'[q][k] = votes[q][k]
      BY <1>4, <2>4, <2>6
    <3>2. Entitled(q)' = Entitled(q)
      BY <2>3, <3>1 DEF Entitled
    <3> QED
      BY <2>6, <3>2
  <2> QED
    BY <2>5, <2>6
<1>8. m \notin Voters(p, choice)
  BY <1>2, <1>3 DEF Voters
<1>9. ASSUME NEW q \in Proposals, NEW c \in Choices
      PROVE  Voters(q, c)' = IF q = p /\ c = choice THEN Voters(p, choice) \cup {m}
                             ELSE Voters(q, c)
  <2>1. Voters(q, c)' = {k \in Identities : votes'[q][k] = c}
    BY DEF Voters
  <2>2. c # "none"
    BY <1>3
  <2> QED
    BY <1>2, <1>4, <2>1, <2>2 DEF Voters
<1> QED
  BY <1>5, <1>6, <1>7, <1>8, <1>9

(* Steps that leave the votes and the fields of a proposal alone.          *)
LEMMA SameEntitled ==
    ASSUME UNCHANGED <<memberships, votes>>, NEW q \in Proposals,
           (proposals'[q].outcome = "absent") <=> (proposals[q].outcome = "absent"),
           proposals'[q].snapshot = proposals[q].snapshot
    PROVE  Entitled(q)' = Entitled(q)
<1>1. Members' = Members
  BY DEF Members
<1> QED
  BY <1>1 DEF Entitled, EligibleAtSnapshot

(* Whoever is a member when a proposal is created may vote on it.          *)
LEMMA CreateSets ==
    ASSUME IInv, NEW p \in Proposals, NEW delay \in Delays, NEW duration \in Durations,
           CreateProposal(p, delay, duration)
    PROVE  /\ Entitled(p)' = Members
           /\ \A q \in Proposals : q # p => Entitled(q)' = Entitled(q)
           /\ Members' = Members
<1>1. /\ proposals[p].outcome = "absent"
      /\ proposals'[p].outcome = "pending"
      /\ proposals'[p].snapshot = community.membershipSequence
      /\ UNCHANGED <<memberships, votes>>
      /\ \A q \in Proposals : q # p => proposals'[q] = proposals[q]
  BY CreateShape
<1>2. Members' = Members
  BY <1>1 DEF Members
<1>3. \A k \in Identities : votes[p][k] = "none"
  BY <1>1 DEF IInv, ProposalsSound
<1>4. \A k \in Members : memberships[k].activeSince \in 1 .. community.membershipSequence
  BY DEF IInv, SinceReached, Members
<1>5. community.membershipSequence \in Nat
  BY GovernanceBounds DEF IInv, TypeOK
<1>6. \A k \in Members : EligibleAtSnapshot(memberships'[k], proposals'[p])
  BY <1>1, <1>4, <1>5 DEF EligibleAtSnapshot
<1>7. Entitled(p)' = {k \in Members' : EligibleAtSnapshot(memberships'[k], proposals'[p])
                                       /\ votes'[p][k] = "none"}
  BY <1>1 DEF Entitled, EligibleAtSnapshot
<1>8. Entitled(p)' = Members
  <2>1. Members \subseteq Identities
    BY DEF Members
  <2> QED
    BY <1>1, <1>2, <1>3, <1>6, <1>7, <2>1
<1>9. \A q \in Proposals : q # p => Entitled(q)' = Entitled(q)
  BY <1>1, SameEntitled
<1> QED
  BY <1>2, <1>8, <1>9

-----------------------------------------------------------------------------
(* The invariant is inductive. *)

LEMMA InitInv ==
    ASSUME Init
    PROVE  IInv
<1>1. TypeOK
  <2>1. NoMembership \in MembershipRecords
    BY GovernanceBounds DEF NoMembership, MembershipRecords, States
  <2>2. NoProposal \in ProposalRecords
    BY DEF NoProposal, ProposalRecords
  <2>3. community \in CommunityRecords
    BY GovernanceBounds DEF Init, CommunityRecords
  <2> QED
    BY <2>1, <2>2, <2>3, GovernanceBounds
    DEF Init, TypeOK, MembershipRecords, States, CommunityRecords
<1>2. /\ \A m \in Identities : memberships[m].state = "absent" /\ memberships[m].activeSince = 0
      /\ \A p \in Proposals : proposals[p] = NoProposal
      /\ \A p \in Proposals, m \in Identities : votes[p][m] = "none"
  BY DEF Init, NoMembership
<1>3. Members = {} /\ community.memberCount = 0
  BY <1>2 DEF Members, Init
<1>4. CountExact
  BY <1>3, FS_EmptySet DEF CountExact
<1>5. SinceReached
  BY <1>2 DEF SinceReached
<1>6. ProposalsSound
  BY <1>2 DEF ProposalsSound, NoProposal
<1>7. \A p \in Proposals :
        /\ proposals[p].yes = 0 /\ proposals[p].no = 0 /\ proposals[p].abstain = 0
        /\ proposals[p].eligible = 0 /\ proposals[p].outcome = "absent"
  BY <1>2 DEF NoProposal
<1>8. Tallies
  <2>1. \A p \in Proposals, c \in Choices : Voters(p, c) = {}
    BY <1>2 DEF Voters, Choices
  <2> QED
    BY <1>7, <2>1, FS_EmptySet DEF Tallies, Choices
<1>9. NoMemberTurnedAway
  <2>1. \A p \in Proposals : Entitled(p) = {}
    BY <1>7 DEF Entitled
  <2> QED
    <3>1. Cardinality({}) = 0 /\ \A p \in Proposals : Participating(proposals[p]) = 0
      BY <1>7, FS_EmptySet DEF Participating, Decisive
    <3> QED
      BY <1>7, <2>1, <3>1 DEF NoMemberTurnedAway
<1> QED
  BY <1>1, <1>4, <1>5, <1>6, <1>8, <1>9 DEF IInv

LEMMA IdlesInv ==
    ASSUME IInv, Idles
    PROVE  IInv'
<1>1. Members' = Members
  BY DEF Members, Idles
<1>2. \A p \in Proposals : Entitled(p)' = Entitled(p)
  BY SameEntitled DEF Idles
<1>3. TypeOK'
  BY DEF IInv, TypeOK, Idles, CommunityRecords
<1>4. CountExact'
  BY <1>1 DEF IInv, CountExact, Idles
<1>5. SinceReached' /\ ProposalsSound' /\ Tallies'
  BY DEF IInv, SinceReached, ProposalsSound, Tallies, Voters, Idles
<1>6. NoMemberTurnedAway'
  BY <1>2 DEF IInv, NoMemberTurnedAway, Participating, Decisive, Idles
<1> QED
  BY <1>3, <1>4, <1>5, <1>6 DEF IInv

(* What a change of a membership keeps, whatever it does to the members. *)
LEMMA MembershipInv ==
    ASSUME IInv, TypeOK', CountExact', SinceReached',
           community'.membershipSequence = community.membershipSequence + 1,
           UNCHANGED <<proposals, votes>>,
           \A p \in Proposals : Entitled(p)' \subseteq Entitled(p)
    PROVE  IInv'
<1>1. ProposalsSound'
  <2>1. \A p \in Proposals : proposals[p].snapshot \in Nat
    BY DEF IInv, TypeOK, ProposalRecords
  <2>2. community.membershipSequence \in Nat
    BY GovernanceBounds DEF IInv, TypeOK
  <2> QED
    BY <2>1, <2>2 DEF IInv, ProposalsSound
<1>2. Tallies'
  BY DEF IInv, Tallies, Voters
<1>3. ASSUME NEW p \in Proposals
      PROVE  Participating(proposals'[p]) + Cardinality(Entitled(p)') <= proposals'[p].eligible
  <2>1. Entitled(p) \subseteq Identities /\ Entitled(p)' \subseteq Entitled(p)
    BY DEF Entitled, Members
  <2>2. /\ Cardinality(Entitled(p)') <= Cardinality(Entitled(p))
        /\ Cardinality(Entitled(p)') \in Nat /\ Cardinality(Entitled(p)) \in Nat
    BY <2>1, Smaller, Finite
  <2>3. Participating(proposals[p]) \in Nat /\ proposals[p].eligible \in Nat
    BY DEF IInv, TypeOK, ProposalRecords, Participating, Decisive
  <2>4. Participating(proposals[p]) + Cardinality(Entitled(p)) <= proposals[p].eligible
    BY DEF IInv, NoMemberTurnedAway
  <2>5. proposals' = proposals
    OBVIOUS
  <2> HIDE DEF Participating
  <2> QED
    BY <2>2, <2>3, <2>4, <2>5
<1>4. NoMemberTurnedAway'
  BY <1>3 DEF NoMemberTurnedAway, Participating, Decisive
<1> QED
  BY <1>1, <1>2, <1>4 DEF IInv

LEMMA JoinsInv ==
    ASSUME IInv, NEW m \in Identities, Joins(m)
    PROVE  IInv'
<1>1. CountExact'
  <2>1. Cardinality(Members \cup {m}) = Cardinality(Members) + 1
    BY JoinsShape, AddOne DEF Members
  <2> QED
    BY <2>1, JoinsShape DEF IInv, CountExact
<1> QED
  BY <1>1, JoinsShape, MembershipInv

LEMMA DepartsInv ==
    ASSUME IInv, NEW m \in Identities, NEW s \in {"left", "removed", "banned"}, Departs(m, s)
    PROVE  IInv'
<1>1. CountExact'
  <2>1. Cardinality(Members \ {m}) = Cardinality(Members) - 1
    BY DepartsShape, TakeOne DEF Members
  <2> QED
    BY <2>1, DepartsShape DEF IInv, CountExact
<1>2. \A p \in Proposals : Entitled(p)' \subseteq Entitled(p)
  BY DepartsShape
<1> QED
  BY <1>1, <1>2, DepartsShape, MembershipInv

LEMMA ExcludesInv ==
    ASSUME IInv, NEW m \in Identities, Excludes(m)
    PROVE  IInv'
<1>1. CountExact'
  BY ExcludesShape DEF IInv, CountExact
<1> QED
  BY <1>1, ExcludesShape, MembershipInv

LEMMA CreateInv ==
    ASSUME IInv, NEW p \in Proposals, NEW delay \in Delays, NEW duration \in Durations,
           CreateProposal(p, delay, duration)
    PROVE  IInv'
<1>1. /\ TypeOK'
      /\ UNCHANGED <<community, memberships, votes>>
      /\ \A q \in Proposals : q # p => proposals'[q] = proposals[q]
      /\ proposals[p].outcome = "absent"
      /\ proposals'[p].outcome = "pending"
      /\ proposals'[p].eligible = community.memberCount
      /\ proposals'[p].snapshot = community.membershipSequence
      /\ proposals'[p].yes = 0 /\ proposals'[p].no = 0 /\ proposals'[p].abstain = 0
  BY CreateShape
<1>2. /\ Entitled(p)' = Members /\ Members' = Members
      /\ \A q \in Proposals : q # p => Entitled(q)' = Entitled(q)
  BY CreateSets
<1>3. CountExact'
  BY <1>1, <1>2 DEF IInv, CountExact
<1>4. SinceReached'
  BY <1>1 DEF IInv, SinceReached
<1>5. community.membershipSequence \in Nat /\ community.memberCount > 0
  BY GovernanceBounds DEF IInv, TypeOK, CreateProposal
<1>6. ProposalsSound'
  BY <1>1, <1>5 DEF IInv, ProposalsSound
<1>7. Tallies'
  <2>1. \A c \in Choices : Voters(p, c) = {}
    BY <1>1 DEF IInv, ProposalsSound, Voters, Choices
  <2>2. \A q \in Proposals, c \in Choices : Voters(q, c)' = Voters(q, c)
    BY <1>1 DEF Voters
  <2>3. /\ Cardinality(Voters(p, "yes")') = 0
        /\ Cardinality(Voters(p, "no")') = 0
        /\ Cardinality(Voters(p, "abstain")') = 0
    BY <2>1, <2>2, FS_EmptySet DEF Choices
  <2>4. \A q \in Proposals : q # p =>
          /\ proposals'[q].yes = Cardinality(Voters(q, "yes")')
          /\ proposals'[q].no = Cardinality(Voters(q, "no")')
          /\ proposals'[q].abstain = Cardinality(Voters(q, "abstain")')
    BY <1>1, <2>2 DEF IInv, Tallies, Choices
  <2> QED
    BY <1>1, <2>3, <2>4 DEF Tallies
<1>8. NoMemberTurnedAway'
  <2>1. Participating(proposals'[p]) = 0
    BY <1>1 DEF Participating, Decisive
  <2>2. Participating(proposals'[p]) + Cardinality(Entitled(p)') <= proposals'[p].eligible
    BY <1>1, <1>2, <2>1 DEF IInv, CountExact, TypeOK
  <2>3. \A q \in Proposals : q # p =>
          Participating(proposals'[q]) + Cardinality(Entitled(q)') <= proposals'[q].eligible
    BY <1>1, <1>2 DEF IInv, NoMemberTurnedAway
  <2> QED
    BY <2>2, <2>3 DEF NoMemberTurnedAway, Participating, Decisive
<1> QED
  BY <1>1, <1>3, <1>4, <1>6, <1>7, <1>8 DEF IInv

LEMMA CastInv ==
    ASSUME IInv, NEW p \in Proposals, NEW m \in Identities, NEW choice \in Choices,
           CastVote(p, m, choice)
    PROVE  IInv'
<1>1. /\ TypeOK'
      /\ UNCHANGED <<community, memberships>>
      /\ \A q \in Proposals : q # p => proposals'[q] = proposals[q]
      /\ \A q \in Proposals : /\ proposals'[q].outcome = proposals[q].outcome
                              /\ proposals'[q].eligible = proposals[q].eligible
                              /\ proposals'[q].snapshot = proposals[q].snapshot
      /\ proposals'[p].yes = IF choice = "yes" THEN proposals[p].yes + 1 ELSE proposals[p].yes
      /\ proposals'[p].no = IF choice = "no" THEN proposals[p].no + 1 ELSE proposals[p].no
      /\ proposals'[p].abstain =
           IF choice = "abstain" THEN proposals[p].abstain + 1 ELSE proposals[p].abstain
  BY CastShape
<1>2. /\ m \in Entitled(p) /\ m \notin Voters(p, choice) /\ Members' = Members
      /\ \A q \in Proposals :
           Entitled(q)' = IF q = p THEN Entitled(p) \ {m} ELSE Entitled(q)
      /\ \A q \in Proposals, c \in Choices :
           Voters(q, c)' = IF q = p /\ c = choice THEN Voters(p, choice) \cup {m}
                           ELSE Voters(q, c)
  BY CastSets
<1>3. CountExact'
  BY <1>1, <1>2 DEF IInv, CountExact
<1>4. SinceReached'
  BY <1>1 DEF IInv, SinceReached
<1>5. ProposalsSound'
  <2>1. /\ votes' = [votes EXCEPT ![p][m] = choice]
        /\ proposals[p].outcome = "pending"
    BY DEF CastVote
  <2>2. \A q \in Proposals : q # p => votes'[q] = votes[q]
    BY <2>1 DEF IInv, TypeOK
  <2> QED
    BY <1>1, <2>1, <2>2 DEF IInv, ProposalsSound
<1>6. Tallies'
  <2>1. Cardinality(Voters(p, choice) \cup {m}) = Cardinality(Voters(p, choice)) + 1
    BY <1>2, AddOne DEF Voters
  <2>2. /\ Cardinality(Voters(p, choice)') = Cardinality(Voters(p, choice)) + 1
        /\ \A c \in Choices : c # choice => Voters(p, c)' = Voters(p, c)
        /\ \A q \in Proposals, c \in Choices : q # p => Voters(q, c)' = Voters(q, c)
    BY <1>2, <2>1
  <2>3. /\ proposals'[p].yes = Cardinality(Voters(p, "yes")')
        /\ proposals'[p].no = Cardinality(Voters(p, "no")')
        /\ proposals'[p].abstain = Cardinality(Voters(p, "abstain")')
    BY <1>1, <2>2 DEF IInv, Tallies, Choices
  <2>4. \A q \in Proposals : q # p =>
          /\ proposals'[q].yes = Cardinality(Voters(q, "yes")')
          /\ proposals'[q].no = Cardinality(Voters(q, "no")')
          /\ proposals'[q].abstain = Cardinality(Voters(q, "abstain")')
    BY <1>1, <2>2 DEF IInv, Tallies, Choices
  <2> QED
    BY <2>3, <2>4 DEF Tallies
<1>7. NoMemberTurnedAway'
  <2>1. Cardinality(Entitled(p) \ {m}) = Cardinality(Entitled(p)) - 1
    BY <1>2, TakeOne DEF Entitled, Members
  <2>2. Cardinality(Entitled(p)) \in Nat
    BY Finite DEF Entitled, Members
  <2>3. /\ proposals[p].yes \in Nat /\ proposals[p].no \in Nat /\ proposals[p].abstain \in Nat
        /\ proposals[p].eligible \in Nat
    BY DEF IInv, TypeOK, ProposalRecords
  <2>4. Participating(proposals[p]) \in Nat
    BY <2>3 DEF Participating, Decisive
  <2>5. Participating(proposals'[p]) = Participating(proposals[p]) + 1
    BY <1>1, <2>3 DEF Participating, Decisive, Choices
  <2>6. Participating(proposals[p]) + Cardinality(Entitled(p)) <= proposals[p].eligible
    BY DEF IInv, NoMemberTurnedAway
  <2>7. Participating(proposals'[p]) + Cardinality(Entitled(p)') <= proposals'[p].eligible
    <3>1. Entitled(p)' = Entitled(p) \ {m}
      BY <1>2
    <3>2. proposals'[p].eligible = proposals[p].eligible
      BY <1>1
    <3> QED
      BY <2>1, <2>2, <2>3, <2>4, <2>5, <2>6, <3>1, <3>2
  <2>8. \A q \in Proposals : q # p =>
          Participating(proposals'[q]) + Cardinality(Entitled(q)') <= proposals'[q].eligible
    BY <1>1, <1>2 DEF IInv, NoMemberTurnedAway
  <2> QED
    BY <2>7, <2>8 DEF NoMemberTurnedAway, Participating, Decisive
<1> QED
  BY <1>1, <1>3, <1>4, <1>5, <1>6, <1>7 DEF IInv

LEMMA FinalizeInv ==
    ASSUME IInv, NEW p \in Proposals, FinalizeProposal(p)
    PROVE  IInv'
<1>1. /\ TypeOK'
      /\ UNCHANGED <<community, memberships, votes>>
      /\ \A q \in Proposals : q # p => proposals'[q] = proposals[q]
      /\ proposals[p].outcome = "pending" /\ proposals'[p].outcome # "absent"
      /\ \A q \in Proposals : /\ proposals'[q].eligible = proposals[q].eligible
                              /\ proposals'[q].snapshot = proposals[q].snapshot
                              /\ proposals'[q].yes = proposals[q].yes
                              /\ proposals'[q].no = proposals[q].no
                              /\ proposals'[q].abstain = proposals[q].abstain
  BY FinalizeShape
<1>2. Members' = Members
  BY <1>1 DEF Members
<1>3. \A q \in Proposals : Entitled(q)' = Entitled(q)
  BY <1>1, SameEntitled
<1>4. CountExact' /\ SinceReached'
  BY <1>1, <1>2 DEF IInv, CountExact, SinceReached
<1>5. ProposalsSound'
  BY <1>1 DEF IInv, ProposalsSound
<1>6. Tallies'
  BY <1>1 DEF IInv, Tallies, Voters
<1>7. NoMemberTurnedAway'
  <2>1. \A q \in Proposals : Participating(proposals'[q]) = Participating(proposals[q])
    BY <1>1 DEF Participating, Decisive
  <2>2. \A q \in Proposals :
          Participating(proposals'[q]) + Cardinality(Entitled(q)') <= proposals'[q].eligible
    BY <1>1, <1>3, <2>1 DEF IInv, NoMemberTurnedAway
  <2> QED
    BY <2>2 DEF NoMemberTurnedAway, Participating, Decisive
<1> QED
  BY <1>1, <1>4, <1>5, <1>6, <1>7 DEF IInv

LEMMA StepInv ==
    ASSUME IInv, [Next]_vars
    PROVE  IInv'
<1>1. TypeOK
  BY DEF IInv
<1> QED
  BY <1>1, StepKinds, IdlesInv, JoinsInv, ExcludesInv, DepartsInv, CreateInv, CastInv,
     FinalizeInv

LEMMA Inductive == Spec => []IInv
<1>1. Init => IInv
  BY InitInv
<1>2. IInv /\ [Next]_vars => IInv'
  BY StepInv
<1> QED
  BY <1>1, <1>2, PTL DEF Spec

(* Every account of a community holds values of its fields' types.         *)
THEOREM TypeCorrect == Spec => []TypeOK
<1>1. IInv => TypeOK
  BY DEF IInv
<1> QED
  BY <1>1, Inductive, PTL

(* The member count of the community is the number of its active           *)
(* memberships, through every sequence of joins, departures and bans.      *)
THEOREM MemberCount == Spec => []CountExact
<1>1. IInv => CountExact
  BY DEF IInv
<1> QED
  BY <1>1, Inductive, PTL

(* cast_vote never refuses a member of the snapshot because the eligible   *)
(* count is used up, however memberships changed since.                    *)
THEOREM MembersHeard == Spec => []NoMemberTurnedAway
<1>1. IInv => NoMemberTurnedAway
  BY DEF IInv
<1> QED
  BY <1>1, Inductive, PTL

\* calculate_governance_tally does not fail for a proposal that is pending.
PendingCountable ==
    \A p \in Proposals : proposals[p].outcome = "pending" => Countable(proposals[p])

(* The safety half of Settled: from the slot in which its window closes on *)
(* nothing stands in the way of the finalization of a pending proposal,    *)
(* whoever joined, left, was banned or retired since (finalize_proposal).  *)
THEOREM AlwaysFinalizable == Spec => []PendingCountable
<1>1. ASSUME IInv, NEW p \in Proposals, proposals[p].outcome = "pending"
      PROVE  Countable(proposals[p])
  <2>1. proposals[p] \in ProposalRecords /\ proposals[p].eligible > 0
    BY <1>1 DEF IInv, TypeOK, ProposalsSound
  <2>2. IsFiniteSet(Entitled(p))
    <3>1. Entitled(p) \subseteq Identities
      BY DEF Entitled, Members
    <3> QED
      BY <3>1, IdentitiesAssumption, FS_Subset
  <2>3. Cardinality(Entitled(p)) \in Nat
    BY <2>2, FS_CardinalityType
  <2>4. Participating(proposals[p]) + Cardinality(Entitled(p)) <= proposals[p].eligible
    BY <1>1 DEF IInv, NoMemberTurnedAway
  <2>5. Participating(proposals[p]) \in Nat /\ proposals[p].eligible \in Nat
    BY <2>1 DEF ProposalRecords, Participating, Decisive
  <2> QED
    BY <2>1, <2>3, <2>4, <2>5 DEF Countable
<1>2. IInv => PendingCountable
  BY <1>1 DEF PendingCountable
<1> QED
  BY <1>2, Inductive, PTL

-----------------------------------------------------------------------------
(* The accounts implement the assembly. *)

Banned == {m \in Identities : memberships[m].state = "banned"}
Window(p) == [opens |-> proposals[p].opens, closes |-> proposals[p].closes]
Verdict(p) == IF proposals[p].outcome = "absent" THEN "none" ELSE proposals[p].outcome

LEMMA HallCardinality == \A S : Hall!Cardinality(S) = Cardinality(S)
BY DEF Hall!Cardinality, Cardinality

LEMMA HallChoices == Hall!Choices = Choices
BY DEF Hall!Choices, Choices

LEMMA InitMaps ==
    ASSUME Init
    PROVE  Hall!Init
<1>1. /\ \A m \in Identities : memberships[m].state = "absent"
      /\ \A p \in Proposals : proposals[p] = NoProposal
      /\ votes = [p \in Proposals |-> [m \in Identities |-> "none"]]
      /\ slot = 0
  BY DEF Init, NoMembership
<1>2. Members = {} /\ Banned = {}
  BY <1>1 DEF Members, Banned
<1>3. \A p \in Proposals :
        /\ proposals[p].eligible = 0 /\ proposals[p].outcome = "absent"
        /\ proposals[p].opens = 0 /\ proposals[p].closes = 0
  BY <1>1 DEF NoProposal
<1>4. \A p \in Proposals : Entitled(p) = {}
  BY <1>3 DEF Entitled
<1> QED
  BY <1>1, <1>2, <1>3, <1>4 DEF Hall!Init, Banned

LEMMA IdlesMaps ==
    ASSUME IInv, Idles
    PROVE  Hall!Tick \/ UNCHANGED (Hall!vars)
<1>1. Members' = Members /\ Banned' = Banned
  BY DEF Members, Banned, Idles
<1>2. \A p \in Proposals : Entitled(p)' = Entitled(p)
  BY SameEntitled DEF Idles
<1>3. proposals' = proposals /\ votes' = votes
  BY DEF Idles
<1>4. slot' = slot \/ (slot < MaxSlot /\ slot' = slot + 1)
  BY DEF Idles
<1> QED
  BY <1>1, <1>2, <1>3, <1>4 DEF Hall!Tick, Hall!vars, Banned

LEMMA JoinsMaps ==
    ASSUME IInv, NEW m \in Identities, Joins(m)
    PROVE  Hall!Join(m)
<1>1. /\ m \notin Members /\ Members' = Members \cup {m}
      /\ \A p \in Proposals : Entitled(p)' = Entitled(p)
      /\ UNCHANGED <<proposals, votes, slot>>
      /\ \A k \in Identities : memberships'[k].state = "banned" <=> memberships[k].state = "banned"
  BY JoinsShape
<1>2. m \notin Banned /\ Banned' = Banned
  BY <1>1 DEF Banned, Joins
<1> QED
  BY <1>1, <1>2 DEF Hall!Join, Banned

LEMMA DepartsMaps ==
    ASSUME IInv, NEW m \in Identities, NEW s \in {"left", "removed", "banned"}, Departs(m, s)
    PROVE  Hall!Depart(m)
<1>1. /\ m \in Members /\ Members' = Members \ {m}
      /\ \A p \in Proposals : Entitled(p)' = Entitled(p) \ {m}
      /\ UNCHANGED <<proposals, votes, slot>>
      /\ memberships'[m].state = s
      /\ \A k \in Identities : k # m => memberships'[k] = memberships[k]
  BY DepartsShape
<1>2. Banned' \in {Banned, Banned \cup {m}}
  <2>1. memberships[m].state = "active"
    BY DEF Departs
  <2>2. CASE s = "banned"
    BY <1>1, <2>1, <2>2 DEF Banned
  <2>3. CASE s # "banned"
    BY <1>1, <2>1, <2>3 DEF Banned
  <2> QED
    BY <2>2, <2>3
<1> QED
  BY <1>1, <1>2 DEF Hall!Depart, Banned

LEMMA ExcludesMaps ==
    ASSUME IInv, NEW m \in Identities, Excludes(m)
    PROVE  Hall!Exclude(m)
<1>1. /\ m \notin Members /\ Members' = Members
      /\ \A p \in Proposals : Entitled(p)' = Entitled(p)
      /\ UNCHANGED <<proposals, votes, slot>>
      /\ memberships'[m].state = "banned"
      /\ \A k \in Identities : k # m => memberships'[k] = memberships[k]
  BY ExcludesShape
<1>2. Banned' = Banned \cup {m}
  BY <1>1 DEF Banned
<1> QED
  BY <1>1, <1>2 DEF Hall!Exclude, Banned

LEMMA WindowBound == MaxVotingSlots \in Nat /\ MinVotingSlots = 2
BY SMT DEF MaxVotingSlots, MinVotingSlots

LEMMA CreateMaps ==
    ASSUME IInv, NEW p \in Proposals, NEW delay \in Delays, NEW duration \in Durations,
           CreateProposal(p, delay, duration)
    PROVE  \E opens, closes \in 0 .. MaxSlot : Hall!Open(p, opens, closes)
<1> DEFINE opens == slot + delay
           closes == slot + delay + duration
<1>1. /\ \A q \in Proposals : q # p => proposals'[q] = proposals[q]
      /\ proposals'[p].outcome = "pending"
      /\ proposals'[p].eligible = community.memberCount
      /\ proposals'[p].opens = opens /\ proposals'[p].closes = closes
      /\ proposals[p].outcome = "absent"
      /\ UNCHANGED <<memberships, votes, slot>>
  BY CreateShape
<1>2. /\ Entitled(p)' = Members /\ Members' = Members
      /\ \A q \in Proposals : q # p => Entitled(q)' = Entitled(q)
  BY CreateSets
<1>3. Banned' = Banned
  BY <1>1 DEF Banned
<1>4. slot \in Nat /\ delay \in Nat /\ duration \in Nat /\ MaxSlot \in Nat
  BY GovernanceBounds, WindowsAssumption DEF IInv, TypeOK
<1>5. duration >= 2
  BY <1>4, WindowBound DEF CreateProposal, ValidWindow
<1>6. slot + delay + duration <= MaxSlot
  BY DEF CreateProposal
<1>7. opens \in 0 .. MaxSlot /\ closes \in 0 .. MaxSlot /\ slot <= opens /\ opens < closes
  BY <1>4, <1>5, <1>6
<1>8. Cardinality(Members) = community.memberCount /\ community.memberCount > 0
  BY DEF IInv, CountExact, CreateProposal
<1>9. Members # {}
  BY <1>8, FS_EmptySet
<1> HIDE DEF opens, closes
<1>10. [q \in Proposals |-> proposals'[q].eligible]
         = [[q \in Proposals |-> proposals[q].eligible] EXCEPT ![p] = Hall!Cardinality(Members)]
  BY <1>1, <1>8, HallCardinality
<1>11. [q \in Proposals |-> Entitled(q)']
         = [[q \in Proposals |-> Entitled(q)] EXCEPT ![p] = Members]
  BY <1>2
<1>12. [q \in Proposals |-> Window(q)']
         = [[q \in Proposals |-> Window(q)] EXCEPT ![p] = [opens |-> opens, closes |-> closes]]
  BY <1>1 DEF Window
<1>13. [q \in Proposals |-> Verdict(q)']
         = [[q \in Proposals |-> Verdict(q)] EXCEPT ![p] = "pending"]
  BY <1>1 DEF Verdict
<1>14. PICK o \in 0 .. MaxSlot : o = opens
  BY <1>7
<1>15. PICK b \in 0 .. MaxSlot : b = closes
  BY <1>7
<1>16. Hall!Open(p, o, b)
  BY <1>1, <1>2, <1>3, <1>7, <1>9, <1>10, <1>11, <1>12, <1>13, <1>14, <1>15
  DEF Hall!Open, Banned, Window, Verdict
<1> QED
  BY <1>16

LEMMA CastMaps ==
    ASSUME IInv, NEW p \in Proposals, NEW m \in Identities, NEW choice \in Choices,
           CastVote(p, m, choice)
    PROVE  Hall!Vote(p, m, choice)
<1>1. /\ votes' = [votes EXCEPT ![p][m] = choice]
      /\ \A q \in Proposals : /\ proposals'[q].outcome = proposals[q].outcome
                              /\ proposals'[q].eligible = proposals[q].eligible
                              /\ proposals'[q].opens = proposals[q].opens
                              /\ proposals'[q].closes = proposals[q].closes
      /\ UNCHANGED <<memberships, slot>>
  BY CastShape
<1>2. /\ m \in Entitled(p) /\ Members' = Members
      /\ \A q \in Proposals :
           Entitled(q)' = IF q = p THEN Entitled(p) \ {m} ELSE Entitled(q)
  BY CastSets
<1>3. Banned' = Banned
  BY <1>1 DEF Banned
<1>4. /\ proposals[p].outcome = "pending" /\ proposals[p].opens <= slot
      /\ slot < proposals[p].closes
  BY DEF CastVote
<1>5. [q \in Proposals |-> Entitled(q)']
         = [[q \in Proposals |-> Entitled(q)] EXCEPT ![p] = Entitled(p) \ {m}]
  BY <1>2
<1>6. /\ [q \in Proposals |-> proposals'[q].eligible] = [q \in Proposals |-> proposals[q].eligible]
      /\ [q \in Proposals |-> Window(q)'] = [q \in Proposals |-> Window(q)]
      /\ [q \in Proposals |-> Verdict(q)'] = [q \in Proposals |-> Verdict(q)]
  BY <1>1 DEF Window, Verdict
<1> QED
  BY <1>1, <1>2, <1>3, <1>4, <1>5, <1>6 DEF Hall!Vote, Banned, Window, Verdict

(* The thresholds in basis points of the counters are those of the votes.  *)
LEMMA Thresholds ==
    ASSUME IInv, NEW p \in Proposals
    PROVE  Hall!Carried(p) <=> QuorumMet(proposals[p]) /\ ApprovalMet(proposals[p])
<1> DEFINE Y == Voters(p, "yes")
           N == Voters(p, "no")
           A == Voters(p, "abstain")
           r == proposals[p]
<1>1. /\ IsFiniteSet(Y) /\ IsFiniteSet(N) /\ IsFiniteSet(A)
      /\ Y \cap N = {} /\ (Y \cup N) \cap A = {}
  BY Finite DEF Voters
<1>2. /\ r.yes = Cardinality(Y) /\ r.no = Cardinality(N) /\ r.abstain = Cardinality(A)
  BY DEF IInv, Tallies
<1>3. r.yes \in Nat /\ r.no \in Nat /\ r.abstain \in Nat /\ r.eligible \in Nat
  BY DEF IInv, TypeOK, ProposalRecords
<1> HIDE DEF r
<1>4. Cardinality(Y \cup N) = r.yes + r.no
  <2>1. Cardinality(Y \cup N) = Cardinality(Y) + Cardinality(N) - Cardinality(Y \cap N)
    BY <1>1, FS_Union
  <2>2. Cardinality(Y \cap N) = 0
    BY <1>1, FS_EmptySet
  <2> HIDE DEF Y, N
  <2> QED
    BY <1>2, <1>3, <2>1, <2>2
<1>5. Cardinality((Y \cup N) \cup A) = r.yes + r.no + r.abstain
  <2>1. IsFiniteSet(Y \cup N)
    BY <1>1, FS_Union
  <2>2. Cardinality((Y \cup N) \cup A)
          = Cardinality(Y \cup N) + Cardinality(A) - Cardinality((Y \cup N) \cap A)
    BY <1>1, <2>1, FS_Union
  <2>3. Cardinality((Y \cup N) \cap A) = 0
    BY <1>1, FS_EmptySet
  <2> HIDE DEF Y, N, A
  <2> QED
    BY <1>2, <1>3, <1>4, <2>2, <2>3
<1>6. /\ {m \in Identities : votes[p][m] \in {"yes"}} = Y
      /\ {m \in Identities : votes[p][m] \in {"yes", "no"}} = Y \cup N
      /\ {m \in Identities : votes[p][m] \in Choices} = (Y \cup N) \cup A
  BY DEF Voters, Choices
<1>7. /\ Hall!Cast(p, {"yes"}) = r.yes
      /\ Hall!Cast(p, {"yes", "no"}) = r.yes + r.no
      /\ Hall!Cast(p, Hall!Choices) = r.yes + r.no + r.abstain
  BY <1>2, <1>4, <1>5, <1>6, HallCardinality, HallChoices DEF Hall!Cast
<1>8. Hall!Carried(p) <=> /\ 2 * (r.yes + r.no + r.abstain) >= r.eligible
                          /\ r.yes + r.no > 0
                          /\ 10000 * r.yes >= 5001 * (r.yes + r.no)
  <2>1. [q \in Proposals |-> proposals[q].eligible][p] = r.eligible
    BY DEF r
  <2> QED
    BY <1>7, <2>1, SMT DEF Hall!Carried
<1>9. QuorumMet(r) <=> 2 * (r.yes + r.no + r.abstain) >= r.eligible
  BY <1>3, SMT DEF QuorumMet, Participating, Decisive, Denominator, QuorumBps
<1>10. ApprovalMet(r) <=> /\ r.yes + r.no > 0
                          /\ 10000 * r.yes >= 5001 * (r.yes + r.no)
  BY <1>3, SMT DEF ApprovalMet, Decisive, Denominator, ApprovalBps
<1> QED
  BY <1>8, <1>9, <1>10 DEF r

LEMMA FinalizeMaps ==
    ASSUME IInv, NEW p \in Proposals, FinalizeProposal(p)
    PROVE  Hall!Close(p)
<1>1. /\ \A q \in Proposals : q # p => proposals'[q] = proposals[q]
      /\ proposals'[p].outcome = IF QuorumMet(proposals[p]) /\ ApprovalMet(proposals[p])
                                 THEN "accepted" ELSE "rejected"
      /\ \A q \in Proposals : /\ proposals'[q].eligible = proposals[q].eligible
                              /\ proposals'[q].snapshot = proposals[q].snapshot
                              /\ proposals'[q].opens = proposals[q].opens
                              /\ proposals'[q].closes = proposals[q].closes
      /\ proposals[p].outcome = "pending"
      /\ UNCHANGED <<memberships, votes, slot>>
  BY FinalizeShape
<1>2. Members' = Members /\ Banned' = Banned
  BY <1>1 DEF Members, Banned
<1>3. \A q \in Proposals : Entitled(q)' = Entitled(q)
  BY <1>1, SameEntitled
<1>4. proposals[p].closes <= slot
  <2>1. slot >= proposals[p].closes /\ slot \in Nat /\ proposals[p].closes \in Nat
    BY GovernanceBounds DEF FinalizeProposal, IInv, TypeOK, ProposalRecords
  <2> QED
    BY <2>1
<1>5. proposals'[p].outcome = IF Hall!Carried(p) THEN "accepted" ELSE "rejected"
  BY <1>1, Thresholds
<1>6. [q \in Proposals |-> Verdict(q)']
         = [[q \in Proposals |-> Verdict(q)] EXCEPT
              ![p] = IF Hall!Carried(p) THEN "accepted" ELSE "rejected"]
  BY <1>1, <1>5 DEF Verdict
<1>7. /\ [q \in Proposals |-> proposals'[q].eligible] = [q \in Proposals |-> proposals[q].eligible]
      /\ [q \in Proposals |-> Window(q)'] = [q \in Proposals |-> Window(q)]
      /\ [q \in Proposals |-> Entitled(q)'] = [q \in Proposals |-> Entitled(q)]
  BY <1>1, <1>3 DEF Window
<1> QED
  BY <1>1, <1>2, <1>4, <1>6, <1>7 DEF Hall!Close, Banned, Window, Verdict

LEMMA StepMaps ==
    ASSUME IInv, [Next]_vars
    PROVE  [Hall!Next]_(Hall!vars)
<1>1. TypeOK
  BY DEF IInv
<1>2. CASE Idles
  BY <1>2, IdlesMaps DEF Hall!Next
<1>3. CASE \E m \in Identities : Joins(m) \/ Excludes(m)
  BY <1>3, JoinsMaps, ExcludesMaps DEF Hall!Next
<1>4. CASE \E m \in Identities, s \in {"left", "removed", "banned"} : Departs(m, s)
  BY <1>4, DepartsMaps DEF Hall!Next
<1>5. CASE \E p \in Proposals, delay \in Delays, duration \in Durations :
             CreateProposal(p, delay, duration)
  BY <1>5, CreateMaps DEF Hall!Next
<1>6. CASE \E p \in Proposals, m \in Identities, choice \in Choices : CastVote(p, m, choice)
  BY <1>6, CastMaps, HallChoices DEF Hall!Next
<1>7. CASE \E p \in Proposals : FinalizeProposal(p)
  BY <1>7, FinalizeMaps DEF Hall!Next
<1> QED
  BY <1>1, <1>2, <1>3, <1>4, <1>5, <1>6, <1>7, StepKinds

(* The instructions implement the assembly: no vote by anyone who was not  *)
(* a member at the snapshot and ever since, none counted twice, and the    *)
(* recorded outcome is that of the votes, once and for all.                *)
THEOREM AssemblyKept == Spec => ImplementsAssembly
<1>1. Init => Hall!Init
  BY InitMaps
<1>2. IInv /\ [Next]_vars => [Hall!Next]_(Hall!vars)
  BY StepMaps
<1> QED
  BY <1>1, <1>2, Inductive, PTL DEF Spec, ImplementsAssembly, Hall!Spec
=============================================================================
