------------------------------ MODULE Assembly ------------------------------
(***************************************************************************)
(* What a community's votes promise, without sequences or counters.  Who   *)
(* is a member when a proposal opens may vote on it once, for as long as   *)
(* the membership lasts without a break; nobody else ever may.  When the   *)
(* window has closed the votes that were cast are counted, once.           *)
(***************************************************************************)
EXTENDS Integers, FiniteSets

CONSTANTS
    Identities,   \* who may be a member
    Proposals,    \* names of proposals
    Limit         \* bound: the last slot

VARIABLES
    members,      \* who is a member
    banned,       \* who can never be one again
    size,         \* members when the proposal opened, or 0
    entitled,     \* who may still vote on a proposal
    cast,         \* the votes, "none" where there is none
    window,       \* slots in which votes are taken
    verdict,      \* of a proposal: none, pending, accepted or rejected
    now

vars == <<members, banned, size, entitled, cast, window, verdict, now>>

Choices == {"yes", "no", "abstain"}

Cast(p, choices) == Cardinality({m \in Identities : cast[p][m] \in choices})

(* Half of the members took part, and 50.01% of the decided votes say yes. *)
Carried(p) ==
    /\ 2 * Cast(p, Choices) >= size[p]
    /\ Cast(p, {"yes", "no"}) > 0
    /\ 10000 * Cast(p, {"yes"}) >= 5001 * Cast(p, {"yes", "no"})

Init ==
    /\ members = {}
    /\ banned = {}
    /\ size = [p \in Proposals |-> 0]
    /\ entitled = [p \in Proposals |-> {}]
    /\ cast = [p \in Proposals |-> [m \in Identities |-> "none"]]
    /\ window = [p \in Proposals |-> [opens |-> 0, closes |-> 0]]
    /\ verdict = [p \in Proposals |-> "none"]
    /\ now = 0

Join(m) ==
    /\ m \notin members \cup banned
    /\ members' = members \cup {m}
    /\ UNCHANGED <<banned, size, entitled, cast, window, verdict, now>>

(* Whoever leaves, is removed or is banned loses the votes not yet cast.   *)
Depart(m) ==
    /\ m \in members
    /\ members' = members \ {m}
    /\ banned' \in {banned, banned \cup {m}}
    /\ entitled' = [p \in Proposals |-> entitled[p] \ {m}]
    /\ UNCHANGED <<size, cast, window, verdict, now>>

Exclude(m) ==
    /\ m \notin members
    /\ banned' = banned \cup {m}
    /\ UNCHANGED <<members, size, entitled, cast, window, verdict, now>>

Open(p, opens, closes) ==
    /\ verdict[p] = "none"
    /\ members # {}
    /\ now <= opens /\ opens < closes
    /\ size' = [size EXCEPT ![p] = Cardinality(members)]
    /\ entitled' = [entitled EXCEPT ![p] = members]
    /\ window' = [window EXCEPT ![p] = [opens |-> opens, closes |-> closes]]
    /\ verdict' = [verdict EXCEPT ![p] = "pending"]
    /\ UNCHANGED <<members, banned, cast, now>>

Vote(p, m, choice) ==
    /\ verdict[p] = "pending"
    /\ window[p].opens <= now /\ now < window[p].closes
    /\ m \in entitled[p]
    /\ cast' = [cast EXCEPT ![p][m] = choice]
    /\ entitled' = [entitled EXCEPT ![p] = @ \ {m}]
    /\ UNCHANGED <<members, banned, size, window, verdict, now>>

Close(p) ==
    /\ verdict[p] = "pending"
    /\ window[p].closes <= now
    /\ verdict' = [verdict EXCEPT ![p] = IF Carried(p) THEN "accepted" ELSE "rejected"]
    /\ UNCHANGED <<members, banned, size, entitled, cast, window, now>>

Tick ==
    /\ now < Limit
    /\ now' = now + 1
    /\ UNCHANGED <<members, banned, size, entitled, cast, window, verdict>>

Next ==
    \/ Tick
    \/ \E m \in Identities : Join(m) \/ Depart(m) \/ Exclude(m)
    \/ \E p \in Proposals, opens, closes \in 0 .. Limit : Open(p, opens, closes)
    \/ \E p \in Proposals, m \in Identities, choice \in Choices : Vote(p, m, choice)
    \/ \E p \in Proposals : Close(p)

Spec == Init /\ [][Next]_vars
=============================================================================
