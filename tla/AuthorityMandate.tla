-------------------------- MODULE AuthorityMandate --------------------------
(***************************************************************************)
(* What the identity accounts promise about who speaks for an identity,    *)
(* without sequence numbers, rotation counts or approval bits.  Whoever    *)
(* acts is the root key or a delegate the present root appointed.  A new   *)
(* root comes from the old one or from the guardians of the present board: *)
(* enough of them endorsed one key, in one ballot, which has stood open    *)
(* for the board's delay and during which the identity did nothing.  A     *)
(* change of root ends every appointment, and every act voids all ballots. *)
(***************************************************************************)
EXTENDS Integers, FiniteSets

CONSTANTS
    Keys,     \* public keys
    Nonces,   \* names of ballots
    Posts,    \* names of posts
    Limit     \* bound: the last slot

VARIABLES
    root,        \* the key that owns the identity
    active,      \* FALSE once the identity is deactivated
    board,       \* the guardians, or NoBoard
    delegates,   \* appointments of the present root, by number
    ballots,     \* open ballots, by nonce, or NoBallot
    feed,        \* what was published, and by which key
    now

vars == <<root, active, board, delegates, ballots, feed, now>>

Boards ==
    {b \in [guardians : SUBSET Keys, threshold : Nat, delay : Nat] :
        2 <= b.threshold /\ b.threshold <= Cardinality(b.guardians) /\ 2 <= b.delay}
NoBoard == [guardians |-> {}, threshold |-> 0, delay |-> 0]
NoBallot == [target |-> {}, endorsers |-> {}, opened |-> 0]

VoidBallots == ballots' = [n \in Nonces |-> NoBallot]

(* The key may publish for the identity: the root, or an unexpired delegate. *)
SpeaksFor(key) ==
    \/ key = root
    \/ \E d \in delegates : d.delegate = key /\ "post" \in d.scopes /\ now <= d.expires

Init ==
    /\ root \in Keys
    /\ active = TRUE
    /\ board = NoBoard
    /\ delegates = {}
    /\ ballots = [n \in Nonces |-> NoBallot]
    /\ feed = [p \in Posts |-> [state |-> "absent", by |-> root]]
    /\ now = 0

Rotate ==
    /\ active
    /\ root' \in Keys \ {root}
    /\ delegates' = {}
    /\ VoidBallots
    /\ UNCHANGED <<active, board, feed, now>>

Deactivate ==
    /\ active
    /\ active' = FALSE
    /\ VoidBallots
    /\ UNCHANGED <<root, board, delegates, feed, now>>

Appoint ==
    /\ active
    /\ \E d \in delegates' : delegates' = delegates \cup {d}
    /\ VoidBallots
    /\ UNCHANGED <<root, active, board, feed, now>>

Dismiss ==
    /\ active
    /\ \E d \in delegates : delegates' = delegates \ {d}
    /\ VoidBallots
    /\ UNCHANGED <<root, active, board, feed, now>>

Seat ==
    /\ active
    /\ board' \in Boards \cup {NoBoard}
    /\ root \notin board'.guardians
    /\ VoidBallots
    /\ UNCHANGED <<root, active, delegates, feed, now>>

Open(n, guardian, target) ==
    /\ active
    /\ ballots[n] = NoBallot
    /\ guardian \in board.guardians
    /\ target # root
    /\ ballots' = [ballots EXCEPT ![n] =
           [target |-> {target}, endorsers |-> {guardian}, opened |-> now]]
    /\ UNCHANGED <<root, active, board, delegates, feed, now>>

Endorse(n, guardian) ==
    /\ active
    /\ ballots[n] # NoBallot
    /\ guardian \in board.guardians
    /\ ballots' = [ballots EXCEPT ![n].endorsers = @ \cup {guardian}]
    /\ UNCHANGED <<root, active, board, delegates, feed, now>>

Recover(n) ==
    /\ active
    /\ ballots[n] # NoBallot
    /\ ballots[n].endorsers \subseteq board.guardians
    /\ Cardinality(ballots[n].endorsers) >= board.threshold
    /\ now >= ballots[n].opened + board.delay
    /\ root' \in ballots[n].target
    /\ delegates' = {}
    /\ VoidBallots
    /\ UNCHANGED <<active, board, feed, now>>

Publish(p, key) ==
    /\ active
    /\ SpeaksFor(key)
    /\ feed[p].state = "absent"
    /\ feed' = [feed EXCEPT ![p] = [state |-> "live", by |-> key]]
    /\ VoidBallots
    /\ UNCHANGED <<root, active, board, delegates, now>>

Retract(p, key) ==
    /\ active
    /\ SpeaksFor(key)
    /\ feed[p].state = "live"
    /\ feed' = [feed EXCEPT ![p].state = "tombstoned"]
    /\ VoidBallots
    /\ UNCHANGED <<root, active, board, delegates, now>>

(* An act that changes nothing else: calling off a ballot, revoking an      *)
(* appointment of an earlier root.                                         *)
Act ==
    /\ active
    /\ VoidBallots
    /\ UNCHANGED <<root, active, board, delegates, feed, now>>

Tick ==
    /\ now < Limit
    /\ now' = now + 1
    /\ UNCHANGED <<root, active, board, delegates, ballots, feed>>

Next ==
    \/ Rotate \/ Deactivate \/ Appoint \/ Dismiss \/ Seat \/ Act \/ Tick
    \/ \E n \in Nonces, k, t \in Keys : Open(n, k, t)
    \/ \E n \in Nonces, k \in Keys : Endorse(n, k)
    \/ \E n \in Nonces : Recover(n)
    \/ \E p \in Posts, k \in Keys : Publish(p, k) \/ Retract(p, k)

Spec == Init /\ [][Next]_vars
=============================================================================
