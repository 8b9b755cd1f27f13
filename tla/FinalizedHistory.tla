-------------------------- MODULE FinalizedHistory --------------------------
(***************************************************************************)
(* The chain, as the indexer sees it: the finalized events of one network, *)
(* numbered in the order of the chain (slot, transaction index, log        *)
(* index).  An event is identified by its number, which stands for its     *)
(* coordinate (network, signature, log index), its fingerprint and its     *)
(* position.                                                               *)
(***************************************************************************)
EXTENDS Integers

CONSTANTS
    NumEvents,    \* how many events the finalized history holds
    Identities,   \* the identities of the network
    Kind,         \* the type of an event
    Actor,        \* the identity whose sequence an event advances
    Seq,          \* the identity sequence the event carries
    Target,       \* for a tombstone, the event that published the post; else 0
    Slot,         \* the finalized slot of an event
    FinalSlot     \* the last finalized slot, which may hold no event

Events == 1..NumEvents

(* "other" stands for the remaining events that advance one identity       *)
(* sequence and carry no manifest: root rotation, delegation, follow, ...  *)
Kinds == {"create", "profile", "post", "tombstone", "deactivate", "other"}

ASSUME HistoryShape ==
    /\ NumEvents \in Nat
    /\ Kind \in [Events -> Kinds]
    /\ Actor \in [Events -> Identities]
    /\ Seq \in [Events -> Nat]
    /\ Target \in [Events -> 0..NumEvents]
    /\ FinalSlot \in Nat
    /\ Slot \in [Events -> 0..FinalSlot]

(* What the program guarantees of the history it emits: slots do not       *)
(* decrease, an identity is created with sequence 0, each later event      *)
(* carries the next sequence, nothing follows a deactivation, and a        *)
(* tombstone names an earlier post of its own author.                      *)
ASSUME HistoryOrder ==
    /\ \A e, f \in Events : e <= f => Slot[e] <= Slot[f]
    /\ \A e \in Events : Kind[e] = "create" <=> Seq[e] = 0
    /\ \A e, f \in Events : Actor[e] = Actor[f] => (e < f <=> Seq[e] < Seq[f])
    /\ \A e \in Events : Seq[e] > 0 =>
           \E f \in Events : Actor[f] = Actor[e] /\ Seq[f] = Seq[e] - 1
    /\ \A e, f \in Events : Actor[e] = Actor[f] /\ Kind[e] = "deactivate" => f <= e
    /\ \A e \in Events : Kind[e] = "tombstone" =>
           /\ Target[e] \in Events
           /\ Target[e] < e
           /\ Kind[Target[e]] = "post"
           /\ Actor[Target[e]] = Actor[e]
=============================================================================
