--------------------------- MODULE ManifestLedger ---------------------------
(***************************************************************************)
(* What the indexer promises about its durable raw-event ledger, with no   *)
(* worker, retry or projection in sight (PROTOCOL.md, "Indexer             *)
(* conformance" 3, 10 and 11).  Every finalized event is either absent     *)
(* from the ledger or recorded with exactly one disposition.  A            *)
(* disposition is immutable, except that a pending manifest is settled     *)
(* once, to accepted or to terminal.  The events of one identity are       *)
(* recorded in the order of the chain, with no gap.                        *)
(***************************************************************************)
EXTENDS Naturals

CONSTANTS
    Events,    \* the finalized events, numbered in the order of the chain
    Actor      \* the identity whose sequence an event advances

VARIABLE disposition

Dispositions == {"absent", "accepted", "pending", "terminal"}

TypeOK == disposition \in [Events -> Dispositions]

Init == disposition = [e \in Events |-> "absent"]

\* An event enters the ledger once every earlier event of its identity is in.
Record(e, d) ==
    /\ disposition[e] = "absent"
    /\ \A f \in Events : f < e /\ Actor[f] = Actor[e] => disposition[f] # "absent"
    /\ disposition' = [disposition EXCEPT ![e] = d]

\* A pending manifest is hydrated or rejected, once.
Settle(e, d) ==
    /\ disposition[e] = "pending"
    /\ disposition' = [disposition EXCEPT ![e] = d]

Next ==
    \E e \in Events :
        \/ \E d \in {"accepted", "pending", "terminal"} : Record(e, d)
        \/ \E d \in {"accepted", "terminal"} : Settle(e, d)

Spec == Init /\ [][Next]_disposition
=============================================================================
