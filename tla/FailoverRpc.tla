----------------------------- MODULE FailoverRpc ----------------------------
(***************************************************************************)
(* FailoverSolanaRpc: a call starts at the endpoint after the one that     *)
(* answered last and goes on to the next one until an endpoint answers, so *)
(* consecutive calls of one poll are answered by different endpoints.      *)
(*                                                                         *)
(* The endpoints are external.  Each has its own finalized slot, which     *)
(* only grows; an endpoint knows exactly the transactions of the slots up  *)
(* to it.  Endpoints in Faulty may fail any call; the others never do.     *)
(***************************************************************************)
EXTENDS FinalizedHistory

CONSTANTS
    NumEndpoints,   \* the configured endpoints, all validated by initialize
    Faulty          \* the endpoints whose calls may fail

Endpoints == 1..NumEndpoints

ASSUME RpcAssumption ==
    /\ NumEndpoints \in Nat \ {0}
    /\ Faulty \subseteq Endpoints

VARIABLES
    view,           \* the finalized slot of each endpoint
    nextEndpoint    \* #nextEndpoint

rpcVars == <<view, nextEndpoint>>

RpcTypeOK ==
    /\ view \in [Endpoints -> 0..FinalSlot]
    /\ nextEndpoint \in Endpoints

RpcInit ==
    /\ view = [ep \in Endpoints |-> 0]
    /\ nextEndpoint = 1

\* The endpoints a call asks before it comes to ep.
AskedBefore(ep) ==
    IF nextEndpoint <= ep
    THEN nextEndpoint..(ep - 1)
    ELSE (nextEndpoint..NumEndpoints) \cup (1..(ep - 1))

(* #execute: ep answers a call that only the endpoints in able can answer. *)
(* For transaction() a null answer counts as a failure.                    *)
Answers(ep, able) ==
    /\ ep \in able
    /\ AskedBefore(ep) \cap able \subseteq Faulty
    /\ nextEndpoint' = (ep % NumEndpoints) + 1
    /\ UNCHANGED view

\* #execute: every endpoint fails the call.
NoneAnswers(able) ==
    /\ able \subseteq Faulty
    /\ UNCHANGED rpcVars

\* External: an endpoint learns of one more finalized slot.
EndpointAdvances(ep) ==
    /\ view[ep] < FinalSlot
    /\ view' = [view EXCEPT ![ep] = @ + 1]
    /\ UNCHANGED nextEndpoint
=============================================================================
