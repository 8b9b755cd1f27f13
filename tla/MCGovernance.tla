---------------------------- MODULE MCGovernance ----------------------------
(***************************************************************************)
(* The creator, two other identities and one proposal, which opens one     *)
(* slot after it is created: enough changes of membership for two members  *)
(* at the snapshot, one of whom leaves and comes back, or for a ban of a   *)
(* former member.                                                          *)
(***************************************************************************)
EXTENDS Governance, TLC

CONSTANTS c, m1, m2, p1
=============================================================================
