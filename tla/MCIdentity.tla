----------------------------- MODULE MCIdentity -----------------------------
(***************************************************************************)
(* One identity and its projection by the indexer.  Three keys: the first  *)
(* root and two guardians, either of which may also become the root, and   *)
(* two policies in which they have swapped indices.                        *)
(***************************************************************************)
EXTENDS AuthorityProjection, TLC

CONSTANTS a, g, h, n1, n2

MCPolicies ==
    {[guardians |-> <<g, h>>, threshold |-> 2, delay |-> 2],
     [guardians |-> <<h, g>>, threshold |-> 2, delay |-> 2]}
MCGrants == {[scopes |-> {"post"}, expires |-> 1]}
MCSymmetry == {p @@ q : p \in Permutations({g, h}), q \in Permutations({n1, n2})}
=============================================================================
