------------------------------- MODULE Outbox -------------------------------
(***************************************************************************)
(* What publishing from a browser promises its user, without tabs, locks   *)
(* or crashes.  One draft lies on the desk.  It can be replaced or thrown  *)
(* away until it is bound to a publication; from then on it stays as it is *)
(* until its post is in the feed, and only that publication may follow.    *)
(***************************************************************************)
CONSTANTS
    Texts,     \* what a draft may say
    Nonces,    \* names of posts
    Nothing    \* no draft, or no publication

VARIABLES
    desk,      \* the saved draft
    bound,     \* the publication under way: its nonce and its text
    feed       \* the posts: texts by nonce

vars == <<desk, bound, feed>>

Publications == [nonce : Nonces, text : Texts]

Init ==
    /\ desk = Nothing
    /\ bound = Nothing
    /\ feed = [n \in Nonces |-> Nothing]

Save(x) ==
    /\ bound = Nothing
    /\ desk' = x
    /\ UNCHANGED <<bound, feed>>

Discard ==
    /\ bound = Nothing
    /\ desk' = Nothing
    /\ UNCHANGED <<bound, feed>>

(* A publication starts with the draft on the desk and a nonce never used. *)
Bind(n) ==
    /\ bound = Nothing
    /\ desk # Nothing
    /\ feed[n] = Nothing
    /\ bound' = [nonce |-> n, text |-> desk]
    /\ UNCHANGED <<desk, feed>>

Post ==
    /\ bound # Nothing
    /\ feed[bound.nonce] = Nothing
    /\ feed' = [feed EXCEPT ![bound.nonce] = bound.text]
    /\ UNCHANGED <<desk, bound>>

(* The published draft leaves the desk, then the publication is over.      *)
Clear ==
    /\ bound # Nothing
    /\ feed[bound.nonce] = desk
    /\ desk' = Nothing
    /\ UNCHANGED <<bound, feed>>

Retire ==
    /\ bound # Nothing
    /\ feed[bound.nonce] # Nothing
    /\ desk = Nothing
    /\ bound' = Nothing
    /\ UNCHANGED <<desk, feed>>

Next ==
    \/ \E x \in Texts : Save(x)
    \/ \E n \in Nonces : Bind(n)
    \/ Discard \/ Post \/ Clear \/ Retire

Spec == Init /\ [][Next]_vars
=============================================================================
