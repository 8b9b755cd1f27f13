-------------------------- MODULE UploadLifecycle ---------------------------
(***************************************************************************)
(* What the media worker promises about an upload, with no file, lock,     *)
(* crash or retry in sight (apps/media-worker/README.md, "Upload           *)
(* protocol").  A declared upload is open and grows by whole chunks; once  *)
(* its bytes are the declared bytes it may be published, once; it is       *)
(* closed when it is cancelled or expires, and a published upload only     *)
(* when it expires.  An identifier is never used again.                    *)
(***************************************************************************)
EXTENDS Naturals, Sequences

CONSTANTS
    Uploads,     \* upload identifiers
    Bytes,
    Declared,    \* the bytes an upload was declared to have (its SHA-256)
    Chunks       \* what clients may send: bytes for an offset

VARIABLES declared, expired, phase, content

vars == <<declared, expired, phase, content>>

TypeOK ==
    /\ declared \in SUBSET Uploads
    /\ expired \in SUBSET Uploads
    /\ phase \in [Uploads -> {"closed", "open", "published"}]
    /\ content \in [Uploads -> Seq(Bytes)]

Init ==
    /\ declared = {}
    /\ expired = {}
    /\ phase = [u \in Uploads |-> "closed"]
    /\ content = [u \in Uploads |-> <<>>]

Declare(u) ==
    /\ u \notin declared
    /\ declared' = declared \cup {u}
    /\ phase' = [phase EXCEPT ![u] = "open"]
    /\ UNCHANGED <<expired, content>>

\* A chunk counts only at the offset it was sent for.
Receive(u, c) ==
    /\ phase[u] = "open"
    /\ c.at = Len(content[u])
    /\ c.at + Len(c.bytes) <= Len(Declared[u])
    /\ content' = [content EXCEPT ![u] = @ \o c.bytes]
    /\ UNCHANGED <<declared, expired, phase>>

Publish(u) ==
    /\ phase[u] = "open"
    /\ content[u] = Declared[u]
    /\ phase' = [phase EXCEPT ![u] = "published"]
    /\ UNCHANGED <<declared, expired, content>>

Close(u) ==
    /\ \/ phase[u] = "open"
       \/ phase[u] = "published" /\ u \in expired
    /\ phase' = [phase EXCEPT ![u] = "closed"]
    /\ content' = [content EXCEPT ![u] = <<>>]
    /\ UNCHANGED <<declared, expired>>

Expire(u) ==
    /\ u \in declared \ expired
    /\ expired' = expired \cup {u}
    /\ UNCHANGED <<declared, phase, content>>

Next ==
    \E u \in Uploads :
        \/ Declare(u) \/ Publish(u) \/ Close(u) \/ Expire(u)
        \/ \E c \in Chunks : Receive(u, c)

Spec == Init /\ [][Next]_vars
=============================================================================
