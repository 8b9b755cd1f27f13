-------------------------- MODULE PostPublication --------------------------
(***************************************************************************)
(* Publishing a post from the composer, in the tabs of one browser.  The   *)
(* tabs share the browser's storage, in which one draft and one            *)
(* publication intent are saved, and an exclusive lock.  The tab with the  *)
(* lock takes the intent from prepared to finalized, one write at a time,  *)
(* and submits the post to the chain in between; it may fail or be closed  *)
(* at every step, and any tab may resume what it left.                     *)
(*                                                                         *)
(* An action is what a tab does between two waits (the lock, the signer,   *)
(* the content store, the chain, the indexer).  Signer, store and indexer  *)
(* answer or fail; the chain is modelled from how the code uses it.  What  *)
(* the composer disables while it knows of an intent is left enabled here, *)
(* as in a tab that does not know of it yet.                               *)
(***************************************************************************)
EXTENDS Integers, FiniteSets

CONSTANTS
    Tabs,          \* tabs of one browser
    Texts,         \* what a draft may say
    Nonces,        \* nonces of posts, each drawn once
    Nothing,       \* no text, no intent, no tab
    Attempts,      \* bound: transactions signed for one intent
    MaxSequence    \* bound: commands of the author's identity

(* What storage, tabs and chain hold. *)

Ops == {"save", "discard", "publish", "cleanup"}

Stages == {"prepared", "signed", "stored", "finalized"}
Intents ==
    [stage : Stages, nonce : Nonces, text : Texts, expected : 0 .. MaxSequence,
     evidence : Attempts \cup {Nothing}]
Receipts == [draft : Texts \cup {Nothing}, intent : Intents \cup {Nothing}]
TabRecords ==
    [pc : {"idle", "asking", "selected", "identified", "prepared", "signed", "stored",
           "existing", "ready", "sent", "final", "recorded", "cleared"},
     op : Ops \cup {"none"}, view : Texts \cup {Nothing}, before : Receipts,
     chosen : Texts \cup {Nothing}, sequence : 0 .. MaxSequence,
     attempt : Attempts \cup {Nothing}, cleanup : Receipts]
WireRecords ==
    [nonce : Nonces, attempt : Attempts, text : Texts, expected : 0 .. MaxSequence]
PostRecords ==
    [text : Texts, creator : Attempts, final : BOOLEAN, mates : SUBSET Attempts]

ASSUME NothingAssumption ==
    /\ Nothing \notin Tabs \cup Texts \cup Nonces \cup Intents \cup PostRecords
    /\ Nothing \notin [nonce : Nonces, text : Texts]
ASSUME SequenceAssumption == MaxSequence \in Nat

VARIABLES
    draft,         \* the saved draft, shared by the tabs
    intent,        \* the saved publication intent, shared by the tabs
    lock,          \* the tab that holds the publication lock
    tabs,          \* what each tab is doing
    notices,       \* tabs that were not yet told of a change of the draft
    drawn,         \* nonces that were drawn
    wires,         \* signed transactions that may still be included
    posts,         \* post accounts, by nonce
    sequence,      \* of the author's identity
    foreign        \* commands of the identity that came from elsewhere

browser == <<draft, intent, lock, tabs, notices, drawn>>
chain == <<posts, sequence, foreign>>
vars == <<browser, wires, chain>>

NoReceipt == [draft |-> Nothing, intent |-> Nothing]

(* A tab that shows a draft, and has a publication left to clean up. *)
Idle(view, cleanup) ==
    [pc |-> "idle", op |-> "none", view |-> view, before |-> NoReceipt, chosen |-> Nothing,
     sequence |-> 0, attempt |-> Nothing, cleanup |-> cleanup]

Wires(n) == {w \in wires : w.nonce = n}

-----------------------------------------------------------------------------
(* Storage, as a tab uses it. *)

Stored == [draft |-> draft, intent |-> intent]

(* The other tabs are told of a changed draft, some time later. *)
WriteDraft(t, x) ==
    /\ draft' = x
    /\ notices' = IF x = draft THEN notices ELSE notices \cup (Tabs \ {t})

(* persistTransition: the intent goes one stage on. *)
WriteIntent(stage) == intent' = [intent EXCEPT !.stage = stage]

Go(t, pc) == tabs' = [tabs EXCEPT ![t].pc = pc]

(* What the click asked for is over, and the lock is not held any more. *)
Return(t, view, cleanup) ==
    /\ lock' = IF lock = t THEN Nothing ELSE lock
    /\ tabs' = [tabs EXCEPT ![t] = Idle(view, cleanup)]

Holds(t, pc) == lock = t /\ tabs[t].pc = pc

-----------------------------------------------------------------------------
(* The composer. *)

Compose(t, x) ==
    /\ tabs[t].pc = "idle"
    /\ tabs[t].cleanup = NoReceipt
    /\ tabs' = [tabs EXCEPT ![t].view = x]
    /\ UNCHANGED <<draft, intent, lock, notices, drawn, wires, chain>>

(* A click: the stored pair is read, and the lock is requested.  A tab     *)
(* with a publication to clean up offers nothing else.                     *)
Click(t, op) ==
    /\ tabs[t].pc = "idle"
    /\ op = "save" => tabs[t].view # Nothing
    /\ op = "publish" => tabs[t].view # Nothing \/ (intent # Nothing /\ intent.stage = "finalized")
    /\ op = "cleanup" <=> tabs[t].cleanup # NoReceipt
    /\ tabs' = [tabs EXCEPT ![t].pc = "asking", ![t].op = op, ![t].before = Stored,
                            ![t].chosen = tabs[t].view]
    /\ UNCHANGED <<draft, intent, lock, notices, drawn, wires, chain>>

(* Mutant: the stored pair is not compared once the lock is granted. *)
GrantedUnchecked(t, op) ==
    /\ tabs[t].pc = "asking"
    /\ tabs[t].op = op
    /\ lock = Nothing

(* The lock is granted at once or not at all, and only if nothing changed  *)
(* since the click.                                                        *)
Granted(t, op) ==
    /\ tabs[t].pc = "asking"
    /\ tabs[t].op = op
    /\ lock = Nothing
    /\ tabs[t].before = Stored

Refuse(t) ==
    /\ tabs[t].pc = "asking"
    /\ Return(t, tabs[t].view, tabs[t].cleanup)
    /\ UNCHANGED <<draft, intent, notices, drawn, wires, chain>>

(* Mutant: a draft is saved whether or not an intent is bound to the one. *)
SaveOverIntent(t) ==
    /\ Granted(t, "save")
    /\ WriteDraft(t, tabs[t].chosen)
    /\ Return(t, tabs[t].view, tabs[t].cleanup)
    /\ UNCHANGED <<intent, drawn, wires, chain>>

SaveLockedDraft(t) ==
    /\ Granted(t, "save")
    /\ intent = Nothing
    /\ WriteDraft(t, tabs[t].chosen)
    /\ Return(t, tabs[t].view, tabs[t].cleanup)
    /\ UNCHANGED <<intent, drawn, wires, chain>>

DiscardLockedDraft(t) ==
    /\ Granted(t, "discard")
    /\ intent = Nothing
    /\ WriteDraft(t, Nothing)
    /\ Return(t, Nothing, NoReceipt)
    /\ UNCHANGED <<intent, drawn, wires, chain>>

Select(t, x) ==
    tabs' = [tabs EXCEPT ![t].pc = "selected", ![t].chosen = x, ![t].before = NoReceipt]

(* selectLockedPublicationState: a saved intent wins over what the tab     *)
(* shows; without one, what the tab shows is saved first.                  *)
SelectLockedState(t) ==
    /\ Granted(t, "publish")
    /\ \/ /\ intent = Nothing
          /\ WriteDraft(t, tabs[t].chosen)
          /\ Select(t, tabs[t].chosen)
       \/ /\ intent # Nothing
          /\ \/ draft = Nothing /\ intent.stage = "finalized"
             \/ draft = intent.text
          /\ Select(t, draft)
          /\ UNCHANGED <<draft, notices>>
    /\ lock' = t
    /\ UNCHANGED <<intent, drawn, wires, chain>>

-----------------------------------------------------------------------------
(* publishLocalnetTextPost. *)

(* The identity is read, and the indexer has caught up with it. *)
ReadIdentity(t) ==
    /\ Holds(t, "selected")
    /\ tabs' = [tabs EXCEPT ![t].pc = "identified", ![t].sequence = sequence]
    /\ UNCHANGED <<draft, intent, lock, notices, drawn, wires, chain>>

(* Mutant: the nonce of an intent is drawn again when it is resumed. *)
PrepareAnew(t) ==
    /\ Holds(t, "identified")
    /\ \E n \in Nonces \ drawn :
         /\ drawn' = drawn \cup {n}
         /\ intent' = [stage |-> "prepared", nonce |-> n, text |-> tabs[t].chosen,
                       expected |-> tabs[t].sequence, evidence |-> Nothing]
    /\ tabs' = [tabs EXCEPT ![t].pc = "prepared", ![t].sequence = 0]
    /\ UNCHANGED <<draft, lock, notices, wires, chain>>

(* An intent is resumed as it is; a new one gets a nonce of its own.       *)
PreparePostPublicationIntent(t) ==
    /\ Holds(t, "identified")
    /\ \/ /\ intent # Nothing
          /\ UNCHANGED <<intent, drawn>>
       \/ /\ intent = Nothing
          /\ \E n \in Nonces \ drawn :
               /\ drawn' = drawn \cup {n}
               /\ intent' = [stage |-> "prepared", nonce |-> n, text |-> tabs[t].chosen,
                             expected |-> tabs[t].sequence, evidence |-> Nothing]
    /\ tabs' = [tabs EXCEPT ![t].pc = "prepared", ![t].sequence = 0]
    /\ UNCHANGED <<draft, lock, notices, wires, chain>>

RecordSignedPostEnvelope(t) ==
    /\ Holds(t, "prepared")
    /\ IF intent.stage = "prepared" THEN WriteIntent("signed") ELSE UNCHANGED intent
    /\ Go(t, "signed")
    /\ UNCHANGED <<draft, lock, notices, drawn, wires, chain>>

(* The content is stored again, whatever the stage. *)
RecordPostStorageReceipt(t) ==
    /\ Holds(t, "signed")
    /\ IF intent.stage = "signed" THEN WriteIntent("stored") ELSE UNCHANGED intent
    /\ Go(t, "stored")
    /\ UNCHANGED <<draft, lock, notices, drawn, wires, chain>>

(* reconcileWokePostPublication: the post may have landed already; if not, *)
(* the identity must be as it was when the intent was prepared.            *)
ReconcilePost(t) ==
    /\ Holds(t, "stored")
    /\ \/ posts[intent.nonce] # Nothing /\ Go(t, "existing")
       \/ /\ posts[intent.nonce] = Nothing
          /\ intent.stage # "finalized"
          /\ sequence = intent.expected
          /\ Go(t, "ready")
    /\ UNCHANGED <<draft, intent, lock, notices, drawn, wires, chain>>

(* Every submission is signed anew, and is a transaction of its own.       *)
SubmitPost(t, a) ==
    /\ Holds(t, "ready")
    /\ \A w \in Wires(intent.nonce) : w.attempt # a
    /\ posts[intent.nonce] # Nothing => a \notin posts[intent.nonce].mates
    /\ wires' = wires \cup {[nonce |-> intent.nonce, attempt |-> a, text |-> intent.text,
                             expected |-> intent.expected]}
    /\ tabs' = [tabs EXCEPT ![t].pc = "sent", ![t].attempt = a]
    /\ UNCHANGED <<draft, intent, lock, notices, drawn, chain>>

Final(n) == posts[n] # Nothing /\ posts[n].final

(* Mutant: a post that may still be rolled back is taken for published. *)
VerifyInclusion(t) ==
    /\ Holds(t, "sent")
    /\ posts[intent.nonce] # Nothing
    /\ posts[intent.nonce].creator = tabs[t].attempt
    /\ Go(t, "final")
    /\ UNCHANGED <<draft, intent, lock, notices, drawn, wires, chain>>

(* Its own transaction made the post.                                      *)
VerifyFinality(t) ==
    /\ Holds(t, "sent")
    /\ Final(intent.nonce)
    /\ posts[intent.nonce].creator = tabs[t].attempt
    /\ Go(t, "final")
    /\ UNCHANGED <<draft, intent, lock, notices, drawn, wires, chain>>

(* Mutant: the first transaction found in the slot is taken for the one. *)
RecoverFirst(t) ==
    /\ Holds(t, "existing")
    /\ Final(intent.nonce)
    /\ \/ /\ intent.stage = "finalized"
          /\ tabs' = [tabs EXCEPT ![t].pc = "final", ![t].attempt = intent.evidence]
       \/ /\ intent.stage # "finalized"
          /\ \E a \in posts[intent.nonce].mates :
               tabs' = [tabs EXCEPT ![t].pc = "final", ![t].attempt = a]
    /\ UNCHANGED <<draft, intent, lock, notices, drawn, wires, chain>>

(* recoverFinalizedPostTransaction: exactly one transaction names the post *)
(* in the slot in which it was made.  An intent that is finalized has its  *)
(* evidence.                                                               *)
RecoverTransaction(t) ==
    /\ Holds(t, "existing")
    /\ Final(intent.nonce)
    /\ \/ /\ intent.stage = "finalized"
          /\ tabs' = [tabs EXCEPT ![t].pc = "final", ![t].attempt = intent.evidence]
       \/ /\ intent.stage # "finalized"
          /\ \E a \in posts[intent.nonce].mates :
               /\ posts[intent.nonce].mates = {a}
               /\ tabs' = [tabs EXCEPT ![t].pc = "final", ![t].attempt = a]
    /\ UNCHANGED <<draft, intent, lock, notices, drawn, wires, chain>>

RecordFinalizedTransaction(t) ==
    /\ Holds(t, "final")
    /\ intent.stage = "finalized" => intent.evidence = tabs[t].attempt
    /\ intent' = [intent EXCEPT !.stage = "finalized", !.evidence = tabs[t].attempt]
    /\ tabs' = [tabs EXCEPT ![t].pc = "recorded", ![t].attempt = Nothing]
    /\ UNCHANGED <<draft, lock, notices, drawn, wires, chain>>

(* A step fails, is aborted or times out: the lock is given back, and the  *)
(* intent stays as it was last written.                                    *)
FailPublication(t) ==
    /\ lock = t
    /\ tabs[t].pc \in {"selected", "identified", "prepared", "signed", "stored", "existing",
                       "ready", "sent", "final", "recorded"}
    /\ tabs[t].op = "publish"
    /\ Return(t, tabs[t].view, NoReceipt)
    /\ UNCHANGED <<draft, intent, notices, drawn, wires, chain>>

-----------------------------------------------------------------------------
(* completeLockedFinalizedPublicationCleanup, once indexer and content are *)
(* verified, or when the user asks to finish it.                           *)

Published(t) ==
    IF tabs[t].op = "publish" THEN [draft |-> tabs[t].chosen, intent |-> intent]
    ELSE tabs[t].cleanup

(* Mutant: an equal draft is removed although the intent is retired. *)
CleanupEqualDraft(t) ==
    /\ Granted(t, "cleanup")
    /\ intent = Nothing
    /\ WriteDraft(t, IF draft = tabs[t].cleanup.draft THEN Nothing ELSE draft)
    /\ Return(t, draft, NoReceipt)
    /\ UNCHANGED <<intent, drawn, wires, chain>>

(* Another tab has retired the intent; the draft is not the published one. *)
CleanupDone(t) ==
    /\ Granted(t, "cleanup")
    /\ intent = Nothing
    /\ Return(t, draft, NoReceipt)
    /\ UNCHANGED <<draft, intent, notices, drawn, wires, chain>>

BeginCleanup(t) ==
    /\ Granted(t, "cleanup")
    /\ intent # Nothing
    /\ lock' = t
    /\ tabs' = [tabs EXCEPT ![t].pc = "recorded", ![t].before = NoReceipt]
    /\ UNCHANGED <<draft, intent, notices, drawn, wires, chain>>

ClearDraft(t) ==
    /\ Holds(t, "recorded")
    /\ Stored = Published(t)
    /\ WriteDraft(t, Nothing)
    /\ Go(t, "cleared")
    /\ UNCHANGED <<intent, lock, drawn, wires, chain>>

(* The pair differs from what was published, or the draft is not removed.  *)
KeepDraft(t) ==
    /\ Holds(t, "recorded")
    /\ Return(t, tabs[t].view, Published(t))
    /\ UNCHANGED <<draft, intent, notices, drawn, wires, chain>>

AcknowledgeIntent(t) ==
    /\ Holds(t, "cleared")
    /\ intent' = Nothing
    /\ Return(t, draft, NoReceipt)
    /\ UNCHANGED <<draft, notices, drawn, wires, chain>>

KeepIntent(t) ==
    /\ Holds(t, "cleared")
    /\ Return(t, IF tabs[t].op = "publish" THEN draft ELSE tabs[t].view,
              [draft |-> Nothing, intent |-> intent])
    /\ UNCHANGED <<draft, intent, notices, drawn, wires, chain>>

-----------------------------------------------------------------------------
(* The browser. *)

(* The storage event: the tab shows the draft that is stored by then.      *)
Notify(t) ==
    /\ t \in notices
    /\ notices' = notices \ {t}
    /\ tabs' = [tabs EXCEPT ![t].view = draft]
    /\ UNCHANGED <<draft, intent, lock, drawn, wires, chain>>

(* The tab is closed or crashes, and is opened anew; its lock is freed.    *)
Reload(t) ==
    /\ Return(t, draft, NoReceipt)
    /\ notices' = notices \ {t}
    /\ UNCHANGED <<draft, intent, drawn, wires, chain>>

-----------------------------------------------------------------------------
(* The chain. *)

(* A slot includes w, which makes the post, and others that come too late. *)
IncludePost(w) ==
    /\ posts[w.nonce] = Nothing
    /\ w.expected = sequence
    /\ sequence < MaxSequence
    /\ \E late \in SUBSET (Wires(w.nonce) \ {w}) :
         /\ posts' = [posts EXCEPT ![w.nonce] =
                [text |-> w.text, creator |-> w.attempt, final |-> FALSE,
                 mates |-> {v.attempt : v \in late \cup {w}}]]
         /\ wires' = wires \ (late \cup {w})
    /\ sequence' = sequence + 1
    /\ UNCHANGED <<browser, foreign>>

FinalizeSlot(n) ==
    /\ posts[n] # Nothing
    /\ posts' = [posts EXCEPT ![n].final = TRUE]
    /\ UNCHANGED <<browser, wires, sequence, foreign>>

(* A transaction is lost, expires, or fails in a later slot.               *)
DropWire(w) ==
    /\ wires' = wires \ {w}
    /\ UNCHANGED <<browser, chain>>

(* Another device of the same person acts for the identity.                *)
ActElsewhere ==
    /\ sequence < MaxSequence
    /\ sequence' = sequence + 1
    /\ foreign' = foreign + 1
    /\ UNCHANGED <<browser, wires, posts>>

-----------------------------------------------------------------------------
Init ==
    /\ draft = Nothing
    /\ intent = Nothing
    /\ lock = Nothing
    /\ tabs = [t \in Tabs |-> Idle(Nothing, NoReceipt)]
    /\ notices = {}
    /\ drawn = {}
    /\ wires = {}
    /\ posts = [n \in Nonces |-> Nothing]
    /\ sequence = 0
    /\ foreign = 0

Composer(t) ==
    \/ \E x \in Texts : Compose(t, x)
    \/ \E op \in Ops : Click(t, op)
    \/ Refuse(t) \/ SaveLockedDraft(t) \/ DiscardLockedDraft(t) \/ SelectLockedState(t)

Publish(t) ==
    \/ ReadIdentity(t) \/ PreparePostPublicationIntent(t) \/ RecordSignedPostEnvelope(t)
    \/ RecordPostStorageReceipt(t) \/ ReconcilePost(t) \/ (\E a \in Attempts : SubmitPost(t, a))
    \/ VerifyFinality(t) \/ RecoverTransaction(t) \/ RecordFinalizedTransaction(t)
    \/ FailPublication(t)

Cleanup(t) ==
    \/ CleanupDone(t) \/ BeginCleanup(t) \/ ClearDraft(t) \/ KeepDraft(t)
    \/ AcknowledgeIntent(t) \/ KeepIntent(t)

Next ==
    \/ \E t \in Tabs : Composer(t) \/ Publish(t) \/ Cleanup(t) \/ Notify(t) \/ Reload(t)
    \/ \E w \in wires : IncludePost(w) \/ DropWire(w)
    \/ \E n \in Nonces : FinalizeSlot(n)
    \/ ActElsewhere

Spec == Init /\ [][Next]_vars

-----------------------------------------------------------------------------
(* Properties. *)

(* Storage, tabs and chain hold values of their types. *)
TypeOK ==
    /\ draft \in Texts \cup {Nothing}
    /\ intent \in Intents \cup {Nothing}
    /\ lock \in Tabs \cup {Nothing}
    /\ tabs \in [Tabs -> TabRecords]
    /\ notices \subseteq Tabs
    /\ drawn \subseteq Nonces
    /\ wires \subseteq WireRecords
    /\ posts \in [Nonces -> PostRecords \cup {Nothing}]
    /\ sequence \in 0 .. MaxSequence
    /\ foreign \in Nat

(* A finalized intent names the transaction that made its final post, also *)
(* when the tab that sent it never heard of it and another recovered it.   *)
EvidenceExact ==
    intent # Nothing /\ intent.stage = "finalized" =>
        Final(intent.nonce) /\ posts[intent.nonce].creator = intent.evidence

(* Unless another device acts for the identity, an intent whose post is    *)
(* not on the chain can still be published: what this browser signed       *)
(* before, and may land late, never takes the sequence it needs.           *)
Resumable ==
    foreign = 0 /\ intent # Nothing /\ posts[intent.nonce] = Nothing =>
        intent.expected = sequence

(* Nothing that was signed is forgotten too early: a transaction that may  *)
(* still make a post, and a post that is not final yet, are those of the   *)
(* stored intent, so that whichever tab resumes it looks for them.  An     *)
(* intent that was dropped or replaced before would leave a post nobody    *)
(* accounts for, and publish its text twice.                               *)
NothingForgotten ==
    /\ \A w \in wires : posts[w.nonce] = Nothing => intent # Nothing /\ intent.nonce = w.nonce
    /\ \A n \in Nonces :
          posts[n] # Nothing /\ ~Final(n) => intent # Nothing /\ intent.nonce = n

(* A saved draft goes away only when a user discards it, or after its own  *)
(* post is final; never because an equal draft was published.              *)
DraftSurvives ==
    [][draft # Nothing /\ draft' = Nothing =>
         \/ \E t \in Tabs : tabs[t].pc = "asking" /\ tabs[t].op = "discard" /\ tabs'[t].pc = "idle"
         \/ intent # Nothing /\ intent.text = draft /\ Final(intent.nonce)]_vars

Desk == INSTANCE Outbox WITH
    desk <- draft,
    bound <- IF intent = Nothing THEN Nothing
             ELSE [nonce |-> intent.nonce, text |-> intent.text],
    feed <- [n \in Nonces |-> IF posts[n] = Nothing THEN Nothing ELSE posts[n].text]

(* Crashes, lost answers, retries and other tabs come down to one outbox:  *)
(* a publication is bound to one draft and one post, is never given up     *)
(* before that post is on the chain, and nothing else is posted.           *)
ImplementsOutbox == Desk!Spec

(* What the lock promises: a click made on a draft that another tab has    *)
(* changed since does not write the stored draft.                          *)
StaleClickRefused ==
    [][\A t \in Tabs : tabs[t].pc = "asking" /\ tabs'[t].pc # "asking" /\ t \in notices
         => draft' = draft]_vars
=============================================================================
