----------------------- MODULE PostPublication_proofs -----------------------
(***************************************************************************)
(* Proofs about module PostPublication.                                    *)
(***************************************************************************)
EXTENDS PostPublication, TLAPS

Working == {"selected", "identified", "prepared", "signed", "stored", "existing", "ready",
            "sent", "final", "recorded", "cleared"}

(* What a tab knows of the shared state, by the step it is at.  Only the   *)
(* tab with the lock works, so that no other one can make it untrue.       *)
HoldsLock(t) == lock = t <=> tabs[t].pc \in Working

ClickSound(t) ==
    tabs[t].pc = "asking" =>
        /\ tabs[t].op \in Ops
        /\ tabs[t].op = "save" => tabs[t].chosen # Nothing
        /\ tabs[t].op = "publish" => tabs[t].chosen # Nothing \/ tabs[t].before.intent # Nothing

Publishing(t) ==
    tabs[t].pc \in Working \ {"recorded", "cleared"} => tabs[t].op = "publish"

DraftChosen(t) ==
    /\ tabs[t].pc \in Working \ {"cleared"} /\ tabs[t].op = "publish" => tabs[t].chosen = draft
    /\ tabs[t].pc \in {"selected", "identified"} /\ intent = Nothing => draft # Nothing

SequenceRead(t) ==
    tabs[t].pc = "identified" /\ intent = Nothing /\ foreign = 0 => tabs[t].sequence = sequence

IntentHeld(t) ==
    /\ tabs[t].pc \in Working \ {"selected", "identified"} => intent # Nothing
    /\ tabs[t].pc = "final" =>
          Final(intent.nonce) /\ posts[intent.nonce].creator = tabs[t].attempt
    /\ tabs[t].pc = "sent" => tabs[t].attempt \in Attempts
    /\ tabs[t].pc = "recorded" /\ tabs[t].op = "publish" => intent.stage = "finalized"
    /\ tabs[t].pc = "cleared" => draft = Nothing /\ intent.stage = "finalized"

CleanupSound(t) ==
    \/ tabs[t].cleanup = NoReceipt
    \/ tabs[t].cleanup.intent # Nothing /\ tabs[t].cleanup.intent.stage = "finalized"

TabSound(t) ==
    HoldsLock(t) /\ ClickSound(t) /\ Publishing(t) /\ DraftChosen(t) /\ SequenceRead(t)
    /\ IntentHeld(t) /\ CleanupSound(t)

(* A bound draft is the text of the intent until the post is final. *)
DraftBound ==
    intent # Nothing =>
        \/ draft = intent.text
        \/ draft = Nothing /\ intent.stage = "finalized"

(* What was signed and did not make a post yet would make the intent's.    *)
WiresOwned ==
    \A w \in wires :
        /\ w.nonce \in drawn
        /\ posts[w.nonce] = Nothing => intent # Nothing /\ w.nonce = intent.nonce
        /\ intent # Nothing /\ w.nonce = intent.nonce =>
              w.text = intent.text /\ w.expected = intent.expected

PostsOwned ==
    /\ \A n \in Nonces : posts[n] # Nothing => n \in drawn /\ posts[n].creator \in posts[n].mates
    /\ intent # Nothing => intent.nonce \in drawn
    /\ intent # Nothing /\ posts[intent.nonce] # Nothing => posts[intent.nonce].text = intent.text

IInv ==
    TypeOK /\ DraftBound /\ WiresOwned /\ PostsOwned /\ EvidenceExact /\ Resumable
    /\ \A t \in Tabs : TabSound(t)

-----------------------------------------------------------------------------
LEMMA InitHolds ==
    ASSUME Init
    PROVE  IInv
<1>1. NoReceipt \in Receipts
  BY DEF NoReceipt, Receipts
<1>2. Idle(Nothing, NoReceipt) \in TabRecords
  BY <1>1, SequenceAssumption DEF Idle, TabRecords
<1>3. TypeOK
  BY <1>2, SequenceAssumption DEF TypeOK, Init
<1>4. ASSUME NEW t \in Tabs PROVE TabSound(t)
  <2>1. tabs[t] = Idle(Nothing, NoReceipt) /\ lock # t
    BY NothingAssumption DEF Init
  <2>. QED
    BY <2>1 DEF Idle, TabSound, HoldsLock, ClickSound, Publishing, DraftChosen, SequenceRead,
       IntentHeld, CleanupSound, Working
<1>. QED
  BY <1>3, <1>4 DEF IInv, Init, DraftBound, WiresOwned, PostsOwned, EvidenceExact, Resumable

(* The other tabs do not work while t takes, has or returns the lock. *)
LEMMA OthersIdle ==
    ASSUME IInv, TypeOK', NEW t \in Tabs, NEW u \in Tabs, u # t, tabs'[u] = tabs[u],
           lock \in {t, Nothing}, lock' \in {t, Nothing}
    PROVE  TabSound(u)'
<1>1. lock # u /\ lock' # u
  BY NothingAssumption
<1>2. tabs[u].pc \notin Working
  BY <1>1 DEF IInv, TabSound, HoldsLock
<1>3. ClickSound(u) /\ CleanupSound(u)
  BY DEF IInv, TabSound
<1>. QED
  BY <1>1, <1>2, <1>3 DEF TabSound, HoldsLock, ClickSound, Publishing, DraftChosen, SequenceRead,
     IntentHeld, CleanupSound, Working

(* A step of t that leaves storage and chain alone keeps what others know. *)
LEMMA OthersUndisturbed ==
    ASSUME IInv, NEW t \in Tabs, NEW u \in Tabs, u # t, tabs'[u] = tabs[u],
           UNCHANGED <<draft, intent, chain>>, lock' = u <=> lock = u
    PROVE  TabSound(u)'
<1>1. TabSound(u)
  BY DEF IInv
<1>. QED
  BY <1>1 DEF TabSound, HoldsLock, ClickSound, Publishing, DraftChosen, SequenceRead,
     IntentHeld, CleanupSound, Final, chain

(* Such a step keeps all that is said of storage and chain. *)
LEMMA SharedUndisturbed ==
    ASSUME IInv, UNCHANGED <<draft, intent, drawn, wires, chain>>
    PROVE  DraftBound' /\ WiresOwned' /\ PostsOwned' /\ EvidenceExact' /\ Resumable'
BY DEF IInv, DraftBound, WiresOwned, PostsOwned, EvidenceExact, Resumable, Final, chain

LEMMA ComposeKeeps ==
    ASSUME NEW t \in Tabs, NEW x \in Texts, IInv, Compose(t, x)
    PROVE  IInv'
<1>. DEFINE r == [tabs[t] EXCEPT !.view = x]
<1>1. r \in TabRecords /\ tabs' = [tabs EXCEPT ![t] = r]
  BY DEF IInv, TypeOK, TabRecords, Compose
<1>2. TypeOK'
  BY <1>1 DEF IInv, TypeOK, Compose, chain
<1>3. TabSound(t)'
  BY DEF IInv, TypeOK, TabRecords, Compose, TabSound, HoldsLock, ClickSound, Publishing, DraftChosen, SequenceRead,
     IntentHeld, CleanupSound, Working
<1>4. ASSUME NEW u \in Tabs, u # t PROVE TabSound(u)'
  BY <1>4, OthersUndisturbed DEF IInv, TypeOK, Compose, chain
<1>. QED
  BY <1>2, <1>3, <1>4, SharedUndisturbed DEF IInv, Compose

LEMMA ClickKeeps ==
    ASSUME NEW t \in Tabs, NEW op \in Ops, IInv, Click(t, op)
    PROVE  IInv'
<1>. DEFINE r == [tabs[t] EXCEPT !.pc = "asking", !.op = op, !.before = Stored,
                                 !.chosen = tabs[t].view]
<1>1. Stored \in Receipts /\ "asking" \notin Working
  BY DEF IInv, TypeOK, Stored, Receipts, Working
<1>2. tabs[t] \in TabRecords /\ tabs[t].view \in Texts \cup {Nothing}
  BY DEF IInv, TypeOK, TabRecords
<1>a. r \in TabRecords
  BY <1>1, <1>2 DEF TabRecords
<1>b. tabs' = [tabs EXCEPT ![t] = r]
  BY DEF IInv, TypeOK, Click
<1>c. tabs' \in [Tabs -> TabRecords]
  BY <1>a, <1>b DEF IInv, TypeOK
<1>3. TypeOK'
  BY <1>c DEF IInv, TypeOK, Click, chain
<1>4. TabSound(t)'
  BY DEF IInv, TypeOK, TabRecords, Click, TabSound, HoldsLock, ClickSound, Publishing, DraftChosen, SequenceRead,
     IntentHeld, CleanupSound, Working, Stored
<1>5. ASSUME NEW u \in Tabs, u # t PROVE TabSound(u)'
  BY <1>5, OthersUndisturbed DEF IInv, TypeOK, Click, chain
<1>. QED
  BY <1>3, <1>4, <1>5, SharedUndisturbed DEF IInv, Click

(* A tab that returns, and knows nothing of the shared state any more. *)
LEMMA ReturnSound ==
    ASSUME IInv, NEW t \in Tabs, NEW view \in Texts \cup {Nothing}, NEW cleanup \in Receipts,
           cleanup = NoReceipt \/ (cleanup.intent # Nothing /\ cleanup.intent.stage = "finalized"),
           Return(t, view, cleanup)
    PROVE  /\ tabs' \in [Tabs -> TabRecords]
           /\ lock' \in Tabs \cup {Nothing}
           /\ TabSound(t)'
           /\ \A u \in Tabs : u # t => tabs'[u] = tabs[u] /\ (lock' = u <=> lock = u)
<1>1. NoReceipt \in Receipts
  BY DEF NoReceipt, Receipts
<1>2. Idle(view, cleanup) \in TabRecords
  BY <1>1, SequenceAssumption DEF Idle, TabRecords
<1>3. tabs' = [tabs EXCEPT ![t] = Idle(view, cleanup)] /\ lock' = IF lock = t THEN Nothing ELSE lock
  BY DEF Return
<1>4. tabs' \in [Tabs -> TabRecords] /\ lock' \in Tabs \cup {Nothing}
  BY <1>2, <1>3 DEF IInv, TypeOK
<1>5. tabs'[t] = Idle(view, cleanup) /\ lock' # t
  BY <1>3, NothingAssumption DEF IInv, TypeOK
<1>6. TabSound(t)'
  BY <1>5 DEF Idle, TabSound, HoldsLock, ClickSound, Publishing, DraftChosen, SequenceRead,
     IntentHeld, CleanupSound, Working
<1>7. \A u \in Tabs : u # t => tabs'[u] = tabs[u] /\ (lock' = u <=> lock = u)
  BY <1>3, NothingAssumption DEF IInv, TypeOK
<1>. QED
  BY <1>4, <1>6, <1>7

LEMMA QuietReturn ==
    ASSUME IInv, NEW t \in Tabs, NEW view \in Texts \cup {Nothing}, NEW cleanup \in Receipts,
           cleanup = NoReceipt \/ (cleanup.intent # Nothing /\ cleanup.intent.stage = "finalized"),
           Return(t, view, cleanup),
           notices' \subseteq Tabs, UNCHANGED <<draft, intent, drawn, wires, chain>>
    PROVE  IInv'
<1>1. /\ tabs' \in [Tabs -> TabRecords]
      /\ lock' \in Tabs \cup {Nothing}
      /\ TabSound(t)'
      /\ \A u \in Tabs : u # t => tabs'[u] = tabs[u] /\ (lock' = u <=> lock = u)
  BY ReturnSound
<1>2. TypeOK'
  BY <1>1 DEF IInv, TypeOK, chain
<1>3. ASSUME NEW u \in Tabs, u # t PROVE TabSound(u)'
  BY <1>1, <1>3, OthersUndisturbed
<1>. QED
  BY <1>1, <1>2, <1>3, SharedUndisturbed DEF IInv

LEMMA CleanupTyped ==
    ASSUME IInv, NEW t \in Tabs
    PROVE  /\ tabs[t] \in TabRecords
           /\ tabs[t].view \in Texts \cup {Nothing}
           /\ tabs[t].chosen \in Texts \cup {Nothing}
           /\ tabs[t].cleanup \in Receipts
           /\ \/ tabs[t].cleanup = NoReceipt
              \/ tabs[t].cleanup.intent # Nothing /\ tabs[t].cleanup.intent.stage = "finalized"
           /\ NoReceipt \in Receipts
           /\ TabSound(t)
BY DEF IInv, TypeOK, TabRecords, TabSound, CleanupSound, NoReceipt, Receipts

LEMMA RefuseKeeps ==
    ASSUME NEW t \in Tabs, IInv, Refuse(t)
    PROVE  IInv'
BY CleanupTyped, QuietReturn DEF Refuse, IInv, TypeOK

LEMMA FailKeeps ==
    ASSUME NEW t \in Tabs, IInv, FailPublication(t)
    PROVE  IInv'
BY CleanupTyped, QuietReturn DEF FailPublication, IInv, TypeOK

LEMMA CleanupDoneKeeps ==
    ASSUME NEW t \in Tabs, IInv, CleanupDone(t)
    PROVE  IInv'
BY CleanupTyped, QuietReturn DEF CleanupDone, IInv, TypeOK

LEMMA ReloadKeeps ==
    ASSUME NEW t \in Tabs, IInv, Reload(t)
    PROVE  IInv'
BY CleanupTyped, QuietReturn DEF Reload, IInv, TypeOK

LEMMA KeepDraftKeeps ==
    ASSUME NEW t \in Tabs, IInv, KeepDraft(t)
    PROVE  IInv'
<1>1. Published(t) \in Receipts
  BY CleanupTyped DEF Published, Receipts, IInv, TypeOK
<1>2. Published(t) = NoReceipt
      \/ (Published(t).intent # Nothing /\ Published(t).intent.stage = "finalized")
  <2>1. CASE tabs[t].op = "publish"
    <3>1. intent # Nothing /\ intent.stage = "finalized"
      BY <2>1, CleanupTyped DEF KeepDraft, Holds, TabSound, IntentHeld, Working
    <3>. QED
      BY <2>1, <3>1 DEF Published
  <2>2. CASE tabs[t].op # "publish"
    BY <2>2, CleanupTyped DEF Published
  <2>. QED
    BY <2>1, <2>2
<1>. QED
  BY <1>1, <1>2, CleanupTyped, QuietReturn DEF KeepDraft, IInv, TypeOK

LEMMA KeepIntentKeeps ==
    ASSUME NEW t \in Tabs, IInv, KeepIntent(t)
    PROVE  IInv'
<1>. DEFINE left == [draft |-> Nothing, intent |-> intent]
            view == IF tabs[t].op = "publish" THEN draft ELSE tabs[t].view
<1>1. left \in Receipts /\ view \in Texts \cup {Nothing}
  BY CleanupTyped DEF Receipts, IInv, TypeOK
<1>2. left.intent # Nothing /\ left.intent.stage = "finalized"
  BY CleanupTyped DEF KeepIntent, Holds, TabSound, IntentHeld, Working
<1>3. Return(t, view, left) /\ notices' = notices
  BY DEF KeepIntent
<1>. QED
  BY <1>1, <1>2, <1>3, QuietReturn DEF KeepIntent, IInv, TypeOK

-----------------------------------------------------------------------------
(* The tab with the lock goes on. *)

(* What a step of the tab with the lock has to show. *)
LEMMA WorkKeeps ==
    ASSUME IInv, NEW t \in Tabs, NEW r \in TabRecords, tabs' = [tabs EXCEPT ![t] = r],
           lock \in {t, Nothing}, lock' \in {t, Nothing}, notices' \subseteq Tabs,
           draft' \in Texts \cup {Nothing}, intent' \in Intents \cup {Nothing},
           drawn' \subseteq Nonces, wires' \subseteq WireRecords, UNCHANGED chain,
           DraftBound', WiresOwned', PostsOwned', EvidenceExact', Resumable', TabSound(t)'
    PROVE  IInv'
<1>1. tabs' \in [Tabs -> TabRecords]
  BY DEF IInv, TypeOK
<1>2. TypeOK'
  BY <1>1 DEF IInv, TypeOK, chain
<1>3. ASSUME NEW u \in Tabs, u # t PROVE TabSound(u)'
  BY <1>2, <1>3, OthersIdle DEF IInv, TypeOK
<1>. QED
  BY <1>2, <1>3 DEF IInv

(* The same for a step that changes nothing but the tab. *)
LEMMA QuietWork ==
    ASSUME IInv, NEW t \in Tabs, NEW r \in TabRecords, tabs' = [tabs EXCEPT ![t] = r],
           lock \in {t, Nothing}, lock' = t,
           UNCHANGED <<draft, intent, notices, drawn, wires, chain>>, TabSound(t)'
    PROVE  IInv'
BY WorkKeeps, SharedUndisturbed DEF IInv, TypeOK

(* The record of a tab after a step, and what the step has to show of it.  *)
LEMMA TabOf ==
    ASSUME IInv, NEW t \in Tabs, NEW r, tabs' = [tabs EXCEPT ![t] = r]
    PROVE  tabs'[t] = r
BY DEF IInv, TypeOK

LEMMA ReadIdentityKeeps ==
    ASSUME NEW t \in Tabs, IInv, ReadIdentity(t)
    PROVE  IInv'
<1>. DEFINE r == [tabs[t] EXCEPT !.pc = "identified", !.sequence = sequence]
<1>1. tabs[t] \in TabRecords /\ TabSound(t) /\ lock = t
  BY CleanupTyped DEF ReadIdentity, Holds
<1>2. r \in TabRecords
  BY <1>1 DEF ReadIdentity, IInv, TypeOK, TabRecords
<1>3. tabs' = [tabs EXCEPT ![t] = r]
  BY DEF ReadIdentity, Go, IInv, TypeOK
<1>4. tabs'[t] = r
  BY <1>3, TabOf
<1>5. TabSound(t)'
  BY <1>1, <1>4 DEF ReadIdentity, Holds, IInv, TypeOK, chain, Final, EvidenceExact, PostsOwned,
     TabRecords, TabSound, HoldsLock, ClickSound, Publishing, DraftChosen, SequenceRead, IntentHeld,
     CleanupSound, Working
<1>. QED
  BY <1>1, <1>2, <1>3, <1>5, QuietWork DEF ReadIdentity

LEMMA VerifyFinalityKeeps ==
    ASSUME NEW t \in Tabs, IInv, VerifyFinality(t)
    PROVE  IInv'
<1>. DEFINE r == [tabs[t] EXCEPT !.pc = "final"]
<1>1. tabs[t] \in TabRecords /\ TabSound(t) /\ lock = t
  BY CleanupTyped DEF VerifyFinality, Holds
<1>2. r \in TabRecords
  BY <1>1 DEF VerifyFinality, IInv, TypeOK, TabRecords
<1>3. tabs' = [tabs EXCEPT ![t] = r]
  BY DEF VerifyFinality, Go, IInv, TypeOK
<1>4. tabs'[t] = r
  BY <1>3, TabOf
<1>5. TabSound(t)'
  BY <1>1, <1>4 DEF VerifyFinality, Holds, IInv, TypeOK, chain, Final, EvidenceExact, PostsOwned,
     TabRecords, TabSound, HoldsLock, ClickSound, Publishing, DraftChosen, SequenceRead, IntentHeld,
     CleanupSound, Working
<1>. QED
  BY <1>1, <1>2, <1>3, <1>5, QuietWork DEF VerifyFinality

LEMMA ReconcilePostKeeps ==
    ASSUME NEW t \in Tabs, IInv, ReconcilePost(t)
    PROVE  IInv'
<1>1. PICK pc \in {"existing", "ready"} : Go(t, pc)
  BY DEF ReconcilePost
<1>. DEFINE r == [tabs[t] EXCEPT !.pc = pc]
<1>2. tabs[t] \in TabRecords /\ TabSound(t) /\ lock = t
  BY CleanupTyped DEF ReconcilePost, Holds
<1>3. r \in TabRecords
  BY <1>2 DEF TabRecords
<1>4. tabs' = [tabs EXCEPT ![t] = r]
  BY <1>1 DEF Go, IInv, TypeOK
<1>5. tabs'[t] = r
  BY <1>4, TabOf
<1>6. TabSound(t)'
  BY <1>2, <1>5 DEF ReconcilePost, Holds, IInv, TypeOK, chain, TabRecords, TabSound, HoldsLock, ClickSound, Publishing, DraftChosen, SequenceRead, IntentHeld,
     CleanupSound, Working
<1>. QED
  BY <1>2, <1>3, <1>4, <1>6, QuietWork DEF ReconcilePost

LEMMA RecoverTransactionKeeps ==
    ASSUME NEW t \in Tabs, IInv, RecoverTransaction(t)
    PROVE  IInv'
<1>1. tabs[t] \in TabRecords /\ TabSound(t) /\ lock = t /\ intent # Nothing
  BY CleanupTyped DEF RecoverTransaction, Holds, TabSound, IntentHeld, Working
<1>2. intent \in Intents /\ posts[intent.nonce] \in PostRecords
  BY <1>1 DEF IInv, TypeOK, RecoverTransaction, Final, Intents
<1>3. PICK a : /\ tabs' = [tabs EXCEPT ![t].pc = "final", ![t].attempt = a]
               /\ a \in Attempts
               /\ Final(intent.nonce) /\ posts[intent.nonce].creator = a
  <2>1. CASE intent.stage = "finalized"
    BY <1>1, <1>2, <2>1 DEF RecoverTransaction, IInv, EvidenceExact, PostRecords
  <2>2. CASE intent.stage # "finalized"
    BY <1>1, <1>2, <2>2 DEF RecoverTransaction, IInv, PostsOwned, PostRecords, Final, Intents
  <2>. QED
    BY <2>1, <2>2
<1>. DEFINE r == [tabs[t] EXCEPT !.pc = "final", !.attempt = a]
<1>4. r \in TabRecords
  BY <1>1, <1>3 DEF TabRecords
<1>5. tabs' = [tabs EXCEPT ![t] = r]
  BY <1>3 DEF IInv, TypeOK
<1>6. tabs'[t] = r
  BY <1>5, TabOf
<1>7. /\ tabs'[t].pc = "final" /\ tabs'[t].attempt = a /\ tabs'[t].op = tabs[t].op
      /\ tabs'[t].chosen = tabs[t].chosen /\ tabs'[t].cleanup = tabs[t].cleanup
  BY <1>1, <1>6 DEF TabRecords
<1>8. UNCHANGED <<draft, intent, lock, posts>> /\ tabs[t].pc = "existing"
  BY DEF RecoverTransaction, Holds, chain
<1>9. TabSound(t)'
  BY <1>1, <1>3, <1>7, <1>8 DEF Final, TabSound, HoldsLock, ClickSound, Publishing, DraftChosen, SequenceRead, IntentHeld,
     CleanupSound, Working
<1>. QED
  BY <1>1, <1>4, <1>5, <1>9, QuietWork DEF RecoverTransaction

LEMMA BeginCleanupKeeps ==
    ASSUME NEW t \in Tabs, IInv, BeginCleanup(t)
    PROVE  IInv'
<1>. DEFINE r == [tabs[t] EXCEPT !.pc = "recorded", !.before = NoReceipt]
<1>1. tabs[t] \in TabRecords /\ TabSound(t) /\ lock = Nothing /\ tabs[t].op = "cleanup"
  BY CleanupTyped DEF BeginCleanup, Granted
<1>2. r \in TabRecords
  BY <1>1, CleanupTyped DEF TabRecords
<1>3. tabs' = [tabs EXCEPT ![t] = r]
  BY DEF BeginCleanup, IInv, TypeOK
<1>4. tabs'[t] = r
  BY <1>3, TabOf
<1>a. /\ tabs'[t].pc = "recorded" /\ tabs'[t].op = "cleanup" /\ tabs'[t].cleanup = tabs[t].cleanup
  BY <1>1, <1>4 DEF TabRecords
<1>b. lock' = t /\ intent' # Nothing
  BY DEF BeginCleanup
<1>5. TabSound(t)'
  BY <1>1, <1>a, <1>b DEF TabSound, HoldsLock, ClickSound, Publishing, DraftChosen, SequenceRead, IntentHeld,
     CleanupSound, Working
<1>. QED
  BY <1>1, <1>2, <1>3, <1>5, QuietWork DEF BeginCleanup

LEMMA NotifyKeeps ==
    ASSUME NEW t \in Tabs, IInv, Notify(t)
    PROVE  IInv'
<1>. DEFINE r == [tabs[t] EXCEPT !.view = draft]
<1>1. tabs[t] \in TabRecords /\ TabSound(t)
  BY CleanupTyped
<1>2. r \in TabRecords
  BY <1>1 DEF TabRecords, IInv, TypeOK
<1>3. tabs' = [tabs EXCEPT ![t] = r]
  BY DEF Notify, IInv, TypeOK
<1>4. tabs'[t] = r
  BY <1>3, TabOf
<1>5. TypeOK'
  BY <1>2, <1>3 DEF Notify, IInv, TypeOK, chain
<1>6. TabSound(t)'
  BY <1>1, <1>4 DEF Notify, chain, Final, TabRecords, TabSound, HoldsLock, ClickSound, Publishing, DraftChosen, SequenceRead, IntentHeld,
     CleanupSound, Working
<1>7. ASSUME NEW u \in Tabs, u # t PROVE TabSound(u)'
  BY <1>7, OthersUndisturbed DEF Notify, IInv, TypeOK
<1>. QED
  BY <1>5, <1>6, <1>7, SharedUndisturbed DEF Notify, IInv

-----------------------------------------------------------------------------
(* The draft is written. *)

LEMMA DraftWritten ==
    ASSUME IInv, intent = Nothing, UNCHANGED <<intent, drawn, wires, chain>>
    PROVE  DraftBound' /\ WiresOwned' /\ PostsOwned' /\ EvidenceExact' /\ Resumable'
BY DEF IInv, DraftBound, WiresOwned, PostsOwned, EvidenceExact, Resumable, Final, chain

LEMMA WriteTyped ==
    ASSUME IInv, NEW t \in Tabs, NEW x \in Texts \cup {Nothing}, WriteDraft(t, x)
    PROVE  draft' \in Texts \cup {Nothing} /\ notices' \subseteq Tabs
BY DEF WriteDraft, IInv, TypeOK

LEMMA WriteAndReturnKeeps ==
    ASSUME IInv, NEW t \in Tabs, NEW x \in Texts \cup {Nothing},
           NEW view \in Texts \cup {Nothing}, NEW cleanup \in Receipts,
           cleanup = NoReceipt \/ (cleanup.intent # Nothing /\ cleanup.intent.stage = "finalized"),
           lock = Nothing, intent = Nothing, WriteDraft(t, x), Return(t, view, cleanup),
           UNCHANGED <<intent, drawn, wires, chain>>
    PROVE  IInv'
<1>. DEFINE r == Idle(view, cleanup)
<1>1. r \in TabRecords
  <2>1. NoReceipt \in Receipts
    BY CleanupTyped
  <2>. QED
    BY <2>1, SequenceAssumption DEF Idle, TabRecords
<1>2. tabs' = [tabs EXCEPT ![t] = r] /\ lock' = Nothing
  BY NothingAssumption DEF Return
<1>3. TabSound(t)'
  BY ReturnSound
<1>. QED
  BY <1>1, <1>2, <1>3, DraftWritten, WriteTyped, WorkKeeps DEF IInv, TypeOK

LEMMA SaveKeeps ==
    ASSUME NEW t \in Tabs, IInv, SaveLockedDraft(t)
    PROVE  IInv'
BY CleanupTyped, WriteAndReturnKeeps DEF SaveLockedDraft, Granted

LEMMA DiscardKeeps ==
    ASSUME NEW t \in Tabs, IInv, DiscardLockedDraft(t)
    PROVE  IInv'
BY CleanupTyped, WriteAndReturnKeeps DEF DiscardLockedDraft, Granted

LEMMA SelectKeeps ==
    ASSUME NEW t \in Tabs, IInv, SelectLockedState(t)
    PROVE  IInv'
<1>1. /\ tabs[t] \in TabRecords /\ TabSound(t) /\ lock = Nothing
      /\ tabs[t].pc = "asking" /\ tabs[t].op = "publish" /\ tabs[t].before = Stored
  BY CleanupTyped DEF SelectLockedState, Granted
<1>2. PICK x \in Texts \cup {Nothing} : Select(t, x) /\ draft' = x
      /\ (intent = Nothing => x # Nothing /\ WriteDraft(t, x))
      /\ (intent # Nothing => UNCHANGED <<draft, notices>>)
  <2>1. CASE intent = Nothing
    <3>1. tabs[t].chosen # Nothing
      BY <1>1, <2>1 DEF TabSound, ClickSound, Stored
    <3>. QED
      BY <2>1, <3>1, CleanupTyped DEF SelectLockedState, WriteDraft
  <2>2. CASE intent # Nothing
    BY <2>2 DEF SelectLockedState, IInv, TypeOK
  <2>. QED
    BY <2>1, <2>2
<1>. DEFINE r == [tabs[t] EXCEPT !.pc = "selected", !.chosen = x, !.before = NoReceipt]
<1>3. r \in TabRecords
  BY <1>1, CleanupTyped DEF TabRecords
<1>4. tabs' = [tabs EXCEPT ![t] = r]
  BY <1>2 DEF Select, IInv, TypeOK
<1>5. tabs'[t] = r
  BY <1>4, TabOf
<1>6. /\ tabs'[t].pc = "selected" /\ tabs'[t].op = "publish"
      /\ tabs'[t].chosen = x /\ tabs'[t].cleanup = tabs[t].cleanup
  BY <1>1, <1>5 DEF TabRecords
<1>7. lock' = t /\ UNCHANGED <<intent, drawn, wires, chain>>
  BY DEF SelectLockedState
<1>8. TabSound(t)'
  BY <1>1, <1>2, <1>6, <1>7 DEF TabSound, HoldsLock, ClickSound, Publishing, DraftChosen, SequenceRead, IntentHeld,
     CleanupSound, Working
<1>9. DraftBound' /\ WiresOwned' /\ PostsOwned' /\ EvidenceExact' /\ Resumable'
  BY <1>2, <1>7, DraftWritten, SharedUndisturbed
<1>10. notices' \subseteq Tabs
  BY <1>2 DEF WriteDraft, IInv, TypeOK
<1>. QED
  BY <1>1, <1>2, <1>3, <1>4, <1>7, <1>8, <1>9, <1>10, WorkKeeps DEF IInv, TypeOK

-----------------------------------------------------------------------------
(* The intent is written. *)

LEMMA IntentTyped ==
    ASSUME IInv, intent # Nothing
    PROVE  /\ intent \in Intents /\ intent.nonce \in Nonces /\ intent.text \in Texts
           /\ intent.stage \in Stages
           /\ posts[intent.nonce] \in PostRecords \cup {Nothing}
BY DEF IInv, TypeOK, Intents

LEMMA PrepareKeeps ==
    ASSUME NEW t \in Tabs, IInv, PreparePostPublicationIntent(t)
    PROVE  IInv'
<1>. DEFINE r == [tabs[t] EXCEPT !.pc = "prepared", !.sequence = 0]
<1>1. /\ tabs[t] \in TabRecords /\ TabSound(t) /\ lock = t
      /\ tabs[t].pc = "identified" /\ tabs[t].op = "publish"
  BY CleanupTyped DEF PreparePostPublicationIntent, Holds, TabSound, Publishing, Working
<1>a. 0 \in 0 .. MaxSequence
  BY SequenceAssumption
<1>2. r \in TabRecords
  BY <1>1, <1>a DEF TabRecords
<1>3. tabs' = [tabs EXCEPT ![t] = r] /\ UNCHANGED <<draft, lock, notices, wires, chain>>
  BY DEF PreparePostPublicationIntent, IInv, TypeOK
<1>4. tabs'[t] = r
  BY <1>3, TabOf
<1>5. /\ tabs'[t].pc = "prepared" /\ tabs'[t].op = "publish"
      /\ tabs'[t].chosen = tabs[t].chosen /\ tabs'[t].cleanup = tabs[t].cleanup
  BY <1>1, <1>4 DEF TabRecords
<1>6. intent' \in Intents /\ intent' # Nothing /\ drawn' \subseteq Nonces
      /\ DraftBound' /\ WiresOwned' /\ PostsOwned' /\ EvidenceExact' /\ Resumable'
  <2>1. CASE intent # Nothing
    <3>1. UNCHANGED <<intent, drawn>>
      BY <2>1 DEF PreparePostPublicationIntent
    <3>. QED
      BY <1>3, <2>1, <3>1, IntentTyped, SharedUndisturbed DEF IInv, TypeOK
  <2>2. CASE intent = Nothing
    <3>1. PICK n \in Nonces \ drawn :
            /\ drawn' = drawn \cup {n}
            /\ intent' = [stage |-> "prepared", nonce |-> n, text |-> tabs[t].chosen,
                          expected |-> tabs[t].sequence, evidence |-> Nothing]
      BY <2>2 DEF PreparePostPublicationIntent
    <3>2. tabs[t].chosen = draft /\ draft \in Texts /\ tabs[t].sequence \in 0 .. MaxSequence
      BY <1>1, <2>2 DEF TabSound, DraftChosen, Working, IInv, TypeOK, TabRecords
    <3>3. intent' \in Intents
      BY <3>1, <3>2 DEF Intents, Stages
    <3>4. intent' # Nothing
      BY <3>3, NothingAssumption
    <3>5. posts[n] = Nothing /\ \A w \in wires : w.nonce # n
      BY <3>1 DEF IInv, PostsOwned, WiresOwned
    <3>6. DraftBound'
      BY <1>3, <3>1, <3>2 DEF DraftBound
    <3>7. WiresOwned'
      BY <1>3, <2>2, <3>1, <3>5 DEF IInv, WiresOwned, chain
    <3>8. PostsOwned'
      BY <1>3, <3>1, <3>5 DEF IInv, PostsOwned, chain
    <3>9. EvidenceExact'
      BY <3>1 DEF EvidenceExact
    <3>10. Resumable'
      BY <1>1, <1>3, <2>2, <3>1 DEF Resumable, TabSound, SequenceRead, chain
    <3>. QED
      BY <3>1, <3>3, <3>4, <3>6, <3>7, <3>8, <3>9, <3>10 DEF IInv, TypeOK
  <2>. QED
    BY <2>1, <2>2
<1>7. TabSound(t)'
  BY <1>1, <1>3, <1>5, <1>6 DEF TabSound, HoldsLock, ClickSound, Publishing, DraftChosen, SequenceRead, IntentHeld,
     CleanupSound, Working
<1>. QED
  BY <1>1, <1>2, <1>3, <1>6, <1>7, WorkKeeps DEF IInv, TypeOK

LEMMA StageWritten ==
    ASSUME IInv, intent # Nothing, NEW stage \in Stages, UNCHANGED <<draft, drawn, wires, chain>>,
           \/ UNCHANGED intent
           \/ intent.stage # "finalized" /\ stage # "finalized" /\ WriteIntent(stage)
    PROVE  /\ intent' \in Intents /\ intent' # Nothing
           /\ DraftBound' /\ WiresOwned' /\ PostsOwned' /\ EvidenceExact' /\ Resumable'
<1>1. CASE UNCHANGED intent
  BY <1>1, IntentTyped, SharedUndisturbed
<1>2. CASE intent.stage # "finalized" /\ stage # "finalized" /\ WriteIntent(stage)
  <2>1. intent' \in Intents
    BY <1>2, IntentTyped DEF WriteIntent, Intents
  <2>2. intent' # Nothing
    BY <2>1, NothingAssumption
  <2>3. /\ intent'.stage = stage /\ intent'.nonce = intent.nonce /\ intent'.text = intent.text
        /\ intent'.expected = intent.expected
    BY <1>2, IntentTyped DEF WriteIntent, Intents
  <2>. QED
    BY <1>2, <2>1, <2>2, <2>3 DEF IInv, DraftBound, WiresOwned, PostsOwned, EvidenceExact, Resumable,
       Final, chain
<1>. QED
  BY <1>1, <1>2

LEMMA RecordSignedKeeps ==
    ASSUME NEW t \in Tabs, IInv, RecordSignedPostEnvelope(t)
    PROVE  IInv'
<1>. DEFINE r == [tabs[t] EXCEPT !.pc = "signed"]
<1>1. /\ tabs[t] \in TabRecords /\ TabSound(t) /\ lock = t
      /\ tabs[t].pc = "prepared" /\ tabs[t].op = "publish" /\ intent # Nothing
  BY CleanupTyped DEF RecordSignedPostEnvelope, Holds, TabSound, Publishing, IntentHeld, Working
<1>2. r \in TabRecords
  BY <1>1 DEF TabRecords
<1>3. tabs' = [tabs EXCEPT ![t] = r] /\ UNCHANGED <<draft, lock, notices, drawn, wires, chain>>
  BY DEF RecordSignedPostEnvelope, Go, IInv, TypeOK
<1>4. tabs'[t] = r
  BY <1>3, TabOf
<1>5. /\ tabs'[t].pc = "signed" /\ tabs'[t].op = "publish"
      /\ tabs'[t].chosen = tabs[t].chosen /\ tabs'[t].cleanup = tabs[t].cleanup
  BY <1>1, <1>4 DEF TabRecords
<1>6. UNCHANGED intent \/ (intent.stage = "prepared" /\ WriteIntent("signed"))
  BY DEF RecordSignedPostEnvelope
<1>7. /\ intent' \in Intents /\ intent' # Nothing
      /\ DraftBound' /\ WiresOwned' /\ PostsOwned' /\ EvidenceExact' /\ Resumable'
  BY <1>1, <1>3, <1>6, StageWritten DEF Stages
<1>8. TabSound(t)'
  BY <1>1, <1>3, <1>5, <1>7 DEF TabSound, HoldsLock, ClickSound, Publishing, DraftChosen, SequenceRead, IntentHeld,
     CleanupSound, Working
<1>. QED
  BY <1>1, <1>2, <1>3, <1>7, <1>8, WorkKeeps DEF IInv, TypeOK

LEMMA RecordStoredKeeps ==
    ASSUME NEW t \in Tabs, IInv, RecordPostStorageReceipt(t)
    PROVE  IInv'
<1>. DEFINE r == [tabs[t] EXCEPT !.pc = "stored"]
<1>1. /\ tabs[t] \in TabRecords /\ TabSound(t) /\ lock = t
      /\ tabs[t].pc = "signed" /\ tabs[t].op = "publish" /\ intent # Nothing
  BY CleanupTyped DEF RecordPostStorageReceipt, Holds, TabSound, Publishing, IntentHeld, Working
<1>2. r \in TabRecords
  BY <1>1 DEF TabRecords
<1>3. tabs' = [tabs EXCEPT ![t] = r] /\ UNCHANGED <<draft, lock, notices, drawn, wires, chain>>
  BY DEF RecordPostStorageReceipt, Go, IInv, TypeOK
<1>4. tabs'[t] = r
  BY <1>3, TabOf
<1>5. /\ tabs'[t].pc = "stored" /\ tabs'[t].op = "publish"
      /\ tabs'[t].chosen = tabs[t].chosen /\ tabs'[t].cleanup = tabs[t].cleanup
  BY <1>1, <1>4 DEF TabRecords
<1>6. UNCHANGED intent \/ (intent.stage = "signed" /\ WriteIntent("stored"))
  BY DEF RecordPostStorageReceipt
<1>7. /\ intent' \in Intents /\ intent' # Nothing
      /\ DraftBound' /\ WiresOwned' /\ PostsOwned' /\ EvidenceExact' /\ Resumable'
  BY <1>1, <1>3, <1>6, StageWritten DEF Stages
<1>8. TabSound(t)'
  BY <1>1, <1>3, <1>5, <1>7 DEF TabSound, HoldsLock, ClickSound, Publishing, DraftChosen, SequenceRead, IntentHeld,
     CleanupSound, Working
<1>. QED
  BY <1>1, <1>2, <1>3, <1>7, <1>8, WorkKeeps DEF IInv, TypeOK

LEMMA SubmitKeeps ==
    ASSUME NEW t \in Tabs, NEW a \in Attempts, IInv, SubmitPost(t, a)
    PROVE  IInv'
<1>. DEFINE r == [tabs[t] EXCEPT !.pc = "sent", !.attempt = a]
            w == [nonce |-> intent.nonce, attempt |-> a, text |-> intent.text,
                  expected |-> intent.expected]
<1>1. /\ tabs[t] \in TabRecords /\ TabSound(t) /\ lock = t
      /\ tabs[t].pc = "ready" /\ tabs[t].op = "publish" /\ intent # Nothing
  BY CleanupTyped DEF SubmitPost, Holds, TabSound, Publishing, IntentHeld, Working
<1>2. r \in TabRecords
  BY <1>1 DEF TabRecords
<1>3. /\ tabs' = [tabs EXCEPT ![t] = r] /\ wires' = wires \cup {w}
      /\ UNCHANGED <<draft, intent, lock, notices, drawn, chain>>
  BY DEF SubmitPost, IInv, TypeOK
<1>4. tabs'[t] = r
  BY <1>3, TabOf
<1>5. /\ tabs'[t].pc = "sent" /\ tabs'[t].op = "publish" /\ tabs'[t].attempt = a
      /\ tabs'[t].chosen = tabs[t].chosen /\ tabs'[t].cleanup = tabs[t].cleanup
  BY <1>1, <1>4 DEF TabRecords
<1>6. wires' \subseteq WireRecords
  BY <1>1, <1>3, IntentTyped DEF WireRecords, Intents, IInv, TypeOK
<1>7. WiresOwned'
  BY <1>1, <1>3 DEF IInv, WiresOwned, PostsOwned, chain
<1>8. DraftBound' /\ PostsOwned' /\ EvidenceExact' /\ Resumable'
  BY <1>3 DEF IInv, DraftBound, PostsOwned, EvidenceExact, Resumable, Final, chain
<1>9. TabSound(t)'
  BY <1>1, <1>3, <1>5 DEF TabSound, HoldsLock, ClickSound, Publishing, DraftChosen, SequenceRead, IntentHeld,
     CleanupSound, Working
<1>. QED
  BY <1>1, <1>2, <1>3, <1>6, <1>7, <1>8, <1>9, WorkKeeps DEF IInv, TypeOK

LEMMA RecordFinalizedKeeps ==
    ASSUME NEW t \in Tabs, IInv, RecordFinalizedTransaction(t)
    PROVE  IInv'
<1>. DEFINE r == [tabs[t] EXCEPT !.pc = "recorded", !.attempt = Nothing]
<1>1. /\ tabs[t] \in TabRecords /\ TabSound(t) /\ lock = t
      /\ tabs[t].pc = "final" /\ tabs[t].op = "publish" /\ intent # Nothing
      /\ Final(intent.nonce) /\ posts[intent.nonce].creator = tabs[t].attempt
  BY CleanupTyped DEF RecordFinalizedTransaction, Holds, TabSound, Publishing, IntentHeld, Working
<1>2. r \in TabRecords
  BY <1>1 DEF TabRecords
<1>3. tabs' = [tabs EXCEPT ![t] = r] /\ UNCHANGED <<draft, lock, notices, drawn, wires, chain>>
  BY DEF RecordFinalizedTransaction, IInv, TypeOK
<1>4. tabs'[t] = r
  BY <1>3, TabOf
<1>5. /\ tabs'[t].pc = "recorded" /\ tabs'[t].op = "publish"
      /\ tabs'[t].chosen = tabs[t].chosen /\ tabs'[t].cleanup = tabs[t].cleanup
  BY <1>1, <1>4 DEF TabRecords
<1>6. intent' = [intent EXCEPT !.stage = "finalized", !.evidence = tabs[t].attempt]
  BY DEF RecordFinalizedTransaction
<1>7. intent' \in Intents
  BY <1>1, <1>6, IntentTyped DEF Intents, Stages, TabRecords
<1>8. /\ intent'.stage = "finalized" /\ intent'.nonce = intent.nonce
      /\ intent'.text = intent.text /\ intent'.expected = intent.expected
      /\ intent'.evidence = tabs[t].attempt /\ intent' # Nothing
  BY <1>1, <1>6, <1>7, IntentTyped, NothingAssumption DEF Intents
<1>9. DraftBound' /\ WiresOwned' /\ PostsOwned' /\ EvidenceExact' /\ Resumable'
  BY <1>1, <1>3, <1>8 DEF IInv, DraftBound, WiresOwned, PostsOwned, EvidenceExact, Resumable,
     Final, chain
<1>10. TabSound(t)'
  BY <1>1, <1>3, <1>5, <1>8 DEF TabSound, HoldsLock, ClickSound, Publishing, DraftChosen, SequenceRead, IntentHeld,
     CleanupSound, Working
<1>. QED
  BY <1>1, <1>2, <1>3, <1>7, <1>9, <1>10, WorkKeeps DEF IInv, TypeOK

(* A draft is only cleared when its post is final. *)
LEMMA ClearedWhenFinal ==
    ASSUME NEW t \in Tabs, IInv, ClearDraft(t)
    PROVE  /\ intent # Nothing /\ intent.stage = "finalized"
           /\ Final(intent.nonce) /\ draft \in {intent.text, Nothing}
<1>1. TabSound(t) /\ tabs[t].pc = "recorded" /\ intent # Nothing
  BY CleanupTyped DEF ClearDraft, Holds, TabSound, IntentHeld, Working
<1>2. intent.stage = "finalized"
  <2>1. CASE tabs[t].op = "publish"
    BY <1>1, <2>1 DEF TabSound, IntentHeld
  <2>2. CASE tabs[t].op # "publish"
    <3>1. tabs[t].cleanup = Stored
      BY <2>2 DEF ClearDraft, Published
    <3>2. tabs[t].cleanup.intent = intent
      BY <3>1 DEF Stored
    <3>3. tabs[t].cleanup # NoReceipt
      BY <1>1, <3>2 DEF NoReceipt
    <3>. QED
      BY <3>2, <3>3, CleanupTyped
  <2>. QED
    BY <2>1, <2>2
<1>. QED
  BY <1>1, <1>2 DEF IInv, DraftBound, EvidenceExact

LEMMA ClearKeeps ==
    ASSUME NEW t \in Tabs, IInv, ClearDraft(t)
    PROVE  IInv'
<1>. DEFINE r == [tabs[t] EXCEPT !.pc = "cleared"]
<1>1. tabs[t] \in TabRecords /\ TabSound(t) /\ lock = t /\ tabs[t].pc = "recorded"
  BY CleanupTyped DEF ClearDraft, Holds
<1>2. r \in TabRecords
  BY <1>1 DEF TabRecords
<1>3. /\ tabs' = [tabs EXCEPT ![t] = r] /\ draft' = Nothing /\ notices' \subseteq Tabs
      /\ UNCHANGED <<intent, lock, drawn, wires, chain>>
  BY DEF ClearDraft, Go, WriteDraft, IInv, TypeOK
<1>4. tabs'[t] = r
  BY <1>3, TabOf
<1>5. tabs'[t].pc = "cleared" /\ tabs'[t].cleanup = tabs[t].cleanup
  BY <1>1, <1>4 DEF TabRecords
<1>6. DraftBound' /\ WiresOwned' /\ PostsOwned' /\ EvidenceExact' /\ Resumable'
  BY <1>3, ClearedWhenFinal DEF IInv, DraftBound, WiresOwned, PostsOwned, EvidenceExact,
     Resumable, Final, chain
<1>7. TabSound(t)'
  BY <1>1, <1>3, <1>5, ClearedWhenFinal DEF TabSound, HoldsLock, ClickSound, Publishing, DraftChosen, SequenceRead, IntentHeld,
     CleanupSound, Working
<1>. QED
  BY <1>1, <1>2, <1>3, <1>6, <1>7, WorkKeeps DEF IInv, TypeOK

(* An intent is only retired when its post is final, and nothing signed    *)
(* for it can make a post any more.                                        *)
LEMMA AcknowledgeKeeps ==
    ASSUME NEW t \in Tabs, IInv, AcknowledgeIntent(t)
    PROVE  IInv'
<1>1. /\ TabSound(t) /\ lock = t /\ intent # Nothing /\ intent.stage = "finalized"
  BY CleanupTyped DEF AcknowledgeIntent, Holds, TabSound, IntentHeld, Working
<1>2. posts[intent.nonce] # Nothing
  BY <1>1 DEF IInv, EvidenceExact, Final
<1>3. intent' = Nothing /\ Return(t, draft, NoReceipt)
      /\ UNCHANGED <<draft, notices, drawn, wires, chain>>
  BY DEF AcknowledgeIntent
<1>. DEFINE r == Idle(draft, NoReceipt)
<1>4. r \in TabRecords
  BY CleanupTyped, SequenceAssumption DEF Idle, TabRecords, IInv, TypeOK
<1>5. tabs' = [tabs EXCEPT ![t] = r] /\ lock' = Nothing
  BY <1>1, <1>3 DEF Return
<1>6. TabSound(t)'
  BY <1>3, CleanupTyped, ReturnSound DEF IInv, TypeOK
<1>7. DraftBound' /\ WiresOwned' /\ PostsOwned' /\ EvidenceExact' /\ Resumable'
  BY <1>1, <1>2, <1>3 DEF IInv, DraftBound, WiresOwned, PostsOwned, EvidenceExact, Resumable, chain
<1>. QED
  BY <1>1, <1>3, <1>4, <1>5, <1>6, <1>7, WorkKeeps DEF IInv, TypeOK

-----------------------------------------------------------------------------
(* The chain. *)

(* A step of the chain disturbs no tab if it only adds to what is known.   *)
LEMMA TabsInformed ==
    ASSUME IInv, UNCHANGED browser, NEW t \in Tabs,
           \A n \in Nonces : Final(n) => Final(n)' /\ posts'[n].creator = posts[n].creator,
           SequenceRead(t)'
    PROVE  TabSound(t)'
<1>1. TabSound(t)
  BY DEF IInv
<1>2. intent # Nothing => intent.nonce \in Nonces
  BY IntentTyped
<1>3. IntentHeld(t)'
  BY <1>1, <1>2 DEF browser, TabSound, IntentHeld, Working, Final
<1>. QED
  BY <1>1, <1>3 DEF browser, TabSound, HoldsLock, ClickSound, Publishing, DraftChosen, CleanupSound

LEMMA IncludeKeeps ==
    ASSUME NEW w \in wires, IInv, IncludePost(w)
    PROVE  IInv'
<1>1. w \in WireRecords /\ w.nonce \in Nonces /\ posts[w.nonce] = Nothing /\ w.expected = sequence
  BY DEF IncludePost, WireRecords, IInv, TypeOK
<1>2. intent # Nothing /\ w.nonce = intent.nonce /\ w.text = intent.text /\ w.nonce \in drawn
  BY <1>1 DEF IInv, WiresOwned
<1>3. PICK late \in SUBSET (Wires(w.nonce) \ {w}) :
         /\ posts' = [posts EXCEPT ![w.nonce] =
                [text |-> w.text, creator |-> w.attempt, final |-> FALSE,
                 mates |-> {v.attempt : v \in late \cup {w}}]]
         /\ wires' = wires \ (late \cup {w})
  BY DEF IncludePost
<1>. DEFINE p == [text |-> w.text, creator |-> w.attempt, final |-> FALSE,
                  mates |-> {v.attempt : v \in late \cup {w}}]
<1>4. {v.attempt : v \in late \cup {w}} \subseteq Attempts
  BY <1>1 DEF Wires, WireRecords, IInv, TypeOK
<1>5. p \in PostRecords
  BY <1>1, <1>4 DEF PostRecords, WireRecords
<1>6. p # Nothing /\ p.text = w.text /\ p.creator \in p.mates
  BY <1>5, NothingAssumption
<1>. HIDE DEF p
<1>7. UNCHANGED browser /\ foreign' = foreign /\ sequence' = sequence + 1
  BY DEF IncludePost
<1>8. posts' = [posts EXCEPT ![w.nonce] = p]
  BY <1>3 DEF p
<1>9. posts' \in [Nonces -> PostRecords \cup {Nothing}]
  BY <1>5, <1>8 DEF IInv, TypeOK
<1>10. posts'[w.nonce] = p /\ \A n \in Nonces : n # w.nonce => posts'[n] = posts[n]
  BY <1>1, <1>8 DEF IInv, TypeOK
<1>11. sequence' \in 0 .. MaxSequence
  BY <1>7, SequenceAssumption DEF IncludePost, IInv, TypeOK
<1>12. TypeOK'
  BY <1>3, <1>7, <1>9, <1>11 DEF browser, IInv, TypeOK
<1>13. DraftBound' /\ WiresOwned'
  BY <1>1, <1>2, <1>3, <1>6, <1>7, <1>10 DEF browser, IInv, DraftBound, WiresOwned, TypeOK,
     WireRecords
<1>14. PostsOwned'
  BY <1>2, <1>6, <1>7, <1>10 DEF browser, IInv, PostsOwned
<1>15. EvidenceExact' /\ Resumable'
  BY <1>1, <1>2, <1>6, <1>7, <1>10 DEF browser, IInv, EvidenceExact, Resumable, Final
<1>16. \A n \in Nonces : Final(n) => Final(n)' /\ posts'[n].creator = posts[n].creator
  BY <1>1, <1>10 DEF Final
<1>17. ASSUME NEW t \in Tabs PROVE TabSound(t)'
  <2>1. SequenceRead(t)'
    BY <1>2, <1>7 DEF browser, SequenceRead
  <2>. QED
    BY <2>1, <1>7, <1>16, TabsInformed
<1>. QED
  BY <1>12, <1>13, <1>14, <1>15, <1>17 DEF IInv

LEMMA FinalizeKeeps ==
    ASSUME NEW n \in Nonces, IInv, FinalizeSlot(n)
    PROVE  IInv'
<1>. DEFINE p == [posts[n] EXCEPT !.final = TRUE]
<1>1. posts[n] # Nothing /\ posts[n] \in PostRecords
  BY DEF FinalizeSlot, IInv, TypeOK
<1>2. p \in PostRecords
  BY <1>1 DEF PostRecords
<1>3. /\ p # Nothing /\ p.final = TRUE /\ p.text = posts[n].text
      /\ p.creator = posts[n].creator /\ p.mates = posts[n].mates
  BY <1>1, <1>2, NothingAssumption DEF PostRecords
<1>4. posts' = [posts EXCEPT ![n] = p] /\ UNCHANGED <<browser, wires, sequence, foreign>>
  BY DEF FinalizeSlot, IInv, TypeOK
<1>. HIDE DEF p
<1>5. posts'[n] = p /\ \A m \in Nonces : m # n => posts'[m] = posts[m]
  BY <1>4 DEF IInv, TypeOK
<1>6. posts' \in [Nonces -> PostRecords \cup {Nothing}]
  BY <1>2, <1>4 DEF IInv, TypeOK
<1>7. TypeOK'
  BY <1>4, <1>6 DEF browser, IInv, TypeOK
<1>8. intent # Nothing => intent.nonce \in Nonces
  BY IntentTyped
<1>9. \A m \in Nonces : (posts'[m] = Nothing <=> posts[m] = Nothing)
  BY <1>1, <1>3, <1>5
<1>10. DraftBound' /\ WiresOwned' /\ PostsOwned' /\ EvidenceExact' /\ Resumable'
  <2>1. DraftBound' /\ Resumable'
    BY <1>4, <1>8, <1>9 DEF browser, IInv, DraftBound, Resumable
  <2>2. WiresOwned'
    BY <1>4, <1>8, <1>9 DEF browser, IInv, TypeOK, WireRecords, WiresOwned
  <2>3. PostsOwned' /\ EvidenceExact'
    BY <1>3, <1>4, <1>5, <1>8, <1>9 DEF browser, IInv, PostsOwned, EvidenceExact, Final
  <2>. QED
    BY <2>1, <2>2, <2>3
<1>11. \A m \in Nonces : Final(m) => Final(m)' /\ posts'[m].creator = posts[m].creator
  BY <1>3, <1>5 DEF Final
<1>12. ASSUME NEW t \in Tabs PROVE TabSound(t)'
  <2>1. SequenceRead(t)'
    BY <1>4 DEF browser, SequenceRead, IInv, TabSound
  <2>. QED
    BY <2>1, <1>4, <1>11, TabsInformed
<1>. QED
  BY <1>7, <1>10, <1>12 DEF IInv

LEMMA DropKeeps ==
    ASSUME NEW w \in wires, IInv, DropWire(w)
    PROVE  IInv'
<1>1. wires' \subseteq wires /\ UNCHANGED <<browser, chain>>
  BY DEF DropWire
<1>2. TypeOK'
  BY <1>1 DEF browser, chain, IInv, TypeOK
<1>3. DraftBound' /\ WiresOwned' /\ PostsOwned' /\ EvidenceExact' /\ Resumable'
  BY <1>1 DEF browser, chain, IInv, DraftBound, WiresOwned, PostsOwned, EvidenceExact, Resumable, Final
<1>4. ASSUME NEW t \in Tabs PROVE TabSound(t)'
  <2>1. SequenceRead(t)'
    BY <1>1 DEF browser, chain, SequenceRead, IInv, TabSound
  <2>2. \A m \in Nonces : Final(m) => Final(m)' /\ posts'[m].creator = posts[m].creator
    BY <1>1 DEF chain, Final
  <2>. QED
    BY <2>1, <2>2, <1>1, TabsInformed
<1>. QED
  BY <1>2, <1>3, <1>4 DEF IInv

LEMMA ElsewhereKeeps ==
    ASSUME IInv, ActElsewhere
    PROVE  IInv'
<1>1. foreign' \in Nat /\ foreign' # 0 /\ sequence' \in 0 .. MaxSequence
      /\ UNCHANGED <<browser, wires, posts>>
  BY SequenceAssumption DEF ActElsewhere, IInv, TypeOK
<1>2. TypeOK'
  BY <1>1 DEF browser, IInv, TypeOK
<1>3. DraftBound' /\ WiresOwned' /\ PostsOwned' /\ EvidenceExact' /\ Resumable'
  BY <1>1 DEF browser, IInv, DraftBound, WiresOwned, PostsOwned, EvidenceExact, Resumable, Final
<1>4. ASSUME NEW t \in Tabs PROVE TabSound(t)'
  <2>1. SequenceRead(t)'
    BY <1>1 DEF SequenceRead
  <2>2. \A m \in Nonces : Final(m) => Final(m)' /\ posts'[m].creator = posts[m].creator
    BY <1>1 DEF Final
  <2>. QED
    BY <2>1, <2>2, <1>1, TabsInformed
<1>. QED
  BY <1>2, <1>3, <1>4 DEF IInv

-----------------------------------------------------------------------------
(* Every step keeps the invariant. *)

LEMMA StepKeeps ==
    ASSUME IInv, [Next]_vars
    PROVE  IInv'
<1>1. CASE UNCHANGED vars
  <2>1. UNCHANGED <<draft, intent, lock, tabs, notices, drawn, wires, chain>>
    BY <1>1 DEF vars, browser
  <2>2. TypeOK'
    BY <2>1 DEF chain, IInv, TypeOK
  <2>3. ASSUME NEW t \in Tabs PROVE TabSound(t)'
    BY <2>1 DEF chain, IInv, TabSound, HoldsLock, ClickSound, Publishing, DraftChosen, SequenceRead,
       IntentHeld, CleanupSound, Final
  <2>. QED
    BY <2>1, <2>2, <2>3, SharedUndisturbed DEF IInv
<1>2. ASSUME NEW t \in Tabs, Composer(t) PROVE IInv'
  BY <1>2, ComposeKeeps, ClickKeeps, RefuseKeeps, SaveKeeps, DiscardKeeps, SelectKeeps DEF Composer
<1>3. ASSUME NEW t \in Tabs, Publish(t) PROVE IInv'
  BY <1>3, ReadIdentityKeeps, PrepareKeeps, RecordSignedKeeps, RecordStoredKeeps,
     ReconcilePostKeeps, SubmitKeeps, VerifyFinalityKeeps, RecoverTransactionKeeps,
     RecordFinalizedKeeps, FailKeeps DEF Publish
<1>4. ASSUME NEW t \in Tabs, Cleanup(t) PROVE IInv'
  BY <1>4, CleanupDoneKeeps, BeginCleanupKeeps, ClearKeeps, KeepDraftKeeps, AcknowledgeKeeps,
     KeepIntentKeeps DEF Cleanup
<1>5. ASSUME NEW t \in Tabs, Notify(t) \/ Reload(t) PROVE IInv'
  BY <1>5, NotifyKeeps, ReloadKeeps
<1>6. ASSUME NEW w \in wires, IncludePost(w) \/ DropWire(w) PROVE IInv'
  BY <1>6, IncludeKeeps, DropKeeps
<1>7. ASSUME NEW n \in Nonces, FinalizeSlot(n) PROVE IInv'
  BY <1>7, FinalizeKeeps
<1>8. CASE ActElsewhere
  BY <1>8, ElsewhereKeeps
<1>. QED
  BY <1>1, <1>2, <1>3, <1>4, <1>5, <1>6, <1>7, <1>8 DEF Next

LEMMA Invariance == Spec => []IInv
<1>1. Init => IInv
  BY InitHolds
<1>2. IInv /\ [Next]_vars => IInv'
  BY StepKeeps
<1>. QED
  BY <1>1, <1>2, PTL DEF Spec

(* Storage, tabs and chain keep the types of their values, for every       *)
(* number of tabs, drafts, posts and transactions; an empty draft is never *)
(* bound to an intent, because the lock compares what was clicked on.      *)
THEOREM TypeCorrect == Spec => []TypeOK
<1>1. IInv => TypeOK
  BY DEF IInv
<1>. QED
  BY <1>1, Invariance, PTL

(* The evidence of a finalized intent is the transaction that made its     *)
(* post (recoverFinalizedPostTransaction, recordFinalizedPostTransaction). *)
THEOREM EvidenceTrue == Spec => []EvidenceExact
<1>1. IInv => EvidenceExact
  BY DEF IInv
<1>. QED
  BY <1>1, Invariance, PTL

\* A post that may still be rolled back is the one of the stored intent.
PendingPostsOwned ==
    \A n \in Nonces : posts[n] # Nothing /\ ~Final(n) => intent # Nothing /\ intent.nonce = n

LEMMA PendingPostsStep == IInv /\ PendingPostsOwned /\ [Next]_vars => PendingPostsOwned'
<1>. SUFFICES ASSUME IInv, PendingPostsOwned, [Next]_vars PROVE PendingPostsOwned'
  OBVIOUS
<1>0. /\ posts \in [Nonces -> PostRecords \cup {Nothing}] /\ wires \subseteq WireRecords
      /\ intent \in Intents \cup {Nothing}
  BY DEF IInv, TypeOK
<1>1. CASE UNCHANGED posts /\ (intent # Nothing => intent' # Nothing /\ intent'.nonce = intent.nonce)
  BY <1>1 DEF PendingPostsOwned, Final
<1>2. ASSUME NEW t \in Tabs, AcknowledgeIntent(t) PROVE PendingPostsOwned'
  <2>1. UNCHANGED posts /\ intent # Nothing /\ Final(intent.nonce)
    BY <1>2 DEF AcknowledgeIntent, Holds, IInv, TabSound, IntentHeld, EvidenceExact, Working, chain
  <2>. QED
    BY <2>1 DEF PendingPostsOwned, Final
<1>3. ASSUME NEW w \in wires, IncludePost(w) PROVE PendingPostsOwned'
  <2>1. posts[w.nonce] = Nothing /\ w.nonce \in Nonces /\ intent' = intent
    BY <1>0, <1>3 DEF IncludePost, browser, WireRecords
  <2>2. intent # Nothing /\ intent.nonce = w.nonce
    BY <2>1 DEF IInv, WiresOwned
  <2>3. \A n \in Nonces \ {w.nonce} : posts'[n] = posts[n]
    BY <1>0, <1>3 DEF IncludePost
  <2>. QED
    BY <2>1, <2>2, <2>3 DEF PendingPostsOwned, Final
<1>4. ASSUME NEW n \in Nonces, FinalizeSlot(n) PROVE PendingPostsOwned'
  <2>1. posts[n] \in PostRecords /\ intent' = intent
    BY <1>0, <1>4 DEF FinalizeSlot, browser
  <2>2. posts'[n] = [posts[n] EXCEPT !.final = TRUE]
    BY <1>0, <1>4 DEF FinalizeSlot
  <2>3. posts'[n].final
    BY <2>1, <2>2 DEF PostRecords
  <2>4. posts'[n] # Nothing
    BY <2>1, <2>2, NothingAssumption DEF PostRecords
  <2>5. \A m \in Nonces \ {n} : posts'[m] = posts[m]
    BY <1>0, <1>4 DEF FinalizeSlot
  <2>. QED
    BY <2>1, <2>3, <2>4, <2>5 DEF PendingPostsOwned, Final
<1>5. ASSUME NEW t \in Tabs,
             Composer(t) \/ Publish(t) \/ Notify(t) \/ Reload(t)
                \/ (Cleanup(t) /\ ~AcknowledgeIntent(t))
      PROVE  PendingPostsOwned'
  <2>1. UNCHANGED posts
    BY <1>5
       DEF Composer, Compose, Click, Refuse, SaveLockedDraft, DiscardLockedDraft,
           SelectLockedState, Publish, ReadIdentity, PreparePostPublicationIntent,
           RecordSignedPostEnvelope, RecordPostStorageReceipt, ReconcilePost, SubmitPost,
           VerifyFinality, RecoverTransaction, RecordFinalizedTransaction, FailPublication,
           Cleanup, CleanupDone, BeginCleanup, ClearDraft, KeepDraft, KeepIntent, Notify,
           Reload, chain
  <2>2. intent # Nothing => intent' # Nothing /\ intent'.nonce = intent.nonce
    <3>1. CASE UNCHANGED intent
      BY <3>1
    <3>2. ASSUME intent # Nothing,
                 \/ \E stage \in Stages : WriteIntent(stage)
                 \/ \E a \in Attempts \cup {Nothing} : intent' = [intent EXCEPT !.stage = "finalized", !.evidence = a]
          PROVE  intent' # Nothing /\ intent'.nonce = intent.nonce
      <4>1. intent \in Intents
        BY <1>0, <3>2
      <4>2. intent'.nonce = intent.nonce
        BY <3>2, <4>1 DEF WriteIntent, Intents
      <4>3. intent' \in Intents
        BY <3>2, <4>1 DEF WriteIntent, Intents, Stages
      <4>4. intent' # Nothing
        BY <4>3, NothingAssumption
      <4>. QED
        BY <4>2, <4>4
    <3>3. tabs[t].attempt \in Attempts \cup {Nothing}
      BY DEF IInv, TypeOK, TabRecords
    <3>. QED
      BY <1>5, <3>1, <3>2, <3>3
         DEF Composer, Compose, Click, Refuse, SaveLockedDraft, DiscardLockedDraft,
             SelectLockedState, Publish, ReadIdentity, PreparePostPublicationIntent,
             RecordSignedPostEnvelope, RecordPostStorageReceipt, ReconcilePost, SubmitPost,
             VerifyFinality, RecoverTransaction, RecordFinalizedTransaction, FailPublication,
             Cleanup, CleanupDone, BeginCleanup, ClearDraft, KeepDraft, KeepIntent, Notify,
             Reload, Stages
  <2>. QED
    BY <1>1, <2>1, <2>2
<1>6. CASE (\E w \in wires : DropWire(w)) \/ ActElsewhere \/ UNCHANGED vars
  BY <1>1, <1>6 DEF DropWire, ActElsewhere, vars, browser, chain
<1>. QED
  BY <1>2, <1>3, <1>4, <1>5, <1>6 DEF Next

(* No signed transaction and no post that is not final outlives the intent *)
(* it belongs to (preparePostPublicationIntent, which resumes the stored   *)
(* one, and completeLockedFinalizedPublicationCleanup).                    *)
THEOREM IntentOutlivesItsPost == Spec => []NothingForgotten
<1>1. Init => PendingPostsOwned
  BY DEF Init, PendingPostsOwned
<1>2. IInv /\ PendingPostsOwned => NothingForgotten
  BY DEF IInv, WiresOwned, PendingPostsOwned, NothingForgotten
<1>. QED
  BY <1>1, <1>2, PendingPostsStep, InitHolds, Invariance, PTL DEF Spec

(* What a browser submitted for its intents never makes the current intent *)
(* unpublishable: only another device can take the sequence it expects     *)
(* (reconcileWokePostPublication).                                         *)
THEOREM AlwaysResumable == Spec => []Resumable
<1>1. IInv => Resumable
  BY DEF IInv
<1>. QED
  BY <1>1, Invariance, PTL

-----------------------------------------------------------------------------
(* Steps of the draft. *)

(* The steps that write the draft. *)
LEMMA DraftWriters ==
    ASSUME IInv, [Next]_vars, draft' # draft
    PROVE  \E t \in Tabs :
              SaveLockedDraft(t) \/ DiscardLockedDraft(t) \/ SelectLockedState(t) \/ ClearDraft(t)
<1>1. ASSUME NEW t \in Tabs, Publish(t) PROVE FALSE
  BY <1>1 DEF Publish, ReadIdentity, PreparePostPublicationIntent, RecordSignedPostEnvelope,
     RecordPostStorageReceipt, ReconcilePost, SubmitPost, VerifyFinality, RecoverTransaction,
     RecordFinalizedTransaction, FailPublication
<1>2. ASSUME NEW t \in Tabs, Composer(t)
      PROVE  SaveLockedDraft(t) \/ DiscardLockedDraft(t) \/ SelectLockedState(t)
  BY <1>2 DEF Composer, Compose, Click, Refuse
<1>3. ASSUME NEW t \in Tabs, Cleanup(t) PROVE ClearDraft(t)
  BY <1>3 DEF Cleanup, CleanupDone, BeginCleanup, KeepDraft, AcknowledgeIntent, KeepIntent
<1>4. ASSUME NEW t \in Tabs, Notify(t) \/ Reload(t) PROVE FALSE
  BY <1>4 DEF Notify, Reload
<1>5. ASSUME NEW w \in wires, IncludePost(w) \/ DropWire(w) PROVE FALSE
  BY <1>5 DEF IncludePost, DropWire, browser
<1>6. ASSUME NEW n \in Nonces, FinalizeSlot(n) PROVE FALSE
  BY <1>6 DEF FinalizeSlot, browser
<1>7. ~ActElsewhere /\ ~UNCHANGED vars
  BY DEF ActElsewhere, vars, browser
<1>. QED
  BY <1>1, <1>2, <1>3, <1>4, <1>5, <1>6, <1>7 DEF Next

(* What is saved when a draft is saved, or selected for its publication.   *)
LEMMA SavedDraft ==
    ASSUME NEW t \in Tabs, IInv, SaveLockedDraft(t) \/ (SelectLockedState(t) /\ draft' # draft)
    PROVE  intent = Nothing /\ draft' \in Texts /\ UNCHANGED <<intent, chain>>
<1>1. tabs[t] \in TabRecords /\ ClickSound(t) /\ tabs[t].chosen \in Texts \cup {Nothing}
  BY CleanupTyped DEF TabSound
<1>2. CASE SaveLockedDraft(t)
  BY <1>1, <1>2 DEF SaveLockedDraft, Granted, ClickSound, WriteDraft
<1>3. CASE SelectLockedState(t) /\ draft' # draft
  <2>1. intent = Nothing /\ draft' = tabs[t].chosen /\ UNCHANGED <<intent, chain>>
    BY <1>3 DEF SelectLockedState, WriteDraft
  <2>2. tabs[t].before.intent = Nothing /\ tabs[t].op = "publish" /\ tabs[t].pc = "asking"
    BY <1>3, <2>1 DEF SelectLockedState, Granted, Stored
  <2>. QED
    BY <1>1, <2>1, <2>2 DEF ClickSound
<1>. QED
  BY <1>2, <1>3

(* A saved draft is removed by its user, or because its own post is final  *)
(* (discardLockedDraftWithoutIntent and                                    *)
(* completeLockedFinalizedPublicationCleanup).                             *)
THEOREM DraftKept == Spec => DraftSurvives
<1>. DEFINE Removed ==
        draft # Nothing /\ draft' = Nothing =>
         \/ \E t \in Tabs : tabs[t].pc = "asking" /\ tabs[t].op = "discard" /\ tabs'[t].pc = "idle"
         \/ intent # Nothing /\ intent.text = draft /\ Final(intent.nonce)
<1>1. ASSUME IInv, [Next]_vars, draft # Nothing, draft' = Nothing PROVE Removed
  <2>1. PICK t \in Tabs :
          SaveLockedDraft(t) \/ DiscardLockedDraft(t) \/ SelectLockedState(t) \/ ClearDraft(t)
    BY <1>1, DraftWriters
  <2>2. CASE DiscardLockedDraft(t)
    <3>1. tabs[t].pc = "asking" /\ tabs[t].op = "discard"
      BY <2>2 DEF DiscardLockedDraft, Granted
    <3>2. tabs'[t] = Idle(Nothing, NoReceipt)
      BY <1>1, <2>2 DEF DiscardLockedDraft, Return, IInv, TypeOK
    <3>3. tabs'[t].pc = "idle"
      BY <3>2 DEF Idle
    <3>. QED
      BY <3>1, <3>3
  <2>3. CASE ClearDraft(t)
    BY <1>1, <2>3, ClearedWhenFinal
  <2>4. CASE SaveLockedDraft(t) \/ SelectLockedState(t)
    BY <1>1, <2>4, SavedDraft, NothingAssumption
  <2>. QED
    BY <2>1, <2>2, <2>3, <2>4
<1>2. IInv /\ [Next]_vars => [Removed]_vars
  BY <1>1
<1>. QED
  BY <1>2, Invariance, PTL DEF Spec, DraftSurvives

-----------------------------------------------------------------------------
(* The outbox. *)

DeskBound == IF intent = Nothing THEN Nothing ELSE [nonce |-> intent.nonce, text |-> intent.text]
DeskFeed == [n \in Nonces |-> IF posts[n] = Nothing THEN Nothing ELSE posts[n].text]

(* The steps that bind an intent or let go of it. *)
LEMMA IntentWriters ==
    ASSUME IInv, [Next]_vars, intent' # intent
    PROVE  /\ UNCHANGED <<draft, posts>>
           /\ \E t \in Tabs :
                 \/ PreparePostPublicationIntent(t) \/ RecordSignedPostEnvelope(t)
                 \/ RecordPostStorageReceipt(t) \/ RecordFinalizedTransaction(t)
                 \/ AcknowledgeIntent(t)
<1>1. ASSUME NEW t \in Tabs, Publish(t)
      PROVE  \/ PreparePostPublicationIntent(t) \/ RecordSignedPostEnvelope(t)
             \/ RecordPostStorageReceipt(t) \/ RecordFinalizedTransaction(t)
  BY <1>1 DEF Publish, ReadIdentity, ReconcilePost, SubmitPost, VerifyFinality, RecoverTransaction,
     FailPublication
<1>2. ASSUME NEW t \in Tabs, Composer(t) PROVE FALSE
  BY <1>2 DEF Composer, Compose, Click, Refuse, SaveLockedDraft, DiscardLockedDraft,
     SelectLockedState
<1>3. ASSUME NEW t \in Tabs, Cleanup(t) PROVE AcknowledgeIntent(t)
  BY <1>3 DEF Cleanup, CleanupDone, BeginCleanup, ClearDraft, KeepDraft, KeepIntent
<1>4. ASSUME NEW t \in Tabs, Notify(t) \/ Reload(t) PROVE FALSE
  BY <1>4 DEF Notify, Reload
<1>5. ASSUME NEW w \in wires, IncludePost(w) \/ DropWire(w) PROVE FALSE
  BY <1>5 DEF IncludePost, DropWire, browser
<1>6. ASSUME NEW n \in Nonces, FinalizeSlot(n) PROVE FALSE
  BY <1>6 DEF FinalizeSlot, browser
<1>7. ~ActElsewhere /\ ~UNCHANGED vars
  BY DEF ActElsewhere, vars, browser
<1>8. \E t \in Tabs :
         \/ PreparePostPublicationIntent(t) \/ RecordSignedPostEnvelope(t)
         \/ RecordPostStorageReceipt(t) \/ RecordFinalizedTransaction(t)
         \/ AcknowledgeIntent(t)
  BY <1>1, <1>2, <1>3, <1>4, <1>5, <1>6, <1>7 DEF Next
<1>9. UNCHANGED <<draft, posts>>
  BY <1>8 DEF PreparePostPublicationIntent, RecordSignedPostEnvelope, RecordPostStorageReceipt,
     RecordFinalizedTransaction, AcknowledgeIntent, chain
<1>. QED
  BY <1>8, <1>9

(* Without a step of the draft or the intent, the feed grows by the post   *)
(* of the intent or not at all.                                            *)
LEMMA FeedGrows ==
    ASSUME IInv, [Next]_vars, UNCHANGED <<draft, intent>>
    PROVE  \/ DeskFeed' = DeskFeed
           \/ /\ intent # Nothing /\ DeskFeed[intent.nonce] = Nothing
              /\ DeskFeed' = [DeskFeed EXCEPT ![intent.nonce] = intent.text]
<1>1. CASE UNCHANGED posts
  BY <1>1 DEF DeskFeed
<1>2. CASE \E n \in Nonces : FinalizeSlot(n)
  <2>1. PICK n \in Nonces : FinalizeSlot(n)
    BY <1>2
  <2>2. posts[n] \in PostRecords /\ posts[n] # Nothing
    BY <2>1 DEF FinalizeSlot, IInv, TypeOK
  <2>3. posts' = [posts EXCEPT ![n] = [posts[n] EXCEPT !.final = TRUE]]
    BY <2>1 DEF FinalizeSlot, IInv, TypeOK
  <2>4. [posts[n] EXCEPT !.final = TRUE] \in PostRecords
    BY <2>2 DEF PostRecords
  <2>5. /\ [posts[n] EXCEPT !.final = TRUE] # Nothing
        /\ [posts[n] EXCEPT !.final = TRUE].text = posts[n].text
    BY <2>2, <2>4, NothingAssumption DEF PostRecords
  <2>6. \A m \in Nonces : /\ posts'[m] = Nothing <=> posts[m] = Nothing
                          /\ posts'[m] # Nothing => posts'[m].text = posts[m].text
    BY <2>2, <2>3, <2>5 DEF IInv, TypeOK
  <2>. QED
    BY <2>6 DEF DeskFeed
<1>3. CASE \E w \in wires : IncludePost(w)
  <2>1. PICK w \in wires : IncludePost(w)
    BY <1>3
  <2>2. w \in WireRecords /\ w.nonce \in Nonces /\ w.text \in Texts /\ posts[w.nonce] = Nothing
    BY <2>1 DEF IncludePost, WireRecords, IInv, TypeOK
  <2>3. intent # Nothing /\ w.nonce = intent.nonce /\ w.text = intent.text
    BY <2>2 DEF IInv, WiresOwned
  <2>4. PICK mates : posts' = [posts EXCEPT ![w.nonce] =
                        [text |-> w.text, creator |-> w.attempt, final |-> FALSE, mates |-> mates]]
                     /\ mates \subseteq Attempts
    <3>1. PICK late \in SUBSET (Wires(w.nonce) \ {w}) :
             posts' = [posts EXCEPT ![w.nonce] =
                [text |-> w.text, creator |-> w.attempt, final |-> FALSE,
                 mates |-> {v.attempt : v \in late \cup {w}}]]
      BY <2>1 DEF IncludePost
    <3>2. {v.attempt : v \in late \cup {w}} \subseteq Attempts
      BY <2>2 DEF Wires, WireRecords, IInv, TypeOK
    <3>. QED
      BY <3>1, <3>2
  <2>. DEFINE p == [text |-> w.text, creator |-> w.attempt, final |-> FALSE, mates |-> mates]
  <2>5. p \in PostRecords
    BY <2>2, <2>4 DEF PostRecords, WireRecords
  <2>6. p # Nothing /\ p.text = w.text
    BY <2>5, NothingAssumption
  <2>7. posts' = [posts EXCEPT ![w.nonce] = p]
    BY <2>4
  <2>. HIDE DEF p
  <2>8. \A m \in Nonces : DeskFeed'[m] = IF m = w.nonce THEN w.text ELSE DeskFeed[m]
    BY <2>2, <2>6, <2>7 DEF DeskFeed, IInv, TypeOK
  <2>9. DeskFeed' = [DeskFeed EXCEPT ![w.nonce] = w.text]
    BY <2>8 DEF DeskFeed
  <2>10. DeskFeed[w.nonce] = Nothing
    BY <2>2 DEF DeskFeed
  <2>. QED
    BY <2>3, <2>9, <2>10
<1>4. UNCHANGED posts \/ (\E n \in Nonces : FinalizeSlot(n)) \/ (\E w \in wires : IncludePost(w))
  <2>1. ASSUME NEW t \in Tabs, Composer(t) PROVE UNCHANGED posts
    BY <2>1 DEF Composer, Compose, Click, Refuse, SaveLockedDraft, DiscardLockedDraft,
       SelectLockedState, chain
  <2>2. ASSUME NEW t \in Tabs, Publish(t) PROVE UNCHANGED posts
    BY <2>2 DEF Publish, ReadIdentity, PreparePostPublicationIntent, RecordSignedPostEnvelope,
       RecordPostStorageReceipt, ReconcilePost, SubmitPost, VerifyFinality, RecoverTransaction,
       RecordFinalizedTransaction, FailPublication, chain
  <2>3. ASSUME NEW t \in Tabs, Cleanup(t) PROVE UNCHANGED posts
    BY <2>3 DEF Cleanup, CleanupDone, BeginCleanup, ClearDraft, KeepDraft, AcknowledgeIntent,
       KeepIntent, chain
  <2>4. ASSUME NEW t \in Tabs, Notify(t) \/ Reload(t) PROVE UNCHANGED posts
    BY <2>4 DEF Notify, Reload, chain
  <2>5. ASSUME NEW w \in wires, DropWire(w) PROVE UNCHANGED posts
    BY <2>5 DEF DropWire, chain
  <2>6. ActElsewhere \/ UNCHANGED vars => UNCHANGED posts
    BY DEF ActElsewhere, vars, chain
  <2>. QED
    BY <2>1, <2>2, <2>3, <2>4, <2>5, <2>6 DEF Next
<1>. QED
  BY <1>1, <1>2, <1>3, <1>4

(* A step of the browser or the chain is one of the outbox, or none.       *)
LEMMA DeskStep ==
    ASSUME IInv, [Next]_vars
    PROVE  [Desk!Next]_(Desk!vars)
<1>. USE DEF DeskBound, DeskFeed
<1>1. CASE UNCHANGED <<draft, intent>>
  <2>1. CASE DeskFeed' = DeskFeed
    BY <1>1, <2>1 DEF Desk!vars
  <2>2. CASE /\ intent # Nothing /\ DeskFeed[intent.nonce] = Nothing
             /\ DeskFeed' = [DeskFeed EXCEPT ![intent.nonce] = intent.text]
    <3>1. DeskBound = [nonce |-> intent.nonce, text |-> intent.text] /\ DeskBound # Nothing
      BY <2>2, IntentTyped, NothingAssumption
    <3>2. Desk!Post
      BY <1>1, <2>2, <3>1 DEF Desk!Post
    <3>. QED
      BY <3>2 DEF Desk!Next
  <2>. QED
    BY <1>1, <2>1, <2>2, FeedGrows
<1>2. CASE draft' # draft
  <2>1. PICK t \in Tabs :
          SaveLockedDraft(t) \/ DiscardLockedDraft(t) \/ SelectLockedState(t) \/ ClearDraft(t)
    BY <1>2, DraftWriters
  <2>2. CASE SaveLockedDraft(t) \/ SelectLockedState(t)
    <3>1. PICK x \in Texts :
            draft' = x /\ intent = Nothing /\ UNCHANGED <<intent, posts>>
      BY <1>2, <2>2, SavedDraft DEF chain
    <3>2. Desk!Save(x)
      BY <3>1 DEF Desk!Save
    <3>. QED
      BY <3>2 DEF Desk!Next
  <2>3. CASE DiscardLockedDraft(t)
    <3>1. intent = Nothing /\ draft' = Nothing /\ UNCHANGED <<intent, posts>>
      BY <2>3 DEF DiscardLockedDraft, WriteDraft, chain
    <3>2. Desk!Discard
      BY <3>1 DEF Desk!Discard
    <3>. QED
      BY <3>2 DEF Desk!Next
  <2>4. CASE ClearDraft(t)
    <3>1. draft' = Nothing /\ UNCHANGED <<intent, posts>>
      BY <2>4 DEF ClearDraft, WriteDraft, chain
    <3>2. intent # Nothing /\ Final(intent.nonce) /\ draft = intent.text
      BY <1>2, <2>4, <3>1, ClearedWhenFinal
    <3>3. DeskBound = [nonce |-> intent.nonce, text |-> intent.text] /\ DeskBound # Nothing
      BY <3>2, IntentTyped, NothingAssumption
    <3>4. DeskFeed[intent.nonce] = draft
      BY <3>2, IntentTyped DEF Final, IInv, PostsOwned
    <3>5. Desk!Clear
      BY <3>1, <3>3, <3>4 DEF Desk!Clear
    <3>. QED
      BY <3>5 DEF Desk!Next
  <2>. QED
    BY <2>1, <2>2, <2>3, <2>4
<1>3. CASE intent' # intent
  <2>1. UNCHANGED <<draft, posts>>
    BY <1>3, IntentWriters
  <2>2. PICK t \in Tabs :
           \/ PreparePostPublicationIntent(t) \/ RecordSignedPostEnvelope(t)
           \/ RecordPostStorageReceipt(t) \/ RecordFinalizedTransaction(t)
           \/ AcknowledgeIntent(t)
    BY <1>3, IntentWriters
  <2>3. /\ TabSound(t) /\ tabs[t] \in TabRecords
        /\ tabs[t].chosen \in Texts \cup {Nothing} /\ IInv'
    BY CleanupTyped, StepKeeps
  <2>4. CASE PreparePostPublicationIntent(t)
    <3>1. PICK n \in Nonces \ drawn :
            /\ intent = Nothing
            /\ intent' = [stage |-> "prepared", nonce |-> n, text |-> tabs[t].chosen,
                          expected |-> tabs[t].sequence, evidence |-> Nothing]
      BY <1>3, <2>4 DEF PreparePostPublicationIntent
    <3>2. tabs[t].chosen = draft /\ draft # Nothing
      BY <2>3, <2>4, <3>1 DEF PreparePostPublicationIntent, Holds, TabSound, Publishing,
         DraftChosen, Working
    <3>3. intent' # Nothing /\ intent'.nonce = n /\ intent'.text = draft
      <4>1. tabs'[t].pc = "prepared"
        BY <2>3, <2>4 DEF PreparePostPublicationIntent, IInv, TypeOK, TabRecords
      <4>2. intent' # Nothing
        BY <2>3, <4>1 DEF IInv, TabSound, IntentHeld, Working
      <4>. QED
        BY <3>1, <3>2, <4>2
    <3>4. DeskFeed[n] = Nothing
      BY <3>1 DEF IInv, PostsOwned
    <3>5. Desk!Bind(n)
      BY <2>1, <3>1, <3>2, <3>3, <3>4 DEF Desk!Bind
    <3>. QED
      BY <3>5 DEF Desk!Next
  <2>5. CASE \/ RecordSignedPostEnvelope(t) \/ RecordPostStorageReceipt(t)
             \/ RecordFinalizedTransaction(t)
    <3>1. intent # Nothing
      BY <2>3, <2>5 DEF RecordSignedPostEnvelope, RecordPostStorageReceipt,
         RecordFinalizedTransaction, Holds, TabSound, IntentHeld, Working
    <3>2. intent \in Intents
      BY <3>1, IntentTyped
    <3>3. intent'.nonce = intent.nonce /\ intent'.text = intent.text
      <4>1. CASE RecordSignedPostEnvelope(t) \/ RecordPostStorageReceipt(t)
        BY <1>3, <3>2, <4>1 DEF RecordSignedPostEnvelope, RecordPostStorageReceipt, WriteIntent,
           Intents
      <4>2. CASE RecordFinalizedTransaction(t)
        BY <3>2, <4>2 DEF RecordFinalizedTransaction, Intents
      <4>. QED
        BY <2>5, <4>1, <4>2
    <3>4. intent' # Nothing
      <4>1. tabs'[t].pc \in {"signed", "stored", "recorded"}
        BY <2>5 DEF RecordSignedPostEnvelope, RecordPostStorageReceipt,
           RecordFinalizedTransaction, Go, IInv, TypeOK, TabRecords
      <4>. QED
        BY <2>3, <4>1 DEF IInv, TabSound, IntentHeld, Working
    <3>. QED
      BY <2>1, <3>1, <3>3, <3>4 DEF Desk!vars
  <2>6. CASE AcknowledgeIntent(t)
    <3>1. /\ intent # Nothing /\ intent.stage = "finalized" /\ draft = Nothing /\ intent' = Nothing
      BY <2>3, <2>6 DEF AcknowledgeIntent, Holds, TabSound, IntentHeld, Working
    <3>2. posts[intent.nonce] # Nothing /\ posts[intent.nonce].text \in Texts
      BY <3>1, IntentTyped DEF IInv, EvidenceExact, Final, PostsOwned
    <3>3. DeskBound = [nonce |-> intent.nonce, text |-> intent.text] /\ DeskBound # Nothing
      BY <3>1, IntentTyped, NothingAssumption
    <3>4. DeskFeed[intent.nonce] # Nothing
      BY <3>1, <3>2, IntentTyped, NothingAssumption
    <3>5. Desk!Retire
      BY <2>1, <3>1, <3>3, <3>4 DEF Desk!Retire
    <3>. QED
      BY <3>5 DEF Desk!Next
  <2>. QED
    BY <2>2, <2>4, <2>5, <2>6
<1>. QED
  BY <1>1, <1>2, <1>3

(* Whatever the tabs do, fail at or leave half done, the browser and the   *)
(* chain together keep the promises of an outbox.                          *)
THEOREM OutboxKept == Spec => ImplementsOutbox
<1>1. Init => Desk!Init
  BY DEF Init, Desk!Init
<1>2. IInv /\ [Next]_vars => [Desk!Next]_(Desk!vars)
  BY DeskStep
<1>. QED
  BY <1>1, <1>2, Invariance, PTL DEF Spec, ImplementsOutbox, Desk!Spec
=============================================================================
