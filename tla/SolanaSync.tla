----------------------------- MODULE SolanaSync -----------------------------
(***************************************************************************)
(* The finalized-ingestion worker (SolanaSyncWorker) at work on the        *)
(* projection store, over RPC endpoints that lag behind each other.        *)
(*                                                                         *)
(* A poll (runOnce) reads the finalized tip and the checkpoint, pages      *)
(* through the program's signatures from the newest to the checkpoint,     *)
(* ingests the transactions in chain order, log by log, advances the       *)
(* checkpoint to the tip if nothing is left unresolved, and then hydrates  *)
(* the pending manifests that are due.  The steps are split where the      *)
(* worker awaits; a crash, a shutdown or an uncaught error ends the poll   *)
(* at any of them, and only the store survives.                            *)
(***************************************************************************)
EXTENDS ProjectionStore, FailoverRpc, FiniteSets

CONSTANTS
    NumTxs,           \* the program's finalized transactions, in chain order
    TxSlot,           \* the slot of a transaction
    FailedTxs,        \* those that failed on chain; they emit no event
    TxOf,             \* the transaction that logged an event
    Unsupported,      \* events the deployed decoder cannot decode
    Invalid,          \* manifest events whose bytes never verify
    DeploymentSlot,
    BatchSize,        \* signatures per page and hydrations per poll
    MaxCrashes        \* bound: how often the worker may crash

Txs == 1..NumTxs

ASSUME SyncAssumption ==
    /\ NumTxs \in Nat
    /\ TxSlot \in [Txs -> 0..FinalSlot]
    /\ FailedTxs \subseteq Txs
    /\ TxOf \in [Events -> Txs \ FailedTxs]
    /\ \A t, u \in Txs : t <= u => TxSlot[t] <= TxSlot[u]
    /\ \A e \in Events : Slot[e] = TxSlot[TxOf[e]]
    /\ \A e, f \in Events : e <= f => TxOf[e] <= TxOf[f]
    /\ Unsupported \subseteq Events
    /\ Invalid \subseteq {e \in Events : BearsManifest(e)}
    /\ DeploymentSlot \in Nat
    /\ \A t \in Txs : DeploymentSlot <= TxSlot[t]
    /\ BatchSize \in Nat \ {0}
    /\ MaxCrashes \in Nat

VARIABLES
    transactionRetry,   \* the dead letter of a transaction that was not fetched
    pc,                 \* where runOnce awaits
    finalizedTip, fromSlot,
    before,             \* the page boundary: only transactions below it
    collected,          \* the signatures found so far
    tx, log,            \* the last transaction, and the last event of it, handled
    due,                \* the pending manifests left to hydrate in this poll
    crashes

pollVars == <<finalizedTip, fromSlot, before, collected, tx, log, due>>
vars == <<storeVars, rpcVars, transactionRetry, pc, pollVars, crashes>>

Steps == {"idle", "checkpoint", "collect", "transaction", "log", "resolve",
          "advance", "drain", "hydrate"}

TypeOK ==
    /\ StoreTypeOK
    /\ RpcTypeOK
    /\ transactionRetry \in [Txs -> {"none", "waiting", "due"}]
    /\ pc \in Steps
    /\ finalizedTip \in 0..FinalSlot
    /\ fromSlot \in Nat
    /\ before \in 0..(NumTxs + 1)
    /\ collected \subseteq Txs
    /\ tx \in 0..NumTxs
    /\ log \in 0..NumEvents
    /\ due \subseteq Events
    /\ crashes \in 0..MaxCrashes

Init ==
    /\ StoreInit
    /\ RpcInit
    /\ transactionRetry = [t \in Txs |-> "none"]
    /\ pc = "idle"
    /\ finalizedTip = 0
    /\ fromSlot = 0
    /\ before = 0
    /\ collected = {}
    /\ tx = 0
    /\ log = 0
    /\ due = {}
    /\ crashes = 0

\* The variables of a poll are forgotten, and the next poll starts from the store.
ForgetPoll ==
    /\ finalizedTip' = 0
    /\ fromSlot' = 0
    /\ before' = 0
    /\ collected' = {}
    /\ tx' = 0
    /\ log' = 0
    /\ due' = {}

EndPoll == pc' = "idle" /\ ForgetPoll

-----------------------------------------------------------------------------
(* The scan: tip, checkpoint, signatures.                                  *)

ReadFinalizedTip(ep) ==
    /\ pc = "idle"
    /\ Answers(ep, Endpoints)
    /\ finalizedTip' = view[ep]
    /\ pc' = "checkpoint"
    /\ UNCHANGED <<storeVars, transactionRetry, fromSlot, before, collected, tx, log,
                   due, crashes>>

\* Mutant: the scan starts at the checkpoint even if there is none yet.
ReadCheckpointUnbounded ==
    /\ pc = "checkpoint"
    /\ fromSlot' = checkpoint
    /\ before' = NumTxs + 1
    /\ pc' = "collect"
    /\ UNCHANGED <<storeVars, rpcVars, transactionRetry, finalizedTip, collected, tx, log,
                   due, crashes>>

ReadCheckpoint ==
    /\ pc = "checkpoint"
    /\ fromSlot' = IF checkpoint < DeploymentSlot THEN DeploymentSlot ELSE checkpoint
    /\ before' = NumTxs + 1
    /\ pc' = "collect"
    /\ UNCHANGED <<storeVars, rpcVars, transactionRetry, finalizedTip, collected, tx, log,
                   due, crashes>>

\* The transactions ep knows below the page boundary: 1..n for some n.
Known(ep) == {t \in Txs : TxSlot[t] <= view[ep] /\ t < before}

\* The newest BatchSize of them.
Page(ep) == {t \in Known(ep) : t + BatchSize \notin Known(ep)}

(* One round of #collectSignatures.  It was the last one if the page is    *)
(* short or reaches below fromSlot.                                        *)
FetchPage(ep) ==
    /\ pc = "collect"
    /\ Answers(ep, Endpoints)
    /\ collected' = collected \cup
           {t \in Page(ep) : fromSlot <= TxSlot[t] /\ TxSlot[t] <= finalizedTip}
    /\ IF \/ BatchSize \notin Known(ep)
          \/ \E t \in Page(ep) : TxSlot[t] < fromSlot
       THEN pc' = "transaction" /\ UNCHANGED before
       ELSE /\ UNCHANGED pc
            /\ before' \in {t \in Page(ep) : \A u \in Page(ep) : t <= u}
    /\ UNCHANGED <<storeVars, transactionRetry, finalizedTip, fromSlot, tx, log, due,
                   crashes>>

\* #collectSignatures throws out of runOnce, so nothing is hydrated either.
NoEndpointAnswers ==
    /\ pc = "collect"
    /\ NoneAnswers(Endpoints)
    /\ EndPoll
    /\ UNCHANGED <<storeVars, transactionRetry, crashes>>

-----------------------------------------------------------------------------
(* The signature loop.                                                     *)

NextTx(t) == t \in collected /\ tx < t /\ \A u \in collected : tx < u => t <= u

\* The scan is over, and nothing it found is used again.
EndScan == pc' = "drain" /\ ForgetPoll /\ UNCHANGED crashes

\* Mutant: a scan that is broken off advances the checkpoint all the same.
BreakScanAndAdvance == pc' = "advance" /\ UNCHANGED <<pollVars, crashes>>

\* "break signatureLoop" with hasUnresolvedFailure: the checkpoint stays.
BreakScan == EndScan

SkipFailedTx(t) ==
    /\ pc = "transaction"
    /\ NextTx(t)
    /\ t \in FailedTxs
    /\ tx' = t
    /\ UNCHANGED <<storeVars, rpcVars, transactionRetry, pc, finalizedTip, fromSlot, before,
                   collected, log, due, crashes>>

TxBacksOff(t) ==
    /\ pc = "transaction"
    /\ NextTx(t)
    /\ t \notin FailedTxs
    /\ transactionRetry[t] = "waiting"
    /\ BreakScan
    /\ UNCHANGED <<storeVars, rpcVars, transactionRetry>>

FetchTx(t, ep) ==
    /\ pc = "transaction"
    /\ NextTx(t)
    /\ t \notin FailedTxs
    /\ transactionRetry[t] # "waiting"
    /\ Answers(ep, {k \in Endpoints : TxSlot[t] <= view[k]})
    /\ transactionRetry' = [transactionRetry EXCEPT ![t] = "none"]
    /\ tx' = t
    /\ log' = 0
    /\ pc' = "log"
    /\ UNCHANGED <<storeVars, finalizedTip, fromSlot, before, collected, due, crashes>>

\* #deferTransaction
DeferTx(t) ==
    /\ pc = "transaction"
    /\ NextTx(t)
    /\ t \notin FailedTxs
    /\ transactionRetry[t] # "waiting"
    /\ NoneAnswers({k \in Endpoints : TxSlot[t] <= view[k]})
    /\ transactionRetry' = [transactionRetry EXCEPT ![t] = "waiting"]
    /\ BreakScan
    /\ UNCHANGED storeVars

ScanEnds ==
    /\ pc = "transaction"
    /\ ~\E t \in collected : tx < t
    /\ pc' = "advance"
    /\ UNCHANGED <<storeVars, rpcVars, transactionRetry, pollVars, crashes>>

AdvanceToTip ==
    /\ pc = "advance"
    /\ AdvanceCheckpoint(finalizedTip)
    /\ EndScan
    /\ UNCHANGED <<rpcVars, transactionRetry>>

-----------------------------------------------------------------------------
(* The log loop of one transaction.                                        *)

NextLog(e) ==
    /\ pc = "log"
    /\ TxOf[e] = tx
    /\ log < e
    /\ \A f \in Events : TxOf[f] = tx /\ log < f => e <= f

workerKeeps == <<rpcVars, transactionRetry, finalizedTip, fromSlot, before, collected, tx,
                 due, crashes>>

LogsEnd ==
    /\ pc = "log"
    /\ ~\E e \in Events : TxOf[e] = tx /\ log < e
    /\ pc' = "transaction"
    /\ UNCHANGED <<storeVars, log, workerKeeps>>

(* Decoding, and the reads of the store that materialize makes.  A         *)
(* tombstone needs the reference its post left, a reference any recorded   *)
(* disposition of the post leaves.                                         *)
Materializes(e) ==
    /\ e \notin Unsupported
    /\ Kind[e] = "tombstone" => Recorded(Target[e])

(* materialize throws, because it cannot work or because a read of the     *)
(* store fails.  The failure is recorded and ends the scan, except while   *)
(* the retry of an earlier one is not due.  recordDeadLetter refuses a     *)
(* pending event: that error ends the poll.                                *)
MaterializeFails(e) ==
    /\ NextLog(e)
    /\ UNCHANGED <<rpcVars, transactionRetry>>
    /\ IF deadLetter[e] = "waiting"
       THEN BreakScan /\ UNCHANGED storeVars
       ELSE IF disposition[e] = "pending"
       THEN EndPoll /\ UNCHANGED <<storeVars, crashes>>
       ELSE /\ IF deadLetter[e] = "terminal" THEN UNCHANGED storeVars
                                              ELSE RecordDeadLetter(e)
            /\ BreakScan

\* Mutant: the dead letter of an event accepted before a crash is left alone.
SeeAcceptedQuietly(e) ==
    /\ NextLog(e)
    /\ Materializes(e)
    /\ disposition[e] = "accepted"
    /\ log' = e
    /\ UNCHANGED <<storeVars, pc, workerKeeps>>

\* An event that is already accepted: what a crash may have left is resolved.
SeeAccepted(e) ==
    /\ NextLog(e)
    /\ Materializes(e)
    /\ disposition[e] = "accepted"
    /\ deadLetter[e] # "terminal"
    /\ ResolveDeadLetter(e)
    /\ log' = e
    /\ UNCHANGED <<pc, workerKeeps>>

\* Mutant: a pending manifest holds up the scan until it is hydrated.
SeeTerminalAwaitPending(e) ==
    /\ NextLog(e)
    /\ Materializes(e)
    /\ UNCHANGED storeVars
    /\ \/ disposition[e] = "pending" /\ BreakScan /\ UNCHANGED <<rpcVars, transactionRetry>>
       \/ disposition[e] = "terminal" /\ log' = e /\ UNCHANGED <<pc, workerKeeps>>

SeePendingOrTerminal(e) ==
    /\ NextLog(e)
    /\ Materializes(e)
    /\ disposition[e] \in {"pending", "terminal"}
    /\ log' = e
    /\ UNCHANGED <<storeVars, pc, workerKeeps>>

\* A retry that is not due holds up a new event; a terminal dead letter any.
EventBacksOff(e) ==
    /\ NextLog(e)
    /\ Materializes(e)
    /\ disposition[e] \in {"absent", "accepted"}
    /\ deadLetter[e] \in {"terminal"} \cup (IF Recorded(e) THEN {} ELSE {"waiting"})
    /\ BreakScan
    /\ UNCHANGED <<storeVars, rpcVars, transactionRetry>>

\* The event is new and no retry of it is pending: it is ingested.
Ingests(e) ==
    /\ NextLog(e)
    /\ Materializes(e)
    /\ ~Recorded(e)
    /\ deadLetter[e] \in {"none", "due"}

\* The manifest, if there is one, verifies; the dead letter is resolved next.
IngestEvent(e) ==
    /\ Ingests(e)
    /\ e \notin Invalid
    /\ Apply(e)
    /\ pc' = "resolve"
    /\ log' = e
    /\ UNCHANGED workerKeeps

ResolveIngested ==
    /\ pc = "resolve"
    /\ ResolveDeadLetter(log)
    /\ pc' = "log"
    /\ UNCHANGED <<log, workerKeeps>>

\* The event is accepted, but its dead letter could not be resolved.
ResolveFails ==
    /\ pc = "resolve"
    /\ RecordDeadLetter(log)
    /\ BreakScan
    /\ UNCHANGED <<rpcVars, transactionRetry>>

\* Mutant: only the dead letter of a quarantined event is written.
QuarantineDeadLetterOnly(e) ==
    /\ Ingests(e)
    /\ e \in Invalid
    /\ deadLetter' = [deadLetter EXCEPT ![e] = "terminal"]
    /\ log' = e
    /\ UNCHANGED <<disposition, checkpoint, lastEvent, latestProfile, profile, post, pc,
                   workerKeeps>>

\* The manifest is there and does not verify.
QuarantineEvent(e) ==
    /\ Ingests(e)
    /\ e \in Invalid
    /\ QuarantineManifestEvent(e)
    /\ log' = e
    /\ UNCHANGED <<pc, workerKeeps>>

\* The bytes of the manifest cannot be had.
DeferEvent(e) ==
    /\ Ingests(e)
    /\ DeferManifestEvent(e)
    /\ log' = e
    /\ UNCHANGED <<pc, workerKeeps>>

\* The store refuses the event as stale, or fails.
IngestFails(e) ==
    /\ Ingests(e)
    /\ RecordDeadLetter(e)
    /\ BreakScan
    /\ UNCHANGED <<rpcVars, transactionRetry>>

-----------------------------------------------------------------------------
(* #drainDuePendingManifests                                               *)

DuePending == {e \in Events : disposition[e] = "pending" /\ deadLetter[e] = "due"}

\* The BatchSize oldest: any BatchSize of them, as ages are not modelled.
ReadDue ==
    /\ pc = "drain"
    /\ due' \in {d \in SUBSET DuePending :
                    \/ d = DuePending /\ Cardinality(d) <= BatchSize
                    \/ Cardinality(d) = BatchSize}
    /\ pc' = "hydrate"
    /\ UNCHANGED <<storeVars, rpcVars, transactionRetry, finalizedTip, fromSlot, before,
                   collected, tx, log, crashes>>

hydrateKeeps == <<rpcVars, transactionRetry, pc, finalizedTip, fromSlot, before, collected,
                  tx, log, crashes>>

Hydrate(e) ==
    /\ pc = "hydrate"
    /\ e \in due
    /\ due' = due \ {e}
    /\ IF e \in Invalid THEN RejectPendingManifestEvent(e) ELSE PromoteManifestEvent(e)
    /\ UNCHANGED hydrateKeeps

\* Mutant: a failed hydration is the last attempt.
HydrationGivesUp(e) ==
    /\ pc = "hydrate"
    /\ e \in due
    /\ due' = due \ {e}
    /\ deadLetter' = [deadLetter EXCEPT ![e] = "none"]
    /\ UNCHANGED <<disposition, checkpoint, lastEvent, latestProfile, profile, post,
                   hydrateKeeps>>

\* The bytes are still missing, or the store failed.
HydrationFails(e) ==
    /\ pc = "hydrate"
    /\ e \in due
    /\ due' = due \ {e}
    /\ ReschedulePendingManifestEvent(e)
    /\ UNCHANGED hydrateKeeps

PollEnds ==
    /\ pc = "hydrate"
    /\ due = {}
    /\ EndPoll
    /\ UNCHANGED <<storeVars, rpcVars, transactionRetry, crashes>>

-----------------------------------------------------------------------------
(* Around the worker.                                                      *)

(* The process dies and is started again, or is shut down (the abort       *)
(* signal is checked between the steps), or a call of the store throws out *)
(* of runOnce.                                                             *)
Crash ==
    /\ pc # "idle"
    /\ crashes < MaxCrashes
    /\ crashes' = crashes + 1
    /\ EndPoll
    /\ nextEndpoint' \in {1, nextEndpoint}
    /\ UNCHANGED <<storeVars, view, transactionRetry>>

workerIdles == <<transactionRetry, pc, pollVars, crashes>>

EventRetryDue(e) == AttemptComesDue(e) /\ UNCHANGED <<rpcVars, workerIdles>>

TxRetryDue(t) ==
    /\ transactionRetry[t] = "waiting"
    /\ transactionRetry' = [transactionRetry EXCEPT ![t] = "due"]
    /\ UNCHANGED <<storeVars, rpcVars, pc, pollVars, crashes>>

SlotFinalized(ep) == EndpointAdvances(ep) /\ UNCHANGED <<storeVars, workerIdles>>

-----------------------------------------------------------------------------

Scan ==
    \/ \E ep \in Endpoints : ReadFinalizedTip(ep) \/ FetchPage(ep)
    \/ ReadCheckpoint
    \/ NoEndpointAnswers
    \/ \E t \in Txs :
          \/ SkipFailedTx(t)
          \/ TxBacksOff(t)
          \/ \E ep \in Endpoints : FetchTx(t, ep)
          \/ DeferTx(t)
    \/ ScanEnds
    \/ AdvanceToTip

ProcessLogs ==
    \/ LogsEnd
    \/ ResolveIngested
    \/ ResolveFails
    \/ \E e \in Events :
          \/ MaterializeFails(e)
          \/ SeeAccepted(e)
          \/ SeePendingOrTerminal(e)
          \/ EventBacksOff(e)
          \/ IngestEvent(e)
          \/ QuarantineEvent(e)
          \/ DeferEvent(e)
          \/ IngestFails(e)

Drain ==
    \/ ReadDue
    \/ PollEnds
    \/ \E e \in Events : Hydrate(e) \/ HydrationFails(e)

Environment ==
    \/ Crash
    \/ \E e \in Events : EventRetryDue(e)
    \/ \E t \in Txs : TxRetryDue(t)
    \/ \E ep \in Endpoints : SlotFinalized(ep)

Next == Scan \/ ProcessLogs \/ Drain \/ Environment

Spec == Init /\ [][Next]_vars

-----------------------------------------------------------------------------
(***************************************************************************)
(* Properties.                                                             *)
(***************************************************************************)

(* Every finalized event of a slot below the durable checkpoint is in the  *)
(* ledger.  runOnce never looks below the checkpoint again, so an event    *)
(* the checkpoint passes is lost until an operator intervenes.  Crashes,   *)
(* retries, pages and the checkpoint writes of the store itself must all   *)
(* keep to it.                                                             *)
NothingSkipped == \A e \in Events : Slot[e] < checkpoint => Recorded(e)

(* Below the checkpoint the only retries are those of pending manifests,   *)
(* which the drain picks up: any other dead letter there would be retried  *)
(* by nobody.  (apply and resolveDeadLetter are separate writes.)          *)
NoStrandedRetry ==
    /\ \A e \in Events : Slot[e] < checkpoint /\ deadLetter[e] \in {"waiting", "due"}
                           => disposition[e] = "pending"
    /\ \A t \in Txs : TxSlot[t] < checkpoint => transactionRetry[t] = "none"

(* A slot is checkpointed only once every event of it is in the ledger,    *)
(* at least between polls (docs/DECISIONS/0004, "Checkpoint and replay").  *)
(* The store does not keep to it: each insertion raises the checkpoint to  *)
(* the slot of its event, whatever else that slot holds.                   *)
CheckpointedSlotsRecorded ==
    pc = "idle" => \A e \in Events : Slot[e] <= checkpoint => Recorded(e)

\* What the worker does to the store is what the store allows its callers.
ImplementsStore == StoreSpec

(* Whatever the worker handles of an event once it is materialized.        *)
HandleLog(e) ==
    \/ SeeAccepted(e)
    \/ SeePendingOrTerminal(e)
    \/ IngestEvent(e)
    \/ QuarantineEvent(e)
    \/ DeferEvent(e)

(* The worker polls for ever (run), retries come due, endpoints finalize   *)
(* the history, and no call fails for ever: every page and transaction is  *)
(* fetched and every log handled if that is attempted again and again, as  *)
(* the code does, without limit.  Nothing is assumed of the content        *)
(* providers.                                                              *)
Fairness ==
    /\ WF_vars(Scan \/ ProcessLogs \/ Drain)
    /\ \A e \in Events : WF_vars(EventRetryDue(e)) /\ SF_vars(HandleLog(e))
    /\ \A t \in Txs : WF_vars(TxRetryDue(t)) /\ SF_vars(\E ep \in Endpoints : FetchTx(t, ep))
    /\ \A ep \in Endpoints : WF_vars(SlotFinalized(ep))
    /\ \A b \in 1..(NumTxs + 1) : SF_vars(before = b /\ \E ep \in Endpoints : FetchPage(ep))

FairSpec == Spec /\ Fairness

(* Content that is never found holds up neither the ingestion of any other *)
(* event nor the checkpoint.                                               *)
MissingContentNeverBlocks ==
    /\ \A e \in Events : <>Recorded(e)
    /\ <>[](checkpoint = FinalSlot)

(* Every manifest is accepted or rejected in the end, if the bytes of each *)
(* are found when they are asked for again and again.                      *)
EverythingSettles ==
    (\A e \in Events : SF_vars(Hydrate(e)))
        => \A e \in Events : <>(disposition[e] \in {"accepted", "terminal"})
=============================================================================
