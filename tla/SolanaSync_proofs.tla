-------------------------- MODULE SolanaSync_proofs -------------------------
(***************************************************************************)
(* Proofs about the ingestion worker, for every finalized history, every   *)
(* page size and any number of crashes: it uses the store as the store     *)
(* allows, and its checkpoint passes no event and strands no retry as long *)
(* as no page comes from an endpoint that lags behind the tip of the poll. *)
(* (With endpoints that do lag the last two are false; MCSolanaSyncLagging *)
(* shows how.)  A single endpoint never does.                              *)
(*                                                                         *)
(* Neither NothingSkipped nor NoStrandedRetry is inductive: the checkpoint *)
(* moves to the slot of the transaction at hand, or to the tip, and that   *)
(* nothing below is left open follows from what the poll has collected and *)
(* handled so far.  ScanInv says so, step by step of the poll.             *)
(***************************************************************************)
EXTENDS SolanaSync, ProjectionStore_proofs

(* What a poll holds, besides its type: the log to be resolved is an event. *)
WorkerTypeOK ==
    /\ RpcTypeOK
    /\ transactionRetry \in [Txs -> {"none", "waiting", "due"}]
    /\ pc \in Steps
    /\ finalizedTip \in 0..FinalSlot
    /\ fromSlot \in Nat
    /\ before \in 0..(NumTxs + 1)
    /\ collected \subseteq Txs
    /\ tx \in 0..NumTxs
    /\ log \in 0..NumEvents
    /\ due \subseteq Events
    /\ crashes \in 0..MaxCrashes
    /\ pc = "resolve" => log \in Events

SyncTypeInv == StoreInv /\ WorkerTypeOK

-----------------------------------------------------------------------------

(* Every step of the worker is a step of the store or leaves it alone.     *)
LEMMA WorkerUsesStore ==
    ASSUME WorkerTypeOK, [Next]_vars
    PROVE  [StoreNext]_storeVars
<1>1. CASE Scan
  <2>1. CASE AdvanceToTip
    <3>1. AdvanceCheckpoint(finalizedTip) /\ finalizedTip \in 0..FinalSlot
      BY <2>1 DEF AdvanceToTip, WorkerTypeOK
    <3> QED BY <3>1 DEF StoreNext
  <2>2. CASE ~AdvanceToTip
    BY <1>1, <2>2 DEF Scan, ReadFinalizedTip, FetchPage, ReadCheckpoint, NoEndpointAnswers,
                      SkipFailedTx, TxBacksOff, FetchTx, DeferTx, ScanEnds
  <2> QED BY <2>1, <2>2
<1>2. CASE ProcessLogs
  <2>1. CASE LogsEnd
    BY <2>1 DEF LogsEnd
  <2>2. CASE ResolveIngested
    <3>1. log \in Events /\ ResolveDeadLetter(log)
      BY <2>2 DEF ResolveIngested, WorkerTypeOK
    <3> QED BY <3>1 DEF StoreNext
  <2>3. CASE ResolveFails
    <3>1. log \in Events /\ RecordDeadLetter(log)
      BY <2>3 DEF ResolveFails, WorkerTypeOK
    <3> QED BY <3>1 DEF StoreNext
  <2>4. ASSUME NEW e \in Events, MaterializeFails(e) PROVE [StoreNext]_storeVars
    <3>1. RecordDeadLetter(e) \/ UNCHANGED storeVars
      BY <2>4 DEF MaterializeFails
    <3> QED BY <3>1 DEF StoreNext
  <2>5. ASSUME NEW e \in Events, SeeAccepted(e) PROVE [StoreNext]_storeVars
    <3>1. ResolveDeadLetter(e)
      BY <2>5 DEF SeeAccepted
    <3> QED BY <3>1 DEF StoreNext
  <2>6. ASSUME NEW e \in Events, SeePendingOrTerminal(e) \/ EventBacksOff(e)
        PROVE  [StoreNext]_storeVars
    BY <2>6 DEF SeePendingOrTerminal, EventBacksOff
  <2>7. ASSUME NEW e \in Events, IngestEvent(e) PROVE [StoreNext]_storeVars
    <3>1. Apply(e)
      BY <2>7 DEF IngestEvent
    <3> QED BY <3>1 DEF StoreNext
  <2>8. ASSUME NEW e \in Events, QuarantineEvent(e) PROVE [StoreNext]_storeVars
    <3>1. QuarantineManifestEvent(e)
      BY <2>8 DEF QuarantineEvent
    <3> QED BY <3>1 DEF StoreNext
  <2>9. ASSUME NEW e \in Events, DeferEvent(e) PROVE [StoreNext]_storeVars
    <3>1. DeferManifestEvent(e)
      BY <2>9 DEF DeferEvent
    <3> QED BY <3>1 DEF StoreNext
  <2>10. ASSUME NEW e \in Events, IngestFails(e) PROVE [StoreNext]_storeVars
    <3>1. RecordDeadLetter(e)
      BY <2>10 DEF IngestFails
    <3> QED BY <3>1 DEF StoreNext
  <2> QED BY <1>2, <2>1, <2>2, <2>3, <2>4, <2>5, <2>6, <2>7, <2>8, <2>9, <2>10
          DEF ProcessLogs
<1>3. CASE Drain
  <2>1. CASE ReadDue \/ PollEnds
    BY <2>1 DEF ReadDue, PollEnds
  <2>2. ASSUME NEW e \in Events, Hydrate(e) PROVE [StoreNext]_storeVars
    <3>1. RejectPendingManifestEvent(e) \/ PromoteManifestEvent(e)
      BY <2>2 DEF Hydrate
    <3> QED BY <3>1 DEF StoreNext
  <2>3. ASSUME NEW e \in Events, HydrationFails(e) PROVE [StoreNext]_storeVars
    <3>1. ReschedulePendingManifestEvent(e)
      BY <2>3 DEF HydrationFails
    <3> QED BY <3>1 DEF StoreNext
  <2> QED BY <1>3, <2>1, <2>2, <2>3 DEF Drain
<1>4. CASE Environment
  <2>1. ASSUME NEW e \in Events, EventRetryDue(e) PROVE [StoreNext]_storeVars
    <3>1. AttemptComesDue(e)
      BY <2>1 DEF EventRetryDue
    <3> QED BY <3>1 DEF StoreNext
  <2>2. CASE ~\E e \in Events : EventRetryDue(e)
    BY <1>4, <2>2 DEF Environment, Crash, TxRetryDue, SlotFinalized
  <2> QED BY <2>1, <2>2
<1>5. CASE UNCHANGED vars
  BY <1>5 DEF vars
<1> QED BY <1>1, <1>2, <1>3, <1>4, <1>5 DEF Next

LEMMA ForgottenPollTyped ==
    ASSUME ForgetPoll
    PROVE  /\ finalizedTip' \in 0..FinalSlot
           /\ fromSlot' \in Nat
           /\ before' \in 0..(NumTxs + 1)
           /\ collected' \subseteq Txs
           /\ tx' \in 0..NumTxs
           /\ log' \in 0..NumEvents
           /\ due' \subseteq Events
BY HistoryShape, SyncAssumption DEF ForgetPoll

LEMMA AnswersTyped ==
    ASSUME RpcTypeOK, NEW ep \in Endpoints, NEW able, Answers(ep, able)
    PROVE  RpcTypeOK'
<1>1. nextEndpoint' = (ep % NumEndpoints) + 1 /\ view' = view
  BY DEF Answers
<1>2. NumEndpoints \in Nat \ {0} /\ ep \in Nat
  BY RpcAssumption DEF Endpoints
<1>3. nextEndpoint' \in 1..NumEndpoints
  BY <1>1, <1>2
<1> QED BY <1>1, <1>3 DEF RpcTypeOK, Endpoints

LEMMA WorkerTypeStep ==
    ASSUME WorkerTypeOK, StoreTypeOK, [Next]_vars
    PROVE  WorkerTypeOK'
<1> USE DEF Steps
<1>0. NumTxs \in Nat /\ NumEvents \in Nat /\ FinalSlot \in Nat /\ MaxCrashes \in Nat
  BY HistoryShape, SyncAssumption
<1>1. ASSUME NEW ep \in Endpoints, ReadFinalizedTip(ep) PROVE WorkerTypeOK'
  <2>1. RpcTypeOK'
    BY <1>1, AnswersTyped DEF ReadFinalizedTip, WorkerTypeOK
  <2>2. finalizedTip' \in 0..FinalSlot
    BY <1>1 DEF ReadFinalizedTip, WorkerTypeOK, RpcTypeOK
  <2> QED BY <1>1, <2>1, <2>2 DEF ReadFinalizedTip, WorkerTypeOK
<1>2. CASE ReadCheckpoint
  <2>1. fromSlot' \in Nat
    BY <1>2, SyncAssumption DEF ReadCheckpoint, StoreTypeOK
  <2>2. before' \in 0..(NumTxs + 1)
    BY <1>2, <1>0 DEF ReadCheckpoint
  <2>3. RpcTypeOK'
    BY <1>2 DEF ReadCheckpoint, WorkerTypeOK, RpcTypeOK, rpcVars
  <2> QED BY <1>2, <2>1, <2>2, <2>3 DEF ReadCheckpoint, WorkerTypeOK
<1>3. ASSUME NEW ep \in Endpoints, FetchPage(ep) PROVE WorkerTypeOK'
  <2>1. RpcTypeOK'
    BY <1>3, AnswersTyped DEF FetchPage, WorkerTypeOK
  <2>2. collected' \subseteq Txs
    BY <1>3 DEF FetchPage, WorkerTypeOK, Page, Known
  <2>3. before' \in 0..(NumTxs + 1) /\ pc' \in {"collect", "transaction"}
    BY <1>3, <1>0 DEF FetchPage, WorkerTypeOK, Page, Known, Txs
  <2> QED BY <1>3, <2>1, <2>2, <2>3 DEF FetchPage, WorkerTypeOK
<1>4. ASSUME UNCHANGED rpcVars, ForgetPoll, pc' \in {"idle", "drain"},
             transactionRetry' \in [Txs -> {"none", "waiting", "due"}],
             UNCHANGED crashes
      PROVE  WorkerTypeOK'
  <2>1. RpcTypeOK'
    BY <1>4 DEF rpcVars, RpcTypeOK, WorkerTypeOK
  <2> QED BY <1>4, <2>1, ForgottenPollTyped DEF WorkerTypeOK
<1>5. CASE NoEndpointAnswers \/ PollEnds
  <2>1. UNCHANGED rpcVars
    BY <1>5 DEF NoEndpointAnswers, PollEnds, NoneAnswers
  <2> QED BY <1>4, <1>5, <2>1 DEF NoEndpointAnswers, PollEnds, EndPoll, WorkerTypeOK
<1>6. ASSUME NEW t \in Txs, SkipFailedTx(t) PROVE WorkerTypeOK'
  BY <1>6 DEF SkipFailedTx, WorkerTypeOK, RpcTypeOK, rpcVars, Txs
<1>7. ASSUME NEW t \in Txs, TxBacksOff(t) PROVE WorkerTypeOK'
  BY <1>4, <1>7 DEF TxBacksOff, BreakScan, EndScan, WorkerTypeOK
<1>8. ASSUME NEW t \in Txs, NEW ep \in Endpoints, FetchTx(t, ep) PROVE WorkerTypeOK'
  <2>1. RpcTypeOK'
    BY <1>8, AnswersTyped DEF FetchTx, WorkerTypeOK
  <2> QED BY <1>8, <2>1, <1>0 DEF FetchTx, WorkerTypeOK, Txs
<1>9. ASSUME NEW t \in Txs, DeferTx(t) PROVE WorkerTypeOK'
  <2>1. transactionRetry' \in [Txs -> {"none", "waiting", "due"}]
    BY <1>9 DEF DeferTx, WorkerTypeOK
  <2> QED BY <1>4, <1>9, <2>1 DEF DeferTx, NoneAnswers, BreakScan, EndScan
<1>10. CASE ScanEnds
  BY <1>10 DEF ScanEnds, WorkerTypeOK, RpcTypeOK, rpcVars, pollVars
<1>11. CASE AdvanceToTip
  BY <1>4, <1>11 DEF AdvanceToTip, EndScan, WorkerTypeOK
<1>12. CASE LogsEnd
  BY <1>12 DEF LogsEnd, workerKeeps, WorkerTypeOK, RpcTypeOK, rpcVars
<1>13. CASE ResolveIngested
  BY <1>13 DEF ResolveIngested, workerKeeps, WorkerTypeOK, RpcTypeOK, rpcVars
<1>14. CASE ResolveFails
  BY <1>4, <1>14 DEF ResolveFails, BreakScan, EndScan, WorkerTypeOK
<1>15. ASSUME NEW e \in Events, MaterializeFails(e) PROVE WorkerTypeOK'
  <2>1. ForgetPoll /\ pc' \in {"idle", "drain"} /\ UNCHANGED crashes
    BY <1>15 DEF MaterializeFails, BreakScan, EndScan, EndPoll
  <2> QED BY <1>4, <1>15, <2>1 DEF MaterializeFails, WorkerTypeOK
<1>16. ASSUME NEW e \in Events,
              log' = e, pc' \in {"log", "resolve"}, UNCHANGED workerKeeps
       PROVE  WorkerTypeOK'
  <2>1. e \in 0..NumEvents
    BY DEF Events
  <2> QED BY <1>16, <2>1 DEF workerKeeps, WorkerTypeOK, RpcTypeOK, rpcVars
<1>17. ASSUME NEW e \in Events,
              \/ SeeAccepted(e)
              \/ SeePendingOrTerminal(e)
              \/ IngestEvent(e)
              \/ QuarantineEvent(e)
              \/ DeferEvent(e)
       PROVE  WorkerTypeOK'
  <2>1. log' = e /\ pc' \in {"log", "resolve"} /\ UNCHANGED workerKeeps
    BY <1>17 DEF SeeAccepted, SeePendingOrTerminal, IngestEvent, QuarantineEvent,
                 DeferEvent, Ingests, NextLog
  <2> QED BY <1>16, <2>1
<1>18. ASSUME NEW e \in Events, EventBacksOff(e) \/ IngestFails(e) PROVE WorkerTypeOK'
  <2>1. /\ ForgetPoll /\ pc' \in {"idle", "drain"} /\ UNCHANGED crashes
        /\ UNCHANGED <<rpcVars, transactionRetry>>
    BY <1>18 DEF EventBacksOff, IngestFails, BreakScan, EndScan
  <2> QED BY <1>4, <2>1 DEF WorkerTypeOK
<1>19. CASE ReadDue
  <2>1. due' \subseteq Events
    BY <1>19 DEF ReadDue, DuePending
  <2> QED BY <1>19, <2>1 DEF ReadDue, WorkerTypeOK, RpcTypeOK, rpcVars
<1>20. ASSUME NEW e \in Events, Hydrate(e) \/ HydrationFails(e) PROVE WorkerTypeOK'
  BY <1>20 DEF Hydrate, HydrationFails, hydrateKeeps, WorkerTypeOK, RpcTypeOK, rpcVars
<1>21. CASE Crash
  <2>1. RpcTypeOK'
    BY <1>21, RpcAssumption DEF Crash, RpcTypeOK, WorkerTypeOK, Endpoints
  <2>2. crashes' \in 0..MaxCrashes
    BY <1>21, <1>0 DEF Crash, WorkerTypeOK
  <2> QED BY <1>21, <2>1, <2>2, ForgottenPollTyped DEF Crash, EndPoll, WorkerTypeOK
<1>22. ASSUME NEW e \in Events, EventRetryDue(e) PROVE WorkerTypeOK'
  BY <1>22 DEF EventRetryDue, workerIdles, pollVars, WorkerTypeOK, RpcTypeOK, rpcVars
<1>23. ASSUME NEW t \in Txs, TxRetryDue(t) PROVE WorkerTypeOK'
  BY <1>23 DEF TxRetryDue, pollVars, WorkerTypeOK, RpcTypeOK, rpcVars
<1>24. ASSUME NEW ep \in Endpoints, SlotFinalized(ep) PROVE WorkerTypeOK'
  <2>1. RpcTypeOK'
    BY <1>24, <1>0 DEF SlotFinalized, EndpointAdvances, RpcTypeOK, WorkerTypeOK
  <2> QED BY <1>24, <2>1 DEF SlotFinalized, workerIdles, pollVars, WorkerTypeOK
<1>25. CASE UNCHANGED vars
  BY <1>25 DEF vars, pollVars, WorkerTypeOK, RpcTypeOK, rpcVars
<1> QED BY <1>1, <1>2, <1>3, <1>5, <1>6, <1>7, <1>8, <1>9, <1>10, <1>11, <1>12, <1>13,
           <1>14, <1>15, <1>17, <1>18, <1>19, <1>20, <1>21, <1>22, <1>23, <1>24, <1>25
        DEF Next, Scan, ProcessLogs, Drain, Environment

LEMMA SyncTypeInit == Init => SyncTypeInv
<1> SUFFICES ASSUME Init PROVE SyncTypeInv
  OBVIOUS
<1>1. StoreInv
  BY StoreInvInit DEF Init
<1>2. RpcTypeOK
  BY HistoryShape, RpcAssumption DEF Init, RpcInit, RpcTypeOK, Endpoints
<1>3. WorkerTypeOK
  BY <1>2, HistoryShape, SyncAssumption DEF Init, WorkerTypeOK, Steps
<1> QED BY <1>1, <1>3 DEF SyncTypeInv

LEMMA SyncTypeStep == SyncTypeInv /\ [Next]_vars => SyncTypeInv'
<1> SUFFICES ASSUME SyncTypeInv, [Next]_vars PROVE SyncTypeInv'
  OBVIOUS
<1>1. WorkerTypeOK'
  BY WorkerTypeStep DEF SyncTypeInv, StoreInv
<1>2. StoreInv'
  BY WorkerUsesStore, StoreInvStep DEF SyncTypeInv
<1> QED BY <1>1, <1>2 DEF SyncTypeInv

(* The type of the worker's variables, and of the store under it.          *)
THEOREM SyncTypeCorrect == Spec => []TypeOK
<1>1. SyncTypeInv => TypeOK
  BY DEF SyncTypeInv, StoreInv, WorkerTypeOK, TypeOK
<1> QED BY <1>1, SyncTypeInit, SyncTypeStep, PTL DEF Spec

(* The worker uses the store as StoreSpec allows, through crashes and      *)
(* failing endpoints; so all that is proved of the store holds under it.   *)
THEOREM SyncImplementsStore == Spec => ImplementsStore
<1>1. Init => StoreInit
  BY DEF Init
<1>2. SyncTypeInv /\ [Next]_vars => [StoreNext]_storeVars
  BY WorkerUsesStore DEF SyncTypeInv
<1> QED BY <1>1, <1>2, SyncTypeInit, SyncTypeStep, PTL DEF Spec, ImplementsStore, StoreSpec

-----------------------------------------------------------------------------

\* The event is in the ledger, and only hydration may still retry it.
Settled(e) ==
    /\ Recorded(e)
    /\ deadLetter[e] \in {"waiting", "due"} => disposition[e] = "pending"

\* All of the transaction is settled.
Handled(t) ==
    /\ transactionRetry[t] = "none"
    /\ \A e \in Events : TxOf[e] = t => Settled(e)

InRange(t) == fromSlot <= TxSlot[t] /\ TxSlot[t] <= finalizedTip

SettledBelow(s) ==
    /\ \A e \in Events : Slot[e] < s => Settled(e)
    /\ \A t \in Txs : TxSlot[t] < s => transactionRetry[t] = "none"

Scanning == pc \in {"transaction", "log", "resolve", "advance"}

\* What was collected: so far, and once it is complete.
Collected ==
    /\ \A t \in collected : InRange(t)
    /\ pc \in {"idle", "checkpoint", "drain", "hydrate"} => collected = {}
    /\ pc = "collect" =>
          \A t \in Txs : before <= t /\ InRange(t) => t \in collected
    /\ Scanning => \A t \in Txs : InRange(t) => t \in collected

\* What was handled of it: everything up to the log at hand.
HandledSoFar ==
    /\ ~Scanning => tx = 0
    /\ Scanning => \A t \in collected : t < tx => Handled(t)
    /\ pc = "transaction" => \A t \in collected : t <= tx => Handled(t)
    /\ pc = "advance" => \A t \in collected : Handled(t)
    /\ pc \in {"log", "resolve"} =>
          /\ tx \in collected
          /\ transactionRetry[tx] = "none"
          /\ \A e \in Events : TxOf[e] = tx /\ e < log => Settled(e)
    /\ pc = "log" => \A e \in Events : TxOf[e] = tx /\ e <= log => Settled(e)
    /\ pc = "resolve" => TxOf[log] = tx /\ disposition[log] = "accepted"

\* How far the checkpoint can be while the poll is under way.
CheckpointReached ==
    pc = "collect" \/ Scanning =>
        \/ checkpoint <= fromSlot
        \/ tx \in collected /\ checkpoint <= TxSlot[tx]

ScanInv ==
    /\ \A t \in FailedTxs : transactionRetry[t] = "none"
    /\ SettledBelow(checkpoint)
    /\ SettledBelow(fromSlot)
    /\ Collected
    /\ HandledSoFar
    /\ CheckpointReached

(* Nothing that is settled is opened again, by any operation of the store  *)
(* but recordDeadLetter.                                                   *)
LEMMA SettledStays ==
    ASSUME StoreTypeOK, RetryState, NEW e \in Events,
           \/ Apply(e)
           \/ DeferManifestEvent(e)
           \/ QuarantineManifestEvent(e)
           \/ PromoteManifestEvent(e)
           \/ RejectPendingManifestEvent(e)
           \/ ReschedulePendingManifestEvent(e)
           \/ ResolveDeadLetter(e)
           \/ AttemptComesDue(e)
    PROVE  \A f \in Events : Settled(f) => Settled(f)'
<1> SUFFICES ASSUME NEW f \in Events, Settled(f) PROVE Settled(f)'
  OBVIOUS
<1>1. CASE f # e
  <2>1. disposition'[f] = disposition[f] /\ deadLetter'[f] = deadLetter[f]
    BY <1>1 DEF Apply, DeferManifestEvent, QuarantineManifestEvent, PromoteManifestEvent,
                RejectPendingManifestEvent, ReschedulePendingManifestEvent,
                ResolveDeadLetter, AttemptComesDue, Insert, StoreTypeOK
  <2> QED BY <2>1 DEF Settled, Recorded
<1>2. CASE f = e /\ (Apply(e) \/ DeferManifestEvent(e) \/ QuarantineManifestEvent(e))
  BY <1>2 DEF Apply, DeferManifestEvent, QuarantineManifestEvent, Insert, Settled
<1>3. CASE f = e /\ (\/ PromoteManifestEvent(e)
                     \/ RejectPendingManifestEvent(e)
                     \/ ReschedulePendingManifestEvent(e))
  BY <1>3 DEF PromoteManifestEvent, RejectPendingManifestEvent,
              ReschedulePendingManifestEvent, Settled, Recorded, StoreTypeOK
<1>4. CASE f = e /\ (ResolveDeadLetter(e) \/ AttemptComesDue(e))
  BY <1>4 DEF ResolveDeadLetter, Resolvable, AttemptComesDue, Settled, Recorded, StoreTypeOK
<1> QED BY <1>1, <1>2, <1>3, <1>4

(* A poll that is given up leaves the scan invariant with the store.       *)
LEMMA GivenUpPoll ==
    ASSUME SyncTypeInv, ScanInv, ForgetPoll, pc' \in {"idle", "drain"}, UNCHANGED view,
           \A t \in FailedTxs : transactionRetry'[t] = "none",
           SettledBelow(checkpoint)'
    PROVE  ScanInv'
<1>1. SettledBelow(fromSlot)'
  BY HistoryShape, SyncAssumption DEF ForgetPoll, SettledBelow
<1> QED BY <1>1
        DEF ScanInv, ForgetPoll, Collected, HandledSoFar, CheckpointReached, Scanning

LEMMA GivenUpQuietly ==
    ASSUME SyncTypeInv, ScanInv, ForgetPoll, pc' \in {"idle", "drain"},
           UNCHANGED <<view, transactionRetry, storeVars>>
    PROVE  ScanInv'
<1>1. SettledBelow(checkpoint)'
  BY DEF ScanInv, SettledBelow, Settled, Recorded, storeVars
<1> QED BY <1>1, GivenUpPoll DEF ScanInv

(* A failure is recorded only at or above the checkpoint.                  *)
LEMMA GivenUpWithFailure ==
    ASSUME SyncTypeInv, ScanInv, ForgetPoll, pc' \in {"idle", "drain"},
           UNCHANGED <<view, transactionRetry>>,
           NEW e \in Events, checkpoint <= Slot[e], RecordDeadLetter(e)
    PROVE  ScanInv'
<1>1. StoreTypeOK
  BY DEF SyncTypeInv, StoreInv
<1>2. \A f \in Events : f # e /\ Settled(f) => Settled(f)'
  BY <1>1 DEF RecordDeadLetter, Settled, Recorded, StoreTypeOK
<1>3. ~(Slot[e] < checkpoint)
  BY <1>1, HistoryShape DEF StoreTypeOK
<1>4. SettledBelow(checkpoint)'
  BY <1>2, <1>3 DEF RecordDeadLetter, ScanInv, SettledBelow
<1> QED BY <1>4, GivenUpPoll DEF ScanInv

(* Below the transaction at hand everything is settled, and the checkpoint *)
(* has not gone beyond its slot.                                           *)
LEMMA BelowTheTransaction ==
    ASSUME SyncTypeInv, ScanInv, pc \in {"log", "resolve"}
    PROVE  /\ tx \in Txs
           /\ SettledBelow(TxSlot[tx])
           /\ checkpoint <= TxSlot[tx]
<1>1. /\ tx \in collected /\ tx \in Txs /\ InRange(tx)
      /\ fromSlot \in Nat /\ finalizedTip \in Nat /\ TxSlot[tx] \in Nat
      /\ checkpoint \in Nat \cup {-1}
  BY HistoryShape, SyncAssumption
     DEF SyncTypeInv, StoreInv, StoreTypeOK, WorkerTypeOK, ScanInv, HandledSoFar, Collected
<1>2. checkpoint <= TxSlot[tx]
  BY <1>1 DEF ScanInv, CheckpointReached, Scanning, InRange
<1>3. ASSUME NEW t \in Txs, TxSlot[t] < TxSlot[tx], ~(TxSlot[t] < fromSlot) PROVE Handled(t)
  <2>1. TxSlot[t] \in Nat
    BY HistoryShape, SyncAssumption
  <2>2. t \in collected
    BY <1>1, <1>3, <2>1 DEF InRange, ScanInv, Collected, Scanning
  <2>3. t < tx
    BY <1>1, <1>3, <2>1, SyncAssumption DEF Txs
  <2> QED BY <2>2, <2>3 DEF ScanInv, HandledSoFar, Scanning
<1>4. ASSUME NEW t \in Txs, TxSlot[t] < TxSlot[tx] PROVE transactionRetry[t] = "none"
  BY <1>3, <1>4 DEF Handled, ScanInv, SettledBelow
<1>5. ASSUME NEW e \in Events, Slot[e] < TxSlot[tx] PROVE Settled(e)
  <2>1. TxOf[e] \in Txs /\ Slot[e] = TxSlot[TxOf[e]]
    BY SyncAssumption
  <2> QED BY <1>3, <1>5, <2>1 DEF Handled, ScanInv, SettledBelow
<1> QED BY <1>1, <1>2, <1>4, <1>5 DEF SettledBelow

(* The transactions an endpoint knows below the page boundary are the      *)
(* first n, for some n: nothing is missing between two of a page.          *)
LEMMA KnownIsPrefix ==
    ASSUME RpcTypeOK, NEW ep \in Endpoints, NEW u \in Known(ep), NEW t \in Txs, t <= u,
           before \in Nat
    PROVE  t \in Known(ep)
BY HistoryShape, SyncAssumption DEF Known, Txs, RpcTypeOK

(* If the endpoint knows the tip, a round of #collectSignatures leaves     *)
(* nothing out: what is in range is in the page, was collected, or is      *)
(* below it.                                                               *)
LEMMA FetchPageKeeps ==
    ASSUME SyncTypeInv, ScanInv, NEW ep \in Endpoints, FetchPage(ep),
           finalizedTip <= view[ep]
    PROVE  ScanInv'
<1>0. /\ RpcTypeOK /\ before \in Nat /\ finalizedTip \in Nat /\ fromSlot \in Nat
      /\ collected \subseteq Txs /\ NumTxs \in Nat /\ BatchSize \in Nat \ {0}
      /\ \A t \in Txs : TxSlot[t] \in Nat /\ t \in Nat \ {0}
      /\ view[ep] \in Nat
  BY HistoryShape, SyncAssumption
     DEF SyncTypeInv, WorkerTypeOK, RpcTypeOK, Txs
<1>1. /\ pc = "collect" /\ pc' \in {"collect", "transaction"}
      /\ UNCHANGED <<view, storeVars, transactionRetry, finalizedTip, fromSlot, tx>>
      /\ collected' = collected \cup {t \in Page(ep) : InRange(t)}
  BY DEF FetchPage, Answers, InRange
<1>2. /\ \A t \in FailedTxs : transactionRetry'[t] = "none"
      /\ SettledBelow(checkpoint)' /\ SettledBelow(fromSlot)'
  BY <1>1 DEF ScanInv, SettledBelow, Settled, Recorded, storeVars
<1>3. \A t \in collected' : InRange(t)'
  BY <1>1 DEF ScanInv, Collected, InRange
<1>4. \A t \in Txs : t < before /\ InRange(t) => t \in Known(ep)
  BY <1>0 DEF ScanInv, InRange, Known
<1>5. \A t \in Txs : before <= t /\ InRange(t) => t \in collected
  BY <1>1 DEF ScanInv, Collected
<1>6. CASE pc' = "collect"
  <2>1. before' \in Page(ep)
    BY <1>1, <1>6 DEF FetchPage
  <2>2. ASSUME NEW t \in Txs, before' <= t, InRange(t) PROVE t \in collected'
    <3>1. CASE before <= t
      BY <3>1, <2>2, <1>1, <1>5
    <3>2. CASE t < before
      <4>1. t \in Known(ep)
        BY <3>2, <2>2, <1>4
      <4>2. t + BatchSize \notin Known(ep)
        <5>1. SUFFICES ASSUME t + BatchSize \in Known(ep) PROVE FALSE
          OBVIOUS
        <5>2. PICK b \in Txs : b = before' /\ b + BatchSize \notin Known(ep)
          BY <2>1 DEF Page, Known
        <5>3. t + BatchSize \in Txs
          BY <5>1 DEF Known
        <5>4. b + BatchSize <= t + BatchSize /\ b + BatchSize \in Txs
          <6>1. b <= t
            BY <5>2, <2>2
          <6>2. b \in Nat \ {0} /\ t \in Nat /\ BatchSize \in Nat \ {0}
            BY <1>0
          <6> QED BY <6>1, <6>2, <5>3, <1>0 DEF Txs
        <5> QED BY <5>1, <5>2, <5>4, <1>0, KnownIsPrefix
      <4> QED BY <4>1, <4>2, <2>2, <1>1 DEF Page
    <3> QED BY <3>1, <3>2, <1>0
  <2>3. Collected'
    BY <2>2, <1>1, <1>3, <1>6 DEF Collected, InRange, Scanning
  <2>4. HandledSoFar' /\ CheckpointReached'
    BY <1>0, <1>1, <1>6
       DEF ScanInv, HandledSoFar, CheckpointReached, Scanning, storeVars, Txs
  <2> QED BY <2>3, <2>4, <1>2 DEF ScanInv
<1>7. CASE pc' = "transaction"
  <2>1. BatchSize \notin Known(ep) \/ \E u \in Page(ep) : TxSlot[u] < fromSlot
    BY <1>1, <1>7 DEF FetchPage
  <2>2. ASSUME NEW t \in Txs, InRange(t) PROVE t \in collected'
    <3>1. CASE before <= t
      BY <3>1, <2>2, <1>1, <1>5
    <3>2. CASE t < before
      <4>1. t \in Known(ep)
        BY <3>2, <2>2, <1>4
      <4>2. t + BatchSize \notin Known(ep)
        <5>1. SUFFICES ASSUME t + BatchSize \in Known(ep) PROVE FALSE
          OBVIOUS
        <5>2. t + BatchSize \in Txs
          BY <5>1 DEF Known
        <5>3. BatchSize \in Known(ep)
          <6>1. BatchSize \in Txs /\ BatchSize <= t + BatchSize
            BY <5>2, <1>0 DEF Txs
          <6> QED BY <6>1, <5>1, <1>0, KnownIsPrefix
        <5>4. PICK u \in Page(ep) : TxSlot[u] < fromSlot
          BY <5>3, <2>1
        <5>5. u \in Txs /\ u + BatchSize \notin Known(ep)
          BY DEF Page, Known
        <5>6. u < t
          BY <5>4, <5>5, <2>2, <1>0, SyncAssumption DEF InRange, Txs
        <5>7. u + BatchSize \in Txs /\ u + BatchSize <= t + BatchSize
          BY <5>2, <5>5, <5>6, <1>0 DEF Txs
        <5> QED BY <5>1, <5>5, <5>7, <1>0, KnownIsPrefix
      <4> QED BY <4>1, <4>2, <2>2, <1>1 DEF Page
    <3> QED BY <3>1, <3>2, <1>0
  <2>3. Collected'
    BY <2>2, <1>1, <1>3, <1>7 DEF Collected, InRange, Scanning
  <2>4. tx' = 0 /\ checkpoint' <= fromSlot' /\ \A t \in collected' : ~(t <= 0) /\ ~(t < 0)
    <3>1. tx = 0 /\ collected' \subseteq Txs
      BY <1>0, <1>1 DEF ScanInv, HandledSoFar, Scanning, Page, Known
    <3> QED BY <3>1, <1>0, <1>1 DEF ScanInv, CheckpointReached, storeVars
  <2>5. HandledSoFar' /\ CheckpointReached'
    BY <2>4, <1>0, <1>7 DEF HandledSoFar, CheckpointReached, Scanning
  <2> QED BY <2>3, <2>5, <1>2 DEF ScanInv
<1> QED BY <1>1, <1>6, <1>7

(* The steps between transactions keep the scan invariant.                 *)
LEMMA TransactionStepKeeps ==
    ASSUME SyncTypeInv, ScanInv, NEW t \in Txs, NextTx(t), pc = "transaction"
    PROVE  /\ SkipFailedTx(t) => ScanInv'
           /\ \A ep \in Endpoints : FetchTx(t, ep) => ScanInv'
           /\ DeferTx(t) => ScanInv'
<1>0. /\ collected \subseteq Txs /\ tx \in Nat /\ t \in Nat
      /\ checkpoint \in Nat \cup {-1} /\ fromSlot \in Nat
      /\ \A u \in Txs : TxSlot[u] \in Nat /\ u \in Nat
      /\ transactionRetry \in [Txs -> {"none", "waiting", "due"}]
      /\ t \in collected /\ tx < t /\ InRange(t)
  BY HistoryShape, SyncAssumption
     DEF SyncTypeInv, StoreInv, StoreTypeOK, WorkerTypeOK, Txs, NextTx, ScanInv, Collected
<1>1. \A u \in collected : u < t => Handled(u)
  <2> SUFFICES ASSUME NEW u \in collected, u < t PROVE Handled(u)
    OBVIOUS
  <2>1. u <= tx
    BY <1>0 DEF NextTx
  <2> QED BY <2>1 DEF ScanInv, HandledSoFar
<1>2. checkpoint <= TxSlot[t]
  <2>1. CASE checkpoint <= fromSlot
    BY <2>1, <1>0 DEF InRange
  <2>2. CASE tx \in collected /\ checkpoint <= TxSlot[tx]
    <3>1. TxSlot[tx] <= TxSlot[t]
      BY <2>2, <1>0, SyncAssumption
    <3> QED BY <3>1, <2>2, <1>0
  <2> QED BY <2>1, <2>2 DEF ScanInv, CheckpointReached, Scanning
<1>3. ASSUME SkipFailedTx(t) PROVE ScanInv'
  <2>1. /\ UNCHANGED <<storeVars, rpcVars, transactionRetry, pc, finalizedTip, fromSlot,
                       before, collected, log>>
        /\ tx' = t /\ t \in FailedTxs
    BY <1>3 DEF SkipFailedTx
  <2>2. \A u \in Txs : Handled(u)' <=> Handled(u)
    BY <2>1 DEF Handled, Settled, Recorded, storeVars
  <2>3. Handled(t)
    BY <2>1, SyncAssumption DEF Handled, ScanInv
  <2>4. \A u \in collected : u <= t => Handled(u)
    BY <2>3, <1>0, <1>1
  <2>5. Collected' /\ HandledSoFar'
    BY <2>1, <2>2, <2>4, <1>0 DEF ScanInv, Collected, HandledSoFar, Scanning, InRange
  <2>6. CheckpointReached'
    BY <2>1, <1>0, <1>2 DEF CheckpointReached, storeVars
  <2> QED BY <2>1, <2>5, <2>6
          DEF ScanInv, SettledBelow, Settled, Recorded, storeVars, rpcVars
<1>4. ASSUME NEW ep \in Endpoints, FetchTx(t, ep) PROVE ScanInv'
  <2>1. /\ UNCHANGED <<view, storeVars, finalizedTip, fromSlot, before, collected>>
        /\ pc' = "log" /\ tx' = t /\ log' = 0
        /\ transactionRetry' = [transactionRetry EXCEPT ![t] = "none"]
    BY <1>4 DEF FetchTx, Answers
  <2>2. /\ \A u \in Txs : transactionRetry[u] = "none" => transactionRetry'[u] = "none"
        /\ transactionRetry'[t] = "none"
    BY <2>1, <1>0
  <2>3. \A f \in Events : Settled(f) => Settled(f)'
    BY <2>1 DEF Settled, Recorded, storeVars
  <2>4. \A u \in Txs : Handled(u) => Handled(u)'
    BY <2>2, <2>3 DEF Handled
  <2>5. SettledBelow(checkpoint)' /\ SettledBelow(fromSlot)'
    BY <2>1, <2>2, <2>3 DEF ScanInv, SettledBelow, storeVars
  <2>6. Collected'
    BY <2>1 DEF ScanInv, Collected, Scanning, InRange
  <2>7. \A f \in Events : ~(f < 0) /\ ~(f <= 0)
    BY DEF Events
  <2>8. HandledSoFar'
    BY <2>1, <2>2, <2>4, <2>7, <1>0, <1>1 DEF HandledSoFar, Scanning
  <2>9. CheckpointReached'
    BY <2>1, <1>0, <1>2 DEF CheckpointReached, storeVars
  <2> QED BY <2>1, <2>2, <2>5, <2>6, <2>8, <2>9, SyncAssumption DEF ScanInv
<1>5. ASSUME DeferTx(t) PROVE ScanInv'
  <2>1. /\ UNCHANGED <<view, storeVars>>
        /\ ForgetPoll /\ pc' \in {"idle", "drain"}
        /\ t \notin FailedTxs
        /\ transactionRetry' = [transactionRetry EXCEPT ![t] = "waiting"]
    BY <1>5 DEF DeferTx, NoneAnswers, rpcVars, BreakScan, EndScan
  <2>2. \A u \in Txs : u # t => transactionRetry'[u] = transactionRetry[u]
    BY <2>1, <1>0
  <2>3. ~(TxSlot[t] < checkpoint)
    BY <1>0, <1>2
  <2>4. SettledBelow(checkpoint)'
    BY <2>1, <2>2, <2>3 DEF ScanInv, SettledBelow, Settled, Recorded, storeVars
  <2>5. \A u \in FailedTxs : transactionRetry'[u] = "none"
    BY <2>1, <2>2, SyncAssumption DEF ScanInv
  <2> QED BY <2>1, <2>4, <2>5, GivenUpPoll
<1> QED BY <1>3, <1>4, <1>5

(* A log that is passed over is settled, and so is the scan up to it.      *)
LEMMA PassedLogKeeps ==
    ASSUME SyncTypeInv, ScanInv, NEW e \in Events, NextLog(e), Settled(e)',
           \A f \in Events : Settled(f) => Settled(f)',
           checkpoint' = checkpoint \/ checkpoint' = Later(Slot[e]),
           pc' = "log", log' = e,
           UNCHANGED <<view, transactionRetry, finalizedTip, fromSlot, before, collected, tx>>
    PROVE  ScanInv'
<1>0. /\ pc = "log" /\ TxOf[e] = tx /\ tx \in Txs /\ tx \in collected
      /\ SettledBelow(TxSlot[tx]) /\ checkpoint <= TxSlot[tx]
      /\ Slot[e] = TxSlot[tx] /\ collected \subseteq Txs /\ log \in Nat /\ e \in Nat
  BY BelowTheTransaction, SyncAssumption
     DEF NextLog, ScanInv, HandledSoFar, SyncTypeInv, WorkerTypeOK, Events
<1>1. \A u \in Txs : Handled(u) => Handled(u)'
  BY DEF Handled
<1>2. checkpoint' = checkpoint \/ checkpoint' = Slot[e]
  BY DEF Later
<1>3. SettledBelow(checkpoint)' /\ SettledBelow(fromSlot)'
  BY <1>0, <1>2 DEF ScanInv, SettledBelow
<1>4. \A f \in Events : TxOf[f] = tx /\ f <= e => Settled(f)'
  <2> SUFFICES ASSUME NEW f \in Events, TxOf[f] = tx, f <= e PROVE Settled(f)'
    OBVIOUS
  <2>1. f <= log \/ f = e
    BY <1>0 DEF NextLog, Events
  <2> QED BY <2>1, <1>0 DEF ScanInv, HandledSoFar
<1>5. \A f \in Events : f < e => f <= e
  BY DEF Events
<1>6. Collected'
  BY <1>0 DEF ScanInv, Collected, Scanning, InRange
<1>7. HandledSoFar'
  BY <1>0, <1>1, <1>4, <1>5 DEF ScanInv, HandledSoFar, Scanning
<1>8. CheckpointReached'
  <2>1. checkpoint' <= TxSlot[tx]
    BY <1>0, <1>2, SyncAssumption, HistoryShape
  <2> QED BY <2>1, <1>0 DEF CheckpointReached
<1> QED BY <1>3, <1>6, <1>7, <1>8 DEF ScanInv

(* The steps of the log loop keep the scan invariant.                      *)
LEMMA LogStepKeeps ==
    ASSUME SyncTypeInv, ScanInv, NEW e \in Events
    PROVE  /\ MaterializeFails(e) => ScanInv'
           /\ SeeAccepted(e) => ScanInv'
           /\ SeePendingOrTerminal(e) => ScanInv'
           /\ EventBacksOff(e) => ScanInv'
           /\ IngestEvent(e) => ScanInv'
           /\ QuarantineEvent(e) => ScanInv'
           /\ DeferEvent(e) => ScanInv'
           /\ IngestFails(e) => ScanInv'
<1>0. StoreTypeOK /\ RetryState
  BY DEF SyncTypeInv, StoreInv
<1>1. ASSUME NextLog(e)
      PROVE  /\ pc = "log" /\ TxOf[e] = tx /\ tx \in Txs /\ tx \in collected
             /\ Slot[e] = TxSlot[tx] /\ Slot[e] \in Nat
             /\ SettledBelow(Slot[e]) /\ checkpoint <= Slot[e]
  BY <1>1, BelowTheTransaction, HistoryShape, SyncAssumption
     DEF NextLog, ScanInv, HandledSoFar
<1>2. ASSUME MaterializeFails(e) PROVE ScanInv'
  <2>1. /\ NextLog(e) /\ ForgetPoll /\ pc' \in {"idle", "drain"}
        /\ UNCHANGED <<view, transactionRetry>>
        /\ RecordDeadLetter(e) \/ UNCHANGED storeVars
    BY <1>2 DEF MaterializeFails, BreakScan, EndScan, EndPoll, rpcVars
  <2> QED BY <2>1, <1>1, GivenUpQuietly, GivenUpWithFailure
<1>3. ASSUME SeeAccepted(e) PROVE ScanInv'
  <2>1. /\ NextLog(e) /\ disposition[e] = "accepted" /\ ResolveDeadLetter(e)
        /\ log' = e /\ pc' = "log"
        /\ checkpoint' = checkpoint
        /\ UNCHANGED <<view, transactionRetry, finalizedTip, fromSlot, before, collected, tx>>
    BY <1>3 DEF SeeAccepted, NextLog, workerKeeps, rpcVars, ResolveDeadLetter
  <2>2. Settled(e)'
    BY <2>1, <1>0 DEF ResolveDeadLetter, Resolvable, Settled, Recorded, StoreTypeOK
  <2>3. \A f \in Events : Settled(f) => Settled(f)'
    BY <2>1, <1>0, SettledStays
  <2> QED BY <2>1, <2>2, <2>3, PassedLogKeeps
<1>4. ASSUME SeePendingOrTerminal(e) PROVE ScanInv'
  <2>1. /\ NextLog(e) /\ disposition[e] \in {"pending", "terminal"} /\ UNCHANGED storeVars
        /\ log' = e /\ pc' = "log"
        /\ UNCHANGED <<view, transactionRetry, finalizedTip, fromSlot, before, collected, tx>>
    BY <1>4 DEF SeePendingOrTerminal, NextLog, workerKeeps, rpcVars
  <2>2. Settled(e)
    BY <2>1, <1>0 DEF Settled, Recorded, RetryState
  <2>3. (\A f \in Events : Settled(f) => Settled(f)') /\ checkpoint' = checkpoint
    BY <2>1 DEF Settled, Recorded, storeVars
  <2> QED BY <2>1, <2>2, <2>3, PassedLogKeeps
<1>5. ASSUME EventBacksOff(e) PROVE ScanInv'
  <2>1. /\ ForgetPoll /\ pc' \in {"idle", "drain"}
        /\ UNCHANGED <<view, transactionRetry, storeVars>>
    BY <1>5 DEF EventBacksOff, BreakScan, EndScan, rpcVars
  <2> QED BY <2>1, GivenUpQuietly
<1>6. ASSUME IngestEvent(e) PROVE ScanInv'
  <2>1. /\ NextLog(e) /\ Apply(e) /\ log' = e /\ pc' = "resolve"
        /\ UNCHANGED <<view, transactionRetry, finalizedTip, fromSlot, before, collected, tx>>
    BY <1>6 DEF IngestEvent, Ingests, workerKeeps, rpcVars
  <2>2. /\ \A f \in Events : Settled(f) => Settled(f)'
        /\ \A u \in Txs : Handled(u) => Handled(u)'
    BY <2>1, <1>0, SettledStays DEF Handled
  <2>3. disposition'[e] = "accepted" /\ (checkpoint' = checkpoint \/ checkpoint' = Slot[e])
    BY <2>1, <1>0 DEF Apply, Insert, Later, StoreTypeOK
  <2>4. SettledBelow(checkpoint)' /\ SettledBelow(fromSlot)'
    BY <2>1, <2>2, <2>3, <1>1 DEF ScanInv, SettledBelow
  <2>5. \A f \in Events : TxOf[f] = tx /\ f < e => Settled(f)
    <3> SUFFICES ASSUME NEW f \in Events, TxOf[f] = tx, f < e PROVE Settled(f)
      OBVIOUS
    <3>1. f <= log
      BY <2>1 DEF NextLog, Events, SyncTypeInv, WorkerTypeOK
    <3> QED BY <3>1, <2>1, <1>1 DEF ScanInv, HandledSoFar
  <2>6. Collected'
    BY <2>1, <1>1 DEF ScanInv, Collected, Scanning, InRange
  <2>7. HandledSoFar'
    BY <2>1, <2>2, <2>3, <2>5, <1>1, HistoryShape, SyncAssumption
       DEF ScanInv, HandledSoFar, Scanning, SyncTypeInv, WorkerTypeOK
  <2>8. CheckpointReached'
    <3>1. checkpoint' <= TxSlot[tx]
      BY <2>1, <2>3, <1>1
    <3> QED BY <3>1, <2>1, <1>1 DEF CheckpointReached
  <2> QED BY <2>1, <2>4, <2>6, <2>7, <2>8 DEF ScanInv
<1>7. ASSUME QuarantineEvent(e) \/ DeferEvent(e) PROVE ScanInv'
  <2>1. /\ NextLog(e) /\ log' = e /\ pc' = "log"
        /\ QuarantineManifestEvent(e) \/ DeferManifestEvent(e)
        /\ UNCHANGED <<view, transactionRetry, finalizedTip, fromSlot, before, collected, tx>>
    BY <1>7 DEF QuarantineEvent, DeferEvent, Ingests, NextLog, workerKeeps, rpcVars
  <2>2. \A f \in Events : Settled(f) => Settled(f)'
    BY <2>1, <1>0, SettledStays
  <2>3. Settled(e)' /\ checkpoint' = Later(Slot[e])
    BY <2>1, <1>0
       DEF QuarantineManifestEvent, DeferManifestEvent, Insert, Settled, Recorded, StoreTypeOK
  <2> QED BY <2>1, <2>2, <2>3, PassedLogKeeps
<1>8. ASSUME IngestFails(e) PROVE ScanInv'
  <2>1. /\ NextLog(e) /\ ForgetPoll /\ pc' \in {"idle", "drain"}
        /\ UNCHANGED <<view, transactionRetry>>
        /\ RecordDeadLetter(e)
    BY <1>8 DEF IngestFails, Ingests, BreakScan, EndScan, rpcVars
  <2> QED BY <2>1, <1>1, GivenUpWithFailure
<1> QED BY <1>2, <1>3, <1>4, <1>5, <1>6, <1>7, <1>8

(* The dead letter of an event just ingested is resolved, or left for the  *)
(* next poll.                                                              *)
LEMMA ResolveStepKeeps ==
    ASSUME SyncTypeInv, ScanInv
    PROVE  /\ ResolveIngested => ScanInv'
           /\ ResolveFails => ScanInv'
<1>0. /\ StoreTypeOK
      /\ pc = "resolve" =>
            /\ log \in Events /\ TxOf[log] = tx /\ disposition[log] = "accepted"
            /\ Slot[log] = TxSlot[tx] /\ checkpoint <= Slot[log]
  BY BelowTheTransaction, SyncAssumption
     DEF SyncTypeInv, StoreInv, WorkerTypeOK, ScanInv, HandledSoFar
<1>1. ASSUME ResolveIngested PROVE ScanInv'
  <2>1. /\ pc = "resolve" /\ ResolveDeadLetter(log) /\ log' = log /\ pc' = "log"
        /\ checkpoint' = checkpoint
        /\ UNCHANGED <<view, transactionRetry, finalizedTip, fromSlot, before, collected, tx>>
    BY <1>1 DEF ResolveIngested, workerKeeps, rpcVars, ResolveDeadLetter
  <2>2. \A f \in Events : Settled(f) => Settled(f)'
    BY <2>1, <1>0, SettledStays DEF SyncTypeInv, StoreInv
  <2>3. Settled(log)'
    BY <2>1, <1>0 DEF ResolveDeadLetter, Resolvable, Settled, Recorded, StoreTypeOK
  <2>4. \A u \in Txs : Handled(u) => Handled(u)'
    BY <2>1, <2>2 DEF Handled
  <2>5. \A f \in Events : TxOf[f] = tx /\ f <= log => Settled(f)'
    <3> SUFFICES ASSUME NEW f \in Events, TxOf[f] = tx, f <= log PROVE Settled(f)'
      OBVIOUS
    <3>1. f < log \/ f = log
      BY <2>1, <1>0 DEF Events
    <3> QED BY <3>1, <2>1, <2>2, <2>3 DEF ScanInv, HandledSoFar
  <2>6. SettledBelow(checkpoint)' /\ SettledBelow(fromSlot)'
    BY <2>1, <2>2 DEF ScanInv, SettledBelow
  <2>7. Collected'
    BY <2>1 DEF ScanInv, Collected, Scanning, InRange
  <2>8. HandledSoFar'
    BY <2>1, <2>2, <2>4, <2>5, SyncAssumption
       DEF ScanInv, HandledSoFar, Scanning, SyncTypeInv, WorkerTypeOK
  <2>9. CheckpointReached'
    BY <2>1 DEF ScanInv, CheckpointReached, Scanning
  <2> QED BY <2>1, <2>6, <2>7, <2>8, <2>9 DEF ScanInv
<1>2. ASSUME ResolveFails PROVE ScanInv'
  <2>1. /\ pc = "resolve" /\ ForgetPoll /\ pc' \in {"idle", "drain"}
        /\ UNCHANGED <<view, transactionRetry>>
        /\ RecordDeadLetter(log)
    BY <1>2 DEF ResolveFails, BreakScan, EndScan, rpcVars
  <2> QED BY <2>1, <1>0, GivenUpWithFailure
<1> QED BY <1>1, <1>2

(* The remaining steps: between the parts of a poll, and around it.        *)
LEMMA OtherStepsKeep ==
    ASSUME SyncTypeInv, ScanInv
    PROVE  /\ \A ep \in Endpoints : ReadFinalizedTip(ep) => ScanInv'
           /\ ReadCheckpoint => ScanInv'
           /\ ScanEnds => ScanInv'
           /\ AdvanceToTip => ScanInv'
           /\ LogsEnd => ScanInv'
           /\ \A ep \in Endpoints : SlotFinalized(ep) => ScanInv'
<1> USE DEF Steps
<1>0. /\ pc \in Steps /\ collected \subseteq Txs /\ tx \in Nat /\ log \in Nat
      /\ fromSlot \in Nat /\ finalizedTip \in Nat
      /\ checkpoint \in Nat \cup {-1} /\ DeploymentSlot \in Nat
      /\ \A t \in Txs : t \in 1..NumTxs /\ TxSlot[t] \in Nat /\ DeploymentSlot <= TxSlot[t]
      /\ \A e \in Events : /\ TxOf[e] \in Txs \ FailedTxs /\ Slot[e] \in Nat
                           /\ Slot[e] = TxSlot[TxOf[e]]
  BY HistoryShape, SyncAssumption
     DEF SyncTypeInv, StoreInv, StoreTypeOK, WorkerTypeOK, Txs
<1>1. ASSUME NEW ep \in Endpoints, ReadFinalizedTip(ep) PROVE ScanInv'
  <2>1. /\ pc = "idle" /\ pc' = "checkpoint"
        /\ UNCHANGED <<storeVars, transactionRetry, fromSlot, collected, tx>>
    BY <1>1 DEF ReadFinalizedTip
  <2> QED BY <2>1, <1>0
          DEF ScanInv, SettledBelow, Settled, Recorded, Collected, HandledSoFar,
              CheckpointReached, Scanning, storeVars
<1>2. ASSUME ReadCheckpoint PROVE ScanInv'
  <2>1. /\ pc = "checkpoint" /\ pc' = "collect" /\ collected = {} /\ tx = 0
        /\ fromSlot' = IF checkpoint < DeploymentSlot THEN DeploymentSlot ELSE checkpoint
        /\ before' = NumTxs + 1
        /\ UNCHANGED <<storeVars, view, transactionRetry, finalizedTip, collected, tx>>
    BY <1>2 DEF ReadCheckpoint, rpcVars, ScanInv, Collected, HandledSoFar, Scanning
  <2>2. SettledBelow(checkpoint)' /\ SettledBelow(fromSlot)'
    BY <2>1, <1>0 DEF ScanInv, SettledBelow, Settled, Recorded, storeVars
  <2>3. \A t \in Txs : ~(before' <= t)
    BY <2>1, <1>0, SyncAssumption
  <2>4. checkpoint' <= fromSlot'
    BY <2>1, <1>0 DEF storeVars
  <2> QED BY <2>1, <2>2, <2>3, <2>4
          DEF ScanInv, Collected, HandledSoFar, CheckpointReached, Scanning
<1>3. ASSUME ScanEnds PROVE ScanInv'
  <2>1. /\ pc = "transaction" /\ pc' = "advance"
        /\ UNCHANGED <<storeVars, view, transactionRetry, finalizedTip, fromSlot, collected, tx>>
        /\ ~\E t \in collected : tx < t
    BY <1>3 DEF ScanEnds, rpcVars, pollVars
  <2>2. \A t \in collected : Handled(t)
    <3> SUFFICES ASSUME NEW t \in collected PROVE Handled(t)
      OBVIOUS
    <3>1. t <= tx
      BY <2>1, <1>0
    <3> QED BY <3>1, <2>1 DEF ScanInv, HandledSoFar
  <2> QED BY <2>1, <2>2
          DEF ScanInv, SettledBelow, Handled, Settled, Recorded, Collected, HandledSoFar,
              CheckpointReached, Scanning, InRange, storeVars
<1>4. ASSUME AdvanceToTip PROVE ScanInv'
  <2>1. /\ pc = "advance" /\ ForgetPoll /\ pc' \in {"idle", "drain"}
        /\ UNCHANGED <<view, transactionRetry, disposition, deadLetter>>
        /\ checkpoint' = Later(finalizedTip)
    BY <1>4 DEF AdvanceToTip, AdvanceCheckpoint, EndScan, rpcVars
  <2>2. \A t \in Txs : TxSlot[t] < finalizedTip =>
            TxSlot[t] < fromSlot \/ Handled(t)
    BY <2>1, <1>0 DEF ScanInv, Collected, HandledSoFar, Scanning, InRange
  <2>3. SettledBelow(finalizedTip)
    BY <2>2, <1>0 DEF ScanInv, SettledBelow, Handled
  <2>4. checkpoint' = checkpoint \/ checkpoint' = finalizedTip
    BY <2>1 DEF Later
  <2>5. SettledBelow(checkpoint)'
    BY <2>1, <2>3, <2>4 DEF ScanInv, SettledBelow, Settled, Recorded
  <2> QED BY <2>1, <2>5, GivenUpPoll DEF ScanInv
<1>5. ASSUME LogsEnd PROVE ScanInv'
  <2>1. /\ pc = "log" /\ pc' = "transaction"
        /\ UNCHANGED <<storeVars, view, transactionRetry, finalizedTip, fromSlot, collected, tx>>
        /\ ~\E e \in Events : TxOf[e] = tx /\ log < e
    BY <1>5 DEF LogsEnd, workerKeeps, rpcVars
  <2>2. \A e \in Events : TxOf[e] = tx => e <= log
    BY <2>1, <1>0 DEF Events
  <2>3. Handled(tx)
    BY <2>1, <2>2 DEF ScanInv, HandledSoFar, Handled
  <2>4. \A t \in collected : t <= tx => Handled(t)
    <3> SUFFICES ASSUME NEW t \in collected, t <= tx PROVE Handled(t)
      OBVIOUS
    <3>1. t < tx \/ t = tx
      BY <1>0
    <3> QED BY <3>1, <2>1, <2>3 DEF ScanInv, HandledSoFar, Scanning
  <2>5. HandledSoFar'
    BY <2>1, <2>4
       DEF ScanInv, HandledSoFar, Scanning, Handled, Settled, Recorded, storeVars
  <2> QED BY <2>1, <2>5
          DEF ScanInv, SettledBelow, Settled, Recorded, Collected, CheckpointReached,
              Scanning, InRange, storeVars
<1>6. ASSUME NEW ep \in Endpoints, SlotFinalized(ep) PROVE ScanInv'
  <2>1. UNCHANGED <<storeVars, transactionRetry, pc, pollVars>>
    BY <1>6 DEF SlotFinalized, workerIdles
  <2> QED BY <2>1
          DEF ScanInv, SettledBelow, Settled, Recorded, Collected, HandledSoFar, Handled,
              CheckpointReached, Scanning, InRange, storeVars, pollVars
<1> QED BY <1>1, <1>2, <1>3, <1>4, <1>5, <1>6

(* Steps that touch nothing of the scan but keep what is settled settled:  *)
(* the drain, and retries that come due.                                   *)
LEMMA BesideTheScan ==
    ASSUME SyncTypeInv, ScanInv,
           \A f \in Events : Settled(f) => Settled(f)',
           \A t \in Txs : transactionRetry[t] = "none" => transactionRetry'[t] = "none",
           \A e \in Events : disposition[e] = "accepted" => disposition'[e] = "accepted",
           UNCHANGED <<view, checkpoint, finalizedTip, fromSlot, before, collected, tx, log>>,
           pc' = pc \/ (pc \in {"drain", "hydrate"} /\ pc' \in {"drain", "hydrate"})
    PROVE  ScanInv'
<1>0. collected \subseteq Txs
  BY DEF SyncTypeInv, WorkerTypeOK
<1>1. \A t \in Txs : Handled(t) => Handled(t)'
  BY DEF Handled
<1>2. SettledBelow(checkpoint)' /\ SettledBelow(fromSlot)'
  BY DEF ScanInv, SettledBelow
<1>3. Collected' /\ CheckpointReached'
  BY DEF ScanInv, Collected, CheckpointReached, Scanning, InRange
<1>4. HandledSoFar'
  BY <1>0, <1>1 DEF ScanInv, HandledSoFar, Scanning, SyncTypeInv, WorkerTypeOK
<1>5. \A t \in FailedTxs : transactionRetry'[t] = "none"
  BY SyncAssumption DEF ScanInv
<1> QED BY <1>2, <1>3, <1>4, <1>5 DEF ScanInv

LEMMA ScanInvInit == Init => ScanInv
<1> SUFFICES ASSUME Init PROVE ScanInv
  OBVIOUS
<1>1. /\ checkpoint = -1
      /\ \A e \in Events : Slot[e] \in Nat
      /\ \A t \in Txs : TxSlot[t] \in Nat
  BY HistoryShape, SyncAssumption DEF Init, StoreInit
<1>2. SettledBelow(checkpoint) /\ SettledBelow(fromSlot)
  BY <1>1 DEF Init, SettledBelow
<1>3. \A t \in FailedTxs : transactionRetry[t] = "none"
  BY SyncAssumption DEF Init
<1> QED BY <1>1, <1>2, <1>3
        DEF Init, ScanInv, Collected, HandledSoFar, CheckpointReached, Scanning

\* A page fetched in this step comes from an endpoint that knows the tip.
PageSeesTip == \A ep \in Endpoints : FetchPage(ep) => finalizedTip <= view[ep]

LEMMA ScanInvStep == SyncTypeInv /\ ScanInv /\ [Next]_vars /\ [PageSeesTip]_vars => ScanInv'
<1> SUFFICES ASSUME SyncTypeInv, ScanInv, [Next]_vars, [PageSeesTip]_vars PROVE ScanInv'
  OBVIOUS
<1>0. StoreTypeOK /\ RetryState /\ transactionRetry \in [Txs -> {"none", "waiting", "due"}]
  BY DEF SyncTypeInv, StoreInv, WorkerTypeOK
<1>5. CASE UNCHANGED vars
  BY <1>5, BesideTheScan DEF vars, storeVars, rpcVars, pollVars, Settled, Recorded
<1>1. CASE Scan
  <2>1. ASSUME NEW ep \in Endpoints, ReadFinalizedTip(ep) \/ FetchPage(ep) PROVE ScanInv'
    <3>1. CASE FetchPage(ep) /\ UNCHANGED vars
      BY <1>5, <3>1
    <3>2. CASE FetchPage(ep) /\ ~UNCHANGED vars
      BY <3>2, FetchPageKeeps DEF PageSeesTip
    <3> QED BY <2>1, <3>1, <3>2, OtherStepsKeep
  <2>2. CASE NoEndpointAnswers
    <3>1. /\ ForgetPoll /\ pc' \in {"idle", "drain"}
          /\ UNCHANGED <<view, transactionRetry, storeVars>>
      BY <2>2 DEF NoEndpointAnswers, NoneAnswers, EndPoll, rpcVars
    <3> QED BY <3>1, GivenUpQuietly
  <2>3. ASSUME NEW t \in Txs, TxBacksOff(t) PROVE ScanInv'
    <3>1. /\ ForgetPoll /\ pc' \in {"idle", "drain"}
          /\ UNCHANGED <<view, transactionRetry, storeVars>>
      BY <2>3 DEF TxBacksOff, BreakScan, EndScan, rpcVars
    <3> QED BY <3>1, GivenUpQuietly
  <2>4. ASSUME NEW t \in Txs,
               \/ SkipFailedTx(t)
               \/ \E ep \in Endpoints : FetchTx(t, ep)
               \/ DeferTx(t)
        PROVE  ScanInv'
    <3>1. NextTx(t) /\ pc = "transaction"
      BY <2>4 DEF SkipFailedTx, FetchTx, DeferTx
    <3> QED BY <3>1, <2>4, TransactionStepKeeps
  <2> QED BY <1>1, <2>1, <2>2, <2>3, <2>4, OtherStepsKeep DEF Scan
<1>2. CASE ProcessLogs
  BY <1>2, OtherStepsKeep, ResolveStepKeeps, LogStepKeeps DEF ProcessLogs
<1>3. CASE Drain
  <2>1. CASE ReadDue
    BY <2>1, BesideTheScan DEF ReadDue, storeVars, rpcVars, Settled, Recorded
  <2>2. CASE PollEnds
    <3>1. /\ ForgetPoll /\ pc' \in {"idle", "drain"}
          /\ UNCHANGED <<view, transactionRetry, storeVars>>
      BY <2>2 DEF PollEnds, EndPoll, rpcVars
    <3> QED BY <3>1, GivenUpQuietly
  <2>3. ASSUME NEW e \in Events, Hydrate(e) \/ HydrationFails(e) PROVE ScanInv'
    <3>1. /\ \/ PromoteManifestEvent(e)
             \/ RejectPendingManifestEvent(e)
             \/ ReschedulePendingManifestEvent(e)
          /\ UNCHANGED hydrateKeeps
      BY <2>3 DEF Hydrate, HydrationFails
    <3>2. \A f \in Events : Settled(f) => Settled(f)'
      BY <3>1, <1>0, SettledStays
    <3>3. /\ \A f \in Events : disposition[f] = "accepted" => disposition'[f] = "accepted"
          /\ checkpoint' = checkpoint
      BY <3>1, <1>0 DEF PromoteManifestEvent, RejectPendingManifestEvent,
                        ReschedulePendingManifestEvent, StoreTypeOK
    <3> QED BY <3>1, <3>2, <3>3, BesideTheScan DEF hydrateKeeps, rpcVars
  <2> QED BY <1>3, <2>1, <2>2, <2>3 DEF Drain
<1>4. CASE Environment
  <2>1. CASE Crash
    <3>1. /\ ForgetPoll /\ pc' \in {"idle", "drain"}
          /\ UNCHANGED <<view, transactionRetry, storeVars>>
      BY <2>1 DEF Crash, EndPoll
    <3> QED BY <3>1, GivenUpQuietly
  <2>2. ASSUME NEW e \in Events, EventRetryDue(e) PROVE ScanInv'
    <3>1. /\ AttemptComesDue(e) /\ disposition' = disposition /\ checkpoint' = checkpoint
          /\ UNCHANGED <<rpcVars, workerIdles>>
      BY <2>2 DEF EventRetryDue, AttemptComesDue
    <3>2. \A f \in Events : Settled(f) => Settled(f)'
      BY <3>1, <1>0, SettledStays
    <3> QED BY <3>1, <3>2, BesideTheScan DEF workerIdles, pollVars, rpcVars
  <2>3. ASSUME NEW t \in Txs, TxRetryDue(t) PROVE ScanInv'
    <3>1. /\ transactionRetry[t] = "waiting"
          /\ transactionRetry' = [transactionRetry EXCEPT ![t] = "due"]
          /\ UNCHANGED <<storeVars, rpcVars, pc, pollVars>>
      BY <2>3 DEF TxRetryDue
    <3>2. \A u \in Txs : transactionRetry[u] = "none" => transactionRetry'[u] = "none"
      BY <3>1, <1>0
    <3> QED BY <3>1, <3>2, BesideTheScan
            DEF storeVars, rpcVars, pollVars, Settled, Recorded
  <2> QED BY <1>4, <2>1, <2>2, <2>3, OtherStepsKeep DEF Environment
<1> QED BY <1>1, <1>2, <1>3, <1>4, <1>5 DEF Next

\* What the worker promises of its checkpoint.
CheckpointSafe == NothingSkipped /\ NoStrandedRetry

(* As long as no page comes from an endpoint that lags behind the tip the  *)
(* poll began with, the checkpoint passes no event that is not in the      *)
(* ledger and no retry but those of pending manifests (runOnce,            *)
(* #collectSignatures, advanceCheckpoint), whatever crashes and failures   *)
(* there are and however many endpoints take turns.                        *)
THEOREM CheckpointSafeWithoutLag == Spec /\ [][PageSeesTip]_vars => []CheckpointSafe
<1>1. ScanInv => CheckpointSafe
  BY DEF ScanInv, SettledBelow, Settled, CheckpointSafe, NothingSkipped, NoStrandedRetry
<1> QED BY <1>1, SyncTypeInit, SyncTypeStep, ScanInvInit, ScanInvStep, PTL DEF Spec

\* The poll works below a tip that the one endpoint has finalized.
TipSeen == finalizedTip <= view[1]

LEMMA TipSeenStep ==
    ASSUME NumEndpoints = 1
    PROVE  SyncTypeInv /\ TipSeen /\ [Next]_vars => TipSeen'
<1> SUFFICES ASSUME SyncTypeInv, TipSeen, [Next]_vars PROVE TipSeen'
  OBVIOUS
<1>0. /\ 1 \in Endpoints /\ \A ep \in Endpoints : ep = 1
      /\ view \in [Endpoints -> Nat] /\ finalizedTip \in Nat
  BY HistoryShape DEF Endpoints, SyncTypeInv, WorkerTypeOK, RpcTypeOK
<1>1. CASE \E ep \in Endpoints : ReadFinalizedTip(ep)
  BY <1>0, <1>1 DEF ReadFinalizedTip, Answers, TipSeen
<1>2. CASE \E ep \in Endpoints : SlotFinalized(ep)
  BY <1>0, <1>2 DEF SlotFinalized, EndpointAdvances, workerIdles, pollVars, TipSeen
<1>3. CASE UNCHANGED view /\ (UNCHANGED finalizedTip \/ ForgetPoll)
  BY <1>0, <1>3 DEF ForgetPoll, TipSeen
<1>4. CASE Scan /\ ~\E ep \in Endpoints : ReadFinalizedTip(ep)
  BY <1>3, <1>4
     DEF Scan, FetchPage, ReadCheckpoint, NoEndpointAnswers, SkipFailedTx, TxBacksOff, FetchTx,
         DeferTx, ScanEnds, AdvanceToTip, Answers, NoneAnswers, EndPoll, BreakScan, EndScan,
         rpcVars, pollVars
<1>5. CASE ProcessLogs
  BY <1>3, <1>5
     DEF ProcessLogs, LogsEnd, ResolveIngested, ResolveFails, MaterializeFails, SeeAccepted,
         SeePendingOrTerminal, EventBacksOff, IngestEvent, QuarantineEvent, DeferEvent,
         IngestFails, EndPoll, BreakScan, EndScan, workerKeeps, rpcVars
<1>6. CASE Drain
  BY <1>3, <1>6 DEF Drain, ReadDue, PollEnds, Hydrate, HydrationFails, EndPoll, hydrateKeeps,
                    rpcVars
<1>7. CASE Environment /\ ~\E ep \in Endpoints : SlotFinalized(ep)
  BY <1>3, <1>7 DEF Environment, Crash, EventRetryDue, TxRetryDue, EndPoll, workerIdles,
                    rpcVars, pollVars
<1>8. CASE UNCHANGED vars
  BY <1>3, <1>8 DEF vars, rpcVars, pollVars
<1> QED BY <1>1, <1>2, <1>4, <1>5, <1>6, <1>7, <1>8 DEF Next

(* A single endpoint cannot lag behind itself: every page sees the tip.    *)
LEMMA OneEndpointNeverLags ==
    ASSUME NumEndpoints = 1
    PROVE  Spec => [][PageSeesTip]_vars
<1>1. Init => TipSeen
  BY HistoryShape DEF Init, RpcInit, Endpoints, TipSeen
<1>2. TipSeen => PageSeesTip
  BY DEF TipSeen, PageSeesTip, Endpoints
<1> QED BY <1>1, <1>2, TipSeenStep, SyncTypeInit, SyncTypeStep, PTL DEF Spec

(* With a single endpoint the checkpoint never passes an event that is not *)
(* in the ledger.                                                          *)
THEOREM NothingSkippedCorrect ==
    ASSUME NumEndpoints = 1
    PROVE  Spec => []NothingSkipped
<1>1. CheckpointSafe => NothingSkipped
  BY DEF CheckpointSafe
<1> QED BY <1>1, OneEndpointNeverLags, CheckpointSafeWithoutLag, PTL

(* And below the checkpoint no retry is left but those of pending          *)
(* manifests (apply and resolveDeadLetter, recordDeadLetter).              *)
THEOREM NoStrandedRetryCorrect ==
    ASSUME NumEndpoints = 1
    PROVE  Spec => []NoStrandedRetry
<1>1. CheckpointSafe => NoStrandedRetry
  BY DEF CheckpointSafe
<1> QED BY <1>1, OneEndpointNeverLags, CheckpointSafeWithoutLag, PTL

(* Under the worker, as under any caller, the profile that is served is    *)
(* the newest accepted one, every accepted post is published, a retry is   *)
(* pending exactly where the store says so, and the ledger is kept: through *)
(* crashes, failures and endpoints that lag as they please.                *)
THEOREM WorkerKeepsStore ==
    Spec => [](ServedProfile /\ PublishedPosts /\ RetryState) /\ ImplementsLedger
BY SyncImplementsStore, ServedProfileCorrect, PublishedPostsCorrect, RetryStateCorrect,
   StoreImplementsLedger, PTL DEF ImplementsStore
=============================================================================
