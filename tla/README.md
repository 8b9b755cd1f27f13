# WetDrool in TLA+

Specifications of the WetDrool social network (this repository), model-checked
with TLC and proved with TLAPS. Paths are relative to the repository root;
`I/` stands for `apps/indexer/src/`.

## 1. The system

WetDrool puts the *references* to social content on Solana and the content
itself into content-addressed storage. What is authoritative is the finalized
history of one Anchor program; everything else is derived from it or stands
beside it.

| Part | State it keeps | Operations | Talks to |
|---|---|---|---|
| `programs/social_protocol` | identities with a sequence number, delegations, handles, post references, edges, communities, proposals, recovery requests, payments | one instruction each, atomic | emits one event per change |
| `apps/indexer` worker (`I/solana-sync.ts`) | nothing durable: the variables of one poll | poll: tip, checkpoint, pages, transactions, logs, checkpoint, hydration | RPC endpoints, the projection store, content storage |
| `apps/indexer` store (`I/memory-projection.ts`, `I/postgres-projection.ts`) | raw-event ledger, dispositions, dead letters, checkpoint, projections | apply, defer, promote, reject, quarantine, reschedule, dead letters, checkpoint, rebuild | the worker, the rebuild tool, the query API |
| `I/solana-rpc.ts` | the endpoint to ask next | finalizedSlot, signaturesForProgram, transaction | RPC providers |
| `I/rebuild.ts` | none | load, prepare, validate, apply | the store |
| `apps/relay` | replay window, retained events, subscriptions | subscribe, publish | browsers, the key authorizer |
| `apps/auth-service` | accounts, credentials, ceremonies, sessions | register, sign in, step up, add and revoke | browsers, PostgreSQL |
| `apps/moderation-service` | signed objects, cases, actions, reviews | ingest, transition, act, review, hold, maintain | operators, PostgreSQL |
| `apps/media-worker` | one directory per upload | create, append, finalize, cancel, clean up | scanner, processors, storage |
| `apps/feed-service` | none | rank | the indexer |
| `apps/web` | drafts and publication intents in the browser; file-backed market and room stores | publish, resume, acknowledge; list, buy, unlock | wallet, RPC, storage, indexer |
| `packages/*` | storage replication, rate limits, SDK, crypto, schemas | | all of the above |

What is hard in it: the order of the chain has to survive pages, lagging RPC
endpoints, retries and crashes; the bytes behind a reference can come late, be
wrong or never come; several services write twice where they mean one change.
`PROJECT.json` lists these hazards, each at its line.

What makes each part correct:

* **worker and store**: no finalized event is lost; events of an identity are
  recorded in order and once; a disposition is final; what is served follows
  from what is recorded, in whatever order content arrives; missing content
  blocks nothing else.
* **program**: sequences are gapless; a recovery executes once, after its delay,
  with its approvals, against the state it was requested for; a vote is that of a
  member of the snapshot, and counts once.
* **relay**: an event is accepted once; a subscriber sees nothing its
  authorization does not cover.
* **auth**: a ceremony is consumed once; a revoked session or credential stays so.
* **moderation**: no two operators decide on the same version of a case; an
  action is reviewed once.
* **media**: the bytes published are the bytes declared; an interrupted
  finalization can be repeated; cleanup never removes what is being processed.
* **publication**: a draft is published at most once, whatever tab or crash.

## 2. The modules

| Module | Models | Code |
|---|---|---|
| `ManifestLedger` | abstract: each event absent, accepted, pending or terminal; pending is settled once; an identity's events enter in chain order without a gap | the promise of the raw-event ledger |
| `FinalizedHistory` | the chain's finalized events as constants, with what the program guarantees of them | `I/events.ts`, `programs/social_protocol` |
| `ProjectionStore` | the store: one action per operation, callable by anyone at any time | `I/memory-projection.ts`, `I/postgres-projection.ts` |
| `IndexerRebuild` | an operator's rebuild of the projection from the ledger, on a shadow store, while the store has other callers | `I/rebuild.ts`, `rebuildProjection` |
| `FailoverRpc` | round-robin calls over endpoints that lag and fail | `I/solana-rpc.ts` |
| `SolanaSync` | the worker, composed with the store and the RPC; one action per stretch between two awaits | `I/solana-sync.ts`, `I/indexer.ts` |
| `AuthorityMandate` | abstract: who speaks for an identity (root, delegates, guardians), without sequences, rotation counts or approval bits | the promise of the identity accounts |
| `Identity` | one identity of the program: root, delegations, guardian recovery, posts, and a signed command that lands late or again | `programs/social_protocol` (14 instructions) |
| `AuthorityProjection` | what the indexer makes of that identity: the history of roots, delegations, policy and requests it projects from the emitted events, and `authorizeSigningKey` | `I/memory-projection.ts` (`#applyUnlocked`, `authorizeSigningKey`) |
| `Assembly` | abstract: members, votes of those entitled, a verdict, without counters | the promise of a community's votes |
| `Governance` | one community: memberships, bans, proposals, votes | `programs/social_protocol` (9 instructions) |
| `Outbox` | abstract: one draft on a desk, bound to at most one post at a time | `docs/DEVELOPER_HANDOFF.md`, crash-safe publication |
| `PostPublication` | publishing from several tabs of a browser: storage, cross-tab lock, the chain | `apps/web/lib`, `components/composer.tsx` |
| `UploadLifecycle` | abstract: an upload is declared, grows by whole chunks, is published once, is closed; no files, locks, crashes or retries | `apps/media-worker/README.md`, "Upload protocol" |
| `MediaUpload` | the media worker: calls under a promise lock per upload, files and metadata on disk, crashes | `apps/media-worker/src/upload-store.ts`, `service.ts` |
| `*_proofs` | the theorems, one module for each of `ProjectionStore`, `IndexerRebuild`, `SolanaSync`, `Identity`, `AuthorityProjection`, `Governance`, `PostPublication`, `MediaUpload` | |
| `MC*` | the instances TLC works on | |

`SolanaSync` EXTENDS `ProjectionStore` and `FailoverRpc`: a step of the worker
that writes is an action of the store conjoined with the worker's control, so
`ImplementsStore` (every worker behaviour is a store behaviour) carries the
store's theorems over to the worker. `ProjectionStore` in turn implements
`ManifestLedger` under the identity mapping on `disposition`. `IndexerRebuild`
EXTENDS `ProjectionStore` for the real store and INSTANCEs it once more for the
shadow, so a replay is a sequence of the same operations on a second store. Its
other callers are any callers of the store (`StoreNext`), which includes the
worker.

`AuthorityProjection` EXTENDS `Identity`: each command of the program is conjoined
with the projection of the events it emits, so `IndexedSpec` is the program and the
indexer's view of it in one behaviour, and `IndexedSpec => Spec`.

`Identity` guarantees what `FinalizedHistory` assumes of the chain (gapless
sequences, nothing after a deactivation, tombstones of live posts), and
`EventsAccepted` that the indexer's own checks find it so; `Governance`
and `PostPublication` take from it only that a command signed for an old
sequence fails. `PostPublication` and `MediaUpload` share no state with the
indexer.

### State and code: indexer

* An event is its number in chain order. The number stands for the coordinate
  (network, signature, log index), the fingerprint and the position, so
  `comparePosition` is `<`. A second event with the same coordinate and another
  fingerprint (`eventConflict`) cannot occur in one finalized history.
* `Kind` keeps what the store treats differently: `create`, `profile`, `post`,
  `tombstone`, `deactivate`; `other` is any other event that advances one
  identity's sequence and bears no manifest. Community and membership manifests
  are not modelled, so `DeferManifestEvent` covers profiles and posts only.
* `disposition` joins `#events`, `#pendingManifestEvents` and
  `#terminalManifestFailures`; `deadLetter` is `#deadLetters`, with
  `nextAttemptAt` reduced to `waiting` or `due`, as the code only compares it
  with the current time. `transactionRetry` is the dead letter of a transaction
  (log index -1).
* `lastEvent` stands for the sequence, the activity and the position of an
  identity. `latestProfile` is `#latestProfileManifestEvents` (in PostgreSQL, a
  query for later profile events), `profile` what is served.
* An operation of the store is one action: it runs under the network's lock.
  What it refuses by throwing, or answers with `false`, is not enabled; where
  the worker reacts to such an answer the worker's own action says how.
* `pc` is the await at which a poll stands. `before`, `collected`, `tx`, `log`
  and `due` are local variables and loop positions of `runOnce`,
  `#collectSignatures` and `#drainDuePendingManifests`. `Crash` may end a poll
  at any of them and leaves the store as it is. It also stands for a shutdown
  and for a store call that throws out of `runOnce`.
* `#withRetry` repeats a call a few times within one step; only its outcome is
  modelled.

### State and code: rebuild

* `plan` is the result of `loadDurableRawEventLedger`: one query, hence one
  snapshot of `disposition`. An event without an entry was not loaded. `replayed`
  is the loop position of `prepareIndexerRebuild`, the `shadow...` variables its
  `MemoryProjectionStore`.
* `Suppressed` is `deriveAcceptedManifestSuppressions`: an accepted profile or post
  that a later event of the loaded ledger makes obsolete is not fetched again, and
  is deferred on the shadow. Fetching and verifying any other accepted manifest
  succeeds (`Shadow!Apply`) or ends the rebuild (`EndWithoutApplying`, which is
  also a dry run, a crash, and a ledger that was overtaken).
* `RebuildProjection` is one transaction under the network's lock. It compares the
  ledger event by event (`LedgerUnchanged`) and replays the same items the shadow
  was given; the outcome is therefore written down as the state of the shadow. Its
  checkpoint is the slot of the last event, which may be lower than before: slots
  without events are scanned again.
* The runbook (`docs/OPERATIONS.md`, from line 274) stops the writers first. The
  model does not rely on it.

### State and code: identity

* One identity; other identities share no account with it. `identity`, `policy`,
  `requests`, `delegations` and `posts` are the program's accounts, with the fields
  that a check reads. The nonces of posts and requests name accounts that are
  created once (`init`) and never closed. A delegation's number is the delegation
  sequence that derives its address, which the program takes from the identity.
* An instruction is one handler: Anchor's constraints and the body's `require!` are
  its guards, and a transaction that fails one changes nothing. `Commands` are the
  arguments a client can sign. `Deliver` lands a command at once; `Sign` and `Land`
  keep one command apart and land it late, several times or never, as a
  transaction with a durable or still valid blockhash may. `MaxSequence` stands for
  the limit of a u64, at which `checked_increment` fails.
* An approval is a bit at the guardian's index in the policy (`RequestCurrent` ties
  the request to the policy's sequence, so indices keep their meaning).
* The mapping to `AuthorityMandate`: a request is a ballot while it is current,
  and a delegation an appointment while its issuer is the present root in the
  present rotation. Whatever the mapping drops must never come back, which is what
  the refinement shows.

### State and code: the identity as projected

* `known` is the identity's projection with `#identitySequencePositions`; `roots` is
  `#rootHistory`, `grants` `#delegations`, `recovery` and `recoveries` the recovery
  policy and requests. `refused` is set when an event throws `stale`: ingestion does
  not pass it (`SolanaSync`), so nothing is projected afterwards.
* The position of an event is the identity's sequence after it. Events of one identity
  that share it (a request, an approval, the second event of an execution) change
  nothing that `authorizeSigningKey` reads.
* `Emit` takes the fields of an event from the accounts as the instruction leaves
  them, as the program's `emit!` does. `RecoveryExecuted` projects both events of an
  execution, in order, so its checks see the identity as the rotation left it.
* How far the projection lags behind the chain is left out: it is a function of the
  events, and `SolanaSync` and `FinalizedHistory` are about their order and delivery.
* Left out of the checks: networks, program identifiers and derived addresses, which
  are the same for all events of one identity, and the state sequence of a delegation
  (1, then 2).

### State and code: governance

* `community.memberCount` and `membershipSequence`, the membership, proposal and
  vote accounts are those of the program. `activeSince` is
  `active_since_membership_sequence`, 0 when not active. Roles and manifests are
  left out, since no check of a vote reads them.
* A signed command also names the sequences it expects (of the actor, the
  membership, the community, the proposal). They only refuse commands; the
  properties hold without them, and so with them.
* `Creator` stands for whoever may act for the creator identity (root or delegate
  with the community scope; see `Identity`).
* The thresholds are the program's constants (5,000 and 5,001 of 10,000).

### State and code: publication

* `draft` and `intent` are the two entries of `localStorage`; a write of one entry
  is atomic and seen by all tabs at once. `lock` is the Web Lock, requested with
  `ifAvailable`: a tab that does not get it gives up. A closed tab loses it.
* `tabs[t].pc` is the await at which `startPublication`, `save`, `discard` or
  `finishLocalCleanup` stands; the other fields are its local variables: the pair
  read at the click (`before`), the draft it works on (`chosen`), the sequence it
  read, the transaction it sent (`attempt`), and, when idle, the draft on the screen
  (`view`) and a publication left to clean up (`cleanup`).
* `notices` are storage events under way. The composer disables its buttons once it
  knows of an intent; the model leaves them enabled, as in a tab that does not.
* An intent keeps its stage, nonce, text and expected sequence; `evidence` is the
  signature of the transaction. `wires` are signed transactions on their way, `posts`
  the post accounts, with the transactions of the creation slot that name the post
  (`mates`): a second one fails in that slot, but `getSignaturesForAddress` lists it.
* Signing, content storage, the registration of the identity, the indexer and
  finality may fail or time out at each step (`FailPublication`). `ActElsewhere` is
  a command of the same identity from another device.

### State and code: media worker

* `directory`, `staged`, `part`, `metadata` are what is on disk of each upload:
  its directory, whether `upload.part` exists, its bytes, and `metadata.json` (its
  `state` and `offset`). `metadata.json` is replaced by a rename, so it is the
  old one or the new one. `storage` is what the publisher has put into
  content-addressed storage.
* `job` is a call in progress: the step it stands at (`pc`), its upload, and the
  chunk it carries. `queue[u]` is the chain of promises of `withLock`; its first
  job runs. `active` is `#activeFinalizations`. `Crash` forgets these three.
* A step is one durable effect between two awaits, and each may fail
  (`FileFails`, `StartFails`, `FinalizeFails`, `CreateFails`, and the second
  alternatives of `Rollback` and `Retire`). A recursive `rm` is one unlink per
  step, in either order, then the directory.
* `Declared[u]` stands for the declared size and SHA-256: a digest is compared by
  comparing the bytes. `Infected` is what the scanner rejects. `u \in expired` is
  `isExpired`; time only moves an upload into it.
* `declared` is the set of uploads whose `create` returned: only their identifiers
  are known to clients. Identifiers are random, so `MakeDirectory` takes one
  that is neither declared nor has a directory.
* The timer's sweep is one job per directory. The code visits them one after the
  other; jobs that interleave allow that and more.
* The mapping to `UploadLifecycle`: an upload is *open* when its record is in an
  open state and its staged file exists, *published* when the record is
  completed, else *closed*. Its content is the first `offset` bytes of the file,
  so a chunk counts when its metadata is saved (`SaveAppended` is `Receive`) and
  bytes of an unrecorded write never count.

## 3. The runs

| Run | Instance | Shows |
|---|---|---|
| `store` | 5 events of one identity, any caller, any order, rebuilds at any time | `StoreTypeOK`, `ServedProfile`, `PublishedPosts`, `RetryState`, `NeverStale`, `ImplementsLedger`, `RebuildUnseen` |
| `sync` | 6 events in 6 transactions (one failed on chain), 4 slots, pages of 2, one endpoint that may fail any call, an undecodable event, an invalid manifest, 2 crashes | `TypeOK`, `NothingSkipped`, `NoStrandedRetry`, `ImplementsStore` |
| `live` | 3 events, 1 crash, one endpoint that may fail | `MissingContentNeverBlocks`, `EverythingSettles` |
| `identity` | 3 keys, 2 policies of the same two guardians in different order, 2 requests, 1 post, 3 identity commands, an approval or execution that is delayed and repeated; every event is projected | `TypeOK`, `OneRecoveryPerVersion`, `LandsAtMostOnce`, `SequenceIsVersion`, `ImplementsMandate`, `EventsAccepted`, `AuthorityAgrees`, `HistoryFixed` |
| `governance` | 3 identities, 1 proposal, 4 changes of membership | `TypeOK`, `CountExact`, `NoMemberTurnedAway`, `ImplementsAssembly`, `Settled` |
| `publication` | 2 tabs, 2 texts, 2 nonces, 2 transactions for each intent, 1 command of the identity | `TypeOK`, `EvidenceExact`, `Resumable`, `NothingForgotten`, `DraftSurvives`, `ImplementsOutbox` |
| `media` | 2 uploads, one of 2 bytes, one infected; 3 chunks: the two right ones and a wrong one of two bytes; 2 calls at a time, capacity 1, 1 crash; calls repeat without bound | `TypeOK`, `FinalizationUndisturbed`, `PublicationSound`, `CapacityAccounted`, `AcknowledgedBytesKept`, `ImplementsLifecycle` |
| `media_expiry` | 1 upload, 2 calls at a time, 1 crash | `ExpiredRecordsLeave` |
| `media_orphan` (violation) | the same | `StagedBytesLeave` does not hold |
| `lagging` (violation) | two endpoints that never fail but lag | `NothingSkipped` does not hold |
| `mid_slot` (violation) | one endpoint, an undecodable event in a shared slot | `CheckpointedSlotsRecorded` does not hold |
| `stale_click` (violation) | as `publication` | `StaleClickRefused` does not hold |

**Bounds: indexer.** The histories are chosen, not enumerated: two profile
versions (late hydration, supersession), a post and its tombstone (late bytes,
suppression), slots shared by events and by transactions, a transaction with two
logs. Pages of two split slots. `MaxCrashes` is the only bound on the worker's
behaviour; two crashes reach a crash during the recovery from another. Retries and
rebuilds are unbounded. In `store` one identity has all the events, since identities
meet only in the checkpoint; several identities and deactivation are in `sync`. The
theorems cover all histories, page sizes and numbers of crashes.

**Bounds: program.** Three commands of the identity reach a policy, a recovery and
one command more (configure, then rotate and rotate back, or disable and configure
again, with a request of either policy still there). Guardians in swapped order
make a stale approval bit name the wrong guardian. Four membership changes reach two
members at a snapshot, one of whom leaves and comes back, and the ban of a former
member. The clock stops at `MaxSlot`, after every delay and window has passed. The
projection follows the commands that landed and chooses nothing itself, so `identity`
keeps these bounds; it is the largest run of the project (838,032 states).

**Bounds: publication.** Two tabs are enough for one to act on what the other has
changed, two transactions for two to land in one slot. With two nonces a second
publication can be bound while transactions of the first are under way. The author's
sequence stops at one: either the post lands or another device acts. The proofs
have no bound on any of these.

**Bounds: uploads.** Two calls are enough for one to arrive in the middle of the
other, capacity 1 makes them compete for it, a chunk of two bytes can be written in
part, and a crash may come at every step. The theorems cover any number of calls,
uploads, chunks and crashes.

Where tabs, calls, guardians or nonces are interchangeable and no liveness is
checked, symmetry is used (`MCSymmetry`). Deadlock is not checked where the clock
and the sequences end (`identity`, `governance`, `publication`, the last violation):
there everything may have been done.

**Fairness: indexer** (`live`). Weak fairness of the worker as a whole: `run`
polls until it is stopped. Weak fairness of timers and of finality. Strong
fairness of a page, of fetching a transaction and of handling a log, per item:
the code retries each without limit, and an RPC or a store that fails a call
for ever blocks ingestion by design. Without this the property is false for
that uninteresting reason. Of content providers nothing is assumed in
`MissingContentNeverBlocks`; `EverythingSettles` has the premise that a pending
manifest attempted again and again is found (or found invalid). `Unsupported` is
empty there: an undecodable event stops ingestion until the decoder is upgraded, as
`apps/indexer/README.md` says.

**Fairness: media** (`FairSpec`). Weak fairness of each call in progress, as
promises settle while the process lives; strong fairness, for each upload, of the
sweep that visits its directory, as the timer repeats it without end; strong
fairness, for each upload, of reading its record and of each unlink, so that a file
system that fails for ever is not the reason for an upload that stays. Nothing is
assumed of clients, and nothing of the steps of a finalization succeeding.

**Fairness: governance.** Slots pass, and someone finalizes a proposal that can be
finalized: anyone may, and it costs a fee only. Nothing is assumed of voters,
members or the creator. `Settled` then says that no vote, ban, departure or
deactivation leaves a proposal which the program refuses to finalize.

### Four disagreements

* **`lagging`.** The tip comes from one endpoint (`I/solana-sync.ts:164`), pages
  from the next ones in the round robin. An endpoint that lags returns pages
  without the newest transactions, all calls succeed, and the checkpoint
  advances to the tip. Events between the two are below the checkpoint and are
  never scanned again; the identity's later events then fail as stale. With one
  endpoint `NothingSkipped` holds, and with several as long as no page comes from an
  endpoint behind the poll's tip; both are proved.
* **`mid_slot`.** `docs/DECISIONS/0004-indexer-projection-and-replay.md:54-56` says a
  slot is checkpointed only after each of its events is terminal. The store
  raises the checkpoint with every insertion, so the slot of an applied event
  is checkpointed while its neighbour is undecodable. Nothing is lost, as scans
  include the checkpoint's slot: this is why `NothingSkipped` speaks of slots
  strictly below it.
* **`media_orphan`.** `apps/media-worker/README.md:56-57` says that uploads in
  progress at a restart "expire normally". `cleanupExpired` removes a directory with a
  recursive `rm` (`upload-store.ts:364`). If the process stops after `metadata.json`
  is unlinked and before `upload.part` is, later sweeps read the directory as
  "not found" and skip it (`upload-store.ts:373`), and the bytes stay. Records do
  leave (`ExpiredRecordsLeave`).
* **`stale_click`.** The comment at `apps/web/lib/browser-publication-lock.ts:48-50`
  says that a stale click cannot operate after another tab changes the draft. The
  pair compared under the lock is the one read when the tab asked for it (line 69),
  not what its user saw. While the storage event of another tab's save is still
  under way, a save or discard passes the comparison and replaces or removes the
  newer draft. A bound draft is safe (`ImplementsOutbox`): with an intent both are
  refused.

## 4. The proofs

The theorems hold for every value of the constants that satisfies the named
assumptions: `HistoryShape` and `HistoryOrder` (types, and what the program
guarantees of its events), `RpcAssumption` and `SyncAssumption` (types,
transactions in chain order, a batch size of at least one), `OriginAssumption`,
`PoliciesAssumption`, `GrantsAssumption` and `BoundsAssumption` (types of the
identity's constants), `IdentitiesAssumption` (finitely many identities, the creator
among them), `GovernanceBounds`, `WindowsAssumption`, `NothingAssumption` (the null
value is no value) and `SequenceAssumption`. TLC evaluates them in every run.

**Store.** `StoreInv` is `StoreTypeOK`, `RetryState`, `PublishedPosts` and two parts
that make it inductive:

* `LedgerPrefix`: the recorded events of an identity are exactly those up to
  `lastEvent`. Without it an admissible event could be earlier than a recorded
  one, and neither the pointer nor a tombstone could be trusted.
* `ProfilePointer` and `PointerServed`: `latestProfile` is the greatest recorded
  profile event, and what is served is the pointer if that event is accepted.
  `ServedProfile` follows.

`AdmissibleIsNext` is the key lemma: an admissible event is the next one of its
identity, as sequences are gapless. `StoreInvStep` takes the actions one by one.
Theorems: `StoreTypeCorrect`, `ServedProfileCorrect`, `PublishedPostsCorrect`,
`RetryStateCorrect`, `StoreImplementsLedger`.

**Rebuild.** The store's theorems are used twice, for the store and, through an
INSTANCE of the same proof module, for the shadow (`ShadowFacts`). `RebuildInv` is
`StoreInv` of both and

* `PlanLoaded`: what was loaded is recorded and is a prefix of each identity's events;
* `ShadowReplays`: the ledger of the shadow is the replayed part of `plan`, with
  suppressed events pending. With `StoreInv` of the shadow, this determines its whole
  projection;
* `CheckpointCovers`: no recorded event lies above the checkpoint, so that the rebuilt
  checkpoint is not higher.

`SameProjection` is the key lemma: two stores whose ledgers differ only in
suppressed events serve the same profiles and public posts. A suppressed profile is
not the pointer, and a suppressed post is tombstoned. It holds at `RebuildProjection`,
where the plan equals the ledger. `ReplayNeverStale` follows from `PlanLoaded` and
`LedgerPrefix` of the shadow: the next event in chain order is the next of its
identity. Theorems: `RebuildIsUnseen`, `ReplayNeverStale`, `RebuildKeepsLedger` and the
store's invariants once more (`RebuiltProfile`, `RebuiltPosts`, `RebuiltRetries`,
`RebuiltTypeCorrect`).

**Worker.** `SyncImplementsStore` needs only `SyncTypeInv`: each worker action is a
store action or leaves `storeVars` alone. `WorkerKeepsStore` draws the conclusion: the
worker keeps the store's invariants and the abstract ledger, whatever endpoints do.

`CheckpointSafeWithoutLag` is about any number of endpoints. It assumes `PageSeesTip` of
every step: a page comes from an endpoint that has reached the tip of the poll. The run
`lagging` shows that something of the kind is needed, and the theorem that lag within a poll is
all that is wrong: the order of endpoints, failures, retries, pages and crashes are
not. `NothingSkippedCorrect` and `NoStrandedRetryCorrect` are its corollaries for
`NumEndpoints = 1`, since a single endpoint does not fall behind itself
(`OneEndpointNeverLags`). They rest on `ScanInv`:

* `SettledBelow`: below the checkpoint, and below the slot a poll started from,
  everything is handled, that is in the ledger and with no retry of its own;
* `Collected`: what is collected is all there is between the start slot and the
  tip above the page boundary, so that at the end nothing is missing;
* `HandledSoFar`: the collected transactions up to `tx`, and the logs up to
  `log`, are handled;
* `CheckpointReached`: the checkpoint is never beyond what the poll has reached,
  and at "advance" everything collected is handled.

An insertion raises the checkpoint to the slot of its event; `HandledSoFar` and
the order of the collected transactions give that all lower slots are handled
by then.

**Identity.** `IdentityInv` adds to `TypeOK` and `OneRecoveryPerVersion`

* `RequestInv`: a request was made at a sequence the identity has reached, and at an
  earlier one once it is executed. An executed request is therefore never current
  again, and two of one sequence cannot both be executed;
* `DelegationInv`: a delegation's rotation count is never ahead of the identity's, so
  that a new root has no appointments;
* `InFlightInv`: a command that has landed is `Spent`: its expected sequence has
  passed, its request exists, its approval bit is set, or its request is closed.
  `SpentStaysSpent` and `SpentIsRefused` give `ReplaySafe`, also for approvals and
  executions, which name no sequence.

`MandateKept` goes through the handlers. `CommandVoids` says that every command which
advances the sequence makes every request stale for good, and `GuardCount` that the
approval bits of a current request are as many distinct guardians.

**The identity as projected.** `ProjectionInv` says what each part of the projection
mirrors of the accounts (`IdentityMirrored`, `RootsMirrored`, `GrantsMirrored`,
`PolicyMirrored`, `RecoveriesMirrored`) as long as nothing was refused, and that nothing
was. It is not enough that they agree on the present: `RecoverySequences` has to stay at
or below the identity's sequence, or a later event of recovery would be refused as stale,
and a request of the present policy has to hold that policy's guardians, each approval
bit in its place.
`EpochRoot` ties a delegation's issuer to its rotation count: the projection
compares only the count, the program both. There is one lemma for each event, which
shows that its checks hold after the command that emits it; `NoEventRefused` collects them.
`ProjectionAgrees` is a consequence of the invariant. `PastAnswersStay` rests on
`Extends`: a step only appends to `roots`, adds grants, and marks a revocation or the
deactivation at a position beyond every earlier one. `IndexedIdentity` gives
`IndexedSpec => Spec`, so every theorem about `Spec` holds here.

**Governance.** `IInv` adds `SinceReached` (an active membership dates from a sequence
the community has reached), `ProposalsSound` (a snapshot has been reached as well) and
`Tallies` (the counters are the numbers of vote accounts) to `TypeOK`, `CountExact` and
`NoMemberTurnedAway`. Steps are grouped by what they do to a membership (`Joins`,
`Departs`, `Excludes`). Who joins does so above every snapshot, so `Entitled` never
grows, and a vote moves one identity from `Entitled` to the voters. `AssemblyKept`
follows, with `Thresholds` for the two ways to state quorum and approval.
`AlwaysFinalizable` is the safety half of `Settled`: the tally of a pending proposal is
never refused, so that once its window closed only someone to finalize it is missing.

**Publication.** `IInv` adds to `TypeOK`, `EvidenceExact` and `Resumable` what a tab
knows at each step (`TabSound`) and what is true of the shared state:

* `HoldsLock`: only the tab with the lock is at a working step. A tab's step therefore
  disturbs no other working tab (`OthersIdle`);
* `DraftBound`: a draft with an intent is that intent's text until the post is final;
* `WiresOwned`: a transaction under way whose post is missing belongs to the current
  intent and has its text and sequence. It holds because an intent is retired only
  when its post is final. `Resumable` and `OutboxKept` rest on it;
* `PostsOwned`: nonces of posts and intents were drawn, hence never drawn again.

`NothingForgotten` needs one part more, `PendingPostsOwned`: a post that is not final is
the intent's. It is inductive beside `IInv`, since a post is made by a transaction
under way, which `WiresOwned` ties to the intent, and `VerifyFinality` comes before an
intent is finalized and retired.

Theorems: `TypeCorrect`, `EvidenceTrue`, `AlwaysResumable`, `IntentOutlivesItsPost`,
`DraftKept`, `OutboxKept`.

**Media worker.** `MediaInv` adds to `TypeOK` and `CapacityAccounted` what each call
may rely on at the step where it stands:

* `HoldsLock`: a call at a locked step is the first of its upload's queue. Two
  such calls are therefore on different uploads. `CreateApart` says the same of
  creates, which take no lock: nobody knows their identifier.
* `Appending`, `FinalizingStep`, `RemovingStep`: what the call has read or checked
  still holds (the offset, the record's state, the digest), and at "save" the file
  holds the acknowledged bytes followed by the chunk. None of the properties is
  inductive without these: `PublicationSound` needs the check of the digest, made
  steps earlier, to hold at the publication.
* `UploadInv`: the staged file is never shorter than the offset, and only an
  expired upload loses it. `BytesKeptUntilExpiry` is this for open records.

The argument is `LocalStepFrame`: a step of a call changes only its own upload, so
it disturbs no other call at a locked step. What remains per action is the call
and the upload themselves. `OverwriteProperties` (what a positional write does to
a file) and `PrefixOfPrefix` carry the refinement. The assumption is
`MediaAssumption` (types; declared bytes and chunks are not empty; capacity at
least one; finitely many calls at a time). Theorems: `MediaTypeCorrect`,
`FinalizationAlone`, `PublishedBytesDeclared`, `CapacityIsReturned`,
`BytesKeptUntilExpiry`, `UploadsImplementLifecycle`.

**Only model-checked:** the liveness properties `MissingContentNeverBlocks`,
`EverythingSettles`, `ExpiredRecordsLeave` and `Settled` (TLAPS does not reach them), and
the four violations. Every safety property of a passing run is proved, `NothingSkipped`
and `NoStrandedRetry` for endpoints that do not lag within a poll.

## 5. Not modelled

* **On purpose:** cryptography, parsing and encoding, HTTP presentation, ranking
  arithmetic, user interfaces, deployment, generated and vendored code. They are by far
  the larger part of the repository, and hold no state that several actors share: of
  some 118,000 lines most are pages, components, demonstration stores, schemas, SQL text
  and validation of inputs. This is why the mapped lines are a small share of all lines,
  although they hold the control of the parts that are modelled.
* **Store:** community and membership manifests, and the projections of handles,
  follows, blocks, reactions, communities, governance and payments. Their events
  advance a sequence like any other. The checks of a post event against the post it
  names are in `ProjectionStore`, not in `AuthorityProjection`.
* **Program:** profiles, handles, follows, blocks and reactions check and advance the
  identity's sequence as posts do and write accounts that no modelled instruction reads.
  Payments are arithmetic of splits and calls of the token program. The expected
  sequences of governance commands are left out, as section 2 says.
* **Rebuild:** disposition drift beyond "the rebuild fails", and the throughput of a
  rebuild: one that is overtaken is refused and has to be repeated.
* **Publication:** the registration of a new identity and name, the contents of an
  envelope, and the checks of the indexer after finality; they succeed or fail. Storage
  that keeps a write from a tab after it reported success is not modelled.
* **Media worker:** the order and batch limit of a sweep, corrupted records, power loss,
  and replicated publication in place of one write to storage.
* **Not started:** the relay (replay window, retention, re-checks after awaits), the auth
  service (ceremonies, sessions, failures between two writes), the moderation service
  (cases, reviews and appeals under optimistic versions), rate limiting, replication of
  content, the demonstration market. Of these the relay and the moderation service have the
  hazards most worth a module; `PROJECT.json` lists them.
