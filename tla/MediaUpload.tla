----------------------------- MODULE MediaUpload ----------------------------
(***************************************************************************)
(* The media worker: resumable uploads staged on disk, their finalization, *)
(* cancellation and cleanup (apps/media-worker/src/upload-store.ts and     *)
(* service.ts).                                                            *)
(*                                                                         *)
(* A job is one call in progress.  Calls on one upload take turns under    *)
(* its promise lock; calls on different uploads interleave.  A step of a   *)
(* job is one durable effect: a file created, bytes written, a metadata    *)
(* file renamed into place, a file unlinked.  Every such effect may fail   *)
(* instead, and the process may die between any two.  What is on disk      *)
(* survives, and the locks, the jobs and the capacity counter do not.      *)
(***************************************************************************)
EXTENDS Naturals, Sequences, FiniteSets

CONSTANTS
    Jobs,              \* calls that may be in progress at a time
    Uploads,           \* upload identifiers (randomUUID: never issued twice)
    Bytes,
    Declared,          \* the bytes whose SHA-256 an upload declares
    Chunks,            \* what clients may send: bytes for an offset
    Infected,          \* uploads whose declared bytes the scanner rejects
    MaxFinalizations,  \* maximumConcurrentFinalizations
    MaxCrashes         \* bound on crashes

ASSUME MediaAssumption ==
    /\ Declared \in [Uploads -> Seq(Bytes)]
    /\ \A u \in Uploads : Declared[u] # <<>>
    /\ Chunks \subseteq [at : Nat, bytes : Seq(Bytes) \ {<<>>}]
    /\ Infected \subseteq Uploads
    /\ MaxFinalizations \in Nat \ {0}
    /\ MaxCrashes \in Nat
    /\ IsFiniteSet(Jobs)

VARIABLES
    directory,   \* uploads whose directory exists
    staged,      \* uploads whose upload.part exists
    part,        \* the bytes of upload.part
    metadata,    \* metadata.json; state "none" when there is none
    storage,     \* <<upload, bytes>> put into content-addressed storage
    declared,    \* uploads whose create has returned a record
    expired,     \* uploads past their expiresAt
    queue,       \* #locks: the jobs on an upload, the first one running
    job,         \* where each call stands, on which upload, with which bytes
    active,      \* #activeFinalizations
    crashes

diskVars == <<directory, staged, part, metadata>>
vars == <<directory, staged, part, metadata, storage, declared, expired,
          queue, job, active, crashes>>

OpenStates == {"uploading", "ready", "processing"}
States == OpenStates \cup {"none", "completed", "cancelled"}

\* Between the acquisition of finalization capacity and its release.
Finalizing == {"start", "verify", "scan", "process", "publish", "complete",
               "rollback", "retire"}

\* The steps a job takes while it holds the lock of its upload.
Locked == Finalizing \cup
    {"open", "write", "save", "recover", "admit", "cancelling", "remove", "purge"}

Waiting == {"append", "cancel", "finalize", "cleanup"}

NoUpload == "none"
Idle == [pc |-> "idle", id |-> NoUpload, at |-> 0, bytes |-> <<>>]
Calls == [pc : {"idle", "mkdir", "create"} \cup Waiting \cup Locked,
          id : Uploads \cup {NoUpload}, at : Nat, bytes : Seq(Bytes)]

NoRecord == [state |-> "none", offset |-> 0]

Records == [state : States, offset : Nat]

\* storedRecordSchema: what #save refuses to write.
ValidRecord(u) ==
    /\ metadata[u].state = "none" => metadata[u].offset = 0
    /\ metadata[u].offset <= Len(Declared[u])
    /\ metadata[u].state \in {"ready", "processing", "completed"} =>
          metadata[u].offset = Len(Declared[u])
    /\ metadata[u].state = "uploading" => metadata[u].offset < Len(Declared[u])

TypeOK ==
    /\ directory \in SUBSET Uploads
    /\ staged \in SUBSET directory
    /\ part \in [Uploads -> Seq(Bytes)]
    /\ \A u \in Uploads \ staged : part[u] = <<>>
    /\ metadata \in [Uploads -> Records]
    /\ \A u \in Uploads : ValidRecord(u)
    /\ storage \in SUBSET (Uploads \X Seq(Bytes))
    /\ declared \in SUBSET Uploads
    /\ expired \in SUBSET declared
    /\ queue \in [Uploads -> Seq(Jobs)]
    /\ job \in [Jobs -> Calls]
    /\ active \in 0..MaxFinalizations
    /\ crashes \in 0..MaxCrashes

Init ==
    /\ directory = {}
    /\ staged = {}
    /\ part = [u \in Uploads |-> <<>>]
    /\ metadata = [u \in Uploads |-> NoRecord]
    /\ storage = {}
    /\ declared = {}
    /\ expired = {}
    /\ queue = [u \in Uploads |-> <<>>]
    /\ job = [j \in Jobs |-> Idle]
    /\ active = 0
    /\ crashes = 0

-----------------------------------------------------------------------------

At(j, pc) == job[j].pc = pc

\* The job is the first of its upload's lock queue and stands at pc.
Runs(j, pc) ==
    /\ At(j, pc)
    /\ queue[job[j].id] # <<>>
    /\ Head(queue[job[j].id]) = j

State(j) == metadata[job[j].id].state

Goto(j, pc) ==
    /\ job' = [job EXCEPT ![j].pc = pc]
    /\ UNCHANGED queue

\* The operation returns or throws and withLock releases the next one.
Finish(j) ==
    /\ job' = [job EXCEPT ![j] = Idle]
    /\ queue' = [queue EXCEPT ![job[j].id] = Tail(@)]

Release == active' = active - 1

\* update: the record is read again and saved with another state.
Update(u, state) == metadata' = [metadata EXCEPT ![u].state = state]

RemoveStagedBytes(u) ==
    /\ staged' = staged \ {u}
    /\ part' = [part EXCEPT ![u] = <<>>]

\* bytes written over a file from an offset within it.
Overwrite(file, at, bytes) ==
    SubSeq(file, 1, at) \o bytes \o SubSeq(file, at + Len(bytes) + 1, Len(file))

\* Mutant: withLock registers its promise but does not await the one before.
EnqueueFirst(j, u, pc, at, bytes) ==
    /\ At(j, "idle")
    /\ job' = [job EXCEPT ![j] = [pc |-> pc, id |-> u, at |-> at, bytes |-> bytes]]
    /\ queue' = [queue EXCEPT ![u] = <<j>> \o @]
    /\ UNCHANGED <<diskVars, storage, declared, expired, active, crashes>>

\* withLock: the call waits for the calls on the same upload before it.
Enqueue(j, u, pc, at, bytes) ==
    /\ At(j, "idle")
    /\ job' = [job EXCEPT ![j] = [pc |-> pc, id |-> u, at |-> at, bytes |-> bytes]]
    /\ queue' = [queue EXCEPT ![u] = Append(@, j)]
    /\ UNCHANGED <<diskVars, storage, declared, expired, active, crashes>>

-----------------------------------------------------------------------------
(* create: a directory, an empty staged file, the metadata.  No lock: the  *)
(* identifier is not known to anybody yet.                                 *)

MakeDirectory(j, u) ==
    /\ At(j, "idle")
    /\ u \notin declared \cup directory
    /\ directory' = directory \cup {u}
    /\ job' = [job EXCEPT ![j] = [pc |-> "mkdir", id |-> u, at |-> 0, bytes |-> <<>>]]
    /\ UNCHANGED <<staged, part, metadata, storage, declared, expired, queue,
                   active, crashes>>

MakePart(j) ==
    /\ At(j, "mkdir")
    /\ staged' = staged \cup {job[j].id}
    /\ Goto(j, "create")
    /\ UNCHANGED <<directory, part, metadata, storage, declared, expired,
                   active, crashes>>

SaveCreated(j) ==
    /\ At(j, "create")
    /\ metadata' = [metadata EXCEPT ![job[j].id] =
                       [state |-> "uploading", offset |-> 0]]
    /\ declared' = declared \cup {job[j].id}
    /\ job' = [job EXCEPT ![j] = Idle]
    /\ UNCHANGED <<directory, staged, part, storage, expired, queue, active, crashes>>

\* What was made is removed again, or some of it is left.
CreateFails(j) ==
    LET u == job[j].id
    IN  /\ At(j, "mkdir") \/ At(j, "create")
        /\ \/ directory' = directory \ {u} /\ staged' = staged \ {u}
           \/ UNCHANGED directory /\ staged' \in {staged, staged \ {u}}
        /\ job' = [job EXCEPT ![j] = Idle]
        /\ UNCHANGED <<part, metadata, storage, declared, expired, queue, active,
                       crashes>>

-----------------------------------------------------------------------------
(* append *)

BeginAppend(j, u, c) ==
    u \in declared /\ Enqueue(j, u, "append", c.at, c.bytes)

\* Mutant: only chunks that were received already are refused.
AcceptsAhead(j) ==
    LET u == job[j].id
    IN  /\ State(j) = "uploading"
        /\ u \notin expired
        /\ metadata[u].offset <= job[j].at
        /\ job[j].at + Len(job[j].bytes) <= Len(Declared[u])

\* #assertWritable, the exact offset, and the declared size.
Accepts(j) ==
    LET u == job[j].id
    IN  /\ State(j) = "uploading"
        /\ u \notin expired
        /\ metadata[u].offset = job[j].at
        /\ metadata[u].offset + Len(job[j].bytes) <= Len(Declared[u])

ReadForAppend(j) ==
    /\ Runs(j, "append")
    /\ IF Accepts(j) THEN Goto(j, "open") ELSE Finish(j)
    /\ UNCHANGED <<diskVars, storage, declared, expired, active, crashes>>

\* Mutant: the staged file is opened with a flag that empties it.
OpenPartEmptied(j) ==
    LET u == job[j].id
    IN  /\ Runs(j, "open")
        /\ u \in staged
        /\ part' = [part EXCEPT ![u] = <<>>]
        /\ Goto(j, "write")
        /\ UNCHANGED <<directory, staged, metadata, storage, declared, expired,
                       active, crashes>>

\* Bytes beyond the offset are those of a write that was never recorded.
OpenPart(j) ==
    LET u == job[j].id
    IN  /\ Runs(j, "open")
        /\ IF u \in staged /\ Len(part[u]) >= job[j].at
           THEN /\ part' = [part EXCEPT ![u] = SubSeq(@, 1, job[j].at)]
                /\ Goto(j, "write")
           ELSE Finish(j) /\ UNCHANGED part
        /\ UNCHANGED <<directory, staged, metadata, storage, declared, expired,
                       active, crashes>>

\* writeAllAtOffset: a write may cover fewer bytes than asked for, and is
\* continued until all of them are there and synced.
WriteBytes(j) ==
    LET u == job[j].id
    IN  /\ Runs(j, "write")
        /\ \E n \in 1..Len(job[j].bytes) :
              /\ part' = [part EXCEPT ![u] =
                            Overwrite(@, job[j].at, SubSeq(job[j].bytes, 1, n))]
              /\ Goto(j, IF n = Len(job[j].bytes) THEN "save" ELSE "write")
        /\ UNCHANGED <<directory, staged, metadata, storage, declared, expired,
                       active, crashes>>

\* Mutant: a complete upload is saved as one that still takes chunks.
SaveAppendedUnready(j) ==
    LET u == job[j].id
        nextOffset == job[j].at + Len(job[j].bytes)
    IN  /\ Runs(j, "save")
        /\ metadata' = [metadata EXCEPT ![u].offset = nextOffset]
        /\ Finish(j)
        /\ UNCHANGED <<directory, staged, part, storage, declared, expired,
                       active, crashes>>

SaveAppended(j) ==
    LET u == job[j].id
        nextOffset == job[j].at + Len(job[j].bytes)
    IN  /\ Runs(j, "save")
        /\ metadata' = [metadata EXCEPT ![u] =
              [state |-> IF nextOffset = Len(Declared[u]) THEN "ready" ELSE "uploading",
               offset |-> nextOffset]]
        /\ Finish(j)
        /\ UNCHANGED <<directory, staged, part, storage, declared, expired,
                       active, crashes>>

-----------------------------------------------------------------------------
(* finalize *)

BeginFinalize(j, u) ==
    u \in declared /\ Enqueue(j, u, "finalize", 0, <<>>)

\* A completed upload answers with its result and retries the removal of its
\* bytes; one left processing by a crash starts over.
ReadForFinalize(j) ==
    /\ Runs(j, "finalize")
    /\ CASE State(j) = "completed"  -> Goto(j, "remove")
         [] State(j) = "processing" -> Goto(j, "recover")
         [] State(j) = "ready"      -> Goto(j, "admit")
         [] OTHER                   -> Finish(j)
    /\ UNCHANGED <<diskVars, storage, declared, expired, active, crashes>>

Recover(j) ==
    /\ Runs(j, "recover")
    /\ Update(job[j].id, "ready")
    /\ Goto(j, "admit")
    /\ UNCHANGED <<directory, staged, part, storage, declared, expired, active,
                   crashes>>

\* The expiry, whether there is a scanner, then #acquireFinalizationCapacity.
Admit(j) ==
    /\ Runs(j, "admit")
    /\ \/ /\ job[j].id \notin expired
          /\ active < MaxFinalizations
          /\ Goto(j, "start")
          /\ active' = active + 1
       \/ Finish(j) /\ UNCHANGED active
    /\ UNCHANGED <<diskVars, storage, declared, expired, crashes>>

Start(j) ==
    /\ Runs(j, "start")
    /\ Update(job[j].id, "processing")
    /\ Goto(j, "verify")
    /\ UNCHANGED <<directory, staged, part, storage, declared, expired, active,
                   crashes>>

\* Mutant: the digest is not compared with the declared one.
IntactIfStaged(u) == u \in staged

\* The staged file is there and its digest is the declared one.
Intact(u) == u \in staged /\ part[u] = Declared[u]

Verify(j) ==
    /\ Runs(j, "verify")
    /\ Intact(job[j].id)
    /\ Goto(j, "scan")
    /\ UNCHANGED <<diskVars, storage, declared, expired, active, crashes>>

\* The scanner passes the bytes, and they are still the same.
Scan(j) ==
    /\ Runs(j, "scan")
    /\ job[j].id \notin Infected
    /\ Intact(job[j].id)
    /\ Goto(j, "process")
    /\ UNCHANGED <<diskVars, storage, declared, expired, active, crashes>>

\* The processor reads the bytes, and they are still the same.
Process(j) ==
    /\ Runs(j, "process")
    /\ Intact(job[j].id)
    /\ job' = [job EXCEPT ![j].pc = "publish", ![j].bytes = part[job[j].id]]
    /\ UNCHANGED <<diskVars, storage, declared, expired, queue, active, crashes>>

Publish(j) ==
    /\ Runs(j, "publish")
    /\ storage' = storage \cup {<<job[j].id, job[j].bytes>>}
    /\ Goto(j, "complete")
    /\ UNCHANGED <<diskVars, declared, expired, active, crashes>>

SaveCompleted(j) ==
    /\ Runs(j, "complete")
    /\ Update(job[j].id, "completed")
    /\ Goto(j, "retire")
    /\ UNCHANGED <<directory, staged, part, storage, declared, expired, active,
                   crashes>>

\* A rejection, a timeout or an error between "processing" and "completed"; a
\* publication may have stored the bytes before it fails.
FinalizeFails(j) ==
    /\ \E pc \in {"verify", "scan", "process", "publish", "complete"} : Runs(j, pc)
    /\ \/ UNCHANGED storage
       \/ At(j, "publish") /\ storage' = storage \cup {<<job[j].id, job[j].bytes>>}
    /\ Goto(j, "rollback")
    /\ UNCHANGED <<diskVars, declared, expired, active, crashes>>

\* Mutant: capacity is released only when the rollback could be saved.
RollbackKeepsCapacity(j) ==
    /\ Runs(j, "rollback")
    /\ \/ Update(job[j].id, "ready") /\ Release
       \/ UNCHANGED <<metadata, active>>
    /\ Finish(j)
    /\ UNCHANGED <<directory, staged, part, storage, declared, expired, crashes>>

\* The upload is ready again, unless that cannot be saved either.
Rollback(j) ==
    /\ Runs(j, "rollback")
    /\ Update(job[j].id, "ready") \/ UNCHANGED metadata
    /\ Finish(j)
    /\ Release
    /\ UNCHANGED <<directory, staged, part, storage, declared, expired, crashes>>

\* #removeCompletedStagedBytes; its failure leaves the completion alone.
Retire(j) ==
    /\ Runs(j, "retire")
    /\ RemoveStagedBytes(job[j].id) \/ UNCHANGED <<staged, part>>
    /\ Finish(j)
    /\ Release
    /\ UNCHANGED <<directory, metadata, storage, declared, expired, crashes>>

-----------------------------------------------------------------------------
(* cancel *)

BeginCancel(j, u) ==
    u \in declared /\ Enqueue(j, u, "cancel", 0, <<>>)

ReadForCancel(j) ==
    /\ Runs(j, "cancel")
    /\ CASE State(j) \in OpenStates  -> Goto(j, "cancelling")
         [] State(j) = "cancelled"   -> Goto(j, "remove")
         [] OTHER                    -> Finish(j)
    /\ UNCHANGED <<diskVars, storage, declared, expired, active, crashes>>

SaveCancelled(j) ==
    /\ Runs(j, "cancelling")
    /\ Update(job[j].id, "cancelled")
    /\ Goto(j, "remove")
    /\ UNCHANGED <<directory, staged, part, storage, declared, expired, active,
                   crashes>>

Remove(j) ==
    /\ Runs(j, "remove")
    /\ RemoveStagedBytes(job[j].id)
    /\ Finish(j)
    /\ UNCHANGED <<directory, metadata, storage, declared, expired, active, crashes>>

-----------------------------------------------------------------------------
(* cleanupExpired, one directory at a time *)

BeginCleanup(j, u) ==
    u \in directory /\ Enqueue(j, u, "cleanup", 0, <<>>)

\* Mutant: a record left processing is thought to be in use.
RemovableUnlessProcessing(u) ==
    /\ metadata[u].state \notin {"none", "processing"}
    /\ metadata[u].state = "cancelled" \/ u \in expired

Removable(u) ==
    /\ metadata[u].state # "none"
    /\ metadata[u].state = "cancelled" \/ u \in expired

\* A directory without metadata is "not found" and passed over.
ReadForCleanup(j) ==
    /\ Runs(j, "cleanup")
    /\ IF Removable(job[j].id) THEN Goto(j, "purge") ELSE Finish(j)
    /\ UNCHANGED <<diskVars, storage, declared, expired, active, crashes>>

\* rm is recursive: it unlinks the files in any order, then the directory.
PurgeMetadata(j) ==
    LET u == job[j].id
    IN  /\ Runs(j, "purge")
        /\ metadata[u] # NoRecord
        /\ metadata' = [metadata EXCEPT ![u] = NoRecord]
        /\ UNCHANGED <<directory, staged, part, storage, declared, expired, queue,
                       job, active, crashes>>

PurgePart(j) ==
    LET u == job[j].id
    IN  /\ Runs(j, "purge")
        /\ u \in staged
        /\ RemoveStagedBytes(u)
        /\ UNCHANGED <<directory, metadata, storage, declared, expired, queue, job,
                       active, crashes>>

PurgeDirectory(j) ==
    LET u == job[j].id
    IN  /\ Runs(j, "purge")
        /\ metadata[u] = NoRecord
        /\ u \notin staged
        /\ directory' = directory \ {u}
        /\ Finish(j)
        /\ UNCHANGED <<staged, part, metadata, storage, declared, expired, active,
                       crashes>>

-----------------------------------------------------------------------------

\* A file operation fails where nothing has to be undone.
FileFails(j) ==
    /\ \E pc \in Waiting \cup {"open", "write", "save", "recover", "cancelling",
                            "remove", "purge"} : Runs(j, pc)
    /\ Finish(j)
    /\ UNCHANGED <<diskVars, storage, declared, expired, active, crashes>>

\* "processing" cannot be saved: finally releases the capacity.
StartFails(j) ==
    /\ Runs(j, "start")
    /\ Finish(j)
    /\ Release
    /\ UNCHANGED <<diskVars, storage, declared, expired, crashes>>

Crash ==
    /\ crashes < MaxCrashes
    /\ crashes' = crashes + 1
    /\ job' = [j \in Jobs |-> Idle]
    /\ queue' = [u \in Uploads |-> <<>>]
    /\ active' = 0
    /\ UNCHANGED <<diskVars, storage, declared, expired>>

Expire(u) ==
    /\ u \in declared \ expired
    /\ expired' = expired \cup {u}
    /\ UNCHANGED <<diskVars, storage, declared, queue, job, active, crashes>>

Create(j) == MakePart(j) \/ SaveCreated(j) \/ CreateFails(j)

AppendChunk(j) ==
    ReadForAppend(j) \/ OpenPart(j) \/ WriteBytes(j) \/ SaveAppended(j)

Finalize(j) ==
    \/ ReadForFinalize(j) \/ Recover(j) \/ Admit(j) \/ Start(j) \/ StartFails(j)
    \/ Verify(j) \/ Scan(j) \/ Process(j) \/ Publish(j) \/ SaveCompleted(j)
    \/ FinalizeFails(j) \/ Rollback(j) \/ Retire(j)

Cancel(j) == ReadForCancel(j) \/ SaveCancelled(j) \/ Remove(j)

Cleanup(j) ==
    ReadForCleanup(j) \/ PurgeMetadata(j) \/ PurgePart(j) \/ PurgeDirectory(j)

\* A call in progress goes on.
Continue(j) ==
    \/ Create(j) \/ AppendChunk(j) \/ Finalize(j) \/ Cancel(j) \/ Cleanup(j)
    \/ FileFails(j)

\* A client or the timer makes a call.
Begin(j, u) ==
    \/ MakeDirectory(j, u)
    \/ \E c \in Chunks : BeginAppend(j, u, c)
    \/ BeginFinalize(j, u)
    \/ BeginCancel(j, u)
    \/ BeginCleanup(j, u)

Next ==
    \/ \E j \in Jobs : Continue(j)
    \/ \E j \in Jobs, u \in Uploads : Begin(j, u)
    \/ Crash
    \/ \E u \in Uploads : Expire(u)

Spec == Init /\ [][Next]_vars

(* A call in progress goes on while the process lives, the timer visits    *)
(* each directory again and again, and reading a record and unlinking the  *)
(* files of a directory do not fail for ever.                              *)
FairSpec ==
    /\ Spec
    /\ \A j \in Jobs : WF_vars(Continue(j))
    /\ \A u \in Uploads :
          /\ SF_vars(\E j \in Jobs : BeginCleanup(j, u))
          /\ SF_vars(\E j \in Jobs : job[j].id = u /\ ReadForCleanup(j))
          /\ SF_vars(\E j \in Jobs : job[j].id = u /\ PurgeMetadata(j))
          /\ SF_vars(\E j \in Jobs : job[j].id = u /\ PurgePart(j))

-----------------------------------------------------------------------------
(* Correctness *)

(* While a finalization is between "processing" and "completed", the       *)
(* record says so and nothing has taken the staged bytes away: no append,  *)
(* cancellation or cleanup comes between its steps, whatever crash came    *)
(* before (service.ts, finalize).                                          *)
FinalizationUndisturbed ==
    \A j \in Jobs :
        job[j].pc \in {"verify", "scan", "process", "publish", "complete"} =>
            /\ State(j) = "processing"
            /\ job[j].id \in staged
            /\ job[j].pc \in {"process", "publish", "complete"} => Intact(job[j].id)

(* Only bytes that are the declared ones and passed the scan are ever      *)
(* published, and an upload is completed only when its bytes are.          *)
PublicationSound ==
    /\ \A p \in storage : p[2] = Declared[p[1]] /\ p[1] \notin Infected
    /\ \A u \in Uploads :
          metadata[u].state = "completed" => <<u, Declared[u]>> \in storage

(* What a client was told is received stays: as long as a record is open,  *)
(* the staged file holds at least the bytes up to its offset, and only an  *)
(* upload past its expiresAt ever loses the file.  append reopens and cuts *)
(* the file before it writes, any write may stop half-way, and no call     *)
(* that fails may leave the record ahead of the bytes.                     *)
AcknowledgedBytesKept ==
    \A u \in Uploads : metadata[u].state \in OpenStates =>
        /\ u \in staged => metadata[u].offset <= Len(part[u])
        /\ u \notin expired => u \in staged

(* Finalization capacity is taken exactly by the finalizations that run:   *)
(* no path out of finalize keeps or returns it twice.                      *)
CapacityAccounted ==
    active = Cardinality({j \in Jobs : job[j].pc \in Finalizing})

(* An upload behaves as if each call were one step, crashes included       *)
(* (apps/media-worker/README.md, "Upload protocol").  A record whose       *)
(* staged bytes are gone is closed: no call can finish it any more.        *)
Phase(u) ==
    CASE metadata[u].state \in OpenStates /\ u \in staged -> "open"
      [] metadata[u].state = "completed"                  -> "published"
      [] OTHER                                            -> "closed"

Content(u) ==
    CASE Phase(u) = "open"      -> SubSeq(part[u], 1, metadata[u].offset)
      [] Phase(u) = "published" -> Declared[u]
      [] OTHER                  -> <<>>

Lifecycle == INSTANCE UploadLifecycle
    WITH phase <- [u \in Uploads |-> Phase(u)],
         content <- [u \in Uploads |-> Content(u)]

ImplementsLifecycle == Lifecycle!Spec

(* An upload that has expired is removed in the end.                       *)
ExpiredRecordsLeave ==
    \A u \in Uploads :
        (u \in expired /\ metadata[u].state # "none") ~> (metadata[u].state = "none")

(* README.md of the worker says of uploads in progress at a restart that   *)
(* they "expire normally"; their bytes may stay for ever.                  *)
StagedBytesLeave ==
    \A u \in Uploads : (u \in expired) ~> (u \notin staged)
=============================================================================
