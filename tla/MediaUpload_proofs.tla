------------------------- MODULE MediaUpload_proofs -------------------------
(***************************************************************************)
(* Invariants of the media worker's uploads and their refinement of        *)
(* UploadLifecycle, for any number of calls, uploads, chunks and crashes.  *)
(*                                                                         *)
(* The argument is that of a lock: a step of a call changes only its own   *)
(* upload, every other call in the middle of its work is on another one    *)
(* (LocalStepFrame), so what a call has read still holds when it uses it   *)
(* (Appending, FinalizingStep, RemovingStep).                              *)
(***************************************************************************)
EXTENDS MediaUpload, SequenceTheorems, FiniteSetTheorems, TLAPS

\* A locked step belongs to the call at the head of its upload's queue.
HoldsLock(j) ==
    /\ job[j].pc # "idle" => job[j].id \in Uploads
    /\ job[j].pc \in Locked =>
          /\ job[j].id \in declared
          /\ queue[job[j].id] # <<>>
          /\ Head(queue[job[j].id]) = j

\* A create works on an identifier nobody else can know.
Creating(j) ==
    job[j].pc \in {"mkdir", "create"} =>
        /\ job[j].id \in directory \ declared
        /\ job[j].pc = "create" => job[j].id \in staged

\* The chunk a call carries is one a client sent, and it still fits.
Appending(j) ==
    /\ job[j].pc \in {"append", "open", "write", "save"} =>
          [at |-> job[j].at, bytes |-> job[j].bytes] \in Chunks
    /\ job[j].pc \in {"open", "write", "save"} =>
          /\ State(j) = "uploading"
          /\ metadata[job[j].id].offset = job[j].at
          /\ job[j].at + Len(job[j].bytes) <= Len(Declared[job[j].id])
    /\ job[j].pc \in {"write", "save"} => job[j].id \in staged
    /\ job[j].pc = "save" =>
          /\ Len(part[job[j].id]) >= job[j].at + Len(job[j].bytes)
          /\ SubSeq(part[job[j].id], 1, job[j].at + Len(job[j].bytes))
                = SubSeq(part[job[j].id], 1, job[j].at) \o job[j].bytes

FinalizingStep(j) ==
    /\ job[j].pc = "recover" => State(j) = "processing"
    /\ job[j].pc \in {"admit", "start"} => State(j) = "ready"
    /\ job[j].pc \in {"verify", "scan", "process", "publish", "complete", "rollback"} =>
          State(j) = "processing"
    /\ job[j].pc \in {"start", "verify", "scan", "process", "publish", "complete"} =>
          job[j].id \in staged
    /\ job[j].pc \in {"process", "publish", "complete"} =>
          Intact(job[j].id) /\ job[j].id \notin Infected
    /\ job[j].pc = "publish" => job[j].bytes = Declared[job[j].id]
    /\ job[j].pc = "complete" => <<job[j].id, Declared[job[j].id]>> \in storage
    /\ job[j].pc = "retire" => State(j) = "completed"

RemovingStep(j) ==
    /\ job[j].pc = "cancelling" => State(j) \in OpenStates
    /\ job[j].pc = "remove" => State(j) \in {"completed", "cancelled"}
    /\ job[j].pc = "purge" =>
          State(j) \in {"none", "cancelled"} \/ job[j].id \in expired

JobInv(j) ==
    HoldsLock(j) /\ Creating(j) /\ Appending(j) /\ FinalizingStep(j) /\ RemovingStep(j)

\* The staged file holds at least the bytes that were acknowledged; only an
\* expired upload can lose it.  A completed upload has been published.
UploadInv(u) ==
    /\ metadata[u].state # "none" => u \in declared
    /\ u \notin declared => part[u] = <<>>
    /\ metadata[u].state \in OpenStates =>
          /\ u \in staged => Len(part[u]) >= metadata[u].offset
          /\ u \notin expired => u \in staged
    /\ metadata[u].state = "completed" => <<u, Declared[u]>> \in storage

CreateApart ==
    \A j, k \in Jobs :
        /\ job[j].pc \in {"mkdir", "create"} /\ job[k].pc \in {"mkdir", "create"}
        /\ job[j].id = job[k].id
        => j = k

StoredIsDeclared ==
    \A p \in storage : p[2] = Declared[p[1]] /\ p[1] \notin Infected

MediaInv ==
    /\ TypeOK
    /\ CapacityAccounted
    /\ CreateApart
    /\ StoredIsDeclared
    /\ \A j \in Jobs : JobInv(j)
    /\ \A u \in Uploads : UploadInv(u)

-----------------------------------------------------------------------------
(* Bytes and files                                                         *)

(* A prefix of a prefix is a prefix of the whole.                          *)
LEMMA PrefixOfPrefix ==
    ASSUME NEW S, NEW s \in Seq(S), NEW n \in 0..Len(s)
    PROVE  /\ SubSeq(s, 1, n) \in Seq(S)
           /\ Len(SubSeq(s, 1, n)) = n
           /\ SubSeq(SubSeq(s, 1, n), 1, n) = SubSeq(s, 1, n)
<1> DEFINE p == SubSeq(s, 1, n)
<1>1. Len(s) \in Nat /\ n \in Int /\ 1 \in Int /\ \A i \in 1..n : s[i] \in S
  BY ElementOfSeq, LenProperties
<1>2. p \in Seq(S) /\ Len(p) = IF 1 <= n THEN n-1+1 ELSE 0
  BY <1>1, SubSeqProperties
<1>3. Len(p) = n
  BY <1>1, <1>2
<1> HIDE DEF p
<1>4. SubSeq(p, 1, Len(p)) = p
  BY <1>2, SubSeqFull
<1>5. SubSeq(p, 1, n) = p
  BY <1>3, <1>4, Zenon
<1> QED BY <1>2, <1>3, <1>5, Zenon DEF p

(* Writing at an offset within a file leaves the bytes before it alone and *)
(* puts the new ones right behind them.  (writeAllAtOffset)                *)
LEMMA OverwriteProperties ==
    ASSUME NEW S, NEW s \in Seq(S), NEW b \in Seq(S), NEW n \in 0..Len(s)
    PROVE  /\ Overwrite(s, n, b) \in Seq(S)
           /\ Len(Overwrite(s, n, b)) >= n + Len(b)
           /\ Len(Overwrite(s, n, b)) >= Len(s)
           /\ SubSeq(Overwrite(s, n, b), 1, n) = SubSeq(s, 1, n)
           /\ SubSeq(Overwrite(s, n, b), 1, n + Len(b)) = SubSeq(s, 1, n) \o b
<1> DEFINE p == SubSeq(s, 1, n)
           t == SubSeq(s, n + Len(b) + 1, Len(s))
           w == p \o b
<1>1. /\ Len(s) \in Nat /\ Len(b) \in Nat /\ n \in Nat
      /\ p \in Seq(S) /\ Len(p) = n
  BY PrefixOfPrefix, LenProperties
<1>2. t \in Seq(S) /\ Len(t) \in Nat /\ Len(t) >= Len(s) - (n + Len(b))
  <2>1. \A i \in (n + Len(b) + 1)..Len(s) : s[i] \in S
    BY <1>1, ElementOfSeq
  <2>2. n + Len(b) + 1 \in Int /\ Len(s) \in Int
    BY <1>1
  <2>3. /\ t \in Seq(S)
        /\ Len(t) = IF n + Len(b) + 1 <= Len(s)
                    THEN Len(s) - (n + Len(b) + 1) + 1 ELSE 0
    BY <2>1, <2>2, SubSeqProperties
  <2> QED BY <2>3, <1>1
<1>3. w \in Seq(S) /\ Len(w) = n + Len(b)
  BY <1>1, ConcatProperties
<1>4. Overwrite(s, n, b) = w \o t
  BY DEF Overwrite
<1>5. w \o t \in Seq(S) /\ Len(w \o t) = n + Len(b) + Len(t)
  BY <1>2, <1>3, ConcatProperties
<1> HIDE DEF w, t, p
<1>6. SubSeq(w \o t, 1, n + Len(b)) = w
  <2>1. CASE n + Len(b) = 0
    <3>1. w = <<>>
      BY <2>1, <1>3, EmptySeq, SeqEqual
    <3> QED BY <3>1, <2>1, SubSeqEmpty
  <2>2. CASE n + Len(b) # 0
    <3>1. 1 \in 1..Len(w) /\ n + Len(b) \in 1..Len(w)
      BY <2>2, <1>1, <1>3
    <3> QED BY <3>1, <1>2, <1>3, SubSeqOfConcat1, SubSeqFull
  <2> QED BY <2>1, <2>2
<1>7. SubSeq(w \o t, 1, n) = p
  <2>1. CASE n = 0
    <3>1. 0 < 1 /\ 0 \in Int /\ 1 \in Int
      OBVIOUS
    <3>2. SubSeq(w \o t, 1, 0) = <<>> /\ SubSeq(s, 1, 0) = <<>>
      BY <3>1, SubSeqEmpty
    <3> QED BY <2>1, <3>2, Zenon DEF p
  <2>2. CASE n # 0
    <3>1. /\ 1 \in 1..Len(w) /\ n \in 1..Len(w)
          /\ 1 \in 1..Len(p) /\ n \in 1..Len(p)
      BY <2>2, <1>1, <1>3
    <3>2. SubSeq(w \o t, 1, n) = SubSeq(w, 1, n)
      BY <3>1, <1>2, <1>3, SubSeqOfConcat1
    <3>3. SubSeq(w, 1, n) = SubSeq(p, 1, n)
      BY <3>1, <1>1, SubSeqOfConcat1 DEF w
    <3>4. SubSeq(p, 1, n) = p
      BY <1>1, SubSeqFull, Zenon
    <3> QED BY <3>2, <3>3, <3>4, Zenon
  <2> QED BY <2>1, <2>2
<1>8. Len(w \o t) >= n + Len(b) /\ Len(w \o t) >= Len(s)
  BY <1>1, <1>2, <1>5
<1> QED BY <1>4, <1>5, <1>6, <1>7, <1>8, Zenon DEF w, p

-----------------------------------------------------------------------------
(* The capacity counter                                                    *)

Finalizers == {j \in Jobs : job[j].pc \in Finalizing}

LEMMA FinalizersFinite == IsFiniteSet(Finalizers) /\ Cardinality(Finalizers) \in Nat
BY MediaAssumption, FS_Subset, FS_CardinalityType DEF Finalizers

(* A step in which no call enters or leaves finalization.                  *)
LEMMA CapacityKept ==
    ASSUME CapacityAccounted, active' = active,
           \A k \in Jobs : job'[k].pc \in Finalizing <=> job[k].pc \in Finalizing
    PROVE  CapacityAccounted'
<1>1. Finalizers' = Finalizers
  BY DEF Finalizers
<1> QED BY <1>1, Zenon DEF CapacityAccounted, Finalizers

(* #acquireFinalizationCapacity                                            *)
LEMMA CapacityTaken ==
    ASSUME CapacityAccounted, NEW j \in Jobs, active' = active + 1,
           job[j].pc \notin Finalizing, job'[j].pc \in Finalizing,
           \A k \in Jobs \ {j} : job'[k].pc \in Finalizing <=> job[k].pc \in Finalizing
    PROVE  CapacityAccounted'
<1>1. Finalizers' = Finalizers \cup {j} /\ j \notin Finalizers
  BY DEF Finalizers
<1>2. Cardinality(Finalizers \cup {j}) = Cardinality(Finalizers) + 1
  BY <1>1, FinalizersFinite, FS_AddElement
<1>3. active = Cardinality(Finalizers)
  BY DEF CapacityAccounted, Finalizers
<1>4. active' = Cardinality(Finalizers')
  BY <1>1, <1>2, <1>3
<1> QED BY <1>4 DEF CapacityAccounted, Finalizers

(* The release of the capacity, of which there is at least one.            *)
LEMMA CapacityReleased ==
    ASSUME CapacityAccounted, NEW j \in Jobs, active' = active - 1,
           job[j].pc \in Finalizing, job'[j].pc \notin Finalizing,
           \A k \in Jobs \ {j} : job'[k].pc \in Finalizing <=> job[k].pc \in Finalizing
    PROVE  CapacityAccounted' /\ active' \in Nat
<1>1. Finalizers' = Finalizers \ {j} /\ j \in Finalizers
  BY DEF Finalizers
<1>2. Cardinality(Finalizers \ {j}) = Cardinality(Finalizers) - 1
  BY <1>1, FinalizersFinite, FS_RemoveElement
<1>3. active = Cardinality(Finalizers)
  BY DEF CapacityAccounted, Finalizers
<1>4. active' = Cardinality(Finalizers')
  BY <1>1, <1>2, <1>3
<1>5. Cardinality(Finalizers \ {j}) \in Nat
  BY FinalizersFinite, FS_RemoveElement, FS_CardinalityType
<1> QED BY <1>1, <1>4, <1>5 DEF CapacityAccounted, Finalizers

-----------------------------------------------------------------------------
(* Calls and their lock                                                    *)

LEMMA GotoCall ==
    ASSUME TypeOK, NEW j \in Jobs, NEW pc \in Waiting \cup Locked \cup {"create"},
           Goto(j, pc)
    PROVE  /\ job' \in [Jobs -> Calls]
           /\ job'[j].pc = pc /\ job'[j].id = job[j].id
           /\ job'[j].at = job[j].at /\ job'[j].bytes = job[j].bytes
           /\ \A k \in Jobs \ {j} : job'[k] = job[k]
           /\ queue' = queue
BY DEF Goto, TypeOK, Calls

LEMMA FinishCall ==
    ASSUME TypeOK, NEW j \in Jobs, Finish(j),
           job[j].id \in Uploads, queue[job[j].id] # <<>>
    PROVE  /\ job' \in [Jobs -> Calls]
           /\ job'[j] = Idle
           /\ \A k \in Jobs \ {j} : job'[k] = job[k]
           /\ queue' \in [Uploads -> Seq(Jobs)]
           /\ \A v \in Uploads \ {job[j].id} : queue'[v] = queue[v]
<1>1. queue \in [Uploads -> Seq(Jobs)] /\ job \in [Jobs -> Calls]
  BY DEF TypeOK
<1>2. Tail(queue[job[j].id]) \in Seq(Jobs)
  BY <1>1, HeadTailProperties
<1>3. Idle \in Calls
  BY EmptySeq DEF Idle, Calls
<1> QED BY <1>1, <1>2, <1>3 DEF Finish

(* A step of the call that holds the lock of its upload.  It may touch the *)
(* call itself, the head of that queue and what is on disk of that upload. *)
LocalStep(j) ==
    /\ \A k \in Jobs \ {j} : job'[k] = job[k]
    /\ \A v \in Uploads \ {job[j].id} :
          /\ queue'[v] = queue[v]
          /\ metadata'[v] = metadata[v]
          /\ part'[v] = part[v]
          /\ v \in staged' <=> v \in staged
          /\ v \in directory' <=> v \in directory
    /\ declared' = declared
    /\ expired' = expired
    /\ storage \subseteq storage'

(* Every other call that is in the middle of its work is on another upload *)
(* and finds everything as it was.                                         *)
LEMMA LocalStepFrame ==
    ASSUME MediaInv, NEW j \in Jobs, LocalStep(j),
           job[j].id \in Uploads, Head(queue[job[j].id]) = j,
           job[j].pc \in Waiting \cup Locked,
           \/ queue' = queue
           \/ Finish(j) /\ queue[job[j].id] # <<>>,
           job'[j].pc \in {"idle"} \cup Locked,
           job[j].id \in declared \/ (job'[j].pc = "idle" /\ UNCHANGED diskVars)
    PROVE  /\ \A k \in Jobs \ {j} : JobInv(k)'
           /\ \A v \in Uploads \ {job[j].id} : UploadInv(v)'
           /\ CreateApart'
<1>1. ASSUME NEW k \in Jobs \ {j} PROVE JobInv(k)'
  <2>1. JobInv(k) /\ job'[k] = job[k]
    BY <1>1 DEF MediaInv, LocalStep
  <2>2. CASE job[k].pc \in Locked
    <3>1. job[k].id \in Uploads \ {job[j].id}
      BY <1>1, <2>1, <2>2 DEF JobInv, HoldsLock, Locked, Finalizing
    <3>2. /\ queue'[job[k].id] = queue[job[k].id]
          /\ metadata'[job[k].id] = metadata[job[k].id]
          /\ part'[job[k].id] = part[job[k].id]
          /\ job[k].id \in staged' <=> job[k].id \in staged
          /\ declared' = declared /\ expired' = expired /\ storage \subseteq storage'
      BY <3>1 DEF LocalStep
    <3>3. HoldsLock(k)'
      BY <2>1, <3>2 DEF JobInv, HoldsLock
    <3>4. Creating(k)'
      BY <2>1, <2>2 DEF Creating, Locked, Finalizing
    <3>5. Appending(k)'
      BY <2>1, <3>2 DEF JobInv, Appending, State
    <3>6. FinalizingStep(k)' /\ RemovingStep(k)'
      BY <2>1, <3>2 DEF JobInv, FinalizingStep, RemovingStep, State, Intact
    <3> QED BY <3>3, <3>4, <3>5, <3>6 DEF JobInv
  <2>3. CASE job[k].pc \in {"mkdir", "create"}
    <3>1. job[k].id \in Uploads /\ job[k].id \in directory \ declared
      BY <2>1, <2>3 DEF JobInv, HoldsLock, Creating
    <3>2. /\ declared' = declared
          /\ job[k].id \in directory'
          /\ job[k].id \in staged' <=> job[k].id \in staged
      BY <3>1 DEF LocalStep, diskVars
    <3> QED
      BY <2>1, <2>3, <3>1, <3>2
      DEF JobInv, HoldsLock, Creating, Appending, FinalizingStep, RemovingStep,
          Locked, Finalizing
  <2>4. CASE job[k].pc \notin Locked \cup {"mkdir", "create"}
    BY <2>1, <2>4
    DEF JobInv, HoldsLock, Creating, Appending, FinalizingStep, RemovingStep,
        Locked, Finalizing
  <2> QED BY <2>2, <2>3, <2>4
<1>2. ASSUME NEW v \in Uploads \ {job[j].id} PROVE UploadInv(v)'
  BY <1>2 DEF MediaInv, UploadInv, LocalStep
<1>3. CreateApart'
  <2>1. job'[j].pc \notin {"mkdir", "create"}
    BY DEF Locked, Finalizing
  <2>2. \A k \in Jobs \ {j} : job'[k] = job[k]
    BY DEF LocalStep
  <2> QED BY <2>1, <2>2 DEF MediaInv, CreateApart
<1> QED BY <1>1, <1>2, <1>3

LEMMA IdleCall ==
    ASSUME NEW j \in Jobs, job'[j] = Idle
    PROVE  JobInv(j)'
BY DEF JobInv, HoldsLock, Creating, Appending, FinalizingStep, RemovingStep, Idle,
       Locked, Finalizing

LEMMA RunningCall ==
    ASSUME MediaInv, NEW j \in Jobs, NEW pc \in Waiting \cup Locked, Runs(j, pc)
    PROVE  /\ job[j].pc = pc
           /\ job[j].id \in Uploads
           /\ queue[job[j].id] # <<>> /\ Head(queue[job[j].id]) = j
           /\ job[j].at \in Nat /\ job[j].bytes \in Seq(Bytes)
           /\ metadata[job[j].id] \in Records
           /\ ValidRecord(job[j].id)
           /\ part[job[j].id] \in Seq(Bytes)
           /\ Len(Declared[job[j].id]) \in Nat \ {0}
           /\ JobInv(j) /\ UploadInv(job[j].id)
           /\ pc \in Locked => job[j].id \in declared
<1>1. /\ job[j].pc = pc /\ queue[job[j].id] # <<>> /\ Head(queue[job[j].id]) = j
      /\ JobInv(j)
  BY DEF Runs, At, MediaInv
<1>2. job[j].id \in Uploads /\ (pc \in Locked => job[j].id \in declared)
  BY <1>1 DEF JobInv, HoldsLock, Waiting, Locked, Finalizing
<1>3. job[j] \in Calls
  BY DEF MediaInv, TypeOK
<1>4. Len(Declared[job[j].id]) \in Nat \ {0}
  <2>1. Declared[job[j].id] \in Seq(Bytes) /\ Declared[job[j].id] # <<>>
    BY <1>2, MediaAssumption
  <2> QED BY <2>1, EmptySeq
<1> QED BY <1>1, <1>2, <1>3, <1>4 DEF MediaInv, TypeOK, Calls

(* What is left to show of a local step: the types, the counter, the       *)
(* storage, and the call and the upload themselves.                        *)
LEMMA LocalStepInv ==
    ASSUME MediaInv, NEW j \in Jobs, LocalStep(j),
           NEW u \in Uploads, job[j].id = u, Head(queue[u]) = j,
           job[j].pc \in Waiting \cup Locked,
           \/ queue' = queue
           \/ Finish(j) /\ queue[u] # <<>>,
           job'[j].pc \in {"idle"} \cup Locked,
           u \in declared \/ (job'[j].pc = "idle" /\ UNCHANGED diskVars),
           TypeOK', CapacityAccounted', StoredIsDeclared',
           JobInv(j)', UploadInv(u)'
    PROVE  MediaInv'
<1>1. /\ \A k \in Jobs \ {j} : JobInv(k)'
      /\ \A v \in Uploads \ {u} : UploadInv(v)'
      /\ CreateApart'
  BY LocalStepFrame
<1> QED BY <1>1 DEF MediaInv

(* A step that leaves the disk alone.                                      *)
LEMMA ControlStepInv ==
    ASSUME MediaInv, NEW j \in Jobs, NEW pc \in Waiting \cup Locked, Runs(j, pc),
           \/ \E next \in Locked : Goto(j, next) /\ job[j].id \in declared
           \/ Finish(j),
           UNCHANGED diskVars, declared' = declared, expired' = expired,
           storage \subseteq storage', storage' \subseteq Uploads \X Seq(Bytes),
           crashes' = crashes,
           active' \in 0..MaxFinalizations, CapacityAccounted',
           StoredIsDeclared', JobInv(j)'
    PROVE  MediaInv'
<1>1. PICK u \in Uploads : job[j].id = u
  BY RunningCall
<1>2. /\ job[j].pc = pc /\ queue[u] # <<>> /\ Head(queue[u]) = j
      /\ UploadInv(u)
  BY <1>1, RunningCall
<1>3. /\ job' \in [Jobs -> Calls] /\ queue' \in [Uploads -> Seq(Jobs)]
      /\ \A k \in Jobs \ {j} : job'[k] = job[k]
      /\ \A v \in Uploads \ {u} : queue'[v] = queue[v]
      /\ job'[j].pc \in {"idle"} \cup Locked
      /\ queue' = queue \/ (Finish(j) /\ queue[u] # <<>>)
      /\ job'[j].pc # "idle" => u \in declared
  <2>1. CASE \E next \in Locked : Goto(j, next) /\ job[j].id \in declared
    <3>1. PICK next \in Locked : Goto(j, next) /\ job[j].id \in declared
      BY <2>1
    <3> QED BY <1>1, <3>1, GotoCall DEF MediaInv, TypeOK
  <2>2. CASE Finish(j)
    <3>1. job'[j].pc = "idle"
      BY <2>2, <1>1, <1>2, FinishCall DEF MediaInv, Idle
    <3> QED BY <3>1, <2>2, <1>1, <1>2, FinishCall DEF MediaInv
  <2> QED BY <2>1, <2>2
<1>4. LocalStep(j)
  BY <1>1, <1>3 DEF LocalStep, diskVars
<1>5. TypeOK'
  BY <1>3 DEF MediaInv, TypeOK, diskVars, ValidRecord
<1>6. UploadInv(u)'
  BY <1>2 DEF UploadInv, diskVars
<1> QED BY <1>1, <1>2, <1>3, <1>4, <1>5, <1>6, LocalStepInv

(* The call ends without having touched anything, or is cut off.           *)
LEMMA FinishedInv ==
    ASSUME MediaInv, NEW j \in Jobs, NEW pc \in (Waiting \cup Locked) \ Finalizing,
           Runs(j, pc), Finish(j),
           UNCHANGED <<diskVars, storage, declared, expired, active, crashes>>
    PROVE  MediaInv'
<1>1. /\ job[j].pc = pc /\ job[j].id \in Uploads
      /\ queue[job[j].id] # <<>>
  BY RunningCall
<1>2. job'[j] = Idle /\ \A k \in Jobs \ {j} : job'[k] = job[k]
  BY <1>1, FinishCall DEF MediaInv
<1>3. CapacityAccounted'
  BY <1>1, <1>2, CapacityKept DEF MediaInv, Idle, Finalizing
<1>4. active \in 0..MaxFinalizations /\ storage \subseteq Uploads \X Seq(Bytes)
  BY DEF MediaInv, TypeOK
<1>5. StoredIsDeclared'
  BY DEF MediaInv, StoredIsDeclared
<1> QED BY <1>2, <1>3, <1>4, <1>5, IdleCall, ControlStepInv

(* The call goes on to a step outside finalization, having touched nothing.*)
LEMMA ContinuedInv ==
    ASSUME MediaInv, NEW j \in Jobs, NEW pc \in Waiting \cup Locked, Runs(j, pc),
           NEW next \in Locked, Goto(j, next), job[j].id \in declared,
           pc \in Finalizing <=> next \in Finalizing, JobInv(j)',
           UNCHANGED <<diskVars, storage, declared, expired, active, crashes>>
    PROVE  MediaInv'
<1>1. job[j].pc = pc
  BY RunningCall
<1>2. job'[j].pc = next /\ \A k \in Jobs \ {j} : job'[k] = job[k]
  BY GotoCall DEF MediaInv
<1>3. CapacityAccounted'
  BY <1>1, <1>2, CapacityKept DEF MediaInv
<1>4. active \in 0..MaxFinalizations /\ storage \subseteq Uploads \X Seq(Bytes)
  BY DEF MediaInv, TypeOK
<1>5. StoredIsDeclared'
  BY DEF MediaInv, StoredIsDeclared
<1> QED BY <1>3, <1>4, <1>5, ControlStepInv

(* The call that goes on still holds its lock.                             *)
LEMMA GotoHolds ==
    ASSUME MediaInv, NEW j \in Jobs, NEW pc \in Waiting \cup Locked, Runs(j, pc),
           NEW next \in Locked, Goto(j, next), job[j].id \in declared,
           declared \subseteq declared'
    PROVE  HoldsLock(j)' /\ Creating(j)'
<1>1. /\ job[j].id \in Uploads /\ queue[job[j].id] # <<>> /\ Head(queue[job[j].id]) = j
  BY RunningCall
<1>2. job'[j].pc = next /\ job'[j].id = job[j].id /\ queue' = queue
  BY GotoCall DEF MediaInv
<1> QED BY <1>1, <1>2 DEF HoldsLock, Creating, Locked, Finalizing

-----------------------------------------------------------------------------
(* Steps that only read                                                    *)

LEMMA ReadForAppendInv ==
    ASSUME MediaInv, NEW j \in Jobs, ReadForAppend(j)
    PROVE  MediaInv'
<1>1. Runs(j, "append") /\ "append" \in (Waiting \cup Locked) \ Finalizing
  BY DEF ReadForAppend, Waiting, Finalizing
<1>2. JobInv(j) /\ UploadInv(job[j].id) /\ job[j].pc = "append"
  BY <1>1, RunningCall
<1>3. CASE Accepts(j)
  <2>1. Goto(j, "open") /\ "open" \in Locked \ Finalizing
    BY <1>3 DEF ReadForAppend, Locked, Finalizing
  <2>2. /\ job'[j].pc = "open" /\ job'[j].id = job[j].id
        /\ job'[j].at = job[j].at /\ job'[j].bytes = job[j].bytes
    BY <2>1, GotoCall DEF MediaInv
  <2>3. job[j].id \in declared
    BY <1>2, <1>3 DEF Accepts, State, UploadInv
  <2>4. HoldsLock(j)' /\ Creating(j)'
    BY <1>1, <2>1, <2>3, GotoHolds DEF ReadForAppend
  <2>5. Appending(j)'
    BY <1>2, <1>3, <2>2
    DEF ReadForAppend, Accepts, State, Appending, JobInv, diskVars
  <2>6. FinalizingStep(j)' /\ RemovingStep(j)'
    BY <2>2 DEF FinalizingStep, RemovingStep
  <2> QED BY <1>1, <2>1, <2>3, <2>4, <2>5, <2>6, ContinuedInv DEF ReadForAppend, JobInv
<1>4. CASE ~Accepts(j)
  BY <1>1, <1>4, FinishedInv DEF ReadForAppend
<1> QED BY <1>3, <1>4

LEMMA ReadForFinalizeInv ==
    ASSUME MediaInv, NEW j \in Jobs, ReadForFinalize(j)
    PROVE  MediaInv'
<1>1. Runs(j, "finalize") /\ "finalize" \in (Waiting \cup Locked) \ Finalizing
  BY DEF ReadForFinalize, Waiting, Finalizing
<1>2. /\ JobInv(j) /\ UploadInv(job[j].id)
      /\ UNCHANGED <<diskVars, storage, declared, expired, active, crashes>>
  BY <1>1, RunningCall DEF ReadForFinalize
<1>3. ASSUME NEW next \in {"remove", "recover", "admit"}, Goto(j, next),
             State(j) # "none",
             next = "remove" => State(j) = "completed",
             next = "recover" => State(j) = "processing",
             next = "admit" => State(j) = "ready"
      PROVE  MediaInv'
  <2>1. next \in Locked \ Finalizing
    BY <1>3 DEF Locked, Finalizing
  <2>2. job'[j].pc = next /\ job'[j].id = job[j].id
    BY <1>3, <2>1, GotoCall DEF MediaInv
  <2>3. job[j].id \in declared
    BY <1>2, <1>3 DEF State, UploadInv
  <2>4. HoldsLock(j)' /\ Creating(j)'
    BY <1>1, <1>2, <1>3, <2>1, <2>3, GotoHolds
  <2>5. Appending(j)' /\ FinalizingStep(j)' /\ RemovingStep(j)'
    BY <1>2, <1>3, <2>2
    DEF State, Appending, FinalizingStep, RemovingStep, diskVars
  <2> QED BY <1>1, <1>2, <1>3, <2>1, <2>3, <2>4, <2>5, ContinuedInv DEF JobInv
<1>4. CASE State(j) \in {"completed", "processing", "ready"}
  BY <1>3, <1>4 DEF ReadForFinalize
<1>5. CASE State(j) \notin {"completed", "processing", "ready"}
  BY <1>1, <1>2, <1>5, FinishedInv DEF ReadForFinalize
<1> QED BY <1>4, <1>5

LEMMA ReadForCancelInv ==
    ASSUME MediaInv, NEW j \in Jobs, ReadForCancel(j)
    PROVE  MediaInv'
<1>1. Runs(j, "cancel") /\ "cancel" \in (Waiting \cup Locked) \ Finalizing
  BY DEF ReadForCancel, Waiting, Finalizing
<1>2. /\ JobInv(j) /\ UploadInv(job[j].id)
      /\ UNCHANGED <<diskVars, storage, declared, expired, active, crashes>>
  BY <1>1, RunningCall DEF ReadForCancel
<1>3. ASSUME NEW next \in {"cancelling", "remove"}, Goto(j, next),
             next = "cancelling" => State(j) \in OpenStates,
             next = "remove" => State(j) = "cancelled"
      PROVE  MediaInv'
  <2>1. next \in Locked \ Finalizing
    BY <1>3 DEF Locked, Finalizing
  <2>2. job'[j].pc = next /\ job'[j].id = job[j].id
    BY <1>3, <2>1, GotoCall DEF MediaInv
  <2>3. job[j].id \in declared
    BY <1>2, <1>3 DEF State, UploadInv, OpenStates
  <2>4. HoldsLock(j)' /\ Creating(j)'
    BY <1>1, <1>2, <1>3, <2>1, <2>3, GotoHolds
  <2>5. Appending(j)' /\ FinalizingStep(j)' /\ RemovingStep(j)'
    BY <1>2, <1>3, <2>2
    DEF State, Appending, FinalizingStep, RemovingStep, diskVars
  <2> QED BY <1>1, <1>2, <1>3, <2>1, <2>3, <2>4, <2>5, ContinuedInv DEF JobInv
<1>4. CASE State(j) \in OpenStates \cup {"cancelled"}
  BY <1>3, <1>4 DEF ReadForCancel, OpenStates
<1>5. CASE State(j) \notin OpenStates \cup {"cancelled"}
  BY <1>1, <1>2, <1>5, FinishedInv DEF ReadForCancel
<1> QED BY <1>4, <1>5

LEMMA ReadForCleanupInv ==
    ASSUME MediaInv, NEW j \in Jobs, ReadForCleanup(j)
    PROVE  MediaInv'
<1>1. Runs(j, "cleanup") /\ "cleanup" \in (Waiting \cup Locked) \ Finalizing
  BY DEF ReadForCleanup, Waiting, Finalizing
<1>2. /\ JobInv(j) /\ UploadInv(job[j].id)
      /\ UNCHANGED <<diskVars, storage, declared, expired, active, crashes>>
  BY <1>1, RunningCall DEF ReadForCleanup
<1>3. CASE Removable(job[j].id)
  <2>1. Goto(j, "purge") /\ "purge" \in Locked \ Finalizing
    BY <1>3 DEF ReadForCleanup, Locked, Finalizing
  <2>2. job'[j].pc = "purge" /\ job'[j].id = job[j].id
    BY <2>1, GotoCall DEF MediaInv
  <2>3. job[j].id \in declared
    BY <1>2, <1>3 DEF Removable, UploadInv
  <2>4. HoldsLock(j)' /\ Creating(j)'
    BY <1>1, <1>2, <2>1, <2>3, GotoHolds
  <2>5. Appending(j)' /\ FinalizingStep(j)' /\ RemovingStep(j)'
    BY <1>2, <1>3, <2>2
    DEF Removable, State, Appending, FinalizingStep, RemovingStep, diskVars
  <2> QED BY <1>1, <1>2, <2>1, <2>3, <2>4, <2>5, ContinuedInv DEF JobInv
<1>4. CASE ~Removable(job[j].id)
  BY <1>1, <1>2, <1>4, FinishedInv DEF ReadForCleanup
<1> QED BY <1>3, <1>4

LEMMA FileFailsInv ==
    ASSUME MediaInv, NEW j \in Jobs, FileFails(j)
    PROVE  MediaInv'
<1>1. PICK pc \in Waiting \cup {"open", "write", "save", "recover", "cancelling",
                              "remove", "purge"} : Runs(j, pc)
  BY DEF FileFails
<1>2. pc \in (Waiting \cup Locked) \ Finalizing
  BY DEF Waiting, Locked, Finalizing
<1> QED BY <1>1, <1>2, FinishedInv DEF FileFails

-----------------------------------------------------------------------------
(* Steps of a finalization that leave the disk alone                       *)

LEMMA AdmitInv ==
    ASSUME MediaInv, NEW j \in Jobs, Admit(j)
    PROVE  MediaInv'
<1>1. Runs(j, "admit") /\ "admit" \in Locked \ Finalizing
  BY DEF Admit, Locked, Finalizing
<1>2. /\ JobInv(j) /\ UploadInv(job[j].id) /\ job[j].pc = "admit"
      /\ job[j].id \in Uploads /\ job[j].id \in declared
      /\ UNCHANGED <<diskVars, storage, declared, expired, crashes>>
  BY <1>1, RunningCall DEF Admit
<1>3. active \in 0..MaxFinalizations /\ storage \subseteq Uploads \X Seq(Bytes)
  BY DEF MediaInv, TypeOK
<1>4. CASE /\ job[j].id \notin expired /\ active < MaxFinalizations
           /\ Goto(j, "start") /\ active' = active + 1
  <2>1. Goto(j, "start") /\ active' = active + 1 /\ "start" \in Locked \cap Finalizing
    BY <1>4 DEF Locked, Finalizing
  <2>2. /\ job'[j].pc = "start" /\ job'[j].id = job[j].id
        /\ \A k \in Jobs \ {j} : job'[k] = job[k]
    BY <2>1, GotoCall DEF MediaInv
  <2>3. CapacityAccounted'
    <3>1. job[j].pc \notin Finalizing /\ job'[j].pc \in Finalizing
      BY <1>1, <1>2, <2>1, <2>2
    <3> QED BY <2>1, <2>2, <3>1, CapacityTaken DEF MediaInv
  <2>4. active' \in 0..MaxFinalizations
    BY <1>3, <1>4, <2>1, MediaAssumption
  <2>5. HoldsLock(j)' /\ Creating(j)'
    BY <1>1, <1>2, <2>1, GotoHolds
  <2>6. Appending(j)' /\ FinalizingStep(j)' /\ RemovingStep(j)'
    BY <1>2, <1>4, <2>2
    DEF JobInv, UploadInv, State, Appending, FinalizingStep, RemovingStep, diskVars,
        OpenStates
  <2>7. StoredIsDeclared'
    BY <1>2 DEF MediaInv, StoredIsDeclared
  <2> QED
    BY <1>1, <1>2, <1>3, <2>1, <2>3, <2>4, <2>5, <2>6, <2>7, ControlStepInv DEF JobInv
<1>5. CASE Finish(j) /\ UNCHANGED active
  BY <1>1, <1>2, <1>5, FinishedInv
<1> QED BY <1>4, <1>5 DEF Admit

LEMMA StartFailsInv ==
    ASSUME MediaInv, NEW j \in Jobs, StartFails(j)
    PROVE  MediaInv'
<1>1. Runs(j, "start") /\ "start" \in Locked \cap Finalizing
  BY DEF StartFails, Locked, Finalizing
<1>2. /\ Finish(j) /\ active' = active - 1
      /\ UNCHANGED <<diskVars, storage, declared, expired, crashes>>
  BY DEF StartFails, Release
<1>3. job[j].id \in Uploads /\ queue[job[j].id] # <<>> /\ job[j].pc = "start"
  BY <1>1, RunningCall
<1>4. job'[j] = Idle /\ \A k \in Jobs \ {j} : job'[k] = job[k]
  BY <1>2, <1>3, FinishCall DEF MediaInv
<1>5. CapacityAccounted' /\ active' \in Nat
  BY <1>1, <1>2, <1>3, <1>4, CapacityReleased DEF MediaInv, Idle, Finalizing
<1>6. active \in 0..MaxFinalizations /\ storage \subseteq Uploads \X Seq(Bytes)
  BY DEF MediaInv, TypeOK
<1>7. active' \in 0..MaxFinalizations
  BY <1>2, <1>5, <1>6, MediaAssumption
<1>8. StoredIsDeclared'
  BY <1>2 DEF MediaInv, StoredIsDeclared
<1> QED BY <1>1, <1>2, <1>4, <1>5, <1>6, <1>7, <1>8, IdleCall, ControlStepInv

(* A finalization goes on to its next step.  (finalize, rollback)          *)
LEMMA FinalizationGoesOn ==
    ASSUME MediaInv, NEW j \in Jobs, NEW pc \in Finalizing, Runs(j, pc),
           NEW next \in Finalizing, Goto(j, next),
           UNCHANGED <<diskVars, declared, expired, active, crashes>>,
           storage \subseteq storage', storage' \subseteq Uploads \X Seq(Bytes),
           StoredIsDeclared', FinalizingStep(j)'
    PROVE  MediaInv'
<1>1. pc \in Locked /\ next \in Locked
  BY DEF Locked
<1>2. job[j].pc = pc /\ job[j].id \in declared
  BY <1>1, RunningCall
<1>3. job'[j].pc = next /\ \A k \in Jobs \ {j} : job'[k] = job[k]
  BY <1>1, GotoCall DEF MediaInv
<1>4. CapacityAccounted'
  BY <1>2, <1>3, CapacityKept DEF MediaInv
<1>5. HoldsLock(j)' /\ Creating(j)'
  BY <1>1, <1>2, GotoHolds
<1>6. Appending(j)' /\ RemovingStep(j)'
  BY <1>3 DEF Appending, RemovingStep, Finalizing
<1>7. active' \in 0..MaxFinalizations
  BY DEF MediaInv, TypeOK
<1>8. JobInv(j)'
  BY <1>5, <1>6 DEF JobInv
<1> QED BY <1>1, <1>2, <1>4, <1>7, <1>8, ControlStepInv

LEMMA VerifyInv ==
    ASSUME MediaInv, NEW j \in Jobs, Verify(j)
    PROVE  MediaInv'
<1>1. Runs(j, "verify") /\ Goto(j, "scan") /\ {"verify", "scan"} \subseteq Finalizing
  BY DEF Verify, Finalizing
<1>2. JobInv(j) /\ job[j].pc = "verify"
  BY <1>1, RunningCall DEF Locked
<1>3. job'[j].pc = "scan" /\ job'[j].id = job[j].id
  BY <1>1, GotoCall DEF MediaInv, Locked
<1>4. FinalizingStep(j)'
  BY <1>2, <1>3 DEF Verify, JobInv, FinalizingStep, State, diskVars
<1>5. StoredIsDeclared' /\ storage \subseteq Uploads \X Seq(Bytes)
  BY DEF Verify, MediaInv, StoredIsDeclared, TypeOK
<1> QED BY <1>1, <1>4, <1>5, FinalizationGoesOn DEF Verify

LEMMA ScanInv ==
    ASSUME MediaInv, NEW j \in Jobs, Scan(j)
    PROVE  MediaInv'
<1>1. Runs(j, "scan") /\ Goto(j, "process") /\ {"scan", "process"} \subseteq Finalizing
  BY DEF Scan, Finalizing
<1>2. JobInv(j) /\ job[j].pc = "scan"
  BY <1>1, RunningCall DEF Locked
<1>3. job'[j].pc = "process" /\ job'[j].id = job[j].id
  BY <1>1, GotoCall DEF MediaInv, Locked
<1>4. FinalizingStep(j)'
  BY <1>2, <1>3 DEF Scan, JobInv, FinalizingStep, State, Intact, diskVars
<1>5. StoredIsDeclared' /\ storage \subseteq Uploads \X Seq(Bytes)
  BY DEF Scan, MediaInv, StoredIsDeclared, TypeOK
<1> QED BY <1>1, <1>4, <1>5, FinalizationGoesOn DEF Scan

(* What a publication may put into storage is the declared bytes.          *)
LEMMA PublishedIsDeclared ==
    ASSUME MediaInv, NEW j \in Jobs, Runs(j, "publish"),
           storage' = storage \cup {<<job[j].id, job[j].bytes>>}
    PROVE  /\ StoredIsDeclared'
           /\ storage' \subseteq Uploads \X Seq(Bytes)
           /\ <<job[j].id, Declared[job[j].id]>> \in storage'
<1>1. "publish" \in Locked
  BY DEF Locked, Finalizing
<1>2. /\ JobInv(j) /\ job[j].pc = "publish"
      /\ job[j].id \in Uploads /\ job[j].bytes \in Seq(Bytes)
  BY <1>1, RunningCall
<1>3. job[j].bytes = Declared[job[j].id] /\ job[j].id \notin Infected
  BY <1>2 DEF JobInv, FinalizingStep
<1> QED BY <1>2, <1>3 DEF MediaInv, StoredIsDeclared, TypeOK

LEMMA PublishInv ==
    ASSUME MediaInv, NEW j \in Jobs, Publish(j)
    PROVE  MediaInv'
<1>1. /\ Runs(j, "publish") /\ Goto(j, "complete")
      /\ {"publish", "complete"} \subseteq Finalizing
  BY DEF Publish, Finalizing
<1>2. JobInv(j) /\ job[j].pc = "publish"
  BY <1>1, RunningCall DEF Locked
<1>3. job'[j].pc = "complete" /\ job'[j].id = job[j].id
  BY <1>1, GotoCall DEF MediaInv, Locked
<1>4. /\ StoredIsDeclared' /\ storage' \subseteq Uploads \X Seq(Bytes)
      /\ <<job[j].id, Declared[job[j].id]>> \in storage'
  BY <1>1, PublishedIsDeclared DEF Publish
<1>5. FinalizingStep(j)'
  BY <1>2, <1>3, <1>4 DEF Publish, JobInv, FinalizingStep, State, Intact, diskVars
<1> QED BY <1>1, <1>4, <1>5, FinalizationGoesOn DEF Publish

LEMMA FinalizeFailsInv ==
    ASSUME MediaInv, NEW j \in Jobs, FinalizeFails(j)
    PROVE  MediaInv'
<1>1. PICK pc \in {"verify", "scan", "process", "publish", "complete"} : Runs(j, pc)
  BY DEF FinalizeFails
<1>2. Goto(j, "rollback") /\ {pc, "rollback"} \subseteq Finalizing
  BY DEF FinalizeFails, Finalizing
<1>3. JobInv(j) /\ job[j].pc = pc
  BY <1>1, <1>2, RunningCall DEF Locked
<1>4. job'[j].pc = "rollback" /\ job'[j].id = job[j].id
  BY <1>2, GotoCall DEF MediaInv, Locked
<1>5. FinalizingStep(j)'
  BY <1>3, <1>4 DEF FinalizeFails, JobInv, FinalizingStep, State, diskVars
<1>6. /\ storage \subseteq storage' /\ StoredIsDeclared'
      /\ storage' \subseteq Uploads \X Seq(Bytes)
  <2>1. CASE storage' = storage
    BY <2>1 DEF MediaInv, StoredIsDeclared, TypeOK
  <2>2. CASE At(j, "publish") /\ storage' = storage \cup {<<job[j].id, job[j].bytes>>}
    BY <1>1, <2>2, PublishedIsDeclared DEF Runs, At
  <2> QED BY <2>1, <2>2 DEF FinalizeFails
<1> QED BY <1>1, <1>2, <1>5, <1>6, FinalizationGoesOn DEF FinalizeFails

(* The bytes handed to the publication are the ones that were scanned.     *)
LEMMA ProcessInv ==
    ASSUME MediaInv, NEW j \in Jobs, Process(j)
    PROVE  MediaInv'
<1>1. Runs(j, "process") /\ {"process", "publish"} \subseteq Locked \cap Finalizing
  BY DEF Process, Locked, Finalizing
<1>2. PICK u \in Uploads : job[j].id = u
  BY <1>1, RunningCall
<1>3. /\ JobInv(j) /\ UploadInv(u) /\ job[j].pc = "process" /\ u \in declared
      /\ queue[u] # <<>> /\ Head(queue[u]) = j /\ part[u] \in Seq(Bytes)
  BY <1>1, <1>2, RunningCall
<1>4. /\ job' \in [Jobs -> Calls] /\ job'[j].pc = "publish" /\ job'[j].id = u
      /\ job'[j].bytes = part[u] /\ \A k \in Jobs \ {j} : job'[k] = job[k]
  BY <1>1, <1>2, <1>3 DEF Process, MediaInv, TypeOK, Calls
<1>5. UNCHANGED <<diskVars, storage, declared, expired, queue, active, crashes>>
  BY DEF Process
<1>6. CapacityAccounted'
  BY <1>1, <1>3, <1>4, <1>5, CapacityKept DEF MediaInv
<1>7. TypeOK'
  BY <1>4, <1>5 DEF MediaInv, TypeOK, diskVars, ValidRecord
<1>8. StoredIsDeclared' /\ UploadInv(u)'
  BY <1>3, <1>5 DEF MediaInv, StoredIsDeclared, UploadInv, diskVars
<1>9. HoldsLock(j)' /\ Creating(j)' /\ Appending(j)' /\ RemovingStep(j)'
  BY <1>3, <1>4, <1>5 DEF HoldsLock, Creating, Appending, RemovingStep
<1>10. FinalizingStep(j)'
  BY <1>2, <1>3, <1>4, <1>5
  DEF Process, JobInv, FinalizingStep, State, Intact, diskVars
<1>11. LocalStep(j)
  BY <1>4, <1>5 DEF LocalStep, diskVars
<1> QED
  BY <1>1, <1>2, <1>3, <1>4, <1>5, <1>6, <1>7, <1>8, <1>9, <1>10, <1>11, LocalStepInv
  DEF JobInv

-----------------------------------------------------------------------------
(* Steps that change what is on disk of the call's upload                  *)

LEMMA DiskStepInv ==
    ASSUME MediaInv, NEW j \in Jobs, NEW pc \in Locked, Runs(j, pc),
           NEW u \in Uploads, job[j].id = u,
           \/ \E next \in Locked : Goto(j, next)
           \/ Finish(j)
           \/ UNCHANGED <<job, queue>>,
           \A v \in Uploads \ {u} :
              /\ metadata'[v] = metadata[v] /\ part'[v] = part[v]
              /\ v \in staged' <=> v \in staged
              /\ v \in directory' <=> v \in directory,
           directory' \in SUBSET Uploads, staged' \in SUBSET directory',
           part' \in [Uploads -> Seq(Bytes)], u \notin staged' => part'[u] = <<>>,
           metadata' \in [Uploads -> Records], ValidRecord(u)',
           UNCHANGED <<storage, declared, expired, crashes>>,
           active' \in 0..MaxFinalizations, CapacityAccounted',
           job'[j] # Idle => JobInv(j)', UploadInv(u)'
    PROVE  MediaInv'
<1>1. /\ job[j].pc = pc /\ u \in declared
      /\ queue[u] # <<>> /\ Head(queue[u]) = j
  BY RunningCall
<1>2. /\ job' \in [Jobs -> Calls] /\ queue' \in [Uploads -> Seq(Jobs)]
      /\ \A k \in Jobs \ {j} : job'[k] = job[k]
      /\ \A v \in Uploads \ {u} : queue'[v] = queue[v]
      /\ job'[j].pc \in {"idle"} \cup Locked
      /\ queue' = queue \/ (Finish(j) /\ queue[u] # <<>>)
  <2>1. CASE \E next \in Locked : Goto(j, next)
    <3>1. PICK next \in Locked : Goto(j, next)
      BY <2>1
    <3> QED BY <3>1, GotoCall DEF MediaInv, TypeOK
  <2>2. CASE Finish(j)
    BY <2>2, <1>1, FinishCall DEF MediaInv, Idle
  <2>3. CASE UNCHANGED <<job, queue>>
    BY <2>3, <1>1 DEF MediaInv, TypeOK
  <2> QED BY <2>1, <2>2, <2>3
<1>3. LocalStep(j)
  BY <1>2 DEF LocalStep
<1>4. TypeOK'
  <2>1. \A v \in Uploads \ {u} : ValidRecord(v)'
    BY DEF MediaInv, TypeOK, ValidRecord
  <2>2. \A v \in Uploads \ staged' : part'[v] = <<>>
    BY DEF MediaInv, TypeOK
  <2> QED BY <1>2, <2>1, <2>2 DEF MediaInv, TypeOK
<1>5. JobInv(j)'
  BY IdleCall
<1>6. StoredIsDeclared'
  BY DEF MediaInv, StoredIsDeclared
<1> QED BY <1>1, <1>2, <1>3, <1>4, <1>5, <1>6, LocalStepInv

(* The record of the call's upload is saved and nothing else.              *)
LEMMA RecordStepInv ==
    ASSUME MediaInv, NEW j \in Jobs, NEW pc \in Locked, Runs(j, pc),
           NEW u \in Uploads, job[j].id = u,
           \/ \E next \in Locked : Goto(j, next)
           \/ Finish(j)
           \/ UNCHANGED <<job, queue>>,
           NEW record \in Records, metadata' = [metadata EXCEPT ![u] = record],
           ValidRecord(u)',
           UNCHANGED <<directory, staged, part, storage, declared, expired, crashes>>,
           active' \in 0..MaxFinalizations, CapacityAccounted',
           job'[j] # Idle => JobInv(j)', UploadInv(u)'
    PROVE  MediaInv'
<1>1. /\ directory \in SUBSET Uploads /\ staged \in SUBSET directory
      /\ part \in [Uploads -> Seq(Bytes)] /\ (u \notin staged => part[u] = <<>>)
      /\ metadata \in [Uploads -> Records]
  BY DEF MediaInv, TypeOK
<1>2. /\ metadata' \in [Uploads -> Records]
      /\ \A v \in Uploads \ {u} : metadata'[v] = metadata[v]
  BY <1>1
<1> QED BY <1>1, <1>2, DiskStepInv

(* The staged bytes of the call's upload are unlinked and nothing else.    *)
LEMMA UnlinkStepInv ==
    ASSUME MediaInv, NEW j \in Jobs, NEW pc \in Locked, Runs(j, pc),
           NEW u \in Uploads, job[j].id = u,
           Finish(j) \/ UNCHANGED <<job, queue>>,
           RemoveStagedBytes(u),
           metadata[u].state \in OpenStates => u \in expired,
           UNCHANGED <<directory, metadata, storage, declared, expired, crashes>>,
           active' \in 0..MaxFinalizations, CapacityAccounted',
           job'[j] # Idle => JobInv(j)'
    PROVE  MediaInv'
<1>1. /\ directory \in SUBSET Uploads /\ staged \in SUBSET directory
      /\ part \in [Uploads -> Seq(Bytes)] /\ metadata \in [Uploads -> Records]
      /\ ValidRecord(u)
  BY DEF MediaInv, TypeOK
<1>2. /\ part' \in [Uploads -> Seq(Bytes)] /\ part'[u] = <<>> /\ u \notin staged'
      /\ staged' \in SUBSET directory'
      /\ \A v \in Uploads \ {u} : part'[v] = part[v] /\ (v \in staged' <=> v \in staged)
  BY <1>1, EmptySeq DEF RemoveStagedBytes
<1>3. UploadInv(u) /\ u \in declared
  BY RunningCall
<1>4. ValidRecord(u)' /\ UploadInv(u)'
  BY <1>1, <1>2, <1>3 DEF ValidRecord, UploadInv
<1> QED BY <1>1, <1>2, <1>4, DiskStepInv

LEMMA SaveAppendedInv ==
    ASSUME MediaInv, NEW j \in Jobs, SaveAppended(j)
    PROVE  MediaInv'
<1>1. Runs(j, "save") /\ "save" \in Locked \ Finalizing
  BY DEF SaveAppended, Locked, Finalizing
<1>2. PICK u \in Uploads : job[j].id = u
  BY <1>1, RunningCall
<1>3. /\ job[j].pc = "save" /\ JobInv(j) /\ UploadInv(u) /\ queue[u] # <<>>
      /\ job[j].at \in Nat /\ job[j].bytes \in Seq(Bytes)
      /\ metadata[u] \in Records /\ Len(Declared[u]) \in Nat \ {0} /\ u \in declared
  BY <1>1, <1>2, RunningCall
<1> DEFINE next == job[j].at + Len(job[j].bytes)
           record == [state |-> IF next = Len(Declared[u]) THEN "ready" ELSE "uploading",
                      offset |-> next]
<1>4. next \in Nat /\ next <= Len(Declared[u]) /\ Len(part[u]) >= next /\ u \in staged
  BY <1>2, <1>3, LenProperties DEF JobInv, Appending
<1>5. metadata' = [metadata EXCEPT ![u] = record] /\ Finish(j)
  BY <1>2 DEF SaveAppended
<1>6. /\ UNCHANGED <<directory, staged, part, storage, declared, expired, active, crashes>>
      /\ active \in 0..MaxFinalizations /\ metadata \in [Uploads -> Records]
  BY DEF SaveAppended, MediaInv, TypeOK
<1>7. record \in Records
  BY <1>4 DEF Records, States, OpenStates
<1>8. metadata'[u] = record
  BY <1>5, <1>6
<1>9. job'[j] = Idle /\ \A k \in Jobs \ {j} : job'[k] = job[k]
  BY <1>2, <1>3, <1>5, FinishCall DEF MediaInv
<1>10. CapacityAccounted'
  BY <1>1, <1>3, <1>6, <1>9, CapacityKept DEF MediaInv, Idle, Finalizing
<1>11. ValidRecord(u)'
  BY <1>3, <1>4, <1>8 DEF ValidRecord
<1>12. UploadInv(u)'
  BY <1>3, <1>4, <1>6, <1>8 DEF UploadInv, OpenStates
<1> QED
  BY <1>1, <1>2, <1>5, <1>6, <1>7, <1>9, <1>10, <1>11, <1>12, RecordStepInv

(* A record that is whole gets another state.  (update)                    *)
LEMMA UpdateStepInv ==
    ASSUME MediaInv, NEW j \in Jobs, NEW pc \in Locked, Runs(j, pc),
           NEW next \in Locked, Goto(j, next), pc \in Finalizing <=> next \in Finalizing,
           NEW u \in Uploads, job[j].id = u,
           NEW state \in States \ {"none"}, Update(u, state),
           metadata[u].state \in OpenStates,
           state # "cancelled" =>
               metadata[u].state \in {"ready", "processing"} /\ state # "uploading",
           state = "completed" => <<u, Declared[u]>> \in storage,
           UNCHANGED <<directory, staged, part, storage, declared, expired, active, crashes>>,
           metadata'[u].state = state => Appending(j)' /\ FinalizingStep(j)' /\ RemovingStep(j)'
    PROVE  MediaInv'
<1>1. /\ job[j].pc = pc /\ UploadInv(u) /\ ValidRecord(u) /\ u \in declared
      /\ metadata[u] \in Records /\ Len(Declared[u]) \in Nat \ {0}
  BY RunningCall
<1>2. metadata \in [Uploads -> Records] /\ active \in 0..MaxFinalizations
  BY DEF MediaInv, TypeOK
<1> DEFINE record == [state |-> state, offset |-> metadata[u].offset]
<1>3. record \in Records
  BY <1>1 DEF Records
<1>4. metadata' = [metadata EXCEPT ![u] = record]
  <2>1. [metadata[u] EXCEPT !.state = state] = record
    BY <1>1 DEF Records
  <2>2. metadata' = [metadata EXCEPT ![u] = [metadata[u] EXCEPT !.state = state]]
    BY DEF Update
  <2> QED BY <2>1, <2>2, Zenon
<1>5. metadata'[u] = record
  BY <1>2, <1>4
<1>6. ValidRecord(u)'
  BY <1>1, <1>5 DEF ValidRecord, OpenStates, States, Records
<1>7. UploadInv(u)'
  BY <1>1, <1>5 DEF UploadInv, OpenStates
<1>8. CapacityAccounted'
  BY <1>1, GotoCall, CapacityKept DEF MediaInv
<1>9. JobInv(j)'
  <2>1. HoldsLock(j)' /\ Creating(j)'
    BY <1>1, GotoHolds
  <2>2. Appending(j)' /\ FinalizingStep(j)' /\ RemovingStep(j)'
    BY <1>5
  <2> QED BY <2>1, <2>2 DEF JobInv
<1>10. Goto(j, next) /\ next \in Locked
  OBVIOUS
<1> QED BY <1>2, <1>3, <1>4, <1>6, <1>7, <1>8, <1>9, <1>10, RecordStepInv

LEMMA UpdatesInv ==
    ASSUME MediaInv, NEW j \in Jobs,
           Recover(j) \/ Start(j) \/ SaveCompleted(j) \/ SaveCancelled(j)
    PROVE  MediaInv'
<1>1. UNCHANGED <<directory, staged, part, storage, declared, expired, active, crashes>>
  BY DEF Recover, Start, SaveCompleted, SaveCancelled
<1>2. CASE Recover(j)
  <2>1. /\ Runs(j, "recover") /\ Goto(j, "admit") /\ {"recover", "admit"} \subseteq Locked
        /\ ~({"recover", "admit"} \cap Finalizing # {})
    BY <1>2 DEF Recover, Locked, Finalizing
  <2>2. PICK u \in Uploads : job[j].id = u
    BY <2>1, RunningCall
  <2>3. JobInv(j) /\ job[j].pc = "recover"
    BY <2>1, RunningCall
  <2>4. metadata[u].state = "processing" /\ Update(u, "ready")
    BY <1>2, <2>2, <2>3 DEF Recover, JobInv, FinalizingStep, State
  <2>5. job'[j].pc = "admit" /\ job'[j].id = u
    BY <2>1, <2>2, GotoCall DEF MediaInv
  <2>6. metadata'[u].state = "ready" =>
            Appending(j)' /\ FinalizingStep(j)' /\ RemovingStep(j)'
    BY <2>5 DEF Appending, FinalizingStep, RemovingStep, State
  <2> QED
    BY <1>1, <2>1, <2>2, <2>4, <2>6, UpdateStepInv DEF States, OpenStates
<1>3. CASE Start(j)
  <2>1. /\ Runs(j, "start") /\ Goto(j, "verify")
        /\ {"start", "verify"} \subseteq Locked \cap Finalizing
    BY <1>3 DEF Start, Locked, Finalizing
  <2>2. PICK u \in Uploads : job[j].id = u
    BY <2>1, RunningCall
  <2>3. JobInv(j) /\ job[j].pc = "start"
    BY <2>1, RunningCall
  <2>4. metadata[u].state = "ready" /\ Update(u, "processing") /\ u \in staged
    BY <1>3, <2>2, <2>3 DEF Start, JobInv, FinalizingStep, State
  <2>5. job'[j].pc = "verify" /\ job'[j].id = u
    BY <2>1, <2>2, GotoCall DEF MediaInv
  <2>6. metadata'[u].state = "processing" =>
            Appending(j)' /\ FinalizingStep(j)' /\ RemovingStep(j)'
    BY <1>1, <2>4, <2>5 DEF Appending, FinalizingStep, RemovingStep, State
  <2> QED
    BY <1>1, <2>1, <2>2, <2>4, <2>6, UpdateStepInv DEF States, OpenStates
<1>4. CASE SaveCompleted(j)
  <2>1. /\ Runs(j, "complete") /\ Goto(j, "retire")
        /\ {"complete", "retire"} \subseteq Locked \cap Finalizing
    BY <1>4 DEF SaveCompleted, Locked, Finalizing
  <2>2. PICK u \in Uploads : job[j].id = u
    BY <2>1, RunningCall
  <2>3. JobInv(j) /\ job[j].pc = "complete"
    BY <2>1, RunningCall
  <2>4. /\ metadata[u].state = "processing" /\ Update(u, "completed")
        /\ <<u, Declared[u]>> \in storage
    BY <1>4, <2>2, <2>3 DEF SaveCompleted, JobInv, FinalizingStep, State
  <2>5. job'[j].pc = "retire" /\ job'[j].id = u
    BY <2>1, <2>2, GotoCall DEF MediaInv
  <2>6. metadata'[u].state = "completed" =>
            Appending(j)' /\ FinalizingStep(j)' /\ RemovingStep(j)'
    BY <2>5 DEF Appending, FinalizingStep, RemovingStep, State
  <2> QED
    BY <1>1, <2>1, <2>2, <2>4, <2>6, UpdateStepInv DEF States, OpenStates
<1>5. CASE SaveCancelled(j)
  <2>1. /\ Runs(j, "cancelling") /\ Goto(j, "remove")
        /\ {"cancelling", "remove"} \subseteq Locked
        /\ ~({"cancelling", "remove"} \cap Finalizing # {})
    BY <1>5 DEF SaveCancelled, Locked, Finalizing
  <2>2. PICK u \in Uploads : job[j].id = u
    BY <2>1, RunningCall
  <2>3. JobInv(j) /\ job[j].pc = "cancelling"
    BY <2>1, RunningCall
  <2>4. metadata[u].state \in OpenStates /\ Update(u, "cancelled")
    BY <1>5, <2>2, <2>3 DEF SaveCancelled, JobInv, RemovingStep, State
  <2>5. job'[j].pc = "remove" /\ job'[j].id = u
    BY <2>1, <2>2, GotoCall DEF MediaInv
  <2>6. metadata'[u].state = "cancelled" =>
            Appending(j)' /\ FinalizingStep(j)' /\ RemovingStep(j)'
    BY <2>5 DEF Appending, FinalizingStep, RemovingStep, State
  <2> QED
    BY <1>1, <2>1, <2>2, <2>4, <2>6, UpdateStepInv DEF States, OpenStates
<1> QED BY <1>2, <1>3, <1>4, <1>5

(* The call ends and releases the capacity it had.                         *)
LEMMA ReleasingCall ==
    ASSUME MediaInv, NEW j \in Jobs, NEW pc \in Finalizing, Runs(j, pc),
           Finish(j), Release
    PROVE  /\ job'[j] = Idle
           /\ active' \in 0..MaxFinalizations /\ CapacityAccounted'
<1>1. pc \in Locked
  BY DEF Locked
<1>2. job[j].pc = pc /\ job[j].id \in Uploads /\ queue[job[j].id] # <<>>
  BY <1>1, RunningCall
<1>3. job'[j] = Idle /\ \A k \in Jobs \ {j} : job'[k] = job[k]
  BY <1>2, FinishCall DEF MediaInv
<1>4. CapacityAccounted' /\ active' \in Nat /\ active' = active - 1
  BY <1>2, <1>3, CapacityReleased DEF MediaInv, Idle, Finalizing, Release
<1>5. active \in 0..MaxFinalizations
  BY DEF MediaInv, TypeOK
<1>6. active' \in 0..MaxFinalizations
  BY <1>4, <1>5, MediaAssumption
<1> QED BY <1>3, <1>4, <1>6

LEMMA RollbackInv ==
    ASSUME MediaInv, NEW j \in Jobs, Rollback(j)
    PROVE  MediaInv'
<1>1. Runs(j, "rollback") /\ "rollback" \in Locked \cap Finalizing
  BY DEF Rollback, Locked, Finalizing
<1>2. PICK u \in Uploads : job[j].id = u
  BY <1>1, RunningCall
<1>3. /\ job[j].pc = "rollback" /\ JobInv(j) /\ UploadInv(u) /\ ValidRecord(u)
      /\ metadata[u] \in Records /\ u \in declared
      /\ Len(Declared[u]) \in Nat \ {0}
  BY <1>1, <1>2, RunningCall
<1>4. metadata[u].state = "processing" /\ metadata \in [Uploads -> Records]
  BY <1>2, <1>3 DEF JobInv, FinalizingStep, State, MediaInv, TypeOK
<1>5. /\ job'[j] = Idle
      /\ active' \in 0..MaxFinalizations /\ CapacityAccounted'
  BY <1>1, ReleasingCall DEF Rollback
<1> DEFINE record == [state |-> metadata'[u].state, offset |-> metadata[u].offset]
<1>6. metadata'[u].state \in {"ready", "processing"}
  BY <1>2, <1>3, <1>4 DEF Rollback, Update, Records
<1>7. record \in Records
  BY <1>3, <1>6 DEF Records, States, OpenStates
<1>8. metadata' = [metadata EXCEPT ![u] = record] /\ metadata'[u] = record
  <2>1. CASE Update(u, "ready")
    <3>1. [metadata[u] EXCEPT !.state = "ready"] = [state |-> "ready", offset |-> metadata[u].offset]
      BY <1>3 DEF Records
    <3>2. metadata' = [metadata EXCEPT ![u] = [metadata[u] EXCEPT !.state = "ready"]]
      BY <2>1 DEF Update
    <3>3. metadata'[u] = [state |-> "ready", offset |-> metadata[u].offset]
      BY <3>1, <3>2, <1>4
    <3>4. metadata'[u].state = "ready"
      BY <3>3
    <3> QED BY <3>1, <3>2, <3>3, <3>4, Zenon
  <2>2. CASE metadata' = metadata
    <3>1. metadata[u] = [state |-> metadata[u].state, offset |-> metadata[u].offset]
      BY <1>3 DEF Records
    <3>2. metadata = [metadata EXCEPT ![u] = metadata[u]]
      BY <1>4
    <3> QED BY <2>2, <3>1, <3>2, Zenon
  <2> QED BY <1>2, <2>1, <2>2 DEF Rollback
<1> HIDE DEF record
<1>9. ValidRecord(u)' /\ UploadInv(u)'
  <2>1. /\ metadata'[u].state \in {"ready", "processing"}
        /\ metadata'[u].offset = metadata[u].offset
    BY <1>6, <1>8 DEF record
  <2>2. UNCHANGED <<staged, part, storage, declared, expired>>
    BY DEF Rollback
  <2> QED BY <1>3, <1>4, <2>1, <2>2 DEF ValidRecord, UploadInv, OpenStates
<1>10. /\ Finish(j)
       /\ UNCHANGED <<directory, staged, part, storage, declared, expired, crashes>>
  BY DEF Rollback
<1>11. metadata' = [metadata EXCEPT ![u] = record]
  BY <1>8
<1> QED BY <1>1, <1>2, <1>5, <1>7, <1>9, <1>10, <1>11, RecordStepInv

LEMMA RetireInv ==
    ASSUME MediaInv, NEW j \in Jobs, Retire(j)
    PROVE  MediaInv'
<1>1. Runs(j, "retire") /\ "retire" \in Locked \cap Finalizing
  BY DEF Retire, Locked, Finalizing
<1>2. PICK u \in Uploads : job[j].id = u
  BY <1>1, RunningCall
<1>3. JobInv(j) /\ job[j].pc = "retire"
  BY <1>1, RunningCall
<1>4. metadata[u].state = "completed"
  BY <1>2, <1>3 DEF JobInv, FinalizingStep, State
<1>5. /\ job'[j] = Idle
      /\ active' \in 0..MaxFinalizations /\ CapacityAccounted'
  BY <1>1, ReleasingCall DEF Retire
<1>6. Finish(j) /\ UNCHANGED <<directory, metadata, storage, declared, expired, crashes>>
  BY DEF Retire
<1>7. CASE RemoveStagedBytes(u)
  BY <1>1, <1>2, <1>4, <1>5, <1>6, <1>7, UnlinkStepInv DEF OpenStates
<1>8. CASE UNCHANGED <<staged, part>>
  <2>1. storage \subseteq Uploads \X Seq(Bytes)
    BY DEF MediaInv, TypeOK
  <2>2. StoredIsDeclared' /\ UNCHANGED diskVars
    BY <1>6, <1>8 DEF MediaInv, StoredIsDeclared, diskVars
  <2> QED BY <1>1, <1>5, <1>6, <2>1, <2>2, IdleCall, ControlStepInv
<1> QED BY <1>2, <1>7, <1>8 DEF Retire

LEMMA RemoveInv ==
    ASSUME MediaInv, NEW j \in Jobs, Remove(j)
    PROVE  MediaInv'
<1>1. Runs(j, "remove") /\ "remove" \in Locked \ Finalizing
  BY DEF Remove, Locked, Finalizing
<1>2. PICK u \in Uploads : job[j].id = u
  BY <1>1, RunningCall
<1>3. JobInv(j) /\ job[j].pc = "remove" /\ queue[u] # <<>>
  BY <1>1, <1>2, RunningCall
<1>4. metadata[u].state \in {"completed", "cancelled"}
  BY <1>2, <1>3 DEF JobInv, RemovingStep, State
<1>5. job'[j] = Idle /\ \A k \in Jobs \ {j} : job'[k] = job[k]
  BY <1>2, <1>3, FinishCall DEF MediaInv, Remove
<1>6. active' = active /\ active \in 0..MaxFinalizations
  BY DEF Remove, MediaInv, TypeOK
<1>7. CapacityAccounted'
  BY <1>1, <1>3, <1>5, <1>6, CapacityKept DEF MediaInv, Idle, Finalizing
<1> QED BY <1>1, <1>2, <1>4, <1>5, <1>6, <1>7, UnlinkStepInv DEF Remove, OpenStates

LEMMA PurgePartInv ==
    ASSUME MediaInv, NEW j \in Jobs, PurgePart(j)
    PROVE  MediaInv'
<1>1. Runs(j, "purge") /\ "purge" \in Locked
  BY DEF PurgePart, Locked
<1>2. PICK u \in Uploads : job[j].id = u
  BY <1>1, RunningCall
<1>3. JobInv(j) /\ job[j].pc = "purge"
  BY <1>1, RunningCall
<1>4. metadata[u].state \in OpenStates => u \in expired
  BY <1>2, <1>3 DEF JobInv, RemovingStep, State, OpenStates
<1>5. /\ UNCHANGED <<job, queue>> /\ active' = active /\ active \in 0..MaxFinalizations
      /\ UNCHANGED <<directory, metadata, storage, declared, expired, crashes>>
  BY DEF PurgePart, MediaInv, TypeOK
<1>6. CapacityAccounted'
  BY <1>5, CapacityKept DEF MediaInv
<1>7. JobInv(j)'
  BY <1>3, <1>5
  DEF JobInv, HoldsLock, Creating, Appending, FinalizingStep, RemovingStep, State
<1>8. RemoveStagedBytes(u)
  BY <1>2 DEF PurgePart
<1> QED BY <1>1, <1>2, <1>4, <1>5, <1>6, <1>7, <1>8, UnlinkStepInv

LEMMA PurgeMetadataInv ==
    ASSUME MediaInv, NEW j \in Jobs, PurgeMetadata(j)
    PROVE  MediaInv'
<1>1. Runs(j, "purge") /\ "purge" \in Locked
  BY DEF PurgeMetadata, Locked
<1>2. PICK u \in Uploads : job[j].id = u
  BY <1>1, RunningCall
<1>3. /\ JobInv(j) /\ job[j].pc = "purge" /\ UploadInv(u) /\ u \in declared
      /\ Len(Declared[u]) \in Nat \ {0}
  BY <1>1, <1>2, RunningCall
<1>4. /\ UNCHANGED <<job, queue>> /\ active' = active /\ active \in 0..MaxFinalizations
      /\ UNCHANGED <<directory, staged, part, storage, declared, expired, crashes>>
      /\ metadata \in [Uploads -> Records]
  BY DEF PurgeMetadata, MediaInv, TypeOK
<1>5. metadata' = [metadata EXCEPT ![u] = NoRecord] /\ NoRecord \in Records
  BY <1>2 DEF PurgeMetadata, NoRecord, Records, States
<1>6. metadata'[u] = NoRecord
  BY <1>4, <1>5
<1>7. CapacityAccounted'
  BY <1>4, CapacityKept DEF MediaInv
<1>8. JobInv(j)'
  BY <1>2, <1>3, <1>4, <1>6
  DEF JobInv, HoldsLock, Creating, Appending, FinalizingStep, RemovingStep, State,
      NoRecord
<1>9. ValidRecord(u)' /\ UploadInv(u)'
  BY <1>3, <1>4, <1>6 DEF ValidRecord, UploadInv, NoRecord, OpenStates
<1> QED BY <1>1, <1>2, <1>4, <1>5, <1>7, <1>8, <1>9, RecordStepInv

LEMMA PurgeDirectoryInv ==
    ASSUME MediaInv, NEW j \in Jobs, PurgeDirectory(j)
    PROVE  MediaInv'
<1>1. Runs(j, "purge") /\ "purge" \in Locked \ Finalizing
  BY DEF PurgeDirectory, Locked, Finalizing
<1>2. PICK u \in Uploads : job[j].id = u
  BY <1>1, RunningCall
<1>3. job[j].pc = "purge" /\ UploadInv(u) /\ queue[u] # <<>>
  BY <1>1, <1>2, RunningCall
<1>4. job'[j] = Idle /\ \A k \in Jobs \ {j} : job'[k] = job[k]
  BY <1>2, <1>3, FinishCall DEF MediaInv, PurgeDirectory
<1>5. /\ UNCHANGED <<staged, part, metadata, storage, declared, expired, active, crashes>>
      /\ u \notin staged /\ directory' = directory \ {u} /\ Finish(j)
  BY <1>2 DEF PurgeDirectory
<1>6. /\ active \in 0..MaxFinalizations /\ directory' \in SUBSET Uploads
      /\ staged' \in SUBSET directory' /\ part \in [Uploads -> Seq(Bytes)]
      /\ part[u] = <<>> /\ metadata \in [Uploads -> Records] /\ ValidRecord(u)
  BY <1>5 DEF MediaInv, TypeOK
<1>7. CapacityAccounted'
  BY <1>1, <1>3, <1>4, <1>5, CapacityKept DEF MediaInv, Idle, Finalizing
<1>8. ValidRecord(u)' /\ UploadInv(u)'
  BY <1>3, <1>5, <1>6 DEF ValidRecord, UploadInv
<1> QED BY <1>1, <1>2, <1>4, <1>5, <1>6, <1>7, <1>8, DiskStepInv

LEMMA OpenPartInv ==
    ASSUME MediaInv, NEW j \in Jobs, OpenPart(j)
    PROVE  MediaInv'
<1>1. Runs(j, "open") /\ "open" \in (Waiting \cup Locked) \ Finalizing
  BY DEF OpenPart, Locked, Finalizing
<1>2. PICK u \in Uploads : job[j].id = u
  BY <1>1, RunningCall
<1>3. /\ job[j].pc = "open" /\ JobInv(j) /\ UploadInv(u) /\ ValidRecord(u)
      /\ job[j].at \in Nat /\ part[u] \in Seq(Bytes) /\ u \in declared
  BY <1>1, <1>2, RunningCall DEF Locked
<1>4. /\ UNCHANGED <<directory, staged, metadata, storage, declared, expired,
                     active, crashes>>
      /\ active \in 0..MaxFinalizations /\ part \in [Uploads -> Seq(Bytes)]
      /\ directory \in SUBSET Uploads /\ staged \in SUBSET directory
      /\ metadata \in [Uploads -> Records]
  BY DEF OpenPart, MediaInv, TypeOK
<1> DEFINE at == job[j].at
<1>5. CASE u \in staged /\ Len(part[u]) >= at
  <2>1. /\ part' = [part EXCEPT ![u] = SubSeq(part[u], 1, at)]
        /\ Goto(j, "write") /\ "write" \in Locked \ Finalizing
    BY <1>2, <1>5 DEF OpenPart, Locked, Finalizing
  <2>2. Len(part[u]) \in Nat /\ at \in 0..Len(part[u])
    BY <1>3, <1>5, LenProperties
  <2>3. SubSeq(part[u], 1, at) \in Seq(Bytes) /\ Len(SubSeq(part[u], 1, at)) = at
    BY <1>3, <2>2, PrefixOfPrefix
  <2>4. /\ part' \in [Uploads -> Seq(Bytes)] /\ Len(part'[u]) = at
        /\ \A v \in Uploads \ {u} : part'[v] = part[v]
    BY <1>4, <2>1, <2>3
  <2>5. /\ job'[j].pc = "write" /\ job'[j].id = u /\ job'[j].at = at
        /\ job'[j].bytes = job[j].bytes /\ \A k \in Jobs \ {j} : job'[k] = job[k]
    BY <1>2, <2>1, GotoCall DEF MediaInv
  <2>6. CapacityAccounted'
    BY <1>1, <1>3, <1>4, <2>1, <2>5, CapacityKept DEF MediaInv
  <2>7. metadata[u].state = "uploading" /\ metadata[u].offset = at
    BY <1>2, <1>3 DEF JobInv, Appending, State
  <2>8. ValidRecord(u)' /\ UploadInv(u)'
    BY <1>3, <1>4, <1>5, <2>4, <2>7 DEF ValidRecord, UploadInv, OpenStates
  <2>9. HoldsLock(j)' /\ Creating(j)'
    BY <1>1, <1>2, <1>3, <1>4, <2>1, GotoHolds
  <2>10. Appending(j)' /\ FinalizingStep(j)' /\ RemovingStep(j)'
    BY <1>2, <1>3, <1>4, <1>5, <2>5
    DEF JobInv, Appending, FinalizingStep, RemovingStep, State
  <2>11. JobInv(j)'
    BY <2>9, <2>10 DEF JobInv
  <2>12. "open" \in Locked
    BY DEF Locked
  <2> QED
    BY <1>1, <1>2, <1>4, <1>5, <2>1, <2>4, <2>6, <2>8, <2>11, <2>12, DiskStepInv
<1>6. CASE ~(u \in staged /\ Len(part[u]) >= at)
  BY <1>1, <1>2, <1>4, <1>6, FinishedInv DEF OpenPart, diskVars
<1> QED BY <1>5, <1>6

LEMMA WriteBytesInv ==
    ASSUME MediaInv, NEW j \in Jobs, WriteBytes(j)
    PROVE  MediaInv'
<1>1. Runs(j, "write") /\ "write" \in Locked \ Finalizing
  BY DEF WriteBytes, Locked, Finalizing
<1>2. PICK u \in Uploads : job[j].id = u
  BY <1>1, RunningCall
<1>3. /\ job[j].pc = "write" /\ JobInv(j) /\ UploadInv(u) /\ ValidRecord(u)
      /\ job[j].at \in Nat /\ job[j].bytes \in Seq(Bytes)
      /\ part[u] \in Seq(Bytes) /\ u \in declared
      /\ metadata[u] \in Records
  BY <1>1, <1>2, RunningCall
<1>4. /\ UNCHANGED <<directory, staged, metadata, storage, declared, expired,
                     active, crashes>>
      /\ active \in 0..MaxFinalizations /\ part \in [Uploads -> Seq(Bytes)]
      /\ directory \in SUBSET Uploads /\ staged \in SUBSET directory
      /\ metadata \in [Uploads -> Records]
  BY DEF WriteBytes, MediaInv, TypeOK
<1> DEFINE at == job[j].at
           bytes == job[j].bytes
<1>5. PICK n \in 1..Len(bytes) :
          /\ part' = [part EXCEPT ![u] = Overwrite(part[u], at, SubSeq(bytes, 1, n))]
          /\ Goto(j, IF n = Len(bytes) THEN "save" ELSE "write")
  BY <1>2 DEF WriteBytes
<1>6. /\ metadata[u].state = "uploading" /\ metadata[u].offset = at /\ u \in staged
      /\ Len(part[u]) >= at
  BY <1>2, <1>3 DEF JobInv, Appending, State, UploadInv, OpenStates
<1>7. /\ Len(bytes) \in Nat /\ n \in 0..Len(bytes)
      /\ Len(part[u]) \in Nat /\ at \in 0..Len(part[u])
  BY <1>3, <1>6, LenProperties
<1> DEFINE chunk == SubSeq(bytes, 1, n)
           file == Overwrite(part[u], at, chunk)
<1>8. chunk \in Seq(Bytes) /\ Len(chunk) = n
  BY <1>3, <1>7, PrefixOfPrefix
<1>9. /\ file \in Seq(Bytes) /\ Len(file) >= at + n
      /\ SubSeq(file, 1, at) = SubSeq(part[u], 1, at)
      /\ SubSeq(file, 1, at + n) = SubSeq(part[u], 1, at) \o chunk
  <2> HIDE DEF chunk, at
  <2> QED BY <1>3, <1>7, <1>8, OverwriteProperties DEF file
<1>10. n = Len(bytes) => chunk = bytes
  BY <1>3, SubSeqFull
<1> HIDE DEF chunk, file
<1>11. /\ part' \in [Uploads -> Seq(Bytes)] /\ part'[u] = file
       /\ \A v \in Uploads \ {u} : part'[v] = part[v]
  BY <1>4, <1>5, <1>9 DEF chunk, file
<1>12. PICK next \in {"save", "write"} :
           Goto(j, next) /\ (next = "save" => n = Len(bytes))
  BY <1>5
<1>13. next \in Locked \ Finalizing
  BY DEF Locked, Finalizing
<1>14. /\ job'[j].pc = next /\ job'[j].id = u /\ job'[j].at = at
       /\ job'[j].bytes = bytes /\ \A k \in Jobs \ {j} : job'[k] = job[k]
  BY <1>2, <1>12, <1>13, GotoCall DEF MediaInv
<1>15. CapacityAccounted'
  BY <1>1, <1>3, <1>4, <1>13, <1>14, CapacityKept DEF MediaInv
<1>16. Len(file) \in Nat /\ Len(file) >= at
  BY <1>7, <1>9, LenProperties
<1>17. ValidRecord(u)' /\ UploadInv(u)'
  BY <1>3, <1>4, <1>6, <1>11, <1>16 DEF ValidRecord, UploadInv, OpenStates
<1>18. HoldsLock(j)' /\ Creating(j)'
  BY <1>1, <1>2, <1>3, <1>4, <1>12, <1>13, GotoHolds
<1>19. next = "save" =>
           /\ Len(part'[u]) >= at + Len(bytes)
           /\ SubSeq(part'[u], 1, at + Len(bytes)) = SubSeq(part'[u], 1, at) \o bytes
  BY <1>9, <1>10, <1>11, <1>12
<1>20. Appending(j)'
  BY <1>2, <1>3, <1>4, <1>6, <1>12, <1>14, <1>19 DEF JobInv, Appending, State
<1>21. FinalizingStep(j)' /\ RemovingStep(j)'
  BY <1>14 DEF FinalizingStep, RemovingStep
<1>22. JobInv(j)'
  BY <1>18, <1>20, <1>21 DEF JobInv
<1> QED
  BY <1>1, <1>2, <1>4, <1>6, <1>11, <1>12, <1>13, <1>15, <1>17, <1>22, DiskStepInv

-----------------------------------------------------------------------------
(* Calls that arrive, creates, crashes and the clock                       *)

(* What a call relies on: its own place in the queue and its own upload.   *)
LEMMA CallFrame ==
    ASSUME NEW k \in Jobs, JobInv(k), job'[k] = job[k],
           NEW v, job[k].id = v,
           metadata'[v] = metadata[v], part'[v] = part[v],
           v \in staged' <=> v \in staged,
           v \in declared' <=> v \in declared,
           v \in directory => v \in directory',
           expired \subseteq expired', storage \subseteq storage',
           job[k].pc \in Locked => queue'[v] # <<>> /\ Head(queue'[v]) = k
    PROVE  JobInv(k)'
<1>1. HoldsLock(k)' /\ Creating(k)'
  BY DEF JobInv, HoldsLock, Creating
<1>2. Appending(k)'
  BY DEF JobInv, Appending, State
<1>3. FinalizingStep(k)' /\ RemovingStep(k)'
  BY DEF JobInv, FinalizingStep, RemovingStep, State, Intact
<1> QED BY <1>1, <1>2, <1>3 DEF JobInv

(* A call that arrives waits behind the ones before it.  (withLock)        *)
LEMMA EnqueueInv ==
    ASSUME MediaInv, NEW j \in Jobs, NEW u \in Uploads, NEW pc \in Waiting,
           NEW at \in Nat, NEW bytes \in Seq(Bytes),
           pc = "append" => [at |-> at, bytes |-> bytes] \in Chunks,
           Enqueue(j, u, pc, at, bytes)
    PROVE  MediaInv'
<1> DEFINE call == [pc |-> pc, id |-> u, at |-> at, bytes |-> bytes]
<1>1. /\ job \in [Jobs -> Calls] /\ queue \in [Uploads -> Seq(Jobs)]
      /\ UNCHANGED <<diskVars, storage, declared, expired, active, crashes>>
      /\ job' = [job EXCEPT ![j] = call] /\ job[j].pc = "idle"
      /\ queue' = [queue EXCEPT ![u] = Append(queue[u], j)]
  BY DEF MediaInv, TypeOK, Enqueue, At
<1>2. call \in Calls
  BY DEF Calls
<1>3. /\ job' \in [Jobs -> Calls] /\ job'[j] = call
      /\ \A k \in Jobs \ {j} : job'[k] = job[k]
  BY <1>1, <1>2
<1>4. /\ Append(queue[u], j) \in Seq(Jobs)
      /\ queue[u] # <<>> => /\ Append(queue[u], j) # <<>>
                            /\ Head(Append(queue[u], j)) = Head(queue[u])
  BY <1>1, AppendProperties, EmptySeq, LenProperties, HeadTailProperties
<1>5. /\ queue' \in [Uploads -> Seq(Jobs)]
      /\ \A v \in Uploads : queue[v] # <<>> =>
            queue'[v] # <<>> /\ Head(queue'[v]) = Head(queue[v])
  BY <1>1, <1>4
<1>6. TypeOK'
  BY <1>1, <1>3, <1>5 DEF MediaInv, TypeOK, diskVars, ValidRecord
<1>7. pc \notin Finalizing \cup Locked \cup {"mkdir", "create", "idle"}
      /\ "idle" \notin Finalizing
  BY DEF Waiting, Finalizing, Locked
<1>8. CapacityAccounted'
  BY <1>1, <1>3, <1>7, CapacityKept DEF MediaInv
<1>9. CreateApart'
  BY <1>3, <1>7 DEF MediaInv, CreateApart
<1>10. StoredIsDeclared' /\ \A v \in Uploads : UploadInv(v)'
  BY <1>1 DEF MediaInv, StoredIsDeclared, UploadInv, diskVars
<1>11. ASSUME NEW k \in Jobs \ {j} PROVE JobInv(k)'
  <2>1. JobInv(k) /\ job'[k] = job[k]
    BY <1>3, <1>11 DEF MediaInv
  <2>2. job[k].pc \in Locked =>
            queue'[job[k].id] # <<>> /\ Head(queue'[job[k].id]) = k
    <3>1. job[k].pc \in Locked => job[k].pc # "idle"
      BY DEF Locked, Finalizing
    <3> QED BY <1>5, <2>1, <3>1 DEF JobInv, HoldsLock
  <2> QED BY <1>1, <2>1, <2>2, CallFrame DEF diskVars
<1>12. JobInv(j)'
  BY <1>3
  DEF JobInv, HoldsLock, Creating, Appending, FinalizingStep, RemovingStep, Waiting,
      Locked, Finalizing
<1> QED BY <1>6, <1>8, <1>9, <1>10, <1>11, <1>12 DEF MediaInv

LEMMA MakeDirectoryInv ==
    ASSUME MediaInv, NEW j \in Jobs, NEW u \in Uploads, MakeDirectory(j, u)
    PROVE  MediaInv'
<1> DEFINE call == [pc |-> "mkdir", id |-> u, at |-> 0, bytes |-> <<>>]
<1>1. /\ job \in [Jobs -> Calls] /\ job[j].pc = "idle"
      /\ UNCHANGED <<staged, part, metadata, storage, declared, expired, queue,
                     active, crashes>>
      /\ directory' = directory \cup {u} /\ u \notin declared /\ u \notin directory
      /\ job' = [job EXCEPT ![j] = call]
  BY DEF MediaInv, TypeOK, MakeDirectory, At
<1>2. call \in Calls
  BY EmptySeq DEF Calls
<1>3. /\ job' \in [Jobs -> Calls] /\ job'[j] = call
      /\ \A k \in Jobs \ {j} : job'[k] = job[k]
  BY <1>1, <1>2
<1>4. TypeOK'
  BY <1>1, <1>3 DEF MediaInv, TypeOK, ValidRecord
<1>5. CapacityAccounted'
  BY <1>1, <1>3, CapacityKept DEF MediaInv, Finalizing
<1>6. StoredIsDeclared' /\ \A v \in Uploads : UploadInv(v)'
  BY <1>1 DEF MediaInv, StoredIsDeclared, UploadInv
<1>7. ASSUME NEW k \in Jobs \ {j} PROVE JobInv(k)'
  <2>1. JobInv(k) /\ job'[k] = job[k]
    BY <1>3, <1>7 DEF MediaInv
  <2>2. job[k].pc \in Locked =>
            queue'[job[k].id] # <<>> /\ Head(queue'[job[k].id]) = k
    BY <1>1, <2>1 DEF JobInv, HoldsLock
  <2> QED BY <1>1, <2>1, <2>2, CallFrame
<1>8. JobInv(j)'
  BY <1>1, <1>3
  DEF JobInv, HoldsLock, Creating, Appending, FinalizingStep, RemovingStep, Locked,
      Finalizing
<1>9. CreateApart'
  <2>1. \A k \in Jobs \ {j} : job[k].pc \in {"mkdir", "create"} => job[k].id # u
    BY <1>1 DEF MediaInv, JobInv, Creating
  <2> QED BY <1>1, <1>3, <2>1 DEF MediaInv, CreateApart
<1> QED BY <1>4, <1>5, <1>6, <1>7, <1>8, <1>9 DEF MediaInv

(* A step of a create leaves every other call alone.                       *)
LEMMA CreateStepFrame ==
    ASSUME MediaInv, NEW j \in Jobs, job[j].pc \in {"mkdir", "create"},
           NEW u \in Uploads, job[j].id = u,
           \A k \in Jobs \ {j} : job'[k] = job[k],
           \A v \in Uploads \ {u} :
              /\ metadata'[v] = metadata[v]
              /\ v \in staged' <=> v \in staged
              /\ v \in declared' <=> v \in declared
              /\ v \in directory => v \in directory',
           UNCHANGED <<part, queue, expired, storage>>
    PROVE  \A k \in Jobs \ {j} : JobInv(k)'
<1>1. SUFFICES ASSUME NEW k \in Jobs \ {j} PROVE JobInv(k)'
  OBVIOUS
<1>2. JobInv(k) /\ JobInv(j) /\ job'[k] = job[k]
  BY DEF MediaInv
<1>3. CASE job[k].pc \in Locked \cup {"mkdir", "create"}
  <2>1. job[k].id \in Uploads \ {u}
    BY <1>2, <1>3
    DEF MediaInv, CreateApart, JobInv, HoldsLock, Creating, Locked, Finalizing
  <2>2. job[k].pc \in Locked =>
            queue'[job[k].id] # <<>> /\ Head(queue'[job[k].id]) = k
    BY <1>2 DEF JobInv, HoldsLock
  <2> QED BY <1>2, <2>1, <2>2, CallFrame
<1>4. CASE job[k].pc \notin Locked \cup {"mkdir", "create"}
  BY <1>2, <1>4
  DEF JobInv, HoldsLock, Creating, Appending, FinalizingStep, RemovingStep, Locked,
      Finalizing
<1> QED BY <1>3, <1>4

LEMMA MakePartInv ==
    ASSUME MediaInv, NEW j \in Jobs, MakePart(j)
    PROVE  MediaInv'
<1>1. /\ job[j].pc = "mkdir" /\ JobInv(j) /\ Goto(j, "create")
      /\ UNCHANGED <<directory, part, metadata, storage, declared, expired, active,
                     crashes>>
  BY DEF MakePart, At, MediaInv
<1>2. PICK u \in Uploads : job[j].id = u /\ u \in directory \ declared
  BY <1>1 DEF JobInv, HoldsLock, Creating
<1>3. /\ job' \in [Jobs -> Calls] /\ job'[j].pc = "create" /\ job'[j].id = u
      /\ job'[j].at = job[j].at /\ job'[j].bytes = job[j].bytes
      /\ \A k \in Jobs \ {j} : job'[k] = job[k]
      /\ queue' = queue /\ staged' = staged \cup {u}
  BY <1>1, <1>2, GotoCall DEF MediaInv, MakePart
<1>4. TypeOK'
  BY <1>1, <1>2, <1>3 DEF MediaInv, TypeOK, ValidRecord
<1>5. CapacityAccounted'
  BY <1>1, <1>3, CapacityKept DEF MediaInv, Finalizing
<1>6. StoredIsDeclared'
  BY <1>1 DEF MediaInv, StoredIsDeclared
<1>7. \A v \in Uploads : UploadInv(v)'
  BY <1>1, <1>2, <1>3 DEF MediaInv, UploadInv, OpenStates
<1>8. CreateApart'
  BY <1>1, <1>2, <1>3 DEF MediaInv, CreateApart
<1>9. \A k \in Jobs \ {j} : JobInv(k)'
  BY <1>1, <1>2, <1>3, CreateStepFrame
<1>10. JobInv(j)'
  BY <1>1, <1>2, <1>3
  DEF JobInv, HoldsLock, Creating, Appending, FinalizingStep, RemovingStep, Locked,
      Finalizing
<1> QED BY <1>4, <1>5, <1>6, <1>7, <1>8, <1>9, <1>10 DEF MediaInv

LEMMA SaveCreatedInv ==
    ASSUME MediaInv, NEW j \in Jobs, SaveCreated(j)
    PROVE  MediaInv'
<1>1. /\ job[j].pc = "create" /\ JobInv(j)
      /\ UNCHANGED <<directory, staged, part, storage, expired, queue, active, crashes>>
      /\ job \in [Jobs -> Calls] /\ metadata \in [Uploads -> Records]
  BY DEF SaveCreated, At, MediaInv, TypeOK
<1>2. PICK u \in Uploads : job[j].id = u /\ u \in directory \ declared /\ u \in staged
  BY <1>1 DEF JobInv, HoldsLock, Creating
<1> DEFINE record == [state |-> "uploading", offset |-> 0]
<1>3. /\ metadata' = [metadata EXCEPT ![u] = record]
      /\ declared' = declared \cup {u}
      /\ job' = [job EXCEPT ![j] = Idle]
  BY <1>2 DEF SaveCreated
<1>4. record \in Records /\ Idle \in Calls
  BY EmptySeq DEF Records, States, OpenStates, Idle, Calls
<1>5. /\ job' \in [Jobs -> Calls] /\ job'[j] = Idle
      /\ \A k \in Jobs \ {j} : job'[k] = job[k]
      /\ metadata' \in [Uploads -> Records] /\ metadata'[u] = record
      /\ \A v \in Uploads \ {u} : metadata'[v] = metadata[v]
  BY <1>1, <1>3, <1>4
<1>6. Len(Declared[u]) \in Nat \ {0} /\ part[u] \in Seq(Bytes) /\ Len(part[u]) \in Nat
  BY MediaAssumption, EmptySeq, LenProperties DEF MediaInv, TypeOK
<1>7. ValidRecord(u)'
  BY <1>5, <1>6 DEF ValidRecord
<1>8. TypeOK'
  <2>1. \A v \in Uploads \ {u} : ValidRecord(v)'
    BY <1>5 DEF MediaInv, TypeOK, ValidRecord
  <2> QED BY <1>1, <1>3, <1>5, <1>7, <2>1 DEF MediaInv, TypeOK
<1>9. CapacityAccounted'
  BY <1>1, <1>5, CapacityKept DEF MediaInv, Finalizing, Idle
<1>10. StoredIsDeclared'
  BY <1>1 DEF MediaInv, StoredIsDeclared
<1>11. \A v \in Uploads : UploadInv(v)'
  <2>1. UploadInv(u)'
    BY <1>1, <1>2, <1>3, <1>5, <1>6 DEF UploadInv, OpenStates
  <2>2. \A v \in Uploads \ {u} : UploadInv(v)'
    BY <1>1, <1>3, <1>5 DEF MediaInv, UploadInv
  <2> QED BY <2>1, <2>2
<1>12. CreateApart'
  BY <1>5 DEF MediaInv, CreateApart, Idle
<1>13. \A k \in Jobs \ {j} : JobInv(k)'
  BY <1>1, <1>2, <1>3, <1>5, CreateStepFrame
<1> QED BY <1>5, <1>8, <1>9, <1>10, <1>11, <1>12, <1>13, IdleCall DEF MediaInv

LEMMA CreateFailsInv ==
    ASSUME MediaInv, NEW j \in Jobs, CreateFails(j)
    PROVE  MediaInv'
<1>1. /\ job[j].pc \in {"mkdir", "create"} /\ JobInv(j)
      /\ UNCHANGED <<part, metadata, storage, declared, expired, queue, active, crashes>>
      /\ job \in [Jobs -> Calls]
      /\ job' = [job EXCEPT ![j] = Idle]
  BY DEF CreateFails, At, MediaInv, TypeOK
<1>2. PICK u \in Uploads : job[j].id = u /\ u \in directory \ declared
  BY <1>1 DEF JobInv, HoldsLock, Creating
<1>3. Idle \in Calls
  BY EmptySeq DEF Idle, Calls
<1>4. /\ job' \in [Jobs -> Calls] /\ job'[j] = Idle
      /\ \A k \in Jobs \ {j} : job'[k] = job[k]
  BY <1>1, <1>3
<1>5. \/ directory' = directory \ {u} /\ staged' = staged \ {u}
      \/ directory' = directory /\ staged' \in {staged, staged \ {u}}
  BY <1>2 DEF CreateFails
<1>6. TypeOK'
  <2>1. part[u] = <<>>
    BY <1>2 DEF MediaInv, UploadInv
  <2> QED BY <1>1, <1>4, <1>5, <2>1 DEF MediaInv, TypeOK, ValidRecord
<1>7. CapacityAccounted'
  BY <1>1, <1>4, CapacityKept DEF MediaInv, Finalizing, Idle
<1>8. StoredIsDeclared'
  BY <1>1 DEF MediaInv, StoredIsDeclared
<1>9. \A v \in Uploads : UploadInv(v)'
  BY <1>1, <1>2, <1>5 DEF MediaInv, UploadInv, OpenStates
<1>10. CreateApart'
  BY <1>4 DEF MediaInv, CreateApart, Idle
<1>11. \A k \in Jobs \ {j} : JobInv(k)'
  BY <1>1, <1>2, <1>4, <1>5, CreateStepFrame
<1> QED BY <1>4, <1>6, <1>7, <1>8, <1>9, <1>10, <1>11, IdleCall DEF MediaInv

LEMMA CrashInv ==
    ASSUME MediaInv, Crash
    PROVE  MediaInv'
<1>1. /\ job' = [k \in Jobs |-> Idle] /\ queue' = [u \in Uploads |-> <<>>]
      /\ active' = 0 /\ crashes' = crashes + 1 /\ crashes < MaxCrashes
      /\ UNCHANGED <<diskVars, storage, declared, expired>>
  BY DEF Crash
<1>2. Idle \in Calls /\ <<>> \in Seq(Jobs)
  BY EmptySeq DEF Idle, Calls
<1>3. TypeOK'
  BY <1>1, <1>2, MediaAssumption DEF MediaInv, TypeOK, diskVars, ValidRecord
<1>4. CapacityAccounted'
  <2>1. {k \in Jobs : job'[k].pc \in Finalizing} = {}
    BY <1>1 DEF Idle, Finalizing
  <2> QED BY <1>1, <2>1, FS_EmptySet DEF CapacityAccounted
<1>5. CreateApart'
  BY <1>1 DEF CreateApart, Idle
<1>6. StoredIsDeclared' /\ \A u \in Uploads : UploadInv(u)'
  BY <1>1 DEF MediaInv, StoredIsDeclared, UploadInv, diskVars
<1>7. \A k \in Jobs : JobInv(k)'
  BY <1>1, IdleCall
<1> QED BY <1>3, <1>4, <1>5, <1>6, <1>7 DEF MediaInv

LEMMA ExpireInv ==
    ASSUME MediaInv, NEW u \in Uploads, Expire(u)
    PROVE  MediaInv'
<1>1. /\ UNCHANGED <<diskVars, storage, declared, queue, job, active, crashes>>
      /\ expired' = expired \cup {u} /\ u \in declared
  BY DEF Expire
<1>2. TypeOK'
  BY <1>1 DEF MediaInv, TypeOK, diskVars, ValidRecord
<1>3. CapacityAccounted'
  BY <1>1, CapacityKept DEF MediaInv
<1>4. CreateApart' /\ StoredIsDeclared' /\ \A v \in Uploads : UploadInv(v)'
  BY <1>1 DEF MediaInv, CreateApart, StoredIsDeclared, UploadInv, diskVars
<1>5. ASSUME NEW k \in Jobs PROVE JobInv(k)'
  <2>1. JobInv(k)
    BY DEF MediaInv
  <2> QED BY <1>1, <2>1, CallFrame DEF diskVars, JobInv, HoldsLock
<1> QED BY <1>2, <1>3, <1>4, <1>5 DEF MediaInv

-----------------------------------------------------------------------------

LEMMA MediaInit == Init => MediaInv
<1> SUFFICES ASSUME Init PROVE MediaInv
  OBVIOUS
<1>1. Idle \in Calls /\ <<>> \in Seq(Jobs) /\ <<>> \in Seq(Bytes)
  BY EmptySeq DEF Idle, Calls
<1>2. \A u \in Uploads : Len(Declared[u]) \in Nat \ {0}
  BY MediaAssumption, EmptySeq
<1>3. TypeOK
  BY <1>1, <1>2, MediaAssumption
  DEF Init, TypeOK, ValidRecord, NoRecord, Records, States
<1>4. CapacityAccounted
  <2>1. {k \in Jobs : job[k].pc \in Finalizing} = {}
    BY DEF Init, Idle, Finalizing
  <2> QED BY <2>1, FS_EmptySet DEF Init, CapacityAccounted
<1>5. CreateApart /\ StoredIsDeclared
  BY DEF Init, CreateApart, StoredIsDeclared, Idle
<1>6. \A k \in Jobs : JobInv(k)
  BY DEF Init, JobInv, HoldsLock, Creating, Appending, FinalizingStep, RemovingStep,
         Idle, Locked, Finalizing
<1>7. \A u \in Uploads : UploadInv(u)
  BY DEF Init, UploadInv, NoRecord, OpenStates
<1> QED BY <1>3, <1>4, <1>5, <1>6, <1>7 DEF MediaInv

LEMMA ContinueInv ==
    ASSUME MediaInv, NEW j \in Jobs, Continue(j)
    PROVE  MediaInv'
<1>1. CASE Create(j)
  BY <1>1, MakePartInv, SaveCreatedInv, CreateFailsInv DEF Create
<1>2. CASE AppendChunk(j)
  BY <1>2, ReadForAppendInv, OpenPartInv, WriteBytesInv, SaveAppendedInv DEF AppendChunk
<1>3. CASE Finalize(j)
  BY <1>3, ReadForFinalizeInv, UpdatesInv, AdmitInv, StartFailsInv, VerifyInv, ScanInv,
     ProcessInv, PublishInv, FinalizeFailsInv, RollbackInv, RetireInv
  DEF Finalize
<1>4. CASE Cancel(j)
  BY <1>4, ReadForCancelInv, UpdatesInv, RemoveInv DEF Cancel
<1>5. CASE Cleanup(j)
  BY <1>5, ReadForCleanupInv, PurgeMetadataInv, PurgePartInv, PurgeDirectoryInv
  DEF Cleanup
<1>6. CASE FileFails(j)
  BY <1>6, FileFailsInv
<1> QED BY <1>1, <1>2, <1>3, <1>4, <1>5, <1>6 DEF Continue

LEMMA BeginInv ==
    ASSUME MediaInv, NEW j \in Jobs, NEW u \in Uploads, Begin(j, u)
    PROVE  MediaInv'
<1>1. CASE MakeDirectory(j, u)
  BY <1>1, MakeDirectoryInv
<1>2. CASE \E c \in Chunks : BeginAppend(j, u, c)
  <2>1. PICK c \in Chunks : Enqueue(j, u, "append", c.at, c.bytes)
    BY <1>2 DEF BeginAppend
  <2>2. c \in [at : Nat, bytes : Seq(Bytes) \ {<<>>}]
    BY MediaAssumption
  <2>3. /\ c.at \in Nat /\ c.bytes \in Seq(Bytes)
        /\ c = [at |-> c.at, bytes |-> c.bytes]
    BY <2>2
  <2>4. [at |-> c.at, bytes |-> c.bytes] \in Chunks
    BY <2>3, Zenon
  <2> QED BY <2>1, <2>3, <2>4, EnqueueInv DEF Waiting
<1>3. CASE BeginFinalize(j, u) \/ BeginCancel(j, u) \/ BeginCleanup(j, u)
  <2>1. PICK pc \in {"finalize", "cancel", "cleanup"} : Enqueue(j, u, pc, 0, <<>>)
    BY <1>3 DEF BeginFinalize, BeginCancel, BeginCleanup
  <2>2. <<>> \in Seq(Bytes)
    BY EmptySeq
  <2> QED BY <2>1, <2>2, EnqueueInv DEF Waiting
<1> QED BY <1>1, <1>2, <1>3 DEF Begin

LEMMA MediaStep == MediaInv /\ [Next]_vars => MediaInv'
<1> SUFFICES ASSUME MediaInv, [Next]_vars PROVE MediaInv'
  OBVIOUS
<1>1. CASE \E j \in Jobs : Continue(j)
  BY <1>1, ContinueInv
<1>2. CASE \E j \in Jobs, u \in Uploads : Begin(j, u)
  BY <1>2, BeginInv
<1>3. CASE Crash
  BY <1>3, CrashInv
<1>4. CASE \E u \in Uploads : Expire(u)
  BY <1>4, ExpireInv
<1>5. CASE UNCHANGED vars
  <2>1. /\ UNCHANGED <<diskVars, storage, declared, expired>>
        /\ UNCHANGED <<queue, job, active, crashes>>
    BY <1>5 DEF vars, diskVars
  <2>2. TypeOK'
    BY <2>1 DEF MediaInv, TypeOK, diskVars, ValidRecord
  <2>3. CapacityAccounted'
    BY <2>1, CapacityKept DEF MediaInv
  <2>4. CreateApart' /\ StoredIsDeclared' /\ \A u \in Uploads : UploadInv(u)'
    BY <2>1 DEF MediaInv, CreateApart, StoredIsDeclared, UploadInv, diskVars
  <2>5. ASSUME NEW k \in Jobs PROVE JobInv(k)'
    <3>1. JobInv(k)
      BY DEF MediaInv
    <3> QED BY <2>1, <3>1, CallFrame DEF diskVars, JobInv, HoldsLock
  <2> QED BY <2>2, <2>3, <2>4, <2>5 DEF MediaInv
<1> QED BY <1>1, <1>2, <1>3, <1>4, <1>5 DEF Next

LEMMA MediaInvariance == Spec => []MediaInv
<1>1. Init => MediaInv
  BY MediaInit
<1>2. MediaInv /\ [Next]_vars => MediaInv'
  BY MediaStep
<1> QED BY <1>1, <1>2, PTL DEF Spec

(* Records, files and calls have the shapes the code gives them, whatever  *)
(* steps of whatever calls interleave and whenever the process dies:       *)
(* #save never meets a record that storedRecordSchema rejects.             *)
THEOREM MediaTypeCorrect == Spec => []TypeOK
<1>1. MediaInv => TypeOK
  BY DEF MediaInv
<1> QED BY <1>1, MediaInvariance, PTL

(* Nothing comes between the steps of a finalization.                      *)
THEOREM FinalizationAlone == Spec => []FinalizationUndisturbed
<1>1. MediaInv => FinalizationUndisturbed
  BY DEF MediaInv, JobInv, FinalizingStep, FinalizationUndisturbed
<1> QED BY <1>1, MediaInvariance, PTL

(* Only declared bytes that passed the scan are published, and an upload   *)
(* is completed only when its bytes are.                                   *)
THEOREM PublishedBytesDeclared == Spec => []PublicationSound
<1>1. MediaInv => PublicationSound
  BY DEF MediaInv, UploadInv, StoredIsDeclared, PublicationSound
<1> QED BY <1>1, MediaInvariance, PTL

(* No call, failure or crash leaves an open record ahead of its staged     *)
(* bytes, and no upload loses the file before it expires.                  *)
THEOREM BytesKeptUntilExpiry == Spec => []AcknowledgedBytesKept
<1>1. MediaInv => AcknowledgedBytesKept
  <2> SUFFICES ASSUME MediaInv, NEW u \in Uploads, metadata[u].state \in OpenStates
               PROVE  /\ u \in staged => metadata[u].offset <= Len(part[u])
                      /\ u \notin expired => u \in staged
    BY DEF AcknowledgedBytesKept
  <2>1. metadata[u].offset \in Nat /\ Len(part[u]) \in Nat
    BY DEF MediaInv, TypeOK, Records
  <2> QED BY <2>1 DEF MediaInv, UploadInv
<1> QED BY <1>1, MediaInvariance, PTL

(* The counter of #activeFinalizations is the number of finalizations that *)
(* run, on every path out of finalize.                                     *)
THEOREM CapacityIsReturned == Spec => []CapacityAccounted
<1>1. MediaInv => CapacityAccounted
  BY DEF MediaInv
<1> QED BY <1>1, MediaInvariance, PTL

-----------------------------------------------------------------------------
(* Refinement: what the durable state says of an upload                    *)

PhaseOf == [u \in Uploads |-> Phase(u)]
ContentOf == [u \in Uploads |-> Content(u)]

(* A step that takes no upload anywhere.                                   *)
LEMMA LifecycleStutters ==
    ASSUME UNCHANGED <<declared, expired>>,
           \A v \in Uploads : Phase(v)' = Phase(v) /\ Content(v)' = Content(v)
    PROVE  [Lifecycle!Next]_(Lifecycle!vars)
<1>1. PhaseOf' = PhaseOf /\ ContentOf' = ContentOf
  BY DEF PhaseOf, ContentOf
<1> QED BY <1>1 DEF Lifecycle!vars, PhaseOf, ContentOf

(* An upload whose record and acknowledged bytes are as they were is where *)
(* it was.                                                                 *)
LEMMA UploadUnmoved ==
    ASSUME NEW v \in Uploads,
           metadata'[v] = metadata[v], part'[v] = part[v],
           v \in staged' <=> v \in staged
    PROVE  Phase(v)' = Phase(v) /\ Content(v)' = Content(v)
BY DEF Phase, Content

(* A step that leaves the disk alone.                                      *)
LEMMA ControlStutters ==
    ASSUME UNCHANGED <<diskVars, declared, expired>>
    PROVE  [Lifecycle!Next]_(Lifecycle!vars)
<1>1. \A v \in Uploads : Phase(v)' = Phase(v) /\ Content(v)' = Content(v)
  BY UploadUnmoved DEF diskVars
<1> QED BY <1>1, LifecycleStutters

(* An upload that is closed, and stays as it is if it was closed already.  *)
LEMMA LifecycleCloses ==
    ASSUME UNCHANGED <<declared, expired>>, NEW u \in Uploads,
           \A v \in Uploads \ {u} : Phase(v)' = Phase(v) /\ Content(v)' = Content(v),
           Phase(u)' = "closed", Phase(u) = "published" => u \in expired
    PROVE  [Lifecycle!Next]_(Lifecycle!vars)
<1>1. Phase(u) \in {"open", "published", "closed"}
  BY DEF Phase
<1>2. Content(u)' = <<>> /\ (Phase(u) = "closed" => Content(u) = <<>>)
  BY DEF Content
<1>3. CASE Phase(u) = "closed"
  BY <1>2, <1>3, LifecycleStutters
<1>4. CASE Phase(u) # "closed"
  <2>1. /\ PhaseOf' = [PhaseOf EXCEPT ![u] = "closed"]
        /\ ContentOf' = [ContentOf EXCEPT ![u] = <<>>]
    BY <1>2 DEF PhaseOf, ContentOf
  <2>2. PhaseOf[u] = Phase(u)
    BY DEF PhaseOf
  <2>3. Lifecycle!Close(u)
    BY <1>1, <1>4, <2>1, <2>2 DEF Lifecycle!Close, PhaseOf, ContentOf
  <2> QED BY <2>3 DEF Lifecycle!Next
<1> QED BY <1>3, <1>4

LEMMA UpdatedRecord ==
    ASSUME MediaInv, NEW u \in Uploads, NEW state \in States, Update(u, state)
    PROVE  /\ metadata'[u].state = state /\ metadata'[u].offset = metadata[u].offset
           /\ \A v \in Uploads \ {u} : metadata'[v] = metadata[v]
<1>1. metadata \in [Uploads -> Records]
  BY DEF MediaInv, TypeOK
<1> QED BY <1>1 DEF Update, Records

(* An upload in an open state stays in one: its file keeps what was        *)
(* acknowledged.                                                           *)
LEMMA OpenStutters ==
    ASSUME UNCHANGED <<staged, declared, expired>>, NEW u \in Uploads,
           \A v \in Uploads \ {u} : metadata'[v] = metadata[v] /\ part'[v] = part[v],
           metadata[u].state \in OpenStates, metadata'[u].state \in OpenStates,
           metadata'[u].offset = metadata[u].offset,
           SubSeq(part'[u], 1, metadata[u].offset) = SubSeq(part[u], 1, metadata[u].offset)
    PROVE  [Lifecycle!Next]_(Lifecycle!vars)
<1>1. \A v \in Uploads \ {u} : Phase(v)' = Phase(v) /\ Content(v)' = Content(v)
  BY UploadUnmoved
<1>2. Phase(u)' = Phase(u) /\ Phase(u) \in {"open", "closed"}
  BY DEF Phase, OpenStates
<1>3. Content(u)' = Content(u)
  BY <1>2 DEF Content
<1> QED BY <1>1, <1>2, <1>3, LifecycleStutters

LEMMA CreateRefines ==
    ASSUME MediaInv, NEW j \in Jobs, Create(j)
    PROVE  [Lifecycle!Next]_(Lifecycle!vars)
<1>1. job[j].pc \in {"mkdir", "create"} /\ JobInv(j)
  BY DEF Create, MakePart, SaveCreated, CreateFails, At, MediaInv
<1>2. PICK u \in Uploads : job[j].id = u /\ u \notin declared
  BY <1>1 DEF JobInv, HoldsLock, Creating
<1>3. /\ metadata[u].state = "none" /\ part[u] = <<>>
      /\ metadata \in [Uploads -> Records]
  BY <1>2 DEF MediaInv, TypeOK, UploadInv
<1>4. Phase(u) = "closed" /\ Content(u) = <<>>
  BY <1>3 DEF Phase, Content, OpenStates
<1>5. CASE MakePart(j) \/ CreateFails(j)
  <2>1. /\ UNCHANGED <<part, metadata, declared, expired>>
        /\ \A v \in Uploads \ {u} : v \in staged' <=> v \in staged
    BY <1>2, <1>5 DEF MakePart, CreateFails
  <2>2. \A v \in Uploads \ {u} : Phase(v)' = Phase(v) /\ Content(v)' = Content(v)
    BY <2>1, UploadUnmoved
  <2>3. Phase(u)' = "closed" /\ Content(u)' = <<>>
    BY <1>3, <2>1 DEF Phase, Content, OpenStates
  <2> QED BY <1>4, <2>1, <2>2, <2>3, LifecycleStutters
<1>6. CASE SaveCreated(j)
  <2>1. /\ UNCHANGED <<staged, part, expired>> /\ declared' = declared \cup {u}
        /\ metadata' = [metadata EXCEPT ![u] = [state |-> "uploading", offset |-> 0]]
    BY <1>2, <1>6 DEF SaveCreated
  <2>2. /\ metadata'[u].state = "uploading" /\ metadata'[u].offset = 0
        /\ \A v \in Uploads \ {u} : metadata'[v] = metadata[v]
    BY <1>3, <2>1
  <2>3. \A v \in Uploads \ {u} : Phase(v)' = Phase(v) /\ Content(v)' = Content(v)
    BY <2>1, <2>2, UploadUnmoved
  <2>4. u \in staged
    BY <1>1, <1>2, <1>6 DEF SaveCreated, At, JobInv, Creating
  <2>5. Phase(u)' = "open"
    BY <2>1, <2>2, <2>4 DEF Phase, OpenStates
  <2>6. Content(u)' = <<>>
    <3>1. SubSeq(part[u], 1, 0) = <<>>
      BY <1>3, SubSeqEmpty
    <3> QED BY <2>1, <2>2, <2>5, <3>1 DEF Content
  <2>7. PhaseOf' = [PhaseOf EXCEPT ![u] = "open"] /\ ContentOf' = ContentOf
    BY <1>4, <2>3, <2>5, <2>6 DEF PhaseOf, ContentOf
  <2>8. Lifecycle!Declare(u)
    BY <1>2, <2>1, <2>7 DEF Lifecycle!Declare, PhaseOf, ContentOf
  <2> QED BY <2>8 DEF Lifecycle!Next
<1> QED BY <1>5, <1>6 DEF Create

LEMMA OpenPartRefines ==
    ASSUME MediaInv, NEW j \in Jobs, OpenPart(j)
    PROVE  [Lifecycle!Next]_(Lifecycle!vars)
<1>1. Runs(j, "open") /\ "open" \in Locked
  BY DEF OpenPart, Locked
<1>2. PICK u \in Uploads : job[j].id = u
  BY <1>1, RunningCall
<1>3. /\ job[j].pc = "open" /\ JobInv(j) /\ job[j].at \in Nat /\ part[u] \in Seq(Bytes)
  BY <1>1, <1>2, RunningCall
<1>4. metadata[u].state = "uploading" /\ metadata[u].offset = job[j].at
  BY <1>2, <1>3 DEF JobInv, Appending, State
<1>5. UNCHANGED <<directory, staged, metadata, declared, expired>>
      /\ part \in [Uploads -> Seq(Bytes)]
  BY DEF OpenPart, MediaInv, TypeOK
<1> DEFINE at == job[j].at
<1>6. CASE u \in staged /\ Len(part[u]) >= at
  <2>1. part' = [part EXCEPT ![u] = SubSeq(part[u], 1, at)]
    BY <1>2, <1>6 DEF OpenPart
  <2>2. part'[u] = SubSeq(part[u], 1, at) /\ \A v \in Uploads \ {u} : part'[v] = part[v]
    BY <1>5, <2>1
  <2>3. at \in 0..Len(part[u])
    BY <1>3, <1>6, LenProperties
  <2>4. SubSeq(SubSeq(part[u], 1, at), 1, at) = SubSeq(part[u], 1, at)
    BY <1>3, <2>3, PrefixOfPrefix
  <2> QED BY <1>4, <1>5, <2>2, <2>4, OpenStutters DEF OpenStates
<1>7. CASE ~(u \in staged /\ Len(part[u]) >= at)
  BY <1>2, <1>5, <1>7, ControlStutters DEF OpenPart, diskVars
<1> QED BY <1>6, <1>7

LEMMA WriteBytesRefines ==
    ASSUME MediaInv, NEW j \in Jobs, WriteBytes(j)
    PROVE  [Lifecycle!Next]_(Lifecycle!vars)
<1>1. Runs(j, "write") /\ "write" \in Locked
  BY DEF WriteBytes, Locked
<1>2. PICK u \in Uploads : job[j].id = u
  BY <1>1, RunningCall
<1>3. /\ job[j].pc = "write" /\ JobInv(j) /\ UploadInv(u) /\ job[j].at \in Nat
      /\ job[j].bytes \in Seq(Bytes) /\ part[u] \in Seq(Bytes)
  BY <1>1, <1>2, RunningCall
<1>4. /\ metadata[u].state = "uploading" /\ metadata[u].offset = job[j].at
      /\ Len(part[u]) >= job[j].at
  BY <1>2, <1>3 DEF JobInv, Appending, State, UploadInv, OpenStates
<1>5. /\ UNCHANGED <<directory, staged, metadata, declared, expired>>
      /\ part \in [Uploads -> Seq(Bytes)]
  BY DEF WriteBytes, MediaInv, TypeOK
<1> DEFINE at == job[j].at
           bytes == job[j].bytes
<1>6. PICK n \in 1..Len(bytes) :
          part' = [part EXCEPT ![u] = Overwrite(part[u], at, SubSeq(bytes, 1, n))]
  BY <1>2 DEF WriteBytes
<1>7. n \in 0..Len(bytes) /\ at \in 0..Len(part[u])
  BY <1>3, <1>4, LenProperties
<1> DEFINE chunk == SubSeq(bytes, 1, n)
           file == Overwrite(part[u], at, chunk)
<1>8. chunk \in Seq(Bytes)
  BY <1>3, <1>7, PrefixOfPrefix
<1>9. SubSeq(file, 1, at) = SubSeq(part[u], 1, at)
  <2> HIDE DEF chunk, at
  <2> QED BY <1>3, <1>7, <1>8, OverwriteProperties DEF file
<1>10. part'[u] = file /\ \A v \in Uploads \ {u} : part'[v] = part[v]
  <2> HIDE DEF chunk
  <2> QED BY <1>5, <1>6 DEF chunk
<1> QED BY <1>4, <1>5, <1>9, <1>10, OpenStutters DEF OpenStates

(* The chunk becomes part of the upload when its offset is saved.          *)
LEMMA SaveAppendedRefines ==
    ASSUME MediaInv, NEW j \in Jobs, SaveAppended(j)
    PROVE  [Lifecycle!Next]_(Lifecycle!vars)
<1>1. Runs(j, "save") /\ "save" \in Locked
  BY DEF SaveAppended, Locked
<1>2. PICK u \in Uploads : job[j].id = u
  BY <1>1, RunningCall
<1>3. /\ job[j].pc = "save" /\ JobInv(j) /\ job[j].at \in Nat
      /\ job[j].bytes \in Seq(Bytes) /\ part[u] \in Seq(Bytes)
  BY <1>1, <1>2, RunningCall
<1> DEFINE c == [at |-> job[j].at, bytes |-> job[j].bytes]
           next == c.at + Len(c.bytes)
<1>4. /\ c \in Chunks /\ metadata[u].state = "uploading" /\ metadata[u].offset = c.at
      /\ next <= Len(Declared[u]) /\ u \in staged /\ Len(part[u]) >= next
      /\ SubSeq(part[u], 1, next) = SubSeq(part[u], 1, c.at) \o c.bytes
  BY <1>2, <1>3 DEF JobInv, Appending, State
<1>5. /\ UNCHANGED <<directory, staged, part, declared, expired>>
      /\ metadata \in [Uploads -> Records]
      /\ metadata' = [metadata EXCEPT ![u] =
             [state |-> IF next = Len(Declared[u]) THEN "ready" ELSE "uploading",
              offset |-> next]]
  BY <1>2 DEF SaveAppended, MediaInv, TypeOK
<1>6. /\ metadata'[u].state \in OpenStates /\ metadata'[u].offset = next
      /\ \A v \in Uploads \ {u} : metadata'[v] = metadata[v]
  BY <1>5 DEF OpenStates
<1>7. \A v \in Uploads \ {u} : Phase(v)' = Phase(v) /\ Content(v)' = Content(v)
  BY <1>5, <1>6, UploadUnmoved
<1>8. Phase(u) = "open" /\ Phase(u)' = "open"
  BY <1>4, <1>5, <1>6 DEF Phase, OpenStates
<1>9. /\ Content(u) = SubSeq(part[u], 1, c.at)
      /\ Content(u)' = SubSeq(part[u], 1, next)
  BY <1>4, <1>5, <1>6, <1>8 DEF Content
<1>10. Len(Content(u)) = c.at
  <2>1. c.at \in 0..Len(part[u])
    BY <1>3, <1>4, LenProperties
  <2> QED BY <1>3, <1>9, <2>1, PrefixOfPrefix
<1>11. PhaseOf' = PhaseOf /\ ContentOf' = [ContentOf EXCEPT ![u] = @ \o c.bytes]
  <2>1. Content(u)' = Content(u) \o c.bytes
    BY <1>4, <1>9, Zenon
  <2> HIDE DEF c
  <2> QED BY <1>7, <1>8, <2>1 DEF PhaseOf, ContentOf
<1>12. PhaseOf[u] = Phase(u) /\ ContentOf[u] = Content(u)
  BY DEF PhaseOf, ContentOf
<1>13. Lifecycle!Receive(u, c)
  <2> HIDE DEF c
  <2> QED
    BY <1>4, <1>5, <1>8, <1>10, <1>11, <1>12 DEF Lifecycle!Receive, PhaseOf, ContentOf
<1> QED BY <1>4, <1>13 DEF Lifecycle!Next

LEMMA FinalizationRefines ==
    ASSUME MediaInv, NEW j \in Jobs, Recover(j) \/ Start(j) \/ Rollback(j)
    PROVE  [Lifecycle!Next]_(Lifecycle!vars)
<1>1. PICK pc \in {"recover", "start", "rollback"} : Runs(j, pc)
  BY DEF Recover, Start, Rollback
<1>2. pc \in Locked
  BY <1>1 DEF Locked, Finalizing
<1>3. PICK u \in Uploads : job[j].id = u
  BY <1>1, <1>2, RunningCall
<1>4. JobInv(j) /\ job[j].pc = pc
  BY <1>1, <1>2, RunningCall
<1>5. metadata[u].state \in {"ready", "processing"}
  BY <1>3, <1>4 DEF JobInv, FinalizingStep, State
<1>6. UNCHANGED <<directory, staged, part, declared, expired>>
  BY DEF Recover, Start, Rollback
<1>7. CASE \E state \in {"ready", "processing"} : Update(u, state)
  <2>1. PICK state \in {"ready", "processing"} : Update(u, state)
    BY <1>7
  <2>2. state \in States \cap OpenStates
    BY DEF States, OpenStates
  <2>3. /\ metadata'[u].state = state /\ metadata'[u].offset = metadata[u].offset
        /\ \A v \in Uploads \ {u} : metadata'[v] = metadata[v]
    BY <2>1, <2>2, UpdatedRecord
  <2> QED BY <1>5, <1>6, <2>2, <2>3, OpenStutters DEF OpenStates
<1>8. CASE UNCHANGED metadata
  BY <1>6, <1>8, ControlStutters DEF diskVars
<1> QED BY <1>3, <1>7, <1>8 DEF Recover, Start, Rollback

(* An upload is published when its completion is saved.                    *)
LEMMA SaveCompletedRefines ==
    ASSUME MediaInv, NEW j \in Jobs, SaveCompleted(j)
    PROVE  [Lifecycle!Next]_(Lifecycle!vars)
<1>1. Runs(j, "complete") /\ "complete" \in Locked
  BY DEF SaveCompleted, Locked, Finalizing
<1>2. PICK u \in Uploads : job[j].id = u
  BY <1>1, RunningCall
<1>3. /\ job[j].pc = "complete" /\ JobInv(j) /\ ValidRecord(u)
      /\ part[u] \in Seq(Bytes)
  BY <1>1, <1>2, RunningCall
<1>4. /\ metadata[u].state = "processing" /\ u \in staged /\ part[u] = Declared[u]
      /\ metadata[u].offset = Len(part[u])
  BY <1>2, <1>3 DEF JobInv, FinalizingStep, State, Intact, ValidRecord
<1>5. UNCHANGED <<directory, staged, part, declared, expired>> /\ Update(u, "completed")
  BY <1>2 DEF SaveCompleted
<1>6. /\ metadata'[u].state = "completed"
      /\ \A v \in Uploads \ {u} : metadata'[v] = metadata[v]
  BY <1>5, UpdatedRecord DEF States
<1>7. \A v \in Uploads \ {u} : Phase(v)' = Phase(v) /\ Content(v)' = Content(v)
  BY <1>5, <1>6, UploadUnmoved
<1>8. Phase(u) = "open" /\ Phase(u)' = "published"
  BY <1>4, <1>6 DEF Phase, OpenStates
<1>9. Content(u) = Declared[u] /\ Content(u)' = Declared[u]
  <2>1. SubSeq(part[u], 1, Len(part[u])) = part[u]
    BY <1>3, SubSeqFull
  <2> QED BY <1>4, <1>8, <2>1 DEF Content
<1>10. PhaseOf' = [PhaseOf EXCEPT ![u] = "published"] /\ ContentOf' = ContentOf
  BY <1>7, <1>8, <1>9 DEF PhaseOf, ContentOf
<1>11. PhaseOf[u] = "open" /\ ContentOf[u] = Declared[u]
  BY <1>8, <1>9 DEF PhaseOf, ContentOf
<1>12. Lifecycle!Publish(u)
  BY <1>5, <1>10, <1>11 DEF Lifecycle!Publish, PhaseOf, ContentOf
<1> QED BY <1>12 DEF Lifecycle!Next

LEMMA CancelRefines ==
    ASSUME MediaInv, NEW j \in Jobs, SaveCancelled(j)
    PROVE  [Lifecycle!Next]_(Lifecycle!vars)
<1>1. Runs(j, "cancelling") /\ "cancelling" \in Locked
  BY DEF SaveCancelled, Locked
<1>2. PICK u \in Uploads : job[j].id = u
  BY <1>1, RunningCall
<1>3. job[j].pc = "cancelling" /\ JobInv(j)
  BY <1>1, RunningCall
<1>4. metadata[u].state \in OpenStates
  BY <1>2, <1>3 DEF JobInv, RemovingStep, State
<1>5. UNCHANGED <<directory, staged, part, declared, expired>> /\ Update(u, "cancelled")
  BY <1>2 DEF SaveCancelled
<1>6. /\ metadata'[u].state = "cancelled"
      /\ \A v \in Uploads \ {u} : metadata'[v] = metadata[v]
  BY <1>5, UpdatedRecord DEF States
<1>7. \A v \in Uploads \ {u} : Phase(v)' = Phase(v) /\ Content(v)' = Content(v)
  BY <1>5, <1>6, UploadUnmoved
<1>8. Phase(u)' = "closed" /\ Phase(u) # "published"
  BY <1>4, <1>6 DEF Phase, OpenStates
<1> QED BY <1>5, <1>7, <1>8, LifecycleCloses

(* The staged bytes leave: of a completed or cancelled upload nothing is   *)
(* lost, of any other one it was expired.                                  *)
LEMMA UnlinkRefines ==
    ASSUME MediaInv, NEW u \in Uploads, RemoveStagedBytes(u),
           UNCHANGED <<metadata, declared, expired>>
    PROVE  [Lifecycle!Next]_(Lifecycle!vars)
<1>1. /\ part \in [Uploads -> Seq(Bytes)]
      /\ u \notin staged' /\ \A v \in Uploads \ {u} : v \in staged' <=> v \in staged
  BY DEF RemoveStagedBytes, MediaInv, TypeOK
<1>2. \A v \in Uploads \ {u} : part'[v] = part[v]
  BY <1>1 DEF RemoveStagedBytes
<1>3. \A v \in Uploads \ {u} : Phase(v)' = Phase(v) /\ Content(v)' = Content(v)
  BY <1>1, <1>2, UploadUnmoved
<1>4. CASE metadata[u].state = "completed"
  <2>1. Phase(u)' = Phase(u) /\ Phase(u) = "published"
    BY <1>4 DEF Phase, OpenStates
  <2>2. Content(u)' = Content(u)
    BY <2>1 DEF Content
  <2> QED BY <1>3, <2>1, <2>2, LifecycleStutters
<1>5. CASE metadata[u].state # "completed"
  <2>1. Phase(u)' = "closed" /\ Phase(u) # "published"
    BY <1>1, <1>5 DEF Phase
  <2> QED BY <1>3, <2>1, LifecycleCloses
<1> QED BY <1>4, <1>5

LEMMA PurgeMetadataRefines ==
    ASSUME MediaInv, NEW j \in Jobs, PurgeMetadata(j)
    PROVE  [Lifecycle!Next]_(Lifecycle!vars)
<1>1. Runs(j, "purge") /\ "purge" \in Locked
  BY DEF PurgeMetadata, Locked
<1>2. PICK u \in Uploads : job[j].id = u
  BY <1>1, RunningCall
<1>3. job[j].pc = "purge" /\ JobInv(j)
  BY <1>1, RunningCall
<1>4. metadata[u].state \in {"none", "cancelled"} \/ u \in expired
  BY <1>2, <1>3 DEF JobInv, RemovingStep, State
<1>5. /\ UNCHANGED <<staged, part, declared, expired>>
      /\ metadata \in [Uploads -> Records]
      /\ metadata' = [metadata EXCEPT ![u] = NoRecord]
  BY <1>2 DEF PurgeMetadata, MediaInv, TypeOK
<1>6. /\ metadata'[u].state = "none"
      /\ \A v \in Uploads \ {u} : metadata'[v] = metadata[v]
  BY <1>5 DEF NoRecord
<1>7. \A v \in Uploads \ {u} : Phase(v)' = Phase(v) /\ Content(v)' = Content(v)
  BY <1>5, <1>6, UploadUnmoved
<1>8. Phase(u)' = "closed" /\ (Phase(u) = "published" => u \in expired)
  BY <1>4, <1>6 DEF Phase, OpenStates
<1> QED BY <1>5, <1>7, <1>8, LifecycleCloses

LEMMA ExpireRefines ==
    ASSUME NEW u \in Uploads, Expire(u)
    PROVE  [Lifecycle!Next]_(Lifecycle!vars)
<1>1. UNCHANGED diskVars
  BY DEF Expire
<1>2. \A v \in Uploads : Phase(v)' = Phase(v) /\ Content(v)' = Content(v)
  BY <1>1, UploadUnmoved DEF diskVars
<1>3. PhaseOf' = PhaseOf /\ ContentOf' = ContentOf
  BY <1>2 DEF PhaseOf, ContentOf
<1>4. Lifecycle!Expire(u)
  BY <1>3 DEF Lifecycle!Expire, Expire, PhaseOf, ContentOf
<1> QED BY <1>4 DEF Lifecycle!Next

LEMMA ContinueRefines ==
    ASSUME MediaInv, NEW j \in Jobs, Continue(j)
    PROVE  [Lifecycle!Next]_(Lifecycle!vars)
<1>1. CASE Create(j)
  BY <1>1, CreateRefines
<1>2. CASE AppendChunk(j)
  <2>1. CASE ReadForAppend(j)
    BY <2>1, ControlStutters DEF ReadForAppend
  <2> QED
    BY <1>2, <2>1, OpenPartRefines, WriteBytesRefines, SaveAppendedRefines
    DEF AppendChunk
<1>3. CASE Finalize(j)
  <2>1. CASE \/ ReadForFinalize(j) \/ Admit(j) \/ StartFails(j) \/ Verify(j) \/ Scan(j)
             \/ Process(j) \/ Publish(j) \/ FinalizeFails(j)
    BY <2>1, ControlStutters
    DEF ReadForFinalize, Admit, StartFails, Verify, Scan, Process, Publish, FinalizeFails
  <2>2. CASE Retire(j)
    <3>1. "retire" \in Locked
      BY DEF Locked, Finalizing
    <3>2. PICK u \in Uploads : job[j].id = u
      BY <2>2, <3>1, RunningCall DEF Retire
    <3>3. UNCHANGED <<directory, metadata, declared, expired>>
      BY <2>2 DEF Retire
    <3>4. RemoveStagedBytes(u) \/ UNCHANGED <<staged, part>>
      BY <2>2, <3>2 DEF Retire
    <3> QED BY <3>3, <3>4, UnlinkRefines, ControlStutters DEF diskVars
  <2> QED
    BY <1>3, <2>1, <2>2, FinalizationRefines, SaveCompletedRefines DEF Finalize
<1>4. CASE Cancel(j)
  <2>1. CASE ReadForCancel(j)
    BY <2>1, ControlStutters DEF ReadForCancel
  <2>2. CASE Remove(j)
    <3>1. "remove" \in Locked
      BY DEF Locked
    <3>2. PICK u \in Uploads : job[j].id = u
      BY <2>2, <3>1, RunningCall DEF Remove
    <3> QED BY <2>2, <3>2, UnlinkRefines DEF Remove
  <2> QED BY <1>4, <2>1, <2>2, CancelRefines DEF Cancel
<1>5. CASE Cleanup(j)
  <2>1. CASE ReadForCleanup(j)
    BY <2>1, ControlStutters DEF ReadForCleanup
  <2>2. CASE PurgePart(j)
    <3>1. "purge" \in Locked
      BY DEF Locked
    <3>2. PICK u \in Uploads : job[j].id = u
      BY <2>2, <3>1, RunningCall DEF PurgePart
    <3> QED BY <2>2, <3>2, UnlinkRefines DEF PurgePart
  <2>3. CASE PurgeDirectory(j)
    <3>1. UNCHANGED <<staged, part, metadata, declared, expired>>
      BY <2>3 DEF PurgeDirectory
    <3>2. \A v \in Uploads : Phase(v)' = Phase(v) /\ Content(v)' = Content(v)
      BY <3>1, UploadUnmoved
    <3> QED BY <3>1, <3>2, LifecycleStutters
  <2> QED BY <1>5, <2>1, <2>2, <2>3, PurgeMetadataRefines DEF Cleanup
<1>6. CASE FileFails(j)
  BY <1>6, ControlStutters DEF FileFails
<1> QED BY <1>1, <1>2, <1>3, <1>4, <1>5, <1>6 DEF Continue

(* Every upload behaves as if each call on it were one step, whatever      *)
(* calls interleave, fail, are repeated or are cut off by a crash: chunks  *)
(* count once and in order, only whole declared bytes are published, and   *)
(* what is closed stays closed.                                            *)
THEOREM UploadsImplementLifecycle == Spec => ImplementsLifecycle
<1>1. Init => Lifecycle!Init
  <2> SUFFICES ASSUME Init PROVE Lifecycle!Init
    OBVIOUS
  <2>1. \A u \in Uploads : Phase(u) = "closed" /\ Content(u) = <<>>
    BY DEF Init, NoRecord, Phase, Content, OpenStates
  <2> QED BY <2>1 DEF Init, Lifecycle!Init
<1>2. MediaInv /\ [Next]_vars => [Lifecycle!Next]_(Lifecycle!vars)
  <2> SUFFICES ASSUME MediaInv, [Next]_vars PROVE [Lifecycle!Next]_(Lifecycle!vars)
    OBVIOUS
  <2>1. ASSUME NEW j \in Jobs, NEW u \in Uploads, Begin(j, u)
        PROVE  [Lifecycle!Next]_(Lifecycle!vars)
    <3>1. CASE MakeDirectory(j, u)
      <4>1. UNCHANGED <<staged, part, metadata, declared, expired>>
        BY <3>1 DEF MakeDirectory
      <4>2. \A v \in Uploads : Phase(v)' = Phase(v) /\ Content(v)' = Content(v)
        BY <4>1, UploadUnmoved
      <4> QED BY <4>1, <4>2, LifecycleStutters
    <3>2. CASE ~MakeDirectory(j, u)
      BY <2>1, <3>2, ControlStutters
      DEF Begin, BeginAppend, BeginFinalize, BeginCancel, BeginCleanup, Enqueue
    <3> QED BY <3>1, <3>2
  <2>2. CASE Crash
    BY <2>2, ControlStutters DEF Crash
  <2>3. CASE UNCHANGED vars
    BY <2>3, ControlStutters DEF vars, diskVars
  <2> QED BY <2>1, <2>2, <2>3, ContinueRefines, ExpireRefines DEF Next
<1> QED BY <1>1, <1>2, MediaInvariance, PTL DEF Spec, ImplementsLifecycle, Lifecycle!Spec
=============================================================================
