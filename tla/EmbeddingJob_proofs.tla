------------------------ MODULE EmbeddingJob_proofs ------------------------
(***************************************************************************)
(* Proofs about EmbeddingJob for every set of chunks, tasks, retry         *)
(* requests and workers, every batch size and limit of attempts, and every *)
(* number of crashes.                                                      *)
(***************************************************************************)
EXTENDS EmbeddingJob, TLAPS

----------------------------------------------------------------------------
(* The inductive invariant *)

\* A worker outside of a batch holds no chunk, and one that is at work has a task.
Held ==
  \A w \in Workers :
    /\ pc[w] \in {"idle", "start", "batch"} => batch[w] = {}
    /\ pc[w] # "idle" => cur[w] \in Tasks

\* The attempts of a batch on its way to the provider are ahead of its calls: this
\* is what keeps CallsAreBounded when the batch is sent.
Ahead ==
  \A w \in Workers : pc[w] \in {"config", "call"} => \A c \in batch[w] : calls[c] < attempts[c]

\* CallsAreBounded follows from the attempts being counted ahead, and that two
\* workers do not both get ahead on one chunk needs BatchesAreDisjoint, which
\* needs that the chunks of a batch are PROCESSING and so not claimable.
IInv == TypeOK /\ Held /\ BatchesAreDisjoint /\ CallsAreBounded /\ Ahead

\* Batches come out of the claimable chunks.
LEMMA BatchIsClaimable ==
  ASSUME NEW S \in Batches
  PROVE  /\ S \subseteq Chunks
         /\ \A c \in S : chunk[c] \in {"pending", "failed"} /\ attempts[c] < MaxAttempts
BY DEF Batches, ClaimableChunks, Claimable

\* A worker that rests gives up its batch and its task and changes no other worker.
LEMMA RestsFacts ==
  ASSUME TypeOK, NEW w \in Workers, Rests(w)
  PROVE  /\ pc' \in [Workers -> WorkerPc] /\ cur' \in [Workers -> Tasks \cup {None}]
         /\ batch' \in [Workers -> SUBSET Chunks]
         /\ pc'[w] = "idle" /\ batch'[w] = {}
         /\ \A v \in Workers \ {w} : pc'[v] = pc[v] /\ cur'[v] = cur[v] /\ batch'[v] = batch[v]
BY DEF Rests, Goto, TypeOK, WorkerPc

\* The invariant holds when the scan has just queued its task.
LEMMA InitInv == Init => IInv
BY FirstAssumption, LimitsAssumption
   DEF Init, IInv, TypeOK, Held, BatchesAreDisjoint, CallsAreBounded, Ahead, TaskStatus,
       ChunkStatus, WorkerPc

----------------------------------------------------------------------------
(* Each action preserves the invariant *)

\* Claiming or starting a task moves a worker without a batch.
LEMMA TaskSteps ==
  ASSUME IInv, NEW w \in Workers, Claim(w) \/ Start(w)
  PROVE  IInv'
<1> USE LimitsAssumption DEF IInv, Goto, Writes
<1>1. TypeOK'
  <2>1. CASE Claim(w)
    BY <2>1 DEF Claim, TypeOK, jobs, WorkerPc
  <2>2. CASE Start(w)
    BY <2>2 DEF Start, TypeOK, Held, WorkerPc, TaskStatus
  <2>3. QED
    BY <2>1, <2>2
<1>2. UNCHANGED <<chunk, attempts, calls, batch>>
  BY DEF Claim, Start, jobs
<1>3. Held'
  <2>1. CASE Claim(w)
    BY <2>1 DEF Claim, TypeOK, Held, jobs
  <2>2. CASE Start(w)
    BY <2>2 DEF Start, TypeOK, Held
  <2>3. QED
    BY <2>1, <2>2
<1>4. Ahead'
  <2>1. \A v \in Workers : pc'[v] \in {"config", "call"} => pc[v] = pc'[v]
    BY DEF Claim, Start, TypeOK
  <2>2. QED
    BY <1>2, <2>1 DEF Ahead
<1>5. BatchesAreDisjoint' /\ CallsAreBounded'
  BY <1>2 DEF BatchesAreDisjoint, CallsAreBounded
<1>6. QED
  BY <1>1, <1>3, <1>4, <1>5

\* A new batch takes chunks that no other worker has and counts its attempt.
LEMMA ClaimBatchStep ==
  ASSUME IInv, NEW w \in Workers, ClaimBatch(w)
  PROVE  IInv'
<1> USE LimitsAssumption DEF IInv
<1>1. PICK S \in Batches :
        /\ chunk' = [c \in Chunks |-> IF c \in S THEN "processing" ELSE chunk[c]]
        /\ attempts' = Attempted(S)
        /\ batch' = [batch EXCEPT ![w] = S]
  BY DEF ClaimBatch
<1>2. /\ S \subseteq Chunks
      /\ \A c \in S : chunk[c] \in {"pending", "failed"} /\ attempts[c] < MaxAttempts
  BY BatchIsClaimable
<1>3. pc[w] = "batch" /\ pc' = [pc EXCEPT ![w] = "config"]
  BY DEF ClaimBatch, Goto
<1>4. UNCHANGED <<task, calls, cur, retry, crashes>>
  BY DEF ClaimBatch
<1>5. \A c \in Chunks : attempts'[c] = IF c \in S THEN attempts[c] + 1 ELSE attempts[c]
  BY <1>1 DEF Attempted
<1>6. TypeOK'
  <2>1. attempts' \in [Chunks -> Nat]
    BY <1>1 DEF Attempted, TypeOK
  <2>2. chunk' \in [Chunks -> ChunkStatus]
    BY <1>1 DEF TypeOK, ChunkStatus
  <2>3. QED
    BY <1>1, <1>2, <1>3, <1>4, <2>1, <2>2 DEF TypeOK, WorkerPc
<1>7. Held'
  BY <1>1, <1>3, <1>4 DEF Held, TypeOK
<1>8. BatchesAreDisjoint'
  <2>1. \A v \in Workers \ {w} : batch'[v] = batch[v] /\ batch[v] \cap S = {}
    BY <1>1, <1>2 DEF BatchesAreDisjoint, TypeOK
  <2>2. batch'[w] = S
    BY <1>1 DEF TypeOK
  <2>3. \A u, v \in Workers : u # v => batch'[u] \cap batch'[v] = {}
    BY <2>1, <2>2 DEF BatchesAreDisjoint
  <2>4. \A v \in Workers : \A c \in batch'[v] : chunk'[c] = "processing"
    BY <1>1, <1>2, <2>1, <2>2 DEF BatchesAreDisjoint, TypeOK
  <2>5. QED
    BY <2>3, <2>4 DEF BatchesAreDisjoint
<1>9. CallsAreBounded'
  BY <1>2, <1>4, <1>5 DEF CallsAreBounded, TypeOK
<1>10. Ahead'
  <2>1. \A c \in S : calls'[c] < attempts'[c]
    BY <1>2, <1>4, <1>5 DEF CallsAreBounded, TypeOK
  <2>2. \A v \in Workers \ {w} : pc'[v] = pc[v] /\ batch'[v] = batch[v]
    BY <1>1, <1>3 DEF TypeOK
  <2>3. \A c \in Chunks : attempts'[c] >= attempts[c]
    BY <1>5 DEF TypeOK
  <2>4. ASSUME NEW v \in Workers \ {w}, pc'[v] \in {"config", "call"}, NEW c \in batch'[v]
        PROVE  calls'[c] < attempts'[c]
    <3>1. c \in Chunks /\ calls[c] < attempts[c]
      BY <2>2, <2>4 DEF Ahead, TypeOK
    <3>2. calls[c] \in Nat /\ attempts[c] \in Nat /\ attempts'[c] \in Nat
      BY <1>5, <3>1 DEF TypeOK
    <3>3. QED
      BY <1>4, <2>3, <3>1, <3>2
  <2>5. QED
    BY <1>1, <2>1, <2>4 DEF Ahead, TypeOK
<1>11. QED
  BY <1>6, <1>7, <1>8, <1>9, <1>10

\* A batch is sent: its calls catch up with its attempts and no further.
LEMMA CallProviderStep ==
  ASSUME IInv, NEW w \in Workers, CallProvider(w)
  PROVE  IInv'
<1> USE DEF IInv
<1>1. calls' = [c \in Chunks |-> IF c \in batch[w] THEN calls[c] + 1 ELSE calls[c]]
  BY DEF CallProvider, Called
<1>2. /\ pc[w] = "call"
      /\ \E place \in {"save", "failed", "broken"} : pc' = [pc EXCEPT ![w] = place]
  BY DEF CallProvider, Goto
<1>3. UNCHANGED <<task, chunk, attempts, cur, batch, retry, crashes>>
  BY DEF CallProvider
<1>4. TypeOK'
  <2>1. calls' \in [Chunks -> Nat]
    BY <1>1 DEF TypeOK
  <2>2. QED
    BY <1>2, <1>3, <2>1 DEF TypeOK, WorkerPc
<1>5. Held' /\ BatchesAreDisjoint'
  BY <1>2, <1>3 DEF Held, BatchesAreDisjoint, TypeOK
<1>6. CallsAreBounded'
  <2>1. \A c \in batch[w] : calls[c] < attempts[c]
    BY <1>2 DEF Ahead
  <2>2. QED
    BY <1>1, <1>3, <2>1 DEF CallsAreBounded, TypeOK
<1>7. Ahead'
  <2>1. \A v \in Workers : pc'[v] \in {"config", "call"} =>
          v # w /\ pc[v] = pc'[v] /\ batch[v] \cap batch[w] = {}
    BY <1>2 DEF BatchesAreDisjoint, TypeOK
  <2>2. QED
    BY <1>1, <1>3, <2>1 DEF Ahead, TypeOK
<1>8. QED
  BY <1>4, <1>5, <1>6, <1>7

\* A worker goes on with its batch without touching the chunks.
LEMMA MoveSteps ==
  ASSUME IInv, NEW w \in Workers, ReadConfig(w) \/ RefuseKey(w)
  PROVE  IInv'
<1> USE DEF IInv
<1>1. UNCHANGED <<task, chunk, attempts, calls, cur, batch, retry, crashes>>
  BY DEF ReadConfig, RefuseKey, jobs
<1>2. /\ pc[w] \in {"config", "call"}
      /\ \E place \in {"call", "failed"} : pc' = [pc EXCEPT ![w] = place]
  BY DEF ReadConfig, RefuseKey, Goto
<1>3. TypeOK'
  BY <1>1, <1>2 DEF TypeOK, WorkerPc
<1>4. Held' /\ Ahead'
  BY <1>1, <1>2 DEF Held, Ahead, TypeOK
<1>5. BatchesAreDisjoint' /\ CallsAreBounded'
  BY <1>1 DEF BatchesAreDisjoint, CallsAreBounded
<1>6. QED
  BY <1>3, <1>4, <1>5

\* The vectors of a batch are stored; no other batch has these chunks.
LEMMA SaveBatchStep ==
  ASSUME IInv, NEW w \in Workers, SaveBatch(w)
  PROVE  IInv'
<1> USE DEF IInv
<1>1. chunk' = [c \in Chunks |-> IF c \in batch[w] THEN "succeeded" ELSE chunk[c]]
  BY DEF SaveBatch, SavedChunks
<1>2. /\ pc[w] = "save" /\ pc' = [pc EXCEPT ![w] = "batch"]
      /\ batch' = [batch EXCEPT ![w] = {}]
  BY DEF SaveBatch, Goto
<1>3. UNCHANGED <<task, attempts, calls, cur, retry, crashes>>
  BY DEF SaveBatch
<1>4. TypeOK'
  BY <1>1, <1>2, <1>3 DEF TypeOK, WorkerPc, ChunkStatus
<1>5. Held' /\ Ahead'
  BY <1>2, <1>3 DEF Held, Ahead, TypeOK
<1>6. BatchesAreDisjoint'
  BY <1>1, <1>2 DEF BatchesAreDisjoint, TypeOK
<1>7. CallsAreBounded'
  BY <1>3 DEF CallsAreBounded
<1>8. QED
  BY <1>4, <1>5, <1>6, <1>7

\* A worker that rests, having marked at most the chunks of its own batch.
LEMMA RestSteps ==
  ASSUME IInv, NEW w \in Workers,
         Finish(w) \/ FailBatch(w) \/ FailTask(w) \/ Crash(w)
  PROVE  IInv'
<1> USE DEF IInv
<1>1. Rests(w)
  BY DEF Finish, FailBatch, FailTask, Crash
<1>2. /\ pc' \in [Workers -> WorkerPc] /\ cur' \in [Workers -> Tasks \cup {None}]
      /\ batch' \in [Workers -> SUBSET Chunks]
      /\ pc'[w] = "idle" /\ batch'[w] = {}
      /\ \A v \in Workers \ {w} : pc'[v] = pc[v] /\ cur'[v] = cur[v] /\ batch'[v] = batch[v]
  BY <1>1, RestsFacts
<1>3. UNCHANGED <<attempts, calls, retry>>
  BY DEF Finish, FailBatch, FailTask, Crash, jobs
<1>4. /\ chunk' \in [Chunks -> ChunkStatus]
      /\ \A c \in Chunks \ batch[w] : chunk'[c] = chunk[c]
  BY DEF Finish, FailBatch, FailTask, Crash, FailedChunks, jobs, TypeOK, ChunkStatus
<1>5. task' \in [Tasks -> TaskStatus]
  BY DEF Finish, FailBatch, FailTask, Crash, Writes, FailedTask, jobs, TypeOK, TaskStatus
<1>6. crashes' \in 0..MaxCrashes
  BY LimitsAssumption DEF Finish, FailBatch, FailTask, Crash, TypeOK
<1>7. TypeOK'
  BY <1>2, <1>3, <1>4, <1>5, <1>6 DEF TypeOK
<1>8. Held' /\ Ahead'
  BY <1>2, <1>3 DEF Held, Ahead
<1>9. BatchesAreDisjoint'
  <2>1. \A u, v \in Workers : u # v => batch'[u] \cap batch'[v] = {}
    BY <1>2 DEF BatchesAreDisjoint
  <2>2. ASSUME NEW v \in Workers, NEW c \in batch'[v]
        PROVE  chunk'[c] = "processing"
    BY <1>2, <1>4 DEF BatchesAreDisjoint, TypeOK
  <2>3. QED
    BY <2>1, <2>2 DEF BatchesAreDisjoint
<1>10. CallsAreBounded'
  BY <1>3 DEF CallsAreBounded
<1>11. QED
  BY <1>7, <1>8, <1>9, <1>10

\* A retry request leaves chunks and workers alone.
LEMMA RetrySteps ==
  ASSUME IInv, NEW r \in Retries, CheckActive(r) \/ CountRetryable(r) \/ CreateTask(r)
  PROVE  IInv'
<1> USE DEF IInv
<1>1. UNCHANGED <<chunk, attempts, calls, pc, cur, batch, crashes>>
  BY DEF CheckActive, CountRetryable, CreateTask, jobs, worker
<1>2. retry' \in [Retries -> {"new", "refused", "checked", "counted", "done"}]
  BY DEF CheckActive, CountRetryable, CreateTask, TypeOK
<1>3. task' \in [Tasks -> TaskStatus]
  BY DEF CheckActive, CountRetryable, CreateTask, jobs, TypeOK, TaskStatus
<1>4. TypeOK'
  BY <1>1, <1>2, <1>3 DEF TypeOK
<1>5. QED
  BY <1>1, <1>4 DEF Held, Ahead, BatchesAreDisjoint, CallsAreBounded

\* Every step preserves the invariant, one case per action.
LEMMA NextInv == IInv /\ [Next]_vars => IInv'
<1> SUFFICES ASSUME IInv, [Next]_vars PROVE IInv'
  OBVIOUS
<1>1. ASSUME NEW w \in Workers, WorkerNext(w) \/ Crash(w)
      PROVE  IInv'
  <2>1. CASE Claim(w) \/ Start(w)
    BY <2>1, TaskSteps
  <2>2. CASE ClaimBatch(w)
    BY <2>2, ClaimBatchStep
  <2>3. CASE CallProvider(w)
    BY <2>3, CallProviderStep
  <2>4. CASE ReadConfig(w) \/ RefuseKey(w)
    BY <2>4, MoveSteps
  <2>5. CASE SaveBatch(w)
    BY <2>5, SaveBatchStep
  <2>6. CASE Finish(w) \/ FailBatch(w) \/ FailTask(w) \/ Crash(w)
    BY <2>6, RestSteps
  <2>7. QED
    BY <1>1, <2>1, <2>2, <2>3, <2>4, <2>5, <2>6 DEF WorkerNext
<1>2. ASSUME NEW r \in Retries, CheckActive(r) \/ CountRetryable(r) \/ CreateTask(r)
      PROVE  IInv'
  BY <1>2, RetrySteps
<1>3. CASE UNCHANGED vars
  BY <1>3 DEF vars, jobs, worker, IInv, TypeOK, Held, Ahead, BatchesAreDisjoint, CallsAreBounded
<1>4. QED
  BY <1>1, <1>2, <1>3 DEF Next

----------------------------------------------------------------------------
(* The theorems *)

\* The invariant holds in every reachable state.
THEOREM Invariant == Spec => []IInv
BY InitInv, NextInv, PTL DEF Spec

\* The rows, the workers and the requests always have the types of TypeOK.
THEOREM TypeCorrect == Spec => []TypeOK
<1>1. IInv => TypeOK
  BY DEF IInv
<1>2. QED
  BY <1>1, Invariant, PTL

\* Crashes, retries and any number of workers together send no chunk to the
\* provider more often than the limit of attempts (repository.py 43-47).
THEOREM BoundedCalls == Spec => []CallsAreBounded
<1>1. IInv => CallsAreBounded
  BY DEF IInv
<1>2. QED
  BY <1>1, Invariant, PTL

\* No two workers embed one chunk at the same time, even when they hold the same
\* task (embedding.py 122).
THEOREM DisjointBatches == Spec => []BatchesAreDisjoint
<1>1. IInv => BatchesAreDisjoint
  BY DEF IInv
<1>2. QED
  BY <1>1, Invariant, PTL

\* A chunk that has its vector keeps it: a batch is marked by its own worker only
\* and its chunks are PROCESSING (embedding.py 155-176).
THEOREM FinalSuccess == Spec => SucceededIsFinal
<1> DEFINE Kept == \A c \in Chunks : chunk[c] = "succeeded" => chunk'[c] = "succeeded"
<1>1. IInv /\ [Next]_vars => [Kept]_vars
  <2> SUFFICES ASSUME IInv, Next PROVE Kept
    BY DEF vars
  <2>1. ASSUME NEW w \in Workers, ClaimBatch(w)
        PROVE  Kept
    <3>1. PICK S \in Batches : chunk' = [c \in Chunks |-> IF c \in S THEN "processing" ELSE chunk[c]]
      BY <2>1 DEF ClaimBatch
    <3>2. \A c \in S : chunk[c] # "succeeded"
      BY BatchIsClaimable
    <3>3. QED
      BY <3>1, <3>2
  <2>2. ASSUME NEW w \in Workers, SaveBatch(w)
        PROVE  Kept
    BY <2>2 DEF SaveBatch
  <2>3. ASSUME NEW w \in Workers, FailBatch(w)
        PROVE  Kept
    BY <2>3 DEF FailBatch, FailedChunks, IInv, BatchesAreDisjoint
  <2>4. CASE UNCHANGED chunk
    BY <2>4
  <2>5. QED
    BY <2>1, <2>2, <2>3, <2>4
       DEF Next, WorkerNext, Claim, Start, Finish, ReadConfig, CallProvider, RefuseKey, FailTask,
           Crash, CheckActive, CountRetryable, CreateTask, jobs
<1>2. Spec => [][Kept]_vars
  BY <1>1, Invariant, PTL DEF Spec
<1>3. QED
  BY <1>2 DEF SucceededIsFinal

----------------------------------------------------------------------------
(* One worker *)

Alone(w) == \A v \in Workers \ {w} : pc[v] = "idle"
Some(status) == \E t \in Tasks : task[t] = status

\* The task of the only worker is pending until it starts and running from there on.
OwnTask(w) ==
  /\ pc[w] = "start" => task[cur[w]] = "pending"
  /\ pc[w] \notin {"idle", "start"} => task[cur[w]] = "running"

\* Without a crash or a failed task, a chunk that is neither new nor done is in the
\* worker's batch.
NoneLost(w) ==
  crashes = 0 /\ ~Some("failed") =>
    \A c \in Chunks : chunk[c] # "failed" /\ (chunk[c] = "processing" => c \in batch[w])

\* After a task has succeeded there is nothing to claim.
NothingLeft(w) ==
  Some("succeeded") => ClaimableChunks = {} /\ pc[w] \in {"idle", "start", "batch"}

NewIsUntried == \A c \in Chunks : chunk[c] = "pending" => attempts[c] = 0

SInv(w) == OwnTask(w) /\ NoneLost(w) /\ NothingLeft(w) /\ NewIsUntried

LEMMA InitAlone ==
  ASSUME NEW w \in Workers, Init
  PROVE  SInv(w)
BY DEF Init, SInv, OwnTask, NoneLost, NothingLeft, NewIsUntried, Some

LEMMA SInvComplete ==
  ASSUME IInv, NEW w \in Workers, SInv(w)
  PROVE  Complete
<1> SUFFICES ASSUME Some("succeeded"), crashes = 0, ~Some("failed"), NEW c \in Chunks
             PROVE  chunk[c] = "succeeded"
  BY DEF Complete, SInv, NothingLeft, Some
<1>1. ClaimableChunks = {} /\ batch[w] = {}
  BY DEF SInv, NothingLeft, IInv, Held
<1>2. chunk[c] # "pending"
  <2>1. ASSUME chunk[c] = "pending" PROVE c \in ClaimableChunks
    BY <2>1, LimitsAssumption DEF SInv, NewIsUntried, ClaimableChunks, Claimable
  <2>2. QED
    BY <1>1, <2>1
<1>3. chunk[c] \notin {"failed", "processing"}
  BY <1>1 DEF SInv, NoneLost
<1>4. QED
  BY <1>2, <1>3 DEF IInv, TypeOK, ChunkStatus

\* The worker changes the status of its own task.
LEMMA OwnWrites ==
  ASSUME IInv, NEW w \in Workers, pc[w] # "idle", NEW status, Writes(w, status)
  PROVE  /\ cur[w] \in Tasks /\ task'[cur[w]] = status
         /\ \A t \in Tasks : t # cur[w] => task'[t] = task[t]
BY DEF IInv, TypeOK, Held, Writes

\* Actions of the worker that leave the chunks and all tasks alone.
LEMMA AloneMoves ==
  ASSUME IInv, NEW w \in Workers, SInv(w), Claim(w) \/ ReadConfig(w) \/ CallProvider(w) \/ RefuseKey(w)
  PROVE  SInv(w)'
<1>1. UNCHANGED <<task, chunk, attempts, batch, crashes>>
  BY DEF Claim, ReadConfig, CallProvider, RefuseKey, jobs
<1>2. NoneLost(w)' /\ NewIsUntried'
  BY <1>1 DEF SInv, NoneLost, NewIsUntried, Some
<1>3. OwnTask(w)'
  BY <1>1 DEF Claim, ReadConfig, CallProvider, RefuseKey, Goto, IInv, TypeOK, SInv, OwnTask
<1>4. NothingLeft(w)'
  <2>1. CASE Claim(w)
    BY <1>1, <2>1 DEF Claim, Goto, IInv, TypeOK, SInv, NothingLeft, Some, ClaimableChunks, Claimable
  <2>2. CASE pc[w] \in {"config", "call"}
    BY <1>1, <2>2 DEF SInv, NothingLeft, Some
  <2>3. QED
    BY <2>1, <2>2 DEF ReadConfig, CallProvider, RefuseKey
<1>5. QED
  BY <1>2, <1>3, <1>4 DEF SInv

LEMMA AloneStarts ==
  ASSUME IInv, NEW w \in Workers, SInv(w), Start(w)
  PROVE  SInv(w)'
<1>1. /\ cur[w] \in Tasks /\ task'[cur[w]] = "running"
      /\ \A t \in Tasks : t # cur[w] => task'[t] = task[t]
  BY OwnWrites DEF Start
<1>2. /\ pc[w] = "start" /\ pc'[w] = "batch" /\ task[cur[w]] = "pending"
      /\ UNCHANGED <<chunk, attempts, cur, batch, crashes>>
  BY DEF Start, Goto, IInv, TypeOK, SInv, OwnTask
<1>3. \A status \in {"failed", "succeeded"} : Some(status)' <=> Some(status)
  BY <1>1, <1>2 DEF Some
<1>4. QED
  BY <1>1, <1>2, <1>3 DEF SInv, OwnTask, NoneLost, NothingLeft, NewIsUntried, ClaimableChunks, Claimable

LEMMA AloneBatches ==
  ASSUME IInv, NEW w \in Workers, SInv(w), ClaimBatch(w) \/ SaveBatch(w)
  PROVE  SInv(w)'
<1>1. ~Some("succeeded") /\ UNCHANGED <<task, cur, crashes>>
  BY DEF ClaimBatch, SaveBatch, SInv, NothingLeft
<1>2. OwnTask(w)' /\ NothingLeft(w)'
  BY <1>1 DEF ClaimBatch, SaveBatch, Goto, IInv, TypeOK, SInv, OwnTask, NothingLeft, Some
<1>3. CASE ClaimBatch(w)
  <2>1. PICK S \in Batches :
          /\ chunk' = [c \in Chunks |-> IF c \in S THEN "processing" ELSE chunk[c]]
          /\ attempts' = Attempted(S)
          /\ batch' = [batch EXCEPT ![w] = S]
    BY <1>3 DEF ClaimBatch
  <2>2. batch[w] = {} /\ batch'[w] = S
    BY <1>3, <2>1 DEF ClaimBatch, IInv, TypeOK, Held
  <2>3. NoneLost(w)'
    BY <1>1, <2>1, <2>2 DEF SInv, NoneLost, Some
  <2>4. NewIsUntried'
    BY <2>1 DEF SInv, NewIsUntried, Attempted
  <2>5. QED
    BY <1>2, <2>3, <2>4 DEF SInv
<1>4. CASE SaveBatch(w)
  <2>1. /\ chunk' = [c \in Chunks |-> IF c \in batch[w] THEN "succeeded" ELSE chunk[c]]
        /\ UNCHANGED attempts
    BY <1>4 DEF SaveBatch, SavedChunks
  <2>2. NoneLost(w)' /\ NewIsUntried'
    BY <1>1, <2>1 DEF SInv, NoneLost, NewIsUntried, Some
  <2>3. QED
    BY <1>2, <2>2 DEF SInv
<1>5. QED
  BY <1>3, <1>4

LEMMA AloneEnds ==
  ASSUME IInv, NEW w \in Workers, SInv(w), Finish(w) \/ FailBatch(w) \/ FailTask(w) \/ Crash(w)
  PROVE  SInv(w)'
<1>1. pc'[w] = "idle" /\ batch'[w] = {} /\ UNCHANGED attempts
  BY RestsFacts DEF Finish, FailBatch, FailTask, Crash, IInv, jobs
<1>2. OwnTask(w)'
  BY <1>1 DEF OwnTask
<1>3. NewIsUntried'
  BY <1>1 DEF Finish, FailBatch, FailedChunks, FailTask, Crash, jobs, SInv, NewIsUntried
<1>4. CASE Finish(w)
  <2>1. /\ cur[w] \in Tasks /\ task'[cur[w]] = "succeeded" /\ task[cur[w]] = "running"
        /\ \A t \in Tasks : t # cur[w] => task'[t] = task[t]
    BY <1>4, OwnWrites DEF Finish, SInv, OwnTask
  <2>2. UNCHANGED <<chunk, attempts, crashes>> /\ ClaimableChunks = {} /\ batch[w] = {}
    BY <1>4 DEF Finish, IInv, Held
  <2>3. Some("failed")' <=> Some("failed")
    BY <2>1 DEF Some
  <2>4. NoneLost(w)' /\ NothingLeft(w)'
    BY <1>1, <2>2, <2>3 DEF SInv, NoneLost, NothingLeft, ClaimableChunks, Claimable
  <2>5. QED
    BY <1>2, <1>3, <2>4 DEF SInv
<1>5. CASE FailBatch(w) \/ FailTask(w)
  <2>1. /\ cur[w] \in Tasks /\ task'[cur[w]] = "failed"
        /\ \A t \in Tasks : t # cur[w] => task'[t] = task[t]
    BY <1>5, OwnWrites DEF FailBatch, FailTask, FailedTask
  <2>2. ~Some("succeeded")
    BY <1>5 DEF FailBatch, FailTask, SInv, NothingLeft
  <2>3. Some("failed")' /\ ~Some("succeeded")'
    BY <2>1, <2>2 DEF Some
  <2>4. QED
    BY <1>2, <1>3, <2>3 DEF SInv, NoneLost, NothingLeft
<1>6. CASE Crash(w)
  <2>1. UNCHANGED <<task, chunk, attempts>> /\ crashes' # 0
    BY <1>6 DEF Crash, jobs, IInv, TypeOK
  <2>2. NoneLost(w)' /\ NothingLeft(w)'
    BY <1>1, <2>1 DEF SInv, NoneLost, NothingLeft, Some, ClaimableChunks, Claimable
  <2>3. QED
    BY <1>2, <1>3, <2>2 DEF SInv
<1>7. QED
  BY <1>4, <1>5, <1>6

LEMMA AloneRetries ==
  ASSUME IInv, NEW w \in Workers, SInv(w), NEW r \in Retries,
         CheckActive(r) \/ CountRetryable(r) \/ CreateTask(r)
  PROVE  SInv(w)'
<1>1. UNCHANGED <<chunk, attempts, pc, cur, batch, crashes>>
  BY DEF CheckActive, CountRetryable, CreateTask, jobs, worker
<1>2. \A t \in Tasks : task'[t] = task[t] \/ (task[t] = "absent" /\ task'[t] = "pending")
  BY DEF CheckActive, CountRetryable, CreateTask, jobs, IInv, TypeOK
<1>3. \A status \in {"failed", "succeeded"} : Some(status)' <=> Some(status)
  BY <1>2 DEF Some
<1>4. OwnTask(w)'
  BY <1>1, <1>2 DEF SInv, OwnTask, IInv, Held
<1>5. QED
  BY <1>1, <1>3, <1>4 DEF SInv, NoneLost, NothingLeft, NewIsUntried, ClaimableChunks, Claimable

\* A worker that stays idle does nothing.
LEMMA AloneNext ==
  ASSUME NEW w \in Workers, IInv, SInv(w), Alone(w), Alone(w)', [Next]_vars
  PROVE  SInv(w)'
<1>1. ASSUME NEW v \in Workers, WorkerNext(v) \/ Crash(v)
      PROVE  v = w
  <2>1. SUFFICES ASSUME v # w PROVE FALSE
    OBVIOUS
  <2>2. pc[v] = "idle" /\ pc'[v] = "idle"
    BY <2>1 DEF Alone
  <2>3. Claim(v)
    BY <1>1, <2>2 DEF WorkerNext, Start, ClaimBatch, Finish, ReadConfig, CallProvider, RefuseKey,
         SaveBatch, FailBatch, FailTask, Crash
  <2>4. QED
    BY <2>2, <2>3 DEF Claim, Goto, IInv, TypeOK
<1>2. CASE WorkerNext(w) \/ Crash(w)
  BY <1>2, AloneMoves, AloneStarts, AloneBatches, AloneEnds DEF WorkerNext
<1>3. CASE UNCHANGED vars
  BY <1>3 DEF vars, jobs, worker, SInv, OwnTask, NoneLost, NothingLeft, NewIsUntried, Some, ClaimableChunks, Claimable
<1>4. QED
  BY <1>1, <1>2, <1>3, AloneRetries DEF Next

\* As long as one worker works alone, a task that has succeeded leaves nothing to
\* retry, and without failures and crashes each chunk has its vector
\* (embedding.py 123-162).
THEOREM CompleteWhenAlone == Spec => SuccessIsComplete
<1>1. ASSUME NEW w \in Workers
      PROVE  Spec => ([]Alone(w) => []Complete)
  <2>1. Init => SInv(w)
    BY InitAlone
  <2>2. IInv /\ SInv(w) /\ Alone(w) /\ Alone(w)' /\ [Next]_vars => SInv(w)'
    BY AloneNext
  <2>3. IInv /\ SInv(w) => Complete
    BY SInvComplete
  <2>4. QED
    BY <2>1, <2>2, <2>3, Invariant, PTL DEF Spec
<1>2. QED
  BY <1>1 DEF SuccessIsComplete, Alone

=============================================================================
