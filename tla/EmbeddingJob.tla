---------------------------- MODULE EmbeddingJob ----------------------------
(***************************************************************************)
(* The knowledge chunks of one scan and the embedding tasks that turn them *)
(* into vectors (process_embedding_task), with the requests that queue     *)
(* another task for the chunks that failed (retry_embeddings) and the      *)
(* crashes of a worker.                                                    *)
(*                                                                         *)
(* An embedding task stays PENDING when it is claimed and is RUNNING only  *)
(* from a second transaction on, so two workers may hold the same task.    *)
(* The chunks are what they must not share.  The deployed process has one  *)
(* worker; the module takes a set of them.                                 *)
(***************************************************************************)
EXTENDS Naturals, FiniteSets

CONSTANTS
  Chunks,       \* the chunks of the scan
  Tasks,        \* ids for embedding tasks
  First,        \* the task that the scan itself queued
  Retries,      \* the retry requests that users may send
  Workers,
  BatchSize,    \* embedding_batch_size
  MaxAttempts,  \* embedding_max_attempts
  None,         \* no task
  MaxCrashes    \* bound on crashes

ASSUME FirstAssumption == First \in Tasks /\ None \notin Tasks
ASSUME LimitsAssumption ==
  BatchSize \in Nat \ {0} /\ MaxAttempts \in Nat \ {0} /\ MaxCrashes \in Nat

VARIABLES
  task,      \* background_tasks.status of each embedding task
  chunk,     \* knowledge_chunks.embedding_status
  attempts,  \* knowledge_chunks.embedding_attempts
  calls,     \* times each chunk was sent to the provider
  pc, cur,   \* where each worker is, and its task
  batch,     \* the chunks of the worker's current batch
  retry,     \* where each retry request is
  crashes

jobs == <<task, chunk, attempts, calls>>
worker == <<pc, cur, batch>>
vars == <<jobs, worker, retry, crashes>>

Init ==
  /\ task = [t \in Tasks |-> IF t = First THEN "pending" ELSE "absent"]
  /\ chunk = [c \in Chunks |-> "pending"]
  /\ attempts = [c \in Chunks |-> 0] /\ calls = [c \in Chunks |-> 0]
  /\ pc = [w \in Workers |-> "idle"] /\ cur = [w \in Workers |-> None]
  /\ batch = [w \in Workers |-> {}]
  /\ retry = [r \in Retries |-> "new"]
  /\ crashes = 0

----------------------------------------------------------------------------
(* The worker *)

Goto(w, place) == pc' = [pc EXCEPT ![w] = place]
Rests(w) == Goto(w, "idle") /\ cur' = [cur EXCEPT ![w] = None] /\ batch' = [batch EXCEPT ![w] = {}]
Writes(w, status) == task' = [task EXCEPT ![cur[w]] = status]

\* claim_next_task: a pending task (TaskWorker has the order); its status stays.
Claim(w) ==
  /\ pc[w] = "idle"
  /\ \E t \in Tasks : task[t] = "pending" /\ cur' = [cur EXCEPT ![w] = t]
  /\ Goto(w, "start")
  /\ UNCHANGED <<jobs, batch, retry, crashes>>

\* RUNNING is written whatever the row holds by now.
Start(w) ==
  /\ pc[w] = "start"
  /\ Writes(w, "running")
  /\ Goto(w, "batch")
  /\ UNCHANGED <<chunk, attempts, calls, cur, batch, retry, crashes>>

Claimable_NoLimit(c) == chunk[c] \in {"pending", "failed"}
Claimable_Processing(c) ==
  chunk[c] \in {"pending", "processing", "failed"} /\ attempts[c] < MaxAttempts
Claimable(c) == chunk[c] \in {"pending", "failed"} /\ attempts[c] < MaxAttempts

ClaimableChunks == {c \in Chunks : Claimable(c)}

\* A full batch, or all that is left.
Batches ==
  {S \in SUBSET ClaimableChunks :
     Cardinality(S) = IF Cardinality(ClaimableChunks) < BatchSize
                      THEN Cardinality(ClaimableChunks) ELSE BatchSize}

Attempted_Uncounted(S) == attempts
Attempted(S) == [c \in Chunks |-> IF c \in S THEN attempts[c] + 1 ELSE attempts[c]]

\* claim_embedding_chunks.  The chunks of a scan are created in one transaction,
\* so the order of created_at leaves the choice open.
ClaimBatch(w) ==
  /\ pc[w] = "batch" /\ ClaimableChunks # {}
  /\ \E S \in Batches :
       /\ chunk' = [c \in Chunks |-> IF c \in S THEN "processing" ELSE chunk[c]]
       /\ attempts' = Attempted(S)
       /\ batch' = [batch EXCEPT ![w] = S]
  /\ Goto(w, "config")
  /\ UNCHANGED <<task, calls, cur, retry, crashes>>

\* Nothing is left to claim.
Finish(w) ==
  /\ pc[w] = "batch" /\ ClaimableChunks = {}
  /\ Writes(w, "succeeded")
  /\ Rests(w)
  /\ UNCHANGED <<chunk, attempts, calls, retry, crashes>>

\* A default and enabled provider is configured, or not.
ReadConfig(w) ==
  /\ pc[w] = "config"
  /\ Goto(w, "call") \/ Goto(w, "failed")
  /\ UNCHANGED <<jobs, cur, batch, retry, crashes>>

Called(S) == [c \in Chunks |-> IF c \in S THEN calls[c] + 1 ELSE calls[c]]

\* The batch goes to the provider, outside of any transaction.  The answer is a
\* vector for each chunk, an error that the provider class classifies
\* (EmbeddingError), or an exception of another kind (an answer that is no JSON).
CallProvider(w) ==
  /\ pc[w] = "call"
  /\ calls' = Called(batch[w])
  /\ Goto(w, "save") \/ Goto(w, "failed") \/ Goto(w, "broken")
  /\ UNCHANGED <<task, chunk, attempts, cur, batch, retry, crashes>>

\* The key cannot be decrypted: an EmbeddingError before anything is sent.
RefuseKey(w) ==
  /\ pc[w] = "call"
  /\ Goto(w, "failed")
  /\ UNCHANGED <<jobs, cur, batch, retry, crashes>>

SavedChunks_ButOne(w) == IF Cardinality(batch[w]) < 2 THEN batch[w]
                         ELSE batch[w] \ {CHOOSE c \in batch[w] : TRUE}
SavedChunks(w) == batch[w]

SaveBatch(w) ==
  /\ pc[w] = "save"
  /\ chunk' = [c \in Chunks |-> IF c \in SavedChunks(w) THEN "succeeded" ELSE chunk[c]]
  /\ Goto(w, "batch") /\ batch' = [batch EXCEPT ![w] = {}]
  /\ UNCHANGED <<task, attempts, calls, cur, retry, crashes>>

FailedChunks_All(w) == Chunks
FailedChunks(w) == batch[w]

\* _mark_embedding_failed
FailBatch(w) ==
  /\ pc[w] = "failed"
  /\ chunk' = [c \in Chunks |-> IF c \in FailedChunks(w) THEN "failed" ELSE chunk[c]]
  /\ Writes(w, "failed")
  /\ Rests(w)
  /\ UNCHANGED <<attempts, calls, retry, crashes>>

FailedTask_Forgotten == "running"
FailedTask_Cancelled == "cancelled"
FailedTask == "failed"

\* The handler of process_next for any other exception: the task row only.
FailTask(w) ==
  /\ pc[w] = "broken"
  /\ Writes(w, FailedTask)
  /\ Rests(w)
  /\ UNCHANGED <<chunk, attempts, calls, retry, crashes>>

\* The process of a worker dies, or a transaction fails and kills the worker; a
\* new worker starts without a task.
Crash(w) ==
  /\ crashes < MaxCrashes /\ pc[w] # "idle"
  /\ Rests(w)
  /\ crashes' = crashes + 1
  /\ UNCHANGED <<jobs, retry>>

----------------------------------------------------------------------------
(* retry_embeddings: two reads, then the insert *)

Active(t) == task[t] \in {"pending", "running"}

CheckActive(r) ==
  /\ retry[r] = "new"
  /\ retry' = [retry EXCEPT ![r] = IF \E t \in Tasks : Active(t) THEN "refused" ELSE "checked"]
  /\ UNCHANGED <<jobs, worker, crashes>>

CountRetryable(r) ==
  /\ retry[r] = "checked"
  /\ retry' = [retry EXCEPT ![r] = IF ClaimableChunks = {} THEN "refused" ELSE "counted"]
  /\ UNCHANGED <<jobs, worker, crashes>>

CreateTask(r) ==
  /\ retry[r] = "counted"
  /\ \E t \in Tasks : task[t] = "absent" /\ task' = [task EXCEPT ![t] = "pending"]
  /\ retry' = [retry EXCEPT ![r] = "done"]
  /\ UNCHANGED <<chunk, attempts, calls, worker, crashes>>

----------------------------------------------------------------------------
WorkerNext(w) ==
  \/ Claim(w) \/ Start(w) \/ ClaimBatch(w) \/ Finish(w) \/ ReadConfig(w) \/ CallProvider(w)
  \/ RefuseKey(w) \/ SaveBatch(w) \/ FailBatch(w) \/ FailTask(w)

Next ==
  \/ \E w \in Workers : WorkerNext(w) \/ Crash(w)
  \/ \E r \in Retries : CheckActive(r) \/ CountRetryable(r) \/ CreateTask(r)

Spec == Init /\ [][Next]_vars

\* A worker is scheduled while its process lives, and a call to the provider ends
\* (httpx has a timeout).
FairSpec == Spec /\ \A w \in Workers : WF_vars(WorkerNext(w))

----------------------------------------------------------------------------
(* Properties *)

ChunkStatus == {"pending", "processing", "succeeded", "failed"}
TaskStatus == {"absent", "pending", "running", "succeeded", "failed"}
WorkerPc == {"idle", "start", "batch", "config", "call", "save", "failed", "broken"}

\* The type invariant: the rows hold the statuses of their enumerations, and the
\* workers and the retry requests are where the code can be.
TypeOK ==
  /\ task \in [Tasks -> TaskStatus] /\ chunk \in [Chunks -> ChunkStatus]
  /\ attempts \in [Chunks -> Nat] /\ calls \in [Chunks -> Nat]
  /\ pc \in [Workers -> WorkerPc] /\ cur \in [Workers -> Tasks \cup {None}]
  /\ batch \in [Workers -> SUBSET Chunks]
  /\ retry \in [Retries -> {"new", "refused", "checked", "counted", "done"}]
  /\ crashes \in 0..MaxCrashes

\* The attempt is counted before the provider is called, so crashes, retries and
\* concurrent tasks together send no chunk more than MaxAttempts times
\* (repository.py 43-47, embedding.py 113-162).
CallsAreBounded == \A c \in Chunks : calls[c] <= attempts[c] /\ attempts[c] <= MaxAttempts

\* No two workers embed the same chunk at the same time, and a chunk in a batch
\* is PROCESSING, even when they hold the same task (embedding.py 122).
BatchesAreDisjoint ==
  /\ \A v, w \in Workers : v # w => batch[v] \cap batch[w] = {}
  /\ \A w \in Workers : \A c \in batch[w] : chunk[c] = "processing"

\* A vector that was stored is not computed again or taken back
\* (repository.py 33-37, embedding.py 174-176).
SucceededIsFinal == [][\A c \in Chunks : chunk[c] = "succeeded" => chunk'[c] = "succeeded"]_vars

\* As long as only one worker ever works, an embedding task that SUCCEEDED leaves
\* nothing to retry, and if no task failed and no worker crashed then each chunk
\* has its vector (embedding.py 123-162).  Two workers that hold one task break
\* this: the first to find no chunk finishes it under the batch of the other.
Complete ==
  (\E t \in Tasks : task[t] = "succeeded") =>
    /\ ClaimableChunks = {}
    /\ crashes = 0 /\ (\A t \in Tasks : task[t] # "failed") =>
         \A c \in Chunks : chunk[c] = "succeeded"

SuccessIsComplete ==
  \A w \in Workers : [](\A v \in Workers \ {w} : pc[v] = "idle") => []Complete

\* In a process that lives every queued task comes to its end, whatever the
\* provider answers (embedding.py 113-181, task_worker.py 274-282).
TasksSettle ==
  [](crashes = 0) =>
    \A t \in Tasks : task[t] = "pending" ~> task[t] \in {"succeeded", "failed"}

\* embedding.py 114 and 173: a batch that fails is marked FAILED and is claimed by
\* a new task while it has attempts left, so no chunk of a failed task stays
\* PROCESSING.
FailedBatchIsRetryable ==
  (\A w \in Workers : pc[w] = "idle") => \A c \in Chunks : chunk[c] # "processing"

\* knowledge/service.py 19: no task is queued while another is pending or running.
OneActiveTask == \A t, u \in Tasks : Active(t) /\ Active(u) => t = u

=============================================================================
