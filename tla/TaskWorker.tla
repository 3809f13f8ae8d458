----------------------------- MODULE TaskWorker -----------------------------
(***************************************************************************)
(* The background queue kept in PostgreSQL and its single worker           *)
(* (TaskWorker.process_next), with the HTTP requests that put source scans *)
(* into it (create_source_scan), the deletion of projects, and restarts.   *)
(*                                                                         *)
(* A scan is a row of source_scans and a row of background_tasks.  The     *)
(* worker takes it through five transactions with long computations in     *)
(* between, where other sessions commit.  A scan that succeeds puts an     *)
(* embedding task into the same queue; what that task does to the chunks   *)
(* is the subject of EmbeddingJob, and execution tasks that of             *)
(* ExecutionRun.                                                           *)
(*                                                                         *)
(* An exception inside a transaction rolls it back, which expires the task *)
(* object.  The exception handler then logs task.id, the lazy load fails   *)
(* outside of a greenlet, and the exception leaves process_next and run:   *)
(* the worker is dead until the process is started again.                  *)
(***************************************************************************)
EXTENDS Naturals, Sequences, FiniteSets, FiniteSetsExt

CONSTANTS
  Projects,
  Scans,       \* the scans that users may request
  ProjectOf,   \* the project of each scan
  None,        \* the worker has no task
  FaultKinds,  \* what may go wrong: "crash" of the process, "error" of the database
  MaxFaults    \* bound on crashes and errors together

ASSUME ProjectAssumption == ProjectOf \in [Scans -> Projects]
ASSUME FaultsAssumption == MaxFaults \in Nat /\ FaultKinds \subseteq {"crash", "error"}

ScanTask(s) == <<"source_scan", s>>
EmbeddingTask(s) == <<"knowledge_embedding", s>>
Tasks == {ScanTask(s) : s \in Scans} \cup {EmbeddingTask(s) : s \in Scans}
IsScan(t) == t[1] = "source_scan"

ASSUME NoneAssumption == None \notin Tasks

VARIABLES
  projects,   \* the projects that exist
  queue,      \* tasks in the order of created_at, the start of their transaction
  status,     \* background_tasks.status, "absent" without a row
  scan,       \* source_scans.status, "absent" without a row
  version,    \* source_scans.scan_version, 0 without a row
  files,      \* scans whose source files are stored
  results,    \* scans whose symbols, interfaces and chunks are stored
  request,    \* where each request to create a scan is
  locked,     \* the requests that hold the lock of their project row
  pc, cur,    \* where the worker is, and its task
  faults

rows == <<projects, status, scan, version, files, results>>
requests == <<request, locked>>
worker == <<pc, cur>>
vars == <<rows, queue, requests, worker, faults>>

Settled == {"succeeded", "failed"}
ScansOf(p) == {s \in Scans : ProjectOf[s] = p}

Init ==
  /\ projects = Projects
  /\ queue = <<>>
  /\ status = [t \in Tasks |-> "absent"] /\ scan = [s \in Scans |-> "absent"]
  /\ version = [s \in Scans |-> 0]
  /\ files = {} /\ results = {}
  /\ request = [s \in Scans |-> "new"] /\ locked = {}
  /\ pc = "idle" /\ cur = None
  /\ faults = 0

----------------------------------------------------------------------------
(* create_source_scan *)

\* The request's transaction starts, which is the created_at of its rows.
OpenRequest(s) ==
  /\ request[s] = "new" /\ ProjectOf[s] \in projects
  /\ request' = [request EXCEPT ![s] = "open"]
  /\ queue' = Append(queue, ScanTask(s))
  /\ UNCHANGED <<rows, locked, worker, faults>>

LockFree_NoForUpdate(p) == TRUE
LockFree(p) == \A s \in locked : ProjectOf[s] # p

Exists(s) == scan[s] # "absent"
Numbered(p) == {s \in ScansOf(p) : Exists(s)}

\* SELECT ... FOR UPDATE on the project, then max(scan_version) + 1 of the scans
\* committed by now.  The number is in version once the request commits.
LockProject(s) ==
  /\ request[s] = "open" /\ LockFree(ProjectOf[s])
  /\ locked' = locked \cup {s}
  /\ request' = [request EXCEPT ![s] = "numbered"]
  /\ version' = [version EXCEPT ![s] =
       1 + Max({0} \cup {version[o] : o \in Numbered(ProjectOf[s])})]
  /\ UNCHANGED <<projects, status, scan, files, results, queue, worker, faults>>

\* Task and scan appear together, unless the project is gone.
CommitRequest(s) ==
  /\ request[s] = "numbered"
  /\ locked' = locked \ {s}
  /\ IF ProjectOf[s] \in projects
     THEN /\ status' = [status EXCEPT ![ScanTask(s)] = "pending"]
          /\ scan' = [scan EXCEPT ![s] = "pending"]
          /\ request' = [request EXCEPT ![s] = "done"]
     ELSE /\ request' = [request EXCEPT ![s] = "refused"]
          /\ UNCHANGED <<status, scan>>
  /\ UNCHANGED <<projects, version, files, results, queue, worker, faults>>

\* DELETE of the project row; the database deletes every row that refers to it.
\* The statement waits for a request that has locked the row.
DeleteProject(p) ==
  /\ p \in projects /\ LockFree(p)
  /\ projects' = projects \ {p}
  /\ LET gone == ScansOf(p) IN
       /\ status' = [t \in Tasks |-> IF t[2] \in gone THEN "absent" ELSE status[t]]
       /\ scan' = [s \in Scans |-> IF s \in gone THEN "absent" ELSE scan[s]]
       /\ files' = files \ gone /\ results' = results \ gone
  /\ UNCHANGED <<version, queue, requests, worker, faults>>

----------------------------------------------------------------------------
(* The worker *)

Dies == pc' = "dead" /\ cur' = None
Rests == pc' = "idle" /\ cur' = None

Claimable_Unsuccessful(t) == status[t] \in {"pending", "failed"}
Claimable(t) == status[t] = "pending"

\* The oldest pending task.  A scan starts to run in the transaction that claims
\* it; a task of another type stays pending until its handler starts it.
Claim ==
  /\ pc = "idle"
  /\ \E i \in DOMAIN queue :
       /\ Claimable(queue[i]) /\ \A j \in 1..(i - 1) : ~Claimable(queue[j])
       /\ cur' = queue[i]
       /\ IF IsScan(cur')
          THEN /\ status' = [status EXCEPT ![cur'] = "running"]
               /\ scan' = [scan EXCEPT ![cur'[2]] = "running"]
               /\ pc' = "load"
          ELSE /\ pc' = "embedding"
               /\ UNCHANGED <<status, scan>>
  /\ UNCHANGED <<projects, version, files, results, queue, requests, faults>>

This == cur[2]

\* Without its scan row the handler raises SourceReadError inside the
\* transaction.
LoadSource ==
  /\ pc = "load"
  /\ IF Exists(This) THEN pc' = "discover" /\ UNCHANGED cur ELSE Dies
  /\ UNCHANGED <<rows, queue, requests, faults>>

\* Reading the sources, outside of any transaction.
DiscoverFiles ==
  /\ pc = "discover"
  /\ pc' \in {"store", "failing"}
  /\ UNCHANGED <<rows, queue, requests, cur, faults>>

StoreFiles ==
  /\ pc = "store"
  /\ IF Exists(This) THEN files' = files \cup {This} /\ pc' = "parse" /\ UNCHANGED cur
                     ELSE Rests /\ UNCHANGED files
  /\ UNCHANGED <<projects, status, scan, version, results, queue, requests, faults>>

\* parse_java_sources and load_openapi_operations, outside of any transaction.
ParseSources ==
  /\ pc = "parse"
  /\ pc' \in {"open", "failing"}
  /\ UNCHANGED <<rows, queue, requests, cur, faults>>

\* The last transaction starts, which is the created_at of the embedding task.
OpenResults ==
  /\ pc = "open"
  /\ IF Exists(This)
     THEN queue' = Append(queue, EmbeddingTask(This)) /\ pc' = "publish" /\ UNCHANGED cur
     ELSE Rests /\ UNCHANGED queue
  /\ UNCHANGED <<rows, requests, faults>>

SucceededScan_Forgotten == "running"
SucceededScan == "succeeded"

EmbeddingQueued_Forgotten == "absent"
EmbeddingQueued == "pending"

\* Symbols, relations, interfaces, chunks, the embedding task and both statuses
\* in one commit, unless the rows they refer to are gone.
PublishResults ==
  /\ pc = "publish"
  /\ IF Exists(This)
     THEN /\ results' = results \cup {This}
          /\ status' = [status EXCEPT ![cur] = "succeeded",
                                      ![EmbeddingTask(This)] = EmbeddingQueued]
          /\ scan' = [scan EXCEPT ![This] = SucceededScan]
          /\ Rests
     ELSE Dies /\ UNCHANGED <<results, status, scan>>
  /\ UNCHANGED <<projects, version, files, queue, requests, faults>>

FailedScan_Forgotten == "running"
FailedScan == "failed"

\* mark_scan_failed, reached by an exception outside of a transaction.
RecordFailure ==
  /\ pc = "failing"
  /\ IF Exists(This)
     THEN /\ status' = [status EXCEPT ![cur] = "failed"]
          /\ scan' = [scan EXCEPT ![This] = FailedScan]
     ELSE UNCHANGED <<status, scan>>
  /\ Rests
  /\ UNCHANGED <<projects, version, files, results, queue, requests, faults>>

\* process_embedding_task and the handler of its exceptions, seen from the task
\* row.  To update a row that is gone is an error inside a transaction.
StartEmbedding ==
  /\ pc = "embedding"
  /\ IF Exists(This)
     THEN status' = [status EXCEPT ![cur] = "running"] /\ pc' = "embed" /\ UNCHANGED cur
     ELSE Dies /\ UNCHANGED status
  /\ UNCHANGED <<projects, scan, version, files, results, queue, requests, faults>>

FinishedEmbedding_Forgotten == {"running"}
FinishedEmbedding_Cancelled == Settled \cup {"cancelled"}
FinishedEmbedding == Settled

FinishEmbedding ==
  /\ pc = "embed"
  /\ IF Exists(This)
     THEN \E outcome \in FinishedEmbedding :
            status' = [status EXCEPT ![cur] = outcome] /\ Rests
     ELSE Dies /\ UNCHANGED status
  /\ UNCHANGED <<projects, scan, version, files, results, queue, requests, faults>>

InTransaction == {"idle", "load", "store", "open", "publish", "failing", "embedding", "embed"}

\* An exception inside a transaction of the worker: a connection is lost, or the
\* sources themselves raise it, each time they are scanned (a qualified name that two
\* files declare breaks a unique constraint, an operation has no controller).
TransactionFails ==
  /\ "error" \in FaultKinds /\ pc \in InTransaction /\ faults < MaxFaults
  /\ Dies /\ faults' = faults + 1
  /\ UNCHANGED <<rows, queue, requests>>

\* The process ends and starts again: open requests are lost and the new worker
\* has no task.  Start-up changes no task and no scan.
Restarts ==
  /\ pc' = "idle" /\ cur' = None
  /\ locked' = {}
  /\ request' = [s \in Scans |-> IF request[s] \in {"open", "numbered"} THEN "refused"
                                                                       ELSE request[s]]
  /\ UNCHANGED <<rows, queue>>

Crash == "crash" \in FaultKinds /\ faults < MaxFaults /\ faults' = faults + 1 /\ Restarts

\* Somebody restarts the process whose worker is dead.
Revive == pc = "dead" /\ UNCHANGED faults /\ Restarts

WorkerNext ==
  \/ Claim \/ LoadSource \/ DiscoverFiles \/ StoreFiles \/ ParseSources \/ OpenResults
  \/ PublishResults \/ RecordFailure \/ StartEmbedding \/ FinishEmbedding

Next ==
  \/ WorkerNext
  \/ \E s \in Scans : OpenRequest(s) \/ LockProject(s) \/ CommitRequest(s)
  \/ \E p \in Projects : DeleteProject(p)
  \/ TransactionFails
  \/ Crash
  \/ Revive

Spec == Init /\ [][Next]_vars

\* The worker's task is scheduled while the process lives; nobody has to restart
\* a process whose worker is dead.
FairSpec == Spec /\ WF_vars(WorkerNext)

\* A process whose worker is dead is restarted in the end.
AttendedSpec == FairSpec /\ WF_vars(Revive)

----------------------------------------------------------------------------
(* Properties *)

TaskStatus == {"absent", "pending", "running", "succeeded", "failed"}
WorkerPc == {"idle", "load", "discover", "store", "parse", "open", "publish", "failing",
             "embedding", "embed", "dead"}

\* The type invariant: the rows hold the statuses of their enumerations, and the
\* worker and the requests are where the code can be.
TypeOK ==
  /\ projects \subseteq Projects /\ queue \in Seq(Tasks)
  /\ status \in [Tasks -> TaskStatus] /\ scan \in [Scans -> TaskStatus]
  /\ version \in [Scans -> Nat] /\ files \subseteq Scans /\ results \subseteq Scans
  /\ request \in [Scans -> {"new", "open", "numbered", "done", "refused"}]
  /\ locked \subseteq Scans
  /\ pc \in WorkerPc /\ cur \in Tasks \cup {None}
  /\ faults \in 0..MaxFaults

\* The two rows of a scan never disagree, whatever fails, restarts or is deleted
\* (source_scans/service.py 85-121).
ScanMatchesTask == \A s \in Scans : scan[s] = status[ScanTask(s)]

\* Results are published whole: a scan is SUCCEEDED exactly when its results are
\* stored, the embedding task exists exactly then, and nothing is stored for a
\* scan that is gone (task_worker.py 94-110, 117-249).
PublishedWhole ==
  /\ \A s \in Scans : s \in results <=> scan[s] = "succeeded"
  /\ \A s \in Scans : s \in results <=> status[EmbeddingTask(s)] # "absent"
  /\ results \subseteq files /\ \A s \in files : Exists(s)

\* The scans of a project are numbered 1, 2, 3... without gap or repetition,
\* however their requests interleave (source_scans/repository.py 24-29).
VersionsDense ==
  \A p \in projects : {version[s] : s \in Numbered(p)} = 1..Cardinality(Numbered(p))

\* Each RUNNING task is the worker's own or was abandoned by a fault: outside of a
\* crash and of an exception inside a transaction, whatever caused that one, the
\* worker leaves none behind (task_worker.py 56-288).
RunningIsOwned == Cardinality({t \in Tasks \ {cur} : status[t] = "running"}) <= faults

\* A task that reached its end is not processed again (repository.py 78-86).
SettledIsFinal ==
  [][\A t \in Tasks : status[t] \in Settled => status'[t] \in {status[t], "absent"}]_vars

\* As long as no transaction of the worker raises and the process lives, each
\* pending task gets its turn and ends, however many are queued before it, unless
\* its project is deleted.
QueueDrains ==
  [](faults = 0 /\ pc # "dead") =>
    \A t \in Tasks : status[t] = "pending" ~> status[t] \in Settled \cup {"absent"}

\* The design requires that the task boundary records every exception in the
\* task row: a scan that runs does not run for ever.
ClaimedScanSettles == \A s \in Scans : scan[s] = "running" ~> scan[s] # "running"

=============================================================================
