------------------------- MODULE TaskWorker_proofs -------------------------
(***************************************************************************)
(* Proofs about TaskWorker for every set of projects and scans, every kind *)
(* of fault and every bound on faults.                                     *)
(***************************************************************************)
EXTENDS TaskWorker, FiniteSetTheorems, TLAPS

----------------------------------------------------------------------------
(* The inductive invariant of the rows and the worker *)

\* TypeOK without the version numbers, which need an argument of their own.
RowTypes ==
  /\ projects \subseteq Projects /\ queue \in Seq(Tasks)
  /\ status \in [Tasks -> TaskStatus] /\ scan \in [Scans -> TaskStatus]
  /\ files \subseteq Scans /\ results \subseteq Scans
  /\ request \in [Scans -> {"new", "open", "numbered", "done", "refused"}]
  /\ locked \subseteq Scans
  /\ pc \in WorkerPc /\ cur \in Tasks \cup {None}
  /\ faults \in 0..MaxFaults

\* Rows exist only for a request that is done; the requests that have a number are
\* those that hold a lock, at most one for each project.
RequestsOK ==
  /\ \A s \in Scans : Exists(s) => request[s] = "done"
  /\ \A s \in Scans : s \in locked <=> request[s] = "numbered"
  /\ \A s, t \in locked : ProjectOf[s] = ProjectOf[t] => s = t

ScanPc == {"load", "discover", "store", "parse", "open", "publish", "failing"}

\* The worker holds a scan: the row is RUNNING or gone, never to come back, and its
\* files are there once they were stored.
HoldsScan(s) ==
  /\ cur = ScanTask(s) /\ request[s] = "done" /\ scan[s] \in {"running", "absent"}
  /\ pc \in {"parse", "open", "publish"} /\ Exists(s) => s \in files

\* The worker holds an embedding task: it has its status, and results, or is gone.
HoldsEmbedding(s) ==
  /\ cur = EmbeddingTask(s) /\ request[s] = "done"
  /\ Exists(s) => /\ s \in results
                  /\ status[cur] = IF pc = "embedding" THEN "pending" ELSE "running"

AtWork ==
  /\ pc \in {"idle", "dead"} => cur = None
  /\ pc \in ScanPc => \E s \in Scans : HoldsScan(s)
  /\ pc \in {"embedding", "embed"} => \E s \in Scans : HoldsEmbedding(s)

IInv == RowTypes /\ RequestsOK /\ AtWork /\ ScanMatchesTask /\ PublishedWhole

\* The two tasks of a scan, and those of two scans, are different.
LEMMA TaskFacts ==
  /\ \A s \in Scans :
       /\ ScanTask(s) \in Tasks /\ ScanTask(s)[2] = s /\ IsScan(ScanTask(s))
       /\ EmbeddingTask(s) \in Tasks /\ EmbeddingTask(s)[2] = s /\ ~IsScan(EmbeddingTask(s))
  /\ \A s, t \in Scans : ScanTask(s) # EmbeddingTask(t)
  /\ \A s, t \in Scans : ScanTask(s) = ScanTask(t) => s = t
  /\ \A s, t \in Scans : EmbeddingTask(s) = EmbeddingTask(t) => s = t
  /\ \A t \in Tasks : \E s \in Scans : t = ScanTask(s) \/ t = EmbeddingTask(s)
BY DEF ScanTask, EmbeddingTask, Tasks, IsScan

LEMMA InitInv == Init => IInv
<1> SUFFICES ASSUME Init PROVE IInv
  OBVIOUS
<1>1. RowTypes
  BY FaultsAssumption DEF Init, RowTypes, TaskStatus, WorkerPc
<1>2. RequestsOK /\ AtWork
  BY DEF Init, RequestsOK, AtWork, Exists, ScanPc
<1>3. ScanMatchesTask /\ PublishedWhole
  BY TaskFacts DEF Init, ScanMatchesTask, PublishedWhole, Exists
<1>4. QED
  BY <1>1, <1>2, <1>3 DEF IInv

----------------------------------------------------------------------------
(* Each action preserves it: the requests *)

LEMMA OpenRequestStep ==
  ASSUME IInv, NEW s \in Scans, OpenRequest(s)
  PROVE  IInv'
<1> USE DEF IInv
<1>1. /\ request[s] = "new" /\ request' = [request EXCEPT ![s] = "open"]
      /\ UNCHANGED <<rows, locked, worker, faults>>
  BY DEF OpenRequest
<1>2. queue' \in Seq(Tasks)
  BY TaskFacts DEF OpenRequest, RowTypes
<1>3. RowTypes'
  BY <1>1, <1>2 DEF RowTypes, rows, worker
<1>4. RequestsOK' /\ AtWork'
  BY <1>1 DEF RequestsOK, AtWork, HoldsScan, HoldsEmbedding, RowTypes, Exists, rows, worker
<1>5. ScanMatchesTask' /\ PublishedWhole'
  BY <1>1 DEF ScanMatchesTask, PublishedWhole, Exists, rows
<1>6. QED
  BY <1>3, <1>4, <1>5

LEMMA LockProjectStep ==
  ASSUME IInv, NEW s \in Scans, LockProject(s)
  PROVE  IInv'
<1> USE DEF IInv
<1>1. /\ request[s] = "open" /\ request' = [request EXCEPT ![s] = "numbered"]
      /\ locked' = locked \cup {s} /\ LockFree(ProjectOf[s])
      /\ UNCHANGED <<projects, status, scan, files, results, queue, worker, faults>>
  BY DEF LockProject
<1>2. RowTypes'
  BY <1>1 DEF RowTypes, worker
<1>3. RequestsOK'
  BY <1>1 DEF RequestsOK, RowTypes, LockFree, Exists
<1>4. AtWork'
  BY <1>1 DEF AtWork, HoldsScan, HoldsEmbedding, RowTypes, Exists, worker
<1>5. ScanMatchesTask' /\ PublishedWhole'
  BY <1>1 DEF ScanMatchesTask, PublishedWhole, Exists
<1>6. QED
  BY <1>2, <1>3, <1>4, <1>5

LEMMA CommitRequestStep ==
  ASSUME IInv, NEW s \in Scans, CommitRequest(s)
  PROVE  IInv'
<1> USE DEF IInv
<1>1. /\ request[s] = "numbered" /\ locked' = locked \ {s}
      /\ UNCHANGED <<projects, version, files, results, queue, worker, faults>>
  BY DEF CommitRequest
<1>2. CASE request' = [request EXCEPT ![s] = "refused"] /\ UNCHANGED <<status, scan>>
  <2>1. RowTypes'
    BY <1>1, <1>2 DEF RowTypes, worker
  <2>2. RequestsOK' /\ AtWork'
    BY <1>1, <1>2 DEF RequestsOK, AtWork, HoldsScan, HoldsEmbedding, RowTypes, Exists, worker
  <2>3. ScanMatchesTask' /\ PublishedWhole'
    BY <1>1, <1>2 DEF ScanMatchesTask, PublishedWhole, Exists
  <2>4. QED
    BY <2>1, <2>2, <2>3
<1>3. CASE /\ status' = [status EXCEPT ![ScanTask(s)] = "pending"]
           /\ scan' = [scan EXCEPT ![s] = "pending"]
           /\ request' = [request EXCEPT ![s] = "done"]
  <2>1. RowTypes'
    BY <1>1, <1>3, TaskFacts DEF RowTypes, worker, TaskStatus
  <2>2. RequestsOK'
    BY <1>1, <1>3 DEF RequestsOK, RowTypes, Exists
  <2>3. \A t \in Scans : request[t] = "done" => t # s /\ scan'[t] = scan[t]
    BY <1>1, <1>3 DEF RowTypes
  <2>4. \A t \in Scans : status'[EmbeddingTask(t)] = status[EmbeddingTask(t)]
    BY <1>3, TaskFacts DEF RowTypes
  <2>5. AtWork'
    BY <1>1, <1>3, <2>3, <2>4 DEF AtWork, HoldsScan, HoldsEmbedding, RowTypes, Exists, worker
  <2>6. ScanMatchesTask'
    BY <1>3, TaskFacts DEF ScanMatchesTask, RowTypes
  <2>7. PublishedWhole'
    BY <1>1, <1>3, <2>3, <2>4 DEF PublishedWhole, RequestsOK, RowTypes, Exists
  <2>8. QED
    BY <2>1, <2>2, <2>5, <2>6, <2>7
<1>4. QED
  BY <1>2, <1>3 DEF CommitRequest

LEMMA DeleteProjectStep ==
  ASSUME IInv, NEW p \in Projects, DeleteProject(p)
  PROVE  IInv'
<1> USE DEF IInv
<1> DEFINE gone == ScansOf(p)
<1>1. /\ projects' = projects \ {p}
      /\ status' = [t \in Tasks |-> IF t[2] \in gone THEN "absent" ELSE status[t]]
      /\ scan' = [s \in Scans |-> IF s \in gone THEN "absent" ELSE scan[s]]
      /\ files' = files \ gone /\ results' = results \ gone
      /\ UNCHANGED <<version, queue, requests, worker, faults>>
  BY DEF DeleteProject
<1>2. RowTypes'
  BY <1>1 DEF RowTypes, requests, worker, TaskStatus
<1>3. RequestsOK'
  BY <1>1 DEF RequestsOK, RowTypes, Exists, requests
<1>4. \A s \in Scans :
        /\ status'[ScanTask(s)] = IF s \in gone THEN "absent" ELSE status[ScanTask(s)]
        /\ status'[EmbeddingTask(s)] = IF s \in gone THEN "absent" ELSE status[EmbeddingTask(s)]
  BY <1>1, TaskFacts
<1>5. ASSUME NEW s \in Scans PROVE HoldsScan(s) => HoldsScan(s)'
  BY <1>1 DEF HoldsScan, Exists, requests, worker
<1>6. ASSUME NEW s \in Scans PROVE HoldsEmbedding(s) => HoldsEmbedding(s)'
  BY <1>1, <1>4 DEF HoldsEmbedding, Exists, requests, worker
<1>7. AtWork'
  BY <1>1, <1>5, <1>6 DEF AtWork, worker
<1>8. ScanMatchesTask'
  BY <1>1, <1>4 DEF ScanMatchesTask
<1>9. PublishedWhole'
  BY <1>1, <1>4 DEF PublishedWhole, RowTypes, Exists
<1>10. QED
  BY <1>2, <1>3, <1>7, <1>8, <1>9

----------------------------------------------------------------------------
(* ... the worker's tasks *)

LEMMA ClaimStep ==
  ASSUME IInv, Claim
  PROVE  IInv'
<1> USE DEF IInv
<1>1. PICK i \in DOMAIN queue :
        /\ Claimable(queue[i])
        /\ cur' = queue[i]
        /\ IF IsScan(cur')
           THEN /\ status' = [status EXCEPT ![cur'] = "running"]
                /\ scan' = [scan EXCEPT ![cur'[2]] = "running"]
                /\ pc' = "load"
           ELSE /\ pc' = "embedding"
                /\ UNCHANGED <<status, scan>>
        /\ UNCHANGED <<projects, version, files, results, queue, requests, faults>>
  BY DEF Claim
<1>2. queue[i] \in Tasks /\ status[queue[i]] = "pending"
  BY <1>1 DEF RowTypes, Claimable
<1>3. CASE \E s \in Scans : queue[i] = ScanTask(s)
  <2>1. PICK s \in Scans : queue[i] = ScanTask(s)
    BY <1>3
  <2>2. /\ cur' = ScanTask(s) /\ pc' = "load" /\ scan[s] = "pending" /\ s \notin results
        /\ status' = [status EXCEPT ![ScanTask(s)] = "running"]
        /\ scan' = [scan EXCEPT ![s] = "running"]
    BY <1>1, <1>2, <2>1, TaskFacts DEF ScanMatchesTask, PublishedWhole
  <2>3. RowTypes'
    BY <1>1, <2>2, TaskFacts DEF RowTypes, requests, TaskStatus, WorkerPc
  <2>4. RequestsOK'
    BY <1>1, <2>2 DEF RequestsOK, RowTypes, Exists, requests
  <2>5. HoldsScan(s)'
    BY <1>1, <2>2 DEF HoldsScan, RequestsOK, RowTypes, Exists, requests
  <2>6. AtWork'
    BY <2>2, <2>5 DEF AtWork
  <2>7. ScanMatchesTask'
    BY <2>2, TaskFacts DEF ScanMatchesTask, RowTypes
  <2>8. \A t \in Scans : status'[EmbeddingTask(t)] = status[EmbeddingTask(t)]
    BY <2>2, TaskFacts DEF RowTypes
  <2>9. PublishedWhole'
    BY <1>1, <2>2, <2>8 DEF PublishedWhole, RowTypes, Exists
  <2>10. QED
    BY <2>3, <2>4, <2>6, <2>7, <2>9
<1>4. CASE \E s \in Scans : queue[i] = EmbeddingTask(s)
  <2>1. PICK s \in Scans : queue[i] = EmbeddingTask(s)
    BY <1>4
  <2>2. /\ cur' = EmbeddingTask(s) /\ pc' = "embedding"
        /\ UNCHANGED <<projects, status, scan, files, results, queue, request, locked, faults>>
    BY <1>1, <2>1, TaskFacts DEF requests
  <2>3. RowTypes'
    BY <2>2, TaskFacts DEF RowTypes, WorkerPc
  <2>4. /\ s \in results /\ Exists(s) /\ request[s] = "done"
        /\ status[EmbeddingTask(s)] = "pending"
    BY <1>2, <2>1 DEF PublishedWhole, RequestsOK, RowTypes, Exists
  <2>5. HoldsEmbedding(s)'
    BY <2>2, <2>4 DEF HoldsEmbedding, Exists
  <2>6. AtWork'
    BY <2>2, <2>5 DEF AtWork, ScanPc
  <2>7. RequestsOK' /\ ScanMatchesTask' /\ PublishedWhole'
    BY <2>2 DEF RequestsOK, ScanMatchesTask, PublishedWhole, Exists
  <2>8. QED
    BY <2>3, <2>6, <2>7
<1>5. QED
  BY <1>2, <1>3, <1>4, TaskFacts

\* A step that changes no row leaves every scan and embedding task held as it was.
LEMMA ReadingStep ==
  ASSUME IInv, NEW s \in Scans, HoldsScan(s), UNCHANGED <<rows, requests, cur, faults>>,
         queue' \in Seq(Tasks),
         pc' \in {"discover", "store", "failing", "parse", "open", "publish"},
         pc' \in {"parse", "open", "publish"} => pc \in {"parse", "open", "publish"}
  PROVE  IInv'
<1> USE DEF IInv
<1>1. RowTypes'
  BY DEF RowTypes, rows, requests, WorkerPc
<1>2. HoldsScan(s)'
  BY DEF HoldsScan, Exists, rows, requests
<1>3. AtWork'
  BY <1>2 DEF AtWork, ScanPc
<1>4. RequestsOK' /\ ScanMatchesTask' /\ PublishedWhole'
  BY DEF RequestsOK, ScanMatchesTask, PublishedWhole, Exists, rows, requests
<1>5. QED
  BY <1>1, <1>3, <1>4

\* The worker drops its task, with no row changed.
LEMMA DroppingStep ==
  ASSUME IInv, UNCHANGED <<rows, queue, requests>>, faults' \in 0..MaxFaults,
         Dies \/ Rests
  PROVE  IInv'
<1> USE DEF IInv
<1>1. RowTypes'
  BY DEF RowTypes, rows, requests, Dies, Rests, WorkerPc
<1>2. AtWork'
  BY DEF AtWork, Dies, Rests, ScanPc
<1>3. RequestsOK' /\ ScanMatchesTask' /\ PublishedWhole'
  BY DEF RequestsOK, ScanMatchesTask, PublishedWhole, Exists, rows, requests
<1>4. QED
  BY <1>1, <1>2, <1>3

\* In the states of a scan's processing, This is the scan that the worker holds.
LEMMA ScanHeld ==
  ASSUME IInv, pc \in ScanPc
  PROVE  \E s \in Scans : HoldsScan(s) /\ This = s /\ cur = ScanTask(s)
BY TaskFacts DEF IInv, AtWork, HoldsScan, This

LEMMA EmbeddingHeld ==
  ASSUME IInv, pc \in {"embedding", "embed"}
  PROVE  \E s \in Scans : HoldsEmbedding(s) /\ This = s /\ cur = EmbeddingTask(s)
BY TaskFacts DEF IInv, AtWork, HoldsEmbedding, This

LEMMA LoadSourceStep ==
  ASSUME IInv, LoadSource
  PROVE  IInv'
<1>1. PICK s \in Scans : HoldsScan(s) /\ This = s
  BY ScanHeld DEF LoadSource, ScanPc
<1>2. queue' \in Seq(Tasks) /\ faults' \in 0..MaxFaults
  BY DEF LoadSource, IInv, RowTypes
<1>3. CASE pc' = "discover" /\ UNCHANGED cur
  BY <1>1, <1>2, <1>3, ReadingStep DEF LoadSource
<1>4. CASE Dies
  BY <1>2, <1>4, DroppingStep DEF LoadSource
<1>5. QED
  BY <1>3, <1>4 DEF LoadSource

LEMMA DiscoverFilesStep ==
  ASSUME IInv, DiscoverFiles
  PROVE  IInv'
<1>1. PICK s \in Scans : HoldsScan(s) /\ This = s
  BY ScanHeld DEF DiscoverFiles, ScanPc
<1>2. queue' \in Seq(Tasks)
  BY DEF DiscoverFiles, IInv, RowTypes
<1>3. QED
  BY <1>1, <1>2, ReadingStep DEF DiscoverFiles

LEMMA ParseSourcesStep ==
  ASSUME IInv, ParseSources
  PROVE  IInv'
<1>1. PICK s \in Scans : HoldsScan(s) /\ This = s
  BY ScanHeld DEF ParseSources, ScanPc
<1>2. queue' \in Seq(Tasks)
  BY DEF ParseSources, IInv, RowTypes
<1>3. QED
  BY <1>1, <1>2, ReadingStep DEF ParseSources

LEMMA OpenResultsStep ==
  ASSUME IInv, OpenResults
  PROVE  IInv'
<1>1. PICK s \in Scans : HoldsScan(s) /\ This = s
  BY ScanHeld DEF OpenResults, ScanPc
<1>2. faults' \in 0..MaxFaults
  BY DEF OpenResults, IInv, RowTypes
<1>3. CASE queue' = Append(queue, EmbeddingTask(This)) /\ pc' = "publish" /\ UNCHANGED cur
  <2>1. queue' \in Seq(Tasks)
    BY <1>1, <1>3, TaskFacts DEF IInv, RowTypes
  <2>2. QED
    BY <1>1, <1>3, <2>1, ReadingStep DEF OpenResults
<1>4. CASE Rests /\ UNCHANGED queue
  BY <1>2, <1>4, DroppingStep DEF OpenResults
<1>5. QED
  BY <1>3, <1>4 DEF OpenResults

LEMMA StoreFilesStep ==
  ASSUME IInv, StoreFiles
  PROVE  IInv'
<1>1. PICK s \in Scans : HoldsScan(s) /\ This = s
  BY ScanHeld DEF StoreFiles, ScanPc
<1>2. /\ UNCHANGED <<projects, status, scan, version, results, queue, requests, faults>>
      /\ pc = "store"
  BY DEF StoreFiles
<1>3. CASE Exists(s) /\ files' = files \cup {s} /\ pc' = "parse" /\ UNCHANGED cur
  <2> USE DEF IInv
  <2>1. RowTypes'
    BY <1>2, <1>3 DEF RowTypes, requests, WorkerPc
  <2>2. HoldsScan(s)'
    BY <1>1, <1>2, <1>3 DEF HoldsScan, Exists, requests
  <2>3. AtWork'
    BY <1>3, <2>2 DEF AtWork
  <2>4. RequestsOK' /\ ScanMatchesTask' /\ PublishedWhole'
    BY <1>2, <1>3 DEF RequestsOK, ScanMatchesTask, PublishedWhole, Exists, requests
  <2>5. QED
    BY <2>1, <2>3, <2>4
<1>4. CASE Rests /\ UNCHANGED files
  <2>1. faults' \in 0..MaxFaults
    BY <1>2 DEF IInv, RowTypes
  <2>2. QED
    BY <1>2, <1>4, <2>1, DroppingStep DEF rows
<1>5. QED
  BY <1>1, <1>3, <1>4 DEF StoreFiles

LEMMA PublishResultsStep ==
  ASSUME IInv, PublishResults
  PROVE  IInv'
<1> USE DEF IInv
<1>1. PICK s \in Scans : HoldsScan(s) /\ This = s /\ cur = ScanTask(s)
  BY ScanHeld DEF PublishResults, ScanPc
<1>2. /\ UNCHANGED <<projects, version, files, queue, requests, faults>>
      /\ pc = "publish"
  BY DEF PublishResults
<1>3. CASE Exists(s)
  <2>1. /\ results' = results \cup {s}
        /\ status' = [status EXCEPT ![ScanTask(s)] = "succeeded",
                                    ![EmbeddingTask(s)] = "pending"]
        /\ scan' = [scan EXCEPT ![s] = "succeeded"]
        /\ Rests
    BY <1>1, <1>3 DEF PublishResults, EmbeddingQueued, SucceededScan, Exists
  <2>2. s \in files /\ request[s] = "done"
    BY <1>1, <1>2, <1>3 DEF HoldsScan
  <2>3. RowTypes'
    BY <1>2, <2>1, TaskFacts DEF RowTypes, Rests, requests, TaskStatus, WorkerPc
  <2>4. RequestsOK'
    BY <1>2, <2>1, <2>2 DEF RequestsOK, RowTypes, Exists, requests
  <2>5. AtWork'
    BY <2>1 DEF AtWork, Rests, ScanPc
  <2>6. \A t \in Scans :
          /\ status'[ScanTask(t)] = IF t = s THEN "succeeded" ELSE status[ScanTask(t)]
          /\ status'[EmbeddingTask(t)] = IF t = s THEN "pending" ELSE status[EmbeddingTask(t)]
    BY <2>1, TaskFacts DEF RowTypes
  <2>7. ScanMatchesTask'
    BY <2>1, <2>6 DEF ScanMatchesTask, RowTypes
  <2>8. PublishedWhole'
    <3>1. \A t \in Scans : scan'[t] = IF t = s THEN "succeeded" ELSE scan[t]
      BY <2>1 DEF RowTypes
    <3>2. \A t \in Scans : t \in results' <=> scan'[t] = "succeeded"
      BY <2>1, <3>1 DEF PublishedWhole
    <3>3. \A t \in Scans : t \in results' <=> status'[EmbeddingTask(t)] # "absent"
      <4> TAKE t \in Scans
      <4>1. results' = results \cup {s}
        BY <2>1
      <4>2. t \in results <=> status[EmbeddingTask(t)] # "absent"
        BY DEF PublishedWhole
      <4>3. status'[EmbeddingTask(t)] = IF t = s THEN "pending" ELSE status[EmbeddingTask(t)]
        BY <2>6
      <4>4. QED
        BY <4>1, <4>2, <4>3
    <3>4. results' \subseteq files' /\ \A t \in files' : Exists(t)'
      BY <1>2, <2>1, <2>2, <3>1 DEF PublishedWhole, RowTypes, Exists
    <3>5. QED
      BY <3>2, <3>3, <3>4 DEF PublishedWhole
  <2>9. QED
    BY <2>3, <2>4, <2>5, <2>7, <2>8
<1>4. CASE ~Exists(s)
  <2>1. Dies /\ UNCHANGED <<results, status, scan>>
    BY <1>1, <1>4 DEF PublishResults
  <2>2. faults' \in 0..MaxFaults
    BY <1>2 DEF RowTypes
  <2>3. QED
    BY <1>2, <2>1, <2>2, DroppingStep DEF rows
<1>5. QED
  BY <1>3, <1>4

LEMMA RecordFailureStep ==
  ASSUME IInv, RecordFailure
  PROVE  IInv'
<1> USE DEF IInv
<1>1. PICK s \in Scans : HoldsScan(s) /\ This = s /\ cur = ScanTask(s)
  BY ScanHeld DEF RecordFailure, ScanPc
<1>2. Rests /\ UNCHANGED <<projects, version, files, results, queue, requests, faults>>
  BY DEF RecordFailure
<1>3. CASE Exists(s)
  <2>1. /\ status' = [status EXCEPT ![ScanTask(s)] = "failed"]
        /\ scan' = [scan EXCEPT ![s] = "failed"]
    BY <1>1, <1>3 DEF RecordFailure, FailedScan
  <2>2. scan[s] = "running" /\ request[s] = "done"
    BY <1>1, <1>3 DEF HoldsScan, Exists
  <2>3. RowTypes'
    BY <1>2, <2>1, TaskFacts DEF RowTypes, Rests, requests, TaskStatus, WorkerPc
  <2>4. RequestsOK'
    BY <1>2, <2>1, <2>2 DEF RequestsOK, RowTypes, Exists, requests
  <2>5. AtWork'
    BY <1>2 DEF AtWork, Rests, ScanPc
  <2>6. ScanMatchesTask'
    BY <2>1, TaskFacts DEF ScanMatchesTask, RowTypes
  <2>7. \A t \in Scans : status'[EmbeddingTask(t)] = status[EmbeddingTask(t)]
    BY <2>1, TaskFacts DEF RowTypes
  <2>8. PublishedWhole'
    BY <1>2, <2>1, <2>2, <2>7 DEF PublishedWhole, RowTypes, Exists
  <2>9. QED
    BY <2>3, <2>4, <2>5, <2>6, <2>8
<1>4. CASE ~Exists(s)
  <2>1. UNCHANGED <<status, scan>>
    BY <1>1, <1>4 DEF RecordFailure
  <2>2. faults' \in 0..MaxFaults
    BY <1>2 DEF RowTypes
  <2>3. QED
    BY <1>2, <2>1, <2>2, DroppingStep DEF rows
<1>5. QED
  BY <1>3, <1>4

\* A step that changes only the status of the worker's own embedding task, whose scan
\* exists: the rows of the scans do not notice.
LEMMA EmbeddingStatusStep ==
  ASSUME IInv, NEW s \in Scans, HoldsEmbedding(s), Exists(s), NEW st \in TaskStatus,
         st # "absent", status' = [status EXCEPT ![cur] = st],
         UNCHANGED <<projects, scan, version, files, results, queue, requests, faults>>
  PROVE  /\ status' \in [Tasks -> TaskStatus]
         /\ RequestsOK' /\ ScanMatchesTask' /\ PublishedWhole'
<1> USE DEF IInv
<1>1. cur = EmbeddingTask(s) /\ s \in results
  BY DEF HoldsEmbedding
<1>2. status' \in [Tasks -> TaskStatus] /\ RequestsOK'
  BY DEF RowTypes, RequestsOK, Exists, requests
<1>3. \A t \in Scans :
        /\ status'[ScanTask(t)] = status[ScanTask(t)]
        /\ status'[EmbeddingTask(t)] = IF t = s THEN st ELSE status[EmbeddingTask(t)]
  BY <1>1, TaskFacts DEF RowTypes
<1>4. ScanMatchesTask'
  BY <1>3 DEF ScanMatchesTask
<1>5. PublishedWhole'
  BY <1>1, <1>3 DEF PublishedWhole, RowTypes, Exists
<1>6. QED
  BY <1>2, <1>4, <1>5

LEMMA StartEmbeddingStep ==
  ASSUME IInv, StartEmbedding
  PROVE  IInv'
<1> USE DEF IInv
<1>1. PICK s \in Scans : HoldsEmbedding(s) /\ This = s /\ cur = EmbeddingTask(s)
  BY EmbeddingHeld DEF StartEmbedding
<1>2. UNCHANGED <<projects, scan, version, files, results, queue, requests, faults>>
  BY DEF StartEmbedding
<1>3. CASE Exists(s)
  <2>1. status' = [status EXCEPT ![cur] = "running"] /\ pc' = "embed" /\ UNCHANGED cur
    BY <1>1, <1>3 DEF StartEmbedding
  <2>2. /\ status' \in [Tasks -> TaskStatus]
        /\ RequestsOK' /\ ScanMatchesTask' /\ PublishedWhole'
    BY <1>1, <1>2, <1>3, <2>1, EmbeddingStatusStep DEF TaskStatus
  <2>3. RowTypes'
    BY <1>2, <2>1, <2>2 DEF RowTypes, requests, WorkerPc
  <2>4. HoldsEmbedding(s)'
    BY <1>1, <1>2, <2>1, TaskFacts DEF HoldsEmbedding, RowTypes, Exists, requests
  <2>5. AtWork'
    BY <2>1, <2>4 DEF AtWork, ScanPc
  <2>6. QED
    BY <2>2, <2>3, <2>5
<1>4. CASE ~Exists(s)
  <2>1. Dies /\ UNCHANGED status
    BY <1>1, <1>4 DEF StartEmbedding
  <2>2. faults' \in 0..MaxFaults
    BY <1>2 DEF RowTypes
  <2>3. QED
    BY <1>2, <2>1, <2>2, DroppingStep DEF rows
<1>5. QED
  BY <1>3, <1>4

LEMMA FinishEmbeddingStep ==
  ASSUME IInv, FinishEmbedding
  PROVE  IInv'
<1> USE DEF IInv
<1>1. PICK s \in Scans : HoldsEmbedding(s) /\ This = s /\ cur = EmbeddingTask(s)
  BY EmbeddingHeld DEF FinishEmbedding
<1>2. UNCHANGED <<projects, scan, version, files, results, queue, requests, faults>>
  BY DEF FinishEmbedding
<1>3. CASE Exists(s)
  <2>1. PICK outcome \in {"succeeded", "failed"} : status' = [status EXCEPT ![cur] = outcome] /\ Rests
    BY <1>1, <1>3 DEF FinishEmbedding, FinishedEmbedding, Settled
  <2>2. /\ status' \in [Tasks -> TaskStatus]
        /\ RequestsOK' /\ ScanMatchesTask' /\ PublishedWhole'
    BY <1>1, <1>2, <1>3, <2>1, EmbeddingStatusStep DEF TaskStatus
  <2>3. RowTypes'
    BY <1>2, <2>1, <2>2 DEF RowTypes, Rests, requests, WorkerPc
  <2>4. AtWork'
    BY <2>1 DEF AtWork, Rests, ScanPc
  <2>5. QED
    BY <2>2, <2>3, <2>4
<1>4. CASE ~Exists(s)
  <2>1. Dies /\ UNCHANGED status
    BY <1>1, <1>4 DEF FinishEmbedding
  <2>2. faults' \in 0..MaxFaults
    BY <1>2 DEF RowTypes
  <2>3. QED
    BY <1>2, <2>1, <2>2, DroppingStep DEF rows
<1>5. QED
  BY <1>3, <1>4

----------------------------------------------------------------------------
(* ... and the faults *)

LEMMA TransactionFailsStep ==
  ASSUME IInv, TransactionFails
  PROVE  IInv'
<1>1. faults' \in 0..MaxFaults
  BY FaultsAssumption DEF TransactionFails, IInv, RowTypes
<1>2. QED
  BY <1>1, DroppingStep DEF TransactionFails

LEMMA RestartsStep ==
  ASSUME IInv, Restarts, faults' \in 0..MaxFaults
  PROVE  IInv'
<1> USE DEF IInv, Restarts
<1>1. RowTypes'
  BY DEF RowTypes, rows, WorkerPc
<1>2. RequestsOK'
  BY DEF RequestsOK, RowTypes, Exists, rows
<1>3. AtWork'
  BY DEF AtWork, ScanPc
<1>4. ScanMatchesTask' /\ PublishedWhole'
  BY DEF ScanMatchesTask, PublishedWhole, Exists, rows
<1>5. QED
  BY <1>1, <1>2, <1>3, <1>4

LEMMA StutteringStep ==
  ASSUME IInv, UNCHANGED vars
  PROVE  IInv'
BY DEF IInv, RowTypes, RequestsOK, AtWork, HoldsScan, HoldsEmbedding, ScanMatchesTask,
       PublishedWhole, Exists, vars, rows, requests, worker

LEMMA NextInv == IInv /\ [Next]_vars => IInv'
<1> SUFFICES ASSUME IInv, [Next]_vars PROVE IInv'
  OBVIOUS
<1>1. CASE WorkerNext
  BY <1>1, ClaimStep, LoadSourceStep, DiscoverFilesStep, StoreFilesStep, ParseSourcesStep,
     OpenResultsStep, PublishResultsStep, RecordFailureStep, StartEmbeddingStep,
     FinishEmbeddingStep DEF WorkerNext
<1>2. CASE \E s \in Scans : OpenRequest(s) \/ LockProject(s) \/ CommitRequest(s)
  BY <1>2, OpenRequestStep, LockProjectStep, CommitRequestStep
<1>3. CASE \E p \in Projects : DeleteProject(p)
  BY <1>3, DeleteProjectStep
<1>4. CASE TransactionFails
  BY <1>4, TransactionFailsStep
<1>5. CASE Crash \/ Revive
  <2>1. Restarts /\ faults' \in 0..MaxFaults
    BY <1>5, FaultsAssumption DEF Crash, Revive, IInv, RowTypes
  <2>2. QED
    BY <2>1, RestartsStep
<1>6. CASE UNCHANGED vars
  BY <1>6, StutteringStep
<1>7. QED
  BY <1>1, <1>2, <1>3, <1>4, <1>5, <1>6 DEF Next

----------------------------------------------------------------------------
(* The theorems *)

\* Every state the queue reaches satisfies the inductive invariant.
THEOREM Invariant == Spec => []IInv
BY InitInv, NextInv, PTL DEF Spec

\* The status of a scan and the status of its task never disagree.
THEOREM MatchingRows == Spec => []ScanMatchesTask
<1>1. IInv => ScanMatchesTask
  BY DEF IInv
<1>2. QED
  BY Invariant, <1>1, PTL

\* Results, SUCCEEDED status and the embedding task appear and disappear together.
THEOREM WholePublication == Spec => []PublishedWhole
<1>1. IInv => PublishedWhole
  BY DEF IInv
<1>2. QED
  BY Invariant, <1>1, PTL

\* A task that is claimed, started, finished, published or failed was not settled, and
\* a task that a request or a publication creates had no row.
LEMMA SettledStep ==
  ASSUME IInv, Next, NEW t \in Tasks, status[t] \in Settled
  PROVE  status'[t] \in {status[t], "absent"}
<1> USE DEF IInv, Settled
<1>1. CASE Claim
  <2>1. \E i \in DOMAIN queue :
          /\ status[queue[i]] = "pending"
          /\ \/ status' = [status EXCEPT ![queue[i]] = "running"]
             \/ UNCHANGED status
    BY <1>1 DEF Claim, Claimable
  <2>2. QED
    BY <2>1 DEF RowTypes
<1>2. CASE PublishResults
  <2>1. PICK s \in Scans : HoldsScan(s) /\ This = s /\ cur = ScanTask(s)
    BY <1>2, ScanHeld DEF PublishResults, ScanPc
  <2>2. Exists(s) => status[cur] = "running" /\ status[EmbeddingTask(s)] = "absent"
    BY <2>1, TaskFacts DEF HoldsScan, ScanMatchesTask, PublishedWhole, Exists
  <2>3. t = cur \/ t = EmbeddingTask(s) => ~Exists(s)
    BY <2>2
  <2>4. QED
    BY <1>2, <2>1, <2>3 DEF PublishResults, RowTypes
<1>3. CASE RecordFailure
  <2>1. PICK s \in Scans : HoldsScan(s) /\ This = s /\ cur = ScanTask(s)
    BY <1>3, ScanHeld DEF RecordFailure, ScanPc
  <2>2. Exists(s) => status[cur] = "running"
    BY <2>1 DEF HoldsScan, ScanMatchesTask, Exists
  <2>3. QED
    BY <1>3, <2>1, <2>2 DEF RecordFailure, RowTypes
<1>4. CASE StartEmbedding \/ FinishEmbedding
  <2>1. PICK s \in Scans : HoldsEmbedding(s) /\ This = s
    BY <1>4, EmbeddingHeld DEF StartEmbedding, FinishEmbedding
  <2>2. Exists(s) => status[cur] \in {"pending", "running"}
    BY <2>1 DEF HoldsEmbedding
  <2>3. QED
    BY <1>4, <2>1, <2>2 DEF StartEmbedding, FinishEmbedding, RowTypes
<1>5. CASE LoadSource \/ DiscoverFiles \/ StoreFiles \/ ParseSources \/ OpenResults
  BY <1>5 DEF LoadSource, DiscoverFiles, StoreFiles, ParseSources, OpenResults, rows
<1>6. ASSUME NEW s \in Scans, CommitRequest(s)
      PROVE  status'[t] = status[t]
  <2>1. request[s] = "numbered"
    BY <1>6 DEF CommitRequest
  <2>2. status[ScanTask(s)] = "absent"
    BY <2>1 DEF RequestsOK, ScanMatchesTask, Exists
  <2>3. t # ScanTask(s)
    BY <2>2
  <2>4. QED
    BY <1>6, <2>3 DEF CommitRequest, RowTypes
<1>7. ASSUME NEW s \in Scans, OpenRequest(s) \/ LockProject(s)
      PROVE  status'[t] = status[t]
  BY <1>7 DEF OpenRequest, LockProject, rows
<1>8. ASSUME NEW p \in Projects, DeleteProject(p)
      PROVE  status'[t] \in {status[t], "absent"}
  BY <1>8 DEF DeleteProject
<1>9. CASE TransactionFails \/ Crash \/ Revive
  BY <1>9 DEF TransactionFails, Crash, Revive, Restarts, rows
<1>10. QED
  BY <1>1, <1>2, <1>3, <1>4, <1>5, <1>6, <1>7, <1>8, <1>9 DEF Next, WorkerNext

\* A settled task is never processed again: its status stays, or its row goes.
THEOREM SettledStays == Spec => SettledIsFinal
<1>1. IInv /\ [Next]_vars
        => [\A t \in Tasks : status[t] \in Settled => status'[t] \in {status[t], "absent"}]_vars
  BY SettledStep
<1>2. QED
  BY Invariant, <1>1, PTL DEF Spec, SettledIsFinal

----------------------------------------------------------------------------
(* The numbers of the scans *)

\* The scans of a project are numbered 1, 2, 3..., and a request that holds the lock
\* of its project has the next number, which stays the next one until it commits.
Dense(p) ==
  /\ IsFiniteSet(Numbered(p))
  /\ {version[s] : s \in Numbered(p)} = 1..Cardinality(Numbered(p))

NumbersInv ==
  /\ version \in [Scans -> Nat]
  /\ \A p \in Projects : Dense(p)
  /\ \A s \in Scans : request[s] = "numbered" =>
       version[s] = 1 + Cardinality(Numbered(ProjectOf[s]))

\* The largest number in use.
LEMMA MaxOfRange ==
  ASSUME NEW n \in Nat
  PROVE  Max({0} \cup 1..n) = n
<1> DEFINE S == {0} \cup 1..n
<1>1. n \in S /\ \A y \in S : y \in Nat /\ n >= y
  OBVIOUS
<1>2. \A x \in S : (\A y \in S : x >= y) => x = n
  BY <1>1
<1>3. QED
  BY <1>1, <1>2 DEF Max

LEMMA InitNumbers == Init => NumbersInv
<1> SUFFICES ASSUME Init PROVE NumbersInv
  OBVIOUS
<1>1. \A p \in Projects : Numbered(p) = {}
  BY DEF Init, Numbered, ScansOf, Exists
<1>2. \A p \in Projects : Dense(p)
  BY <1>1, FS_EmptySet DEF Dense
<1>3. QED
  BY <1>2 DEF Init, NumbersInv

\* A step that creates and deletes no scan and numbers no request.
LEMMA SameNumbers ==
  ASSUME NumbersInv, UNCHANGED version,
         \A s \in Scans : Exists(s)' <=> Exists(s),
         \A s \in Scans : request'[s] = "numbered" => request[s] = "numbered"
  PROVE  NumbersInv'
<1>1. \A p : Numbered(p)' = Numbered(p)
  BY DEF Numbered, ScansOf
<1>2. QED
  BY <1>1, ProjectAssumption DEF NumbersInv, Dense

LEMMA LockProjectNumbers ==
  ASSUME IInv, NumbersInv, NEW s \in Scans, LockProject(s)
  PROVE  NumbersInv'
<1> DEFINE q == ProjectOf[s]
<1>1. /\ request[s] = "open" /\ request' = [request EXCEPT ![s] = "numbered"]
      /\ version' = [version EXCEPT ![s] =
                       1 + Max({0} \cup {version[o] : o \in Numbered(q)})]
      /\ UNCHANGED scan
  BY DEF LockProject
<1>2. Dense(q) /\ q \in Projects
  BY ProjectAssumption DEF NumbersInv
<1>3. Cardinality(Numbered(q)) \in Nat
  BY <1>2, FS_CardinalityType DEF Dense
<1>4. Max({0} \cup {version[o] : o \in Numbered(q)}) = Cardinality(Numbered(q))
  BY <1>2, <1>3, MaxOfRange DEF Dense
<1>5. version' = [version EXCEPT ![s] = 1 + Cardinality(Numbered(q))]
  BY <1>1, <1>4
<1>6. \A p : Numbered(p)' = Numbered(p)
  BY <1>1 DEF Numbered, ScansOf, Exists
<1>7. \A p : \A o \in Numbered(p) : o # s /\ version'[o] = version[o]
  BY <1>1, <1>5 DEF Numbered, ScansOf, Exists, IInv, RequestsOK, NumbersInv
<1>8. ASSUME NEW p \in Projects
      PROVE  Dense(p)'
  <2>1. {version'[o] : o \in Numbered(p)} = {version[o] : o \in Numbered(p)}
    BY <1>7
  <2>2. QED
    BY <1>6, <2>1 DEF NumbersInv, Dense
<1>9. version' \in [Scans -> Nat]
  BY <1>3, <1>5 DEF NumbersInv
<1>10. \A t \in Scans : request'[t] = "numbered" =>
         version'[t] = 1 + Cardinality(Numbered(ProjectOf[t])')
  BY <1>1, <1>5, <1>6 DEF NumbersInv, IInv, RowTypes
<1>11. QED
  BY <1>8, <1>9, <1>10 DEF NumbersInv

LEMMA CommitRequestNumbers ==
  ASSUME IInv, NumbersInv, NEW s \in Scans, CommitRequest(s)
  PROVE  NumbersInv'
<1> DEFINE q == ProjectOf[s]
<1>1. request[s] = "numbered" /\ UNCHANGED version
  BY DEF CommitRequest
<1>2. CASE request' = [request EXCEPT ![s] = "refused"] /\ UNCHANGED scan
  BY <1>1, <1>2, SameNumbers DEF Exists, IInv, RowTypes
<1>3. CASE /\ scan' = [scan EXCEPT ![s] = "pending"]
           /\ request' = [request EXCEPT ![s] = "done"]
  <2>1. \A p : Numbered(p)' = IF p = q THEN Numbered(p) \cup {s} ELSE Numbered(p)
    BY <1>3 DEF Numbered, ScansOf, Exists, IInv, RowTypes
  <2>2. s \notin Numbered(q)
    BY <1>1 DEF Numbered, Exists, IInv, RequestsOK
  <2>3. Dense(q) /\ q \in Projects
    BY ProjectAssumption DEF NumbersInv
  <2>4. /\ IsFiniteSet(Numbered(q)')
        /\ Cardinality(Numbered(q)') = Cardinality(Numbered(q)) + 1
        /\ Cardinality(Numbered(q)) \in Nat
    BY <2>1, <2>2, <2>3, FS_AddElement, FS_CardinalityType DEF Dense
  <2>5. version[s] = 1 + Cardinality(Numbered(q))
    BY <1>1 DEF NumbersInv
  <2>6. {version'[o] : o \in Numbered(q)'} = {version[o] : o \in Numbered(q)} \cup {version[s]}
    BY <1>1, <2>1
  <2>7. {version'[o] : o \in Numbered(q)'} = 1..Cardinality(Numbered(q)')
    BY <2>3, <2>4, <2>5, <2>6 DEF Dense
  <2>8. Dense(q)'
    BY <2>4, <2>7 DEF Dense
  <2>9. \A p \in Projects : p # q => Dense(p)'
    BY <1>1, <2>1 DEF Dense, NumbersInv
  <2>10. ASSUME NEW t \in Scans, request'[t] = "numbered"
         PROVE  version'[t] = 1 + Cardinality(Numbered(ProjectOf[t])')
    <3>1. request[t] = "numbered" /\ t # s
      BY <1>3, <2>10 DEF IInv, RowTypes
    <3>2. ProjectOf[t] # q
      BY <1>1, <3>1 DEF IInv, RequestsOK
    <3>3. QED
      BY <1>1, <2>1, <3>1, <3>2 DEF NumbersInv
  <2>11. QED
    BY <1>1, <2>8, <2>9, <2>10 DEF NumbersInv
<1>4. QED
  BY <1>2, <1>3 DEF CommitRequest

LEMMA DeleteProjectNumbers ==
  ASSUME IInv, NumbersInv, NEW p \in Projects, DeleteProject(p)
  PROVE  NumbersInv'
<1>1. /\ LockFree(p) /\ UNCHANGED <<version, request>>
      /\ scan' = [s \in Scans |-> IF s \in ScansOf(p) THEN "absent" ELSE scan[s]]
  BY DEF DeleteProject, requests
<1>2. \A o : Numbered(o)' = IF o = p THEN {} ELSE Numbered(o)
  BY <1>1 DEF Numbered, ScansOf, Exists
<1>3. Dense(p)'
  BY <1>2, FS_EmptySet DEF Dense
<1>4. \A o \in Projects : o # p => Dense(o)'
  BY <1>1, <1>2 DEF Dense, NumbersInv
<1>5. \A s \in Scans : request[s] = "numbered" => ProjectOf[s] # p
  BY <1>1 DEF LockFree, IInv, RequestsOK
<1>6. QED
  BY <1>1, <1>2, <1>3, <1>4, <1>5 DEF NumbersInv

LEMMA NextNumbers == IInv /\ NumbersInv /\ [Next]_vars => NumbersInv'
<1> SUFFICES ASSUME IInv, NumbersInv, [Next]_vars PROVE NumbersInv'
  OBVIOUS
<1>1. CASE Claim
  <2>1. PICK i \in DOMAIN queue :
          /\ status[queue[i]] = "pending"
          /\ IF IsScan(queue[i]) THEN scan' = [scan EXCEPT ![queue[i][2]] = "running"]
                                 ELSE UNCHANGED scan
    BY <1>1 DEF Claim, Claimable
  <2>2. queue[i] \in Tasks
    BY DEF IInv, RowTypes
  <2>3. IsScan(queue[i]) => \E s \in Scans : queue[i][2] = s /\ scan[s] = "pending"
    BY <2>1, <2>2, TaskFacts DEF IInv, ScanMatchesTask
  <2>4. \A s \in Scans : Exists(s)' <=> Exists(s)
    BY <2>1, <2>3 DEF Exists, IInv, RowTypes
  <2>5. QED
    BY <1>1, <2>4, SameNumbers DEF Claim, requests
<1>2. CASE PublishResults \/ RecordFailure
  <2>1. \A s \in Scans : Exists(s)' <=> Exists(s)
    BY <1>2 DEF PublishResults, RecordFailure, SucceededScan, FailedScan, Exists, IInv, RowTypes
  <2>2. QED
    BY <1>2, <2>1, SameNumbers DEF PublishResults, RecordFailure, requests
<1>3. CASE \/ LoadSource \/ DiscoverFiles \/ StoreFiles \/ ParseSources \/ OpenResults
           \/ StartEmbedding \/ FinishEmbedding \/ TransactionFails \/ UNCHANGED vars
  <2>1. UNCHANGED <<scan, version, request>>
    BY <1>3 DEF LoadSource, DiscoverFiles, StoreFiles, ParseSources, OpenResults, StartEmbedding,
                FinishEmbedding, TransactionFails, vars, rows, requests
  <2>2. QED
    BY <2>1, SameNumbers DEF Exists
<1>4. CASE Crash \/ Revive
  BY <1>4, SameNumbers DEF Crash, Revive, Restarts, Exists, rows
<1>5. ASSUME NEW s \in Scans, OpenRequest(s)
      PROVE  NumbersInv'
  BY <1>5, SameNumbers DEF OpenRequest, Exists, rows, IInv, RowTypes
<1>6. QED
  BY <1>1, <1>2, <1>3, <1>4, <1>5, LockProjectNumbers, CommitRequestNumbers,
     DeleteProjectNumbers DEF Next, WorkerNext

LEMMA Numbers == Spec => []NumbersInv
<1>1. Init => NumbersInv
  BY InitNumbers
<1>2. QED
  BY Invariant, <1>1, NextNumbers, PTL DEF Spec

\* Every variable has its type.
THEOREM TypeCorrect == Spec => []TypeOK
<1>1. IInv /\ NumbersInv => TypeOK
  BY DEF IInv, RowTypes, NumbersInv, TypeOK
<1>2. QED
  BY Invariant, Numbers, <1>1, PTL

\* The scans of a project are numbered without gap or repetition.
THEOREM DenseVersions == Spec => []VersionsDense
<1>1. IInv /\ NumbersInv => VersionsDense
  BY DEF IInv, RowTypes, NumbersInv, Dense, VersionsDense
<1>2. QED
  BY Invariant, Numbers, <1>1, PTL

----------------------------------------------------------------------------
(* The tasks that nobody processes although they are RUNNING *)

Abandoned == {t \in Tasks \ {cur} : status[t] = "running"}

OwnedInv == IsFiniteSet(Abandoned) /\ Cardinality(Abandoned) <= faults

LEMMA InitOwned == Init => OwnedInv
<1> SUFFICES ASSUME Init PROVE OwnedInv
  OBVIOUS
<1>1. Abandoned = {} /\ faults = 0
  BY DEF Init, Abandoned
<1>2. QED
  BY <1>1, FS_EmptySet DEF OwnedInv

\* A step that abandons nothing.
LEMMA NothingAbandoned ==
  ASSUME IInv, OwnedInv, UNCHANGED faults, Abandoned' \subseteq Abandoned
  PROVE  OwnedInv'
<1>1. /\ IsFiniteSet(Abandoned') /\ Cardinality(Abandoned') <= Cardinality(Abandoned)
      /\ Cardinality(Abandoned) \in Nat /\ Cardinality(Abandoned') \in Nat
  BY FS_Subset, FS_CardinalityType DEF OwnedInv
<1>2. QED
  BY <1>1 DEF OwnedInv, IInv, RowTypes

\* A fault abandons the worker's task, if any, and nothing else.
LEMMA FaultAbandons ==
  ASSUME IInv, OwnedInv, faults' = faults + 1, UNCHANGED status, cur' = None
  PROVE  OwnedInv'
<1>1. Abandoned' \subseteq Abandoned \cup {cur}
  BY DEF Abandoned
<1>2. /\ IsFiniteSet(Abandoned \cup {cur})
      /\ Cardinality(Abandoned \cup {cur}) <= Cardinality(Abandoned) + 1
      /\ Cardinality(Abandoned) \in Nat
  BY FS_AddElement, FS_CardinalityType DEF OwnedInv
<1>3. /\ IsFiniteSet(Abandoned')
      /\ Cardinality(Abandoned') <= Cardinality(Abandoned \cup {cur})
      /\ Cardinality(Abandoned') \in Nat /\ Cardinality(Abandoned \cup {cur}) \in Nat
  BY <1>1, <1>2, FS_Subset, FS_CardinalityType
<1>4. QED
  BY <1>2, <1>3 DEF OwnedInv, IInv, RowTypes

LEMMA NextOwned == IInv /\ OwnedInv /\ [Next]_vars => OwnedInv'
<1> SUFFICES ASSUME IInv, OwnedInv, [Next]_vars PROVE OwnedInv'
  OBVIOUS
<1> USE DEF IInv
<1>1. CASE Claim
  <2>1. cur = None /\ UNCHANGED faults
    BY <1>1 DEF Claim, AtWork
  <2>2. \A t \in Tasks : t # cur' => status'[t] = status[t]
    BY <1>1 DEF Claim, RowTypes
  <2>3. Abandoned' \subseteq Abandoned
    BY <2>1, <2>2, NoneAssumption DEF Abandoned
  <2>4. QED
    BY <2>1, <2>3, NothingAbandoned
<1>2. CASE LoadSource \/ DiscoverFiles \/ StoreFiles \/ ParseSources \/ OpenResults
  <2>1. PICK s \in Scans : HoldsScan(s) /\ This = s /\ cur = ScanTask(s)
    BY <1>2, ScanHeld DEF LoadSource, DiscoverFiles, StoreFiles, ParseSources, OpenResults, ScanPc
  <2>2. UNCHANGED <<status, faults>> /\ (cur' = cur \/ ~Exists(s))
    BY <1>2, <2>1 DEF LoadSource, DiscoverFiles, StoreFiles, ParseSources, OpenResults, rows
  <2>3. ~Exists(s) => status[cur] # "running"
    BY <2>1 DEF ScanMatchesTask, Exists
  <2>4. Abandoned' \subseteq Abandoned
    BY <2>2, <2>3 DEF Abandoned
  <2>5. QED
    BY <2>2, <2>4, NothingAbandoned
<1>3. CASE PublishResults
  <2>1. PICK s \in Scans : HoldsScan(s) /\ This = s /\ cur = ScanTask(s)
    BY <1>3, ScanHeld DEF PublishResults, ScanPc
  <2>2. ~Exists(s) => status[cur] # "running"
    BY <2>1 DEF ScanMatchesTask, Exists
  <2>3. \A t \in Tasks : status'[t] = "running" => status[t] = "running" /\ t # cur
    BY <1>3, <2>1, <2>2, TaskFacts DEF PublishResults, EmbeddingQueued, RowTypes
  <2>4. Abandoned' \subseteq Abandoned
    BY <2>3 DEF Abandoned
  <2>5. QED
    BY <1>3, <2>4, NothingAbandoned DEF PublishResults
<1>4. CASE RecordFailure
  <2>1. PICK s \in Scans : HoldsScan(s) /\ This = s /\ cur = ScanTask(s)
    BY <1>4, ScanHeld DEF RecordFailure, ScanPc
  <2>2. ~Exists(s) => status[cur] # "running"
    BY <2>1 DEF ScanMatchesTask, Exists
  <2>3. \A t \in Tasks : status'[t] = "running" => status[t] = "running" /\ t # cur
    BY <1>4, <2>1, <2>2 DEF RecordFailure, RowTypes
  <2>4. Abandoned' \subseteq Abandoned
    BY <2>3 DEF Abandoned
  <2>5. QED
    BY <1>4, <2>4, NothingAbandoned DEF RecordFailure
<1>5. CASE StartEmbedding \/ FinishEmbedding
  <2>1. PICK s \in Scans : HoldsEmbedding(s) /\ This = s /\ cur = EmbeddingTask(s)
    BY <1>5, EmbeddingHeld DEF StartEmbedding, FinishEmbedding
  <2>2. ~Exists(s) => status[cur] # "running"
    BY <2>1 DEF PublishedWhole, Exists
  <2>3. \A t \in Tasks : status'[t] = "running" /\ t # cur' => status[t] = "running" /\ t # cur
    BY <1>5, <2>1, <2>2 DEF StartEmbedding, FinishEmbedding, FinishedEmbedding, Settled, RowTypes
  <2>4. Abandoned' \subseteq Abandoned
    BY <2>3 DEF Abandoned
  <2>5. QED
    BY <1>5, <2>4, NothingAbandoned DEF StartEmbedding, FinishEmbedding
<1>6. CASE TransactionFails \/ Crash
  BY <1>6, FaultAbandons DEF TransactionFails, Crash, Restarts, Dies, rows
<1>7. CASE Revive
  <2>1. UNCHANGED <<status, cur, faults>>
    BY <1>7 DEF Revive, Restarts, AtWork, rows
  <2>2. QED
    BY <2>1, NothingAbandoned DEF Abandoned
<1>8. ASSUME NEW s \in Scans, OpenRequest(s) \/ LockProject(s) \/ CommitRequest(s)
      PROVE  OwnedInv'
  <2>1. /\ UNCHANGED <<cur, faults>>
        /\ UNCHANGED status \/ status' = [status EXCEPT ![ScanTask(s)] = "pending"]
    BY <1>8 DEF OpenRequest, LockProject, CommitRequest, rows, worker
  <2>2. Abandoned' \subseteq Abandoned
    BY <2>1 DEF Abandoned, RowTypes
  <2>3. QED
    BY <2>1, <2>2, NothingAbandoned
<1>9. ASSUME NEW p \in Projects, DeleteProject(p)
      PROVE  OwnedInv'
  <2>1. Abandoned' \subseteq Abandoned /\ UNCHANGED faults
    BY <1>9 DEF DeleteProject, Abandoned, worker
  <2>2. QED
    BY <2>1, NothingAbandoned
<1>10. CASE UNCHANGED vars
  BY <1>10, NothingAbandoned DEF vars, rows, worker, Abandoned
<1>11. QED
  BY <1>1, <1>2, <1>3, <1>4, <1>5, <1>6, <1>7, <1>8, <1>9, <1>10 DEF Next, WorkerNext

\* Every RUNNING task is the worker's own, except at most one for each fault so far.
THEOREM RunningOwned == Spec => []RunningIsOwned
<1>1. Init => OwnedInv
  BY InitOwned
<1>2. OwnedInv => RunningIsOwned
  BY DEF OwnedInv, Abandoned, RunningIsOwned
<1>3. QED
  BY Invariant, <1>1, <1>2, NextOwned, PTL DEF Spec

=============================================================================
