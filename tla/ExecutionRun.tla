---------------------------- MODULE ExecutionRun ----------------------------
(***************************************************************************)
(* One execution run of the platform: the background worker that walks     *)
(* the steps of the run (process_execution_task), the HTTP requests that   *)
(* ask for it to stop (request_execution_stop), and the restarts of the    *)
(* process that hosts both.                                                *)
(*                                                                         *)
(* The rows of PostgreSQL (task, run, step) are kept apart from the copies *)
(* that each SQLAlchemy session works on (wrun and wstep of the worker,    *)
(* srun and sstep of a stop request).  A session is created with           *)
(* expire_on_commit=False, so a copy is as old as the statement that       *)
(* loaded it, and a commit writes only the columns the session changed,    *)
(* with values computed from that copy.  Every action is the code between  *)
(* two points where another session can commit.                            *)
(***************************************************************************)
EXTENDS Naturals, Sequences, FiniteSets

CONSTANTS
  N,           \* number of steps of the run (total_count)
  Stops,       \* the stop requests that users may send
  MaxFaults    \* bound on restarts of the process

ASSUME StepsAssumption == N \in Nat \ {0}
ASSUME FaultsAssumption == MaxFaults \in Nat

VARIABLES
  task,           \* background_tasks.status
  run,            \* execution_runs: status and the three counters
  step,           \* execution_steps.status, by position
  stopOnFailure,  \* execution_runs.stop_on_failure, never updated
  pc,             \* where the worker is
  pos,            \* position of its current step, 0 before the steps are listed
  wrun, wstep,    \* the worker session's copies of run and step
  spc,            \* where each stop request is
  srun, sstep,    \* its session's copies of run and step
  holder,         \* the stop request that holds the lock of the task row, if any
  wire,           \* positions of the requests the tested service received, in order
  cancelMark,     \* length of wire when the task row last became cancelled
  faults          \* restarts so far

db == <<task, run, step, stopOnFailure>>
worker == <<pc, pos, wrun, wstep>>
stops == <<spc, srun, sstep, holder>>
vars == <<db, worker, stops, wire, cancelMark, faults>>

Positions == 1..N
TaskStatus == {"pending", "running", "succeeded", "failed", "cancelled"}
RunStatus == {"pending", "running", "completed", "failed", "stopped"}
StepStatus == {"pending", "running", "passed", "failed", "error", "skipped", "stopped"}
Bad == {"failed", "error"}
Verdicts == {"passed"} \cup Bad
Rows == [status : RunStatus, passed : Nat, failed : Nat, skipped : Nat]

NewRun == [status |-> "pending", passed |-> 0, failed |-> 0, skipped |-> 0]
NewSteps == [i \in Positions |-> "pending"]

Init ==
  /\ task = "pending" /\ run = NewRun /\ step = NewSteps
  /\ stopOnFailure \in BOOLEAN
  /\ pc = "idle" /\ pos = 0 /\ wrun = NewRun /\ wstep = NewSteps
  /\ spc = [s \in Stops |-> "new"]
  /\ srun = [s \in Stops |-> NewRun] /\ sstep = [s \in Stops |-> NewSteps]
  /\ holder = {}
  /\ wire = <<>> /\ cancelMark = 0 /\ faults = 0

----------------------------------------------------------------------------
(* The bulk updates of steps that will not run. *)

PendingFrom_OffByOne(steps, first) == {i \in (first + 1)..N : steps[i] = "pending"}

\* Positions from first on that are PENDING in a session's copy of the steps.
PendingFrom(steps, first) == {i \in first..N : steps[i] = "pending"}

Mark(steps, S, status) == [i \in Positions |-> IF i \in S THEN status ELSE steps[i]]

\* skipped_count += 1 for each step of S: the column is written, with a value
\* computed from the session's copy, only when S is not empty.
SkippedColumn(copy, S) == IF S = {} THEN run.skipped ELSE copy.skipped + Cardinality(S)

(* The worker *)

\* SELECT ... WHERE status = PENDING FOR UPDATE SKIP LOCKED: a locked row is not
\* taken.  Nothing but started_at is written, so the row stays PENDING.
Claimable_AnyUnfinished == task \in {"pending", "running"}
Claimable == task = "pending"

Claim ==
  /\ pc = "idle" /\ Claimable /\ holder = {}
  /\ pc' = "claimed"
  /\ UNCHANGED <<db, pos, wrun, wstep, stops, wire, cancelMark, faults>>

LoadRun ==
  /\ pc = "claimed"
  /\ wrun' = run /\ pc' = "loaded"
  /\ UNCHANGED <<db, pos, wstep, stops, wire, cancelMark, faults>>

\* RUNNING is written whatever the two rows hold by now.
Start ==
  /\ pc = "loaded" /\ holder = {}
  /\ task' = "running" /\ run' = [run EXCEPT !.status = "running"]
  /\ wrun' = [wrun EXCEPT !.status = "running"]
  /\ pc' = "started"
  /\ UNCHANGED <<step, stopOnFailure, pos, wstep, stops, wire, cancelMark, faults>>

ListSteps ==
  /\ pc = "started"
  /\ wstep' = step /\ pos' = 1 /\ pc' = "check"
  /\ UNCHANGED <<db, wrun, stops, wire, cancelMark, faults>>

\* refresh(task) before a step.
CancelSeen_StaleTask == FALSE
CancelSeen == task = "cancelled"

RefreshTask ==
  /\ pc = "check"
  /\ pc' = IF CancelSeen THEN "stop" ELSE "begin"
  /\ UNCHANGED <<db, pos, wrun, wstep, stops, wire, cancelMark, faults>>

\* _stop_remaining_steps and the commit that follows it.  The steps are queried
\* again, but rows already in the session keep the values first loaded.
StopRemaining ==
  /\ pc = "stop"
  /\ LET S == PendingFrom(wstep, 1) IN
       /\ step' = Mark(step, S, "stopped")
       /\ wstep' = Mark(wstep, S, "stopped")
       /\ run' = [run EXCEPT !.status = "stopped", !.skipped = SkippedColumn(wrun, S)]
  /\ pc' = "idle"
  /\ UNCHANGED <<task, stopOnFailure, pos, wrun, stops, wire, cancelMark, faults>>

BeginStep ==
  /\ pc = "begin"
  /\ step' = [step EXCEPT ![pos] = "running"]
  /\ wstep' = [wstep EXCEPT ![pos] = "running"]
  /\ pc' = "request"
  /\ UNCHANGED <<task, run, stopOnFailure, pos, wrun, stops, wire, cancelMark, faults>>

\* The test request leaves for the service under test.
SendRequest ==
  /\ pc = "request"
  /\ wire' = Append(wire, pos) /\ pc' = "response"
  /\ UNCHANGED <<db, pos, wrun, wstep, stops, cancelMark, faults>>

Counted_ForgetsErrors(row, verdict) ==
  CASE verdict = "passed" -> [row EXCEPT !.passed = wrun.passed + 1]
    [] verdict = "failed" -> [row EXCEPT !.failed = wrun.failed + 1]
    [] OTHER -> row

\* The counters with one more passed or failed step.
Counted(row, verdict) ==
  IF verdict = "passed" THEN [row EXCEPT !.passed = wrun.passed + 1]
                        ELSE [row EXCEPT !.failed = wrun.failed + 1]

\* The end of _process_step: verdict and counter in one commit.
RecordStep(verdict) ==
  /\ step' = [step EXCEPT ![pos] = verdict]
  /\ wstep' = [wstep EXCEPT ![pos] = verdict]
  /\ run' = Counted(run, verdict) /\ wrun' = Counted(wrun, verdict)
  /\ pc' = "judged"
  /\ UNCHANGED <<task, stopOnFailure, pos, stops, wire, cancelMark, faults>>

\* The template, a variable or the target is refused before anything is sent.
RefuseRequest == pc = "request" /\ RecordStep("error")

\* An answer is judged by the assertions, or the request ends in an error.
JudgeResponse == pc = "response" /\ \E verdict \in Verdicts : RecordStep(verdict)

PolicyStops_IgnoresErrors == stopOnFailure /\ wstep[pos] = "failed"
PolicyStops == stopOnFailure /\ wstep[pos] \in Bad

StepsLeft_OffByOne == pos <= N
StepsLeft == pos < N

\* refresh(run) after a step, then the stop policy or the next step.
RefreshRun ==
  /\ pc = "judged"
  /\ wrun' = run
  /\ \/ PolicyStops /\ pc' = "skip" /\ UNCHANGED pos
     \/ ~PolicyStops /\ StepsLeft /\ pc' = "check" /\ pos' = pos + 1
     \/ ~PolicyStops /\ ~StepsLeft /\ pc' = "final" /\ UNCHANGED pos
  /\ UNCHANGED <<db, wstep, stops, wire, cancelMark, faults>>

SkipRemaining ==
  /\ pc = "skip"
  /\ LET S == PendingFrom(wstep, pos + 1) IN
       /\ step' = Mark(step, S, "skipped")
       /\ wstep' = Mark(wstep, S, "skipped")
       /\ run' = [run EXCEPT !.skipped = SkippedColumn(wrun, S)]
       /\ wrun' = [wrun EXCEPT !.skipped = @ + Cardinality(S)]
  /\ pc' = "final"
  /\ UNCHANGED <<task, stopOnFailure, pos, stops, wire, cancelMark, faults>>

\* refresh(task) after the loop: a cancelled task gets no final status here.
RefreshAtEnd ==
  /\ pc = "final"
  /\ pc' = IF task = "cancelled" THEN "idle" ELSE "complete"
  /\ UNCHANGED <<db, pos, wrun, wstep, stops, wire, cancelMark, faults>>

CompletedTask_Forgotten == "running"
CompletedTask == "succeeded"

CompletedRun_Forgotten(row) == row
CompletedRun(row) == [row EXCEPT !.status = "completed"]

Complete ==
  /\ pc = "complete" /\ holder = {}
  /\ task' = CompletedTask /\ run' = CompletedRun(run)
  /\ pc' = "idle"
  /\ UNCHANGED <<step, stopOnFailure, pos, wrun, wstep, stops, wire, cancelMark, faults>>

\* _fail_run: the first statement after one of the worker's commits fails (no
\* connection), the session is still usable, and FAILED is recorded.
AfterCommit == pc \in {"started", "request", "judged"} \/ (pc = "final" /\ PolicyStops)

FailRun ==
  /\ AfterCommit /\ holder = {}
  /\ task' = "failed" /\ run' = [run EXCEPT !.status = "failed"]
  /\ pc' = "idle"
  /\ UNCHANGED <<step, stopOnFailure, pos, wrun, wstep, stops, wire, cancelMark, faults>>

----------------------------------------------------------------------------
(* Stop requests *)

ReadRun(s) ==
  /\ spc[s] = "new"
  /\ srun' = [srun EXCEPT ![s] = run]
  /\ spc' = [spc EXCEPT ![s] = IF run.status \in {"pending", "running"}
                               THEN "read" ELSE "refused"]
  /\ UNCHANGED <<db, worker, sstep, holder, wire, cancelMark, faults>>

\* The session must write the task row unless it loaded CANCELLED already, and
\* the write waits for the lock of the row.
CanCancel == task = "cancelled" \/ holder = {}

SetCancelled ==
  /\ task' = "cancelled"
  /\ cancelMark' = IF task = "cancelled" THEN cancelMark ELSE Len(wire)

\* The run was read RUNNING: only the task row is written, at the commit.
CancelRunning(s) ==
  /\ spc[s] = "read" /\ srun[s].status = "running" /\ CanCancel
  /\ SetCancelled
  /\ spc' = [spc EXCEPT ![s] = "done"]
  /\ UNCHANGED <<run, step, stopOnFailure, worker, srun, sstep, holder, wire, faults>>

\* The run was read PENDING: listing the steps flushes the task row (not yet
\* committed, its lock held) and loads the steps.
CancelPending(s) ==
  /\ spc[s] = "read" /\ srun[s].status = "pending" /\ CanCancel
  /\ holder' = IF task = "cancelled" THEN holder ELSE {s}
  /\ sstep' = [sstep EXCEPT ![s] = step]
  /\ spc' = [spc EXCEPT ![s] = "marked"]
  /\ UNCHANGED <<db, worker, srun, wire, cancelMark, faults>>

CommitStop(s) ==
  /\ spc[s] = "marked"
  /\ IF s \in holder THEN SetCancelled ELSE UNCHANGED <<task, cancelMark>>
  /\ holder' = holder \ {s}
  /\ LET S == PendingFrom(sstep[s], 1) IN
       /\ step' = Mark(step, S, "stopped")
       /\ run' = [run EXCEPT !.status = "stopped", !.skipped = SkippedColumn(srun[s], S)]
  /\ spc' = [spc EXCEPT ![s] = "done"]
  /\ UNCHANGED <<stopOnFailure, worker, srun, sstep, wire, faults>>

----------------------------------------------------------------------------
(* The process, or only its worker, dies and the process is started again: open
   transactions roll back, and the start-up code looks at agent runs only.  A
   database error outside of the handler of process_execution_task, or inside one
   of its transactions, kills the worker (see TaskWorker). *)
Crash ==
  /\ faults < MaxFaults
  /\ pc # "idle" \/ \E s \in Stops : spc[s] \in {"read", "marked"}
  /\ pc' = "idle" /\ holder' = {}
  /\ spc' = [s \in Stops |-> IF spc[s] \in {"read", "marked"} THEN "aborted" ELSE spc[s]]
  /\ faults' = faults + 1
  /\ UNCHANGED <<db, pos, wrun, wstep, srun, sstep, wire, cancelMark>>

WorkerNext ==
  \/ Claim \/ LoadRun \/ Start \/ ListSteps \/ RefreshTask \/ StopRemaining
  \/ BeginStep \/ SendRequest \/ RefuseRequest \/ JudgeResponse \/ RefreshRun
  \/ SkipRemaining \/ RefreshAtEnd \/ Complete

StopNext(s) == ReadRun(s) \/ CancelRunning(s) \/ CancelPending(s) \/ CommitStop(s)

Next ==
  \/ WorkerNext
  \/ FailRun
  \/ \E s \in Stops : StopNext(s)
  \/ Crash

Spec == Init /\ [][Next]_vars

\* The worker task is scheduled by the event loop as long as the process lives,
\* and a request that holds a row lock is not abandoned.  Nobody has to send a
\* stop request.
Fairness ==
  /\ WF_vars(WorkerNext)
  /\ \A s \in Stops : WF_vars(CancelRunning(s) \/ CancelPending(s) \/ CommitStop(s))

FairSpec == Spec /\ Fairness

----------------------------------------------------------------------------
(* Properties *)

WorkerPc == {"idle", "claimed", "loaded", "started", "check", "stop", "begin",
             "request", "response", "judged", "skip", "final", "complete"}
StopPc == {"new", "refused", "read", "marked", "done", "aborted"}

\* The type invariant: what every row, copy and place may hold; at most one stop
\* request holds the task row.
TypeOK ==
  /\ task \in TaskStatus /\ run \in Rows /\ step \in [Positions -> StepStatus]
  /\ stopOnFailure \in BOOLEAN
  /\ pc \in WorkerPc /\ pos \in 0..N
  /\ wrun \in Rows /\ wstep \in [Positions -> StepStatus]
  /\ spc \in [Stops -> StopPc] /\ srun \in [Stops -> Rows]
  /\ sstep \in [Stops -> [Positions -> StepStatus]]
  /\ holder \in SUBSET Stops /\ \A s, t \in holder : s = t
  /\ wire \in Seq(Positions) /\ cancelMark \in Nat /\ faults \in 0..MaxFaults

\* The tested service receives the requests of a run in step order and none of
\* them twice, whatever is stopped, fails or restarts (service.py 197-212: the
\* task leaves PENDING before the first request and never comes back).
DeliveredInOrder == \A i, j \in DOMAIN wire : i < j => wire[i] < wire[j]

\* With stop_on_failure, no request of a later step leaves once a step is
\* recorded FAILED or ERROR (service.py 214-216).
FailureHalts ==
  stopOnFailure =>
    \A i \in Positions : step[i] \in Bad => \A k \in DOMAIN wire : wire[k] <= i

\* While the task row says CANCELLED, at most one request has left since it
\* started to: the one whose step was already past its check (service.py 205).
StopIsPrompt == task = "cancelled" => Len(wire) <= cancelMark + 1

\* A stop that found the run PENDING overlaps a worker that has its steps.
Raced == pos > 0 /\ \E s \in Stops : spc[s] \in {"marked", "done"} /\ srun[s].status = "pending"

Having(S) == Cardinality({i \in Positions : step[i] \in S})

\* Without that overlap the three counters are those of the step rows, at every
\* commit and after every restart (service.py 444-461, 484, 494).
CountsMatchSteps ==
  ~Raced => /\ run.passed = Having({"passed"})
            /\ run.failed = Having(Bad)
            /\ run.skipped = Having({"skipped", "stopped"})

\* Without that overlap a COMPLETED run has a final status for each step, and
\* one that was skipped comes after a failure that the policy stops at
\* (service.py 214-223).
CompletedRunIsSettled ==
  run.status = "completed" /\ ~Raced =>
    /\ \A i \in Positions : step[i] \in Verdicts \cup {"skipped"}
    /\ \A i \in Positions : step[i] = "skipped" =>
         stopOnFailure /\ \E j \in 1..(i - 1) : step[j] \in Bad

\* In a process that lives, the worker is done with a claimed task in the end
\* and leaves it with a final status (service.py 182-226).
ClaimedTaskSettles ==
  [](faults = 0) =>
    (pc # "idle" ~> (pc = "idle" /\ task \in {"succeeded", "failed", "cancelled"}))

\* In a process that lives, a run that nobody manages to stop reaches COMPLETED
\* or FAILED (service.py 182-226).
UnstoppedRunFinishes ==
  [](faults = 0 /\ \A s \in Stops : spc[s] # "done") =>
    <>(run.status \in {"completed", "failed"})

\* service.py 230: a stopped task ends, a running one after its current request.
StoppedRunEnds == task = "cancelled" ~> run.status \in {"completed", "failed", "stopped"}

\* service.py 230: a task stopped while it waits is terminated at once, so a run
\* that is STOPPED stays so.
StoppedIsFinal == [][run.status = "stopped" => run'.status = "stopped"]_vars

(* The promise to the tested service: requests in increasing order until the
   run closes, nothing after.  The worker keeps it open while it may still
   claim the task or still has a step to send. *)
MaySend ==
  \/ task = "pending"
  \/ pc \in {"claimed", "loaded", "started", "check", "begin", "request", "response"}
  \/ pc = "judged" /\ ~(stopOnFailure /\ wstep[pos] \in Bad)

Promise == INSTANCE OrderedDelivery WITH open <- MaySend

\* The run implements that promise (process_execution_task as a whole).
KeepsPromise == Promise!Spec

=============================================================================
