------------------------ MODULE ExecutionRun_proofs ------------------------
(***************************************************************************)
(* Proofs about ExecutionRun for every number of steps, every set of stop  *)
(* requests and every number of restarts.                                  *)
(***************************************************************************)
EXTENDS ExecutionRun, FiniteSetTheorems, TLAPS

----------------------------------------------------------------------------
(* Lemmas about the helpers *)

\* The bulk updates count a natural number of steps.
LEMMA PendingIsCountable ==
  ASSUME NEW steps, NEW first \in Nat
  PROVE  /\ PendingFrom(steps, first) \in SUBSET (first..N)
         /\ IsFiniteSet(PendingFrom(steps, first))
         /\ Cardinality(PendingFrom(steps, first)) \in Nat
<1>1. PendingFrom(steps, first) \in SUBSET (first..N)
  BY DEF PendingFrom
<1>2. IsFiniteSet(first..N)
  BY FS_Interval, StepsAssumption
<1>3. IsFiniteSet(PendingFrom(steps, first))
  BY <1>1, <1>2, FS_Subset
<1>4. QED
  BY <1>1, <1>3, FS_CardinalityType

\* A bulk update keeps the type of the rows.
LEMMA MarkType ==
  ASSUME NEW steps \in [Positions -> StepStatus], NEW S, NEW status \in StepStatus
  PROVE  Mark(steps, S, status) \in [Positions -> StepStatus]
BY DEF Mark

LEMMA SkippedType ==
  ASSUME run \in Rows, NEW copy \in Rows, NEW steps, NEW first \in Nat
  PROVE  SkippedColumn(copy, PendingFrom(steps, first)) \in Nat
<1>1. Cardinality(PendingFrom(steps, first)) \in Nat
  BY PendingIsCountable
<1>2. QED
  BY <1>1 DEF SkippedColumn, Rows

\* Counting a verdict keeps the type of a row.
LEMMA CountedType ==
  ASSUME wrun \in Rows, NEW row \in Rows, NEW verdict
  PROVE  Counted(row, verdict) \in Rows
BY DEF Counted, Rows

----------------------------------------------------------------------------
(* Type correctness *)

\* Where the worker has its list of steps and a current one.
InLoop == {"check", "stop", "begin", "request", "response", "judged", "skip", "final",
           "complete"}

\* TypeOK is not inductive alone: that the tested service only receives
\* positions of the run needs the worker's position to be one inside its loop.
TypeInv == TypeOK /\ (pc \in InLoop => pos \in Positions)

\* Recording a verdict keeps the types.
LEMMA RecordStepType ==
  ASSUME TypeInv, NEW verdict \in Verdicts, RecordStep(verdict), pc \in {"request", "response"}
  PROVE  TypeInv'
<1>1. verdict \in StepStatus
  BY DEF Verdicts, Bad, StepStatus
<1>2. run' \in Rows /\ wrun' \in Rows
  BY CountedType DEF RecordStep, TypeOK, TypeInv
<1>3. QED
  BY <1>1, <1>2 DEF TypeInv, InLoop, TypeOK, RecordStep, WorkerPc, stops, Positions

\* Every step of the system keeps every row and every session copy of the right
\* type.
LEMMA TypeStep == TypeInv /\ [Next]_vars => TypeInv'
<1> SUFFICES ASSUME TypeInv, [Next]_vars PROVE TypeInv'
  OBVIOUS
<1> USE DEF TypeInv, TypeOK, InLoop, db, worker, stops, WorkerPc
<1>1. CASE Claim
  BY <1>1 DEF Claim
<1>2. CASE LoadRun
  BY <1>2 DEF LoadRun
<1>3. CASE Start
  BY <1>3 DEF Start, TaskStatus, RunStatus, Rows
<1>4. CASE ListSteps
  BY <1>4, StepsAssumption DEF ListSteps, Positions
<1>5. CASE RefreshTask
  BY <1>5 DEF RefreshTask
<1>6. CASE StopRemaining
  <2>1. SkippedColumn(wrun, PendingFrom(wstep, 1)) \in Nat
    BY SkippedType
  <2>2. /\ Mark(step, PendingFrom(wstep, 1), "stopped") \in [Positions -> StepStatus]
        /\ Mark(wstep, PendingFrom(wstep, 1), "stopped") \in [Positions -> StepStatus]
    BY MarkType DEF StepStatus
  <2>3. run' \in Rows
    BY <1>6, <2>1 DEF StopRemaining, Rows, RunStatus
  <2>4. QED
    BY <1>6, <2>2, <2>3 DEF StopRemaining
<1>7. CASE BeginStep
  BY <1>7 DEF BeginStep, StepStatus, Positions
<1>8. CASE SendRequest
  BY <1>8 DEF SendRequest
<1>9. CASE RefuseRequest
  BY <1>9, RecordStepType DEF RefuseRequest, Verdicts, Bad
<1>10. CASE JudgeResponse
  BY <1>10, RecordStepType DEF JudgeResponse
<1>11. CASE RefreshRun
  BY <1>11, StepsAssumption DEF RefreshRun, StepsLeft, Positions
<1>12. CASE SkipRemaining
  <2>1. Cardinality(PendingFrom(wstep, pos + 1)) \in Nat
    BY PendingIsCountable, StepsAssumption
  <2>2. SkippedColumn(wrun, PendingFrom(wstep, pos + 1)) \in Nat
    BY SkippedType, StepsAssumption
  <2>3. /\ Mark(step, PendingFrom(wstep, pos + 1), "skipped") \in [Positions -> StepStatus]
        /\ Mark(wstep, PendingFrom(wstep, pos + 1), "skipped") \in [Positions -> StepStatus]
    BY MarkType DEF StepStatus
  <2>4. run' \in Rows
    BY <1>12, <2>2 DEF SkipRemaining, Rows
  <2>5. wrun' \in Rows
    <3>1. PICK n \in Nat : n = Cardinality(PendingFrom(wstep, pos + 1))
      BY <2>1
    <3>2. wrun' = [wrun EXCEPT !.skipped = wrun.skipped + n]
      BY <1>12, <3>1 DEF SkipRemaining
    <3>3. wrun.skipped + n \in Nat
      BY DEF Rows
    <3>4. QED
      BY <3>2, <3>3 DEF Rows
  <2>6. QED
    BY <1>12, <2>3, <2>4, <2>5 DEF SkipRemaining
<1>13. CASE RefreshAtEnd
  BY <1>13 DEF RefreshAtEnd
<1>14. CASE Complete
  BY <1>14 DEF Complete, CompletedTask, CompletedRun, TaskStatus, RunStatus, Rows
<1>15. CASE FailRun
  BY <1>15 DEF FailRun, TaskStatus, RunStatus, Rows
<1>16. ASSUME NEW s \in Stops, ReadRun(s) PROVE TypeInv'
  BY <1>16 DEF ReadRun, StopPc
<1>17. ASSUME NEW s \in Stops, CancelRunning(s) PROVE TypeInv'
  BY <1>17 DEF CancelRunning, SetCancelled, TaskStatus, StopPc
<1>18. ASSUME NEW s \in Stops, CancelPending(s) PROVE TypeInv'
  BY <1>18 DEF CancelPending, StopPc
<1>19. ASSUME NEW s \in Stops, CommitStop(s) PROVE TypeInv'
  <2>1. SkippedColumn(srun[s], PendingFrom(sstep[s], 1)) \in Nat
    BY SkippedType
  <2>2. Mark(step, PendingFrom(sstep[s], 1), "stopped") \in [Positions -> StepStatus]
    BY MarkType DEF StepStatus
  <2>3. run' \in Rows
    BY <1>19, <2>1 DEF CommitStop, Rows, RunStatus
  <2>4. QED
    BY <1>19, <2>2, <2>3 DEF CommitStop, SetCancelled, TaskStatus, StopPc
<1>20. CASE Crash
  BY <1>20, FaultsAssumption DEF Crash, StopPc
<1>21. CASE UNCHANGED vars
  BY <1>21 DEF vars
<1>22. QED
  BY <1>1, <1>2, <1>3, <1>4, <1>5, <1>6, <1>7, <1>8, <1>9, <1>10, <1>11, <1>12, <1>13,
     <1>14, <1>15, <1>16, <1>17, <1>18, <1>19, <1>20, <1>21
  DEF Next, WorkerNext, StopNext

\* Every behaviour keeps every row and every session copy of the right type.
THEOREM TypeCorrect == Spec => []TypeOK
<1>1. Init => TypeInv
  BY StepsAssumption, FaultsAssumption
  DEF Init, TypeInv, TypeOK, InLoop, NewRun, NewSteps, TaskStatus, Rows, RunStatus,
      StepStatus, WorkerPc, StopPc, Positions
<1>2. TypeInv => TypeOK
  BY DEF TypeInv
<1>3. QED
  BY <1>1, <1>2, TypeStep, PTL DEF Spec

----------------------------------------------------------------------------
(* What the tested service receives *)

NoRequestYet == wire = <<>> /\ \A i \in Positions : step[i] \notin Bad

\* A task that may still be claimed, and a claim that has not listed its steps,
\* belong to a run that has sent and judged nothing.
FreshUntilListed ==
  /\ task = "pending" => pc \in {"idle", "claimed", "loaded"}
  /\ task = "pending" \/ pc \in {"claimed", "loaded", "started"} => NoRequestYet

\* Nothing beyond the current step was received, and the current step itself
\* only once it was sent.
SentBehind ==
  \A k \in DOMAIN wire :
    /\ wire[k] <= pos
    /\ pc \in {"check", "begin", "request"} => wire[k] < pos

\* Under the policy a bad step is the last one the worker works on.
BadIsLast ==
  stopOnFailure =>
    \A i \in Positions : step[i] \in Bad =>
      /\ i = pos /\ pc \in {"judged", "skip", "final", "complete", "idle"}
      /\ pc = "judged" => wstep[i] \in Bad

\* Since the task became cancelled one request at most, and then the worker is
\* past the point where another could leave without a new look at the task.
PromptInv ==
  task = "cancelled" =>
    \/ Len(wire) <= cancelMark
    \/ Len(wire) = cancelMark + 1 /\ pc \notin {"begin", "request"}

WireInv == TypeInv /\ FreshUntilListed /\ SentBehind /\ BadIsLast /\ PromptInv
             /\ DeliveredInOrder

\* Marking steps STOPPED or SKIPPED makes no step bad.
LEMMA MarkAddsNoBad ==
  ASSUME NEW S, NEW status \in {"stopped", "skipped"},
         step' = Mark(step, S, status), NEW i \in Positions, step'[i] \in Bad
  PROVE  step[i] \in Bad
BY DEF Mark, Bad

\* Recording a verdict keeps the invariant: only the current step changes.
LEMMA RecordStepWire ==
  ASSUME WireInv, TypeInv', NEW verdict \in Verdicts, RecordStep(verdict),
         pc \in {"request", "response"}
  PROVE  WireInv'
<1> USE DEF WireInv, TypeInv, TypeOK, RecordStep, InLoop
<1>1. FreshUntilListed'
  BY DEF FreshUntilListed
<1>2. SentBehind'
  BY DEF SentBehind
<1>3. BadIsLast'
  <2> SUFFICES ASSUME stopOnFailure, NEW i \in Positions, step'[i] \in Bad
               PROVE  i = pos /\ wstep'[i] \in Bad
    BY DEF BadIsLast
  <2>1. i = pos
    BY DEF BadIsLast
  <2>2. QED
    BY <2>1
<1>4. PromptInv' /\ DeliveredInOrder'
  BY DEF PromptInv, DeliveredInOrder
<1>5. QED
  BY <1>1, <1>2, <1>3, <1>4

\* Sending the request of the current step: everything received before is of an
\* earlier step, and the step's check came before the last cancellation or is
\* the one the stop could not reach.
LEMMA SendRequestWire ==
  ASSUME WireInv, TypeInv', SendRequest
  PROVE  WireInv'
<1> USE DEF WireInv, TypeInv, TypeOK, SendRequest, InLoop, db, stops
<1>1. pos \in Positions /\ wire \in Seq(Positions) /\ Positions \subseteq Nat
  BY DEF Positions
<1>2. /\ Len(wire') = Len(wire) + 1 /\ Len(wire) \in Nat
      /\ DOMAIN wire' = 1..(Len(wire) + 1) /\ DOMAIN wire = 1..Len(wire)
      /\ \A k \in DOMAIN wire : wire'[k] = wire[k]
      /\ wire'[Len(wire) + 1] = pos
  BY <1>1
<1>3. \A k \in DOMAIN wire : wire[k] \in Nat /\ wire[k] < pos
  <2>1. \A k \in DOMAIN wire : wire[k] \in Positions
    BY <1>1, <1>2
  <2>2. \A k \in DOMAIN wire : wire[k] < pos
    BY DEF SentBehind
  <2>3. QED
    BY <1>1, <2>1, <2>2
<1>4. FreshUntilListed'
  BY DEF FreshUntilListed
<1>5. SentBehind'
  BY <1>1, <1>2, <1>3 DEF SentBehind
<1>6. BadIsLast'
  BY DEF BadIsLast
<1>7. PromptInv'
  BY <1>2 DEF PromptInv
<1>8. DeliveredInOrder'
  BY <1>1, <1>2, <1>3 DEF DeliveredInOrder
<1>9. QED
  BY <1>4, <1>5, <1>6, <1>7, <1>8

LEMMA WireStep == WireInv /\ [Next]_vars => WireInv'
<1> SUFFICES ASSUME WireInv, [Next]_vars PROVE WireInv'
  OBVIOUS
<1>0. TypeInv'
  BY TypeStep DEF WireInv
<1> USE <1>0 DEF WireInv, db, worker, stops
<1> USE DEF FreshUntilListed, NoRequestYet, SentBehind, BadIsLast, PromptInv, DeliveredInOrder
<1>1. CASE Claim
  BY <1>1 DEF Claim, Claimable
<1>2. CASE LoadRun
  BY <1>2 DEF LoadRun
<1>3. CASE Start
  BY <1>3 DEF Start
<1>4. CASE ListSteps
  BY <1>4 DEF ListSteps
<1>5. CASE RefreshTask
  BY <1>5 DEF RefreshTask, CancelSeen
<1>6. CASE StopRemaining
  BY <1>6, MarkAddsNoBad DEF StopRemaining
<1>7. CASE BeginStep
  BY <1>7 DEF BeginStep, TypeInv, TypeOK, InLoop, Bad
<1>8. CASE SendRequest
  BY <1>8, SendRequestWire
<1>9. CASE RefuseRequest
  BY <1>9, RecordStepWire DEF RefuseRequest, Verdicts, Bad
<1>10. CASE JudgeResponse
  BY <1>10, RecordStepWire DEF JudgeResponse
<1>11. CASE RefreshRun
  <2>1. pos \in Nat /\ \A k \in DOMAIN wire : wire[k] \in Nat
    <3>1. pos \in Nat
      BY StepsAssumption DEF TypeInv, TypeOK
    <3>2. \A k \in DOMAIN wire : wire[k] \in Positions
      BY DEF TypeInv, TypeOK
    <3>3. QED
      BY <3>1, <3>2 DEF Positions
  <2>2. FreshUntilListed' /\ PromptInv' /\ DeliveredInOrder'
    BY <1>11 DEF RefreshRun
  <2>3. SentBehind'
    <3> SUFFICES ASSUME NEW k \in DOMAIN wire
                 PROVE  wire[k] <= pos' /\ (pc' \in {"check", "begin", "request"} => wire[k] < pos')
      BY <1>11 DEF RefreshRun
    <3>1. wire[k] \in Nat /\ wire[k] <= pos
      BY <2>1
    <3>2. QED
      BY <1>11, <2>1, <3>1 DEF RefreshRun
  <2>4. BadIsLast'
    BY <1>11 DEF RefreshRun, PolicyStops
  <2>5. QED
    BY <2>2, <2>3, <2>4
<1>12. CASE SkipRemaining
  BY <1>12, MarkAddsNoBad DEF SkipRemaining
<1>13. CASE RefreshAtEnd
  BY <1>13 DEF RefreshAtEnd
<1>14. CASE Complete
  BY <1>14 DEF Complete, CompletedTask
<1>15. CASE FailRun
  BY <1>15 DEF FailRun, AfterCommit, PolicyStops
<1>16. ASSUME NEW s \in Stops, ReadRun(s) PROVE WireInv'
  BY <1>16 DEF ReadRun
<1>17. ASSUME NEW s \in Stops, CancelRunning(s) PROVE WireInv'
  BY <1>17 DEF CancelRunning, SetCancelled, TypeInv, TypeOK
<1>18. ASSUME NEW s \in Stops, CancelPending(s) PROVE WireInv'
  BY <1>18 DEF CancelPending
<1>19. ASSUME NEW s \in Stops, CommitStop(s) PROVE WireInv'
  BY <1>19, MarkAddsNoBad DEF CommitStop, SetCancelled, TypeInv, TypeOK
<1>20. CASE Crash
  BY <1>20 DEF Crash
<1>21. CASE UNCHANGED vars
  BY <1>21 DEF vars, TypeInv, TypeOK
<1>22. QED
  BY <1>1, <1>2, <1>3, <1>4, <1>5, <1>6, <1>7, <1>8, <1>9, <1>10, <1>11, <1>12, <1>13,
     <1>14, <1>15, <1>16, <1>17, <1>18, <1>19, <1>20, <1>21
  DEF Next, WorkerNext, StopNext

\* The invariant holds in every behaviour.
LEMMA WireInvariant == Spec => []WireInv
<1>1. Init => WireInv
  BY StepsAssumption, FaultsAssumption
  DEF Init, WireInv, TypeInv, TypeOK, InLoop, NewRun, NewSteps, TaskStatus, Rows, RunStatus,
      StepStatus, WorkerPc, StopPc, Positions, FreshUntilListed, NoRequestYet, SentBehind,
      BadIsLast, PromptInv, DeliveredInOrder, Bad
<1>2. QED
  BY <1>1, WireStep, PTL DEF Spec

\* Requests leave in step order and never twice.
THEOREM InOrder == Spec => []DeliveredInOrder
<1>1. WireInv => DeliveredInOrder
  BY DEF WireInv
<1>2. QED
  BY <1>1, WireInvariant, PTL

\* Under stop_on_failure no request of a later step follows a bad step.
THEOREM HaltsOnFailure == Spec => []FailureHalts
<1>1. WireInv => FailureHalts
  BY DEF WireInv, BadIsLast, SentBehind, FailureHalts
<1>2. QED
  BY <1>1, WireInvariant, PTL

\* At most one more request leaves while the task is cancelled.
THEOREM PromptStop == Spec => []StopIsPrompt
<1>1. WireInv => StopIsPrompt
  BY DEF WireInv, PromptInv, StopIsPrompt, TypeInv, TypeOK
<1>2. QED
  BY <1>1, WireInvariant, PTL

----------------------------------------------------------------------------
(* The run implements the promise to the tested service *)

\* A step that does not touch wire keeps the run open or closed, or closes it.
QuietStep == UNCHANGED wire /\ (MaySend' => MaySend)

LEMMA QuietIsAllowed == QuietStep => [Promise!Next]_<<wire, MaySend>>
<1> SUFFICES ASSUME QuietStep PROVE Promise!Close \/ UNCHANGED <<wire, MaySend>>
  BY DEF Promise!Next
<1>1. MaySend \in BOOLEAN /\ MaySend' \in BOOLEAN
  BY DEF MaySend
<1>2. QED
  BY <1>1 DEF QuietStep, Promise!Close

LEMMA PromiseStep == WireInv /\ [Next]_vars => [Promise!Next]_<<wire, MaySend>>
<1> SUFFICES ASSUME WireInv, [Next]_vars PROVE [Promise!Next]_<<wire, MaySend>>
  OBVIOUS
<1>1. CASE SendRequest
  <2>1. pos \in 1..N
    BY <1>1 DEF SendRequest, WireInv, TypeInv, InLoop, Positions
  <2>2. MaySend = TRUE /\ MaySend' = TRUE
    BY <1>1 DEF SendRequest, MaySend
  <2>3. \A k \in DOMAIN wire : wire[k] < pos
    BY <1>1 DEF SendRequest, WireInv, SentBehind
  <2>4. Promise!Deliver(pos)
    BY <1>1, <2>2, <2>3 DEF SendRequest, Promise!Deliver
  <2>5. QED
    BY <2>1, <2>4 DEF Promise!Next
<1>2. CASE ~SendRequest
  <2> SUFFICES QuietStep
    BY QuietIsAllowed
  <2> USE DEF QuietStep, MaySend, WireInv, FreshUntilListed, db, worker, stops
  <2>1. CASE Claim \/ LoadRun \/ Start \/ ListSteps \/ RefreshTask
    BY <2>1 DEF Claim, Claimable, LoadRun, Start, ListSteps, RefreshTask, CancelSeen
  <2>2. CASE StopRemaining \/ BeginStep \/ SkipRemaining
    BY <2>2 DEF StopRemaining, BeginStep, SkipRemaining
  <2>3. CASE RefuseRequest \/ JudgeResponse
    BY <2>3 DEF RefuseRequest, JudgeResponse, RecordStep
  <2>4. CASE RefreshRun
    BY <2>4 DEF RefreshRun, PolicyStops
  <2>5. CASE RefreshAtEnd \/ Complete \/ FailRun
    BY <2>5 DEF RefreshAtEnd, Complete, CompletedTask, FailRun
  <2>6. ASSUME NEW s \in Stops, StopNext(s) PROVE QuietStep
    BY <2>6 DEF StopNext, ReadRun, CancelRunning, CancelPending, CommitStop, SetCancelled
  <2>7. CASE Crash
    BY <2>7 DEF Crash
  <2>8. CASE UNCHANGED vars
    BY <2>8 DEF vars
  <2>9. QED
    BY <1>2, <2>1, <2>2, <2>3, <2>4, <2>5, <2>6, <2>7, <2>8 DEF Next, WorkerNext
<1>3. QED
  BY <1>1, <1>2

\* ExecutionRun implements OrderedDelivery under the mapping open <- MaySend.
THEOREM ImplementsPromise == Spec => KeepsPromise
<1>1. Init => Promise!Init
  BY DEF Init, Promise!Init, MaySend
<1>2. QED
  BY <1>1, PromiseStep, WireInvariant, PTL DEF Spec, KeepsPromise, Promise!Spec

----------------------------------------------------------------------------
(* Counters and final status *)

\* A stop that read the run PENDING has committed.
Overtaken == \E s \in Stops : spc[s] = "done" /\ srun[s].status = "pending"

AllSteps(steps, status) == \A i \in Positions : steps[i] = status
CountersAre(row, passed, failed, skipped) ==
  row.passed = passed /\ row.failed = failed /\ row.skipped = skipped
Counts == CountersAre(run, Having({"passed"}), Having(Bad), Having({"skipped", "stopped"}))

\* Before the worker has listed the steps, all of them are PENDING, or a stop has
\* ended them all.
NotListed ==
  pos = 0 =>
    /\ \/ AllSteps(step, "pending") /\ CountersAre(run, 0, 0, 0)
       \/ AllSteps(step, "stopped") /\ CountersAre(run, 0, 0, N) /\ Overtaken
    /\ \A s \in Stops : spc[s] = "marked" =>
         AllSteps(sstep[s], "pending") \/ AllSteps(sstep[s], "stopped")
    /\ pc \in {"loaded", "started"} => Overtaken \/ CountersAre(wrun, 0, 0, 0)

\* What the places of the worker and of the stops say about each other.
Places ==
  /\ task = "pending" \/ pc \in {"claimed", "loaded", "started"} => pos = 0
  /\ pc \in InLoop \cup {"started"} => run.status # "pending"
  /\ run.status = "pending" => CountersAre(run, 0, 0, 0)
  /\ \A s \in Stops : srun[s].status = "pending" => srun[s].skipped = 0
  /\ \A s \in Stops : spc[s] = "marked" => srun[s].status = "pending"
  /\ run.status = "completed" => pc = "idle" /\ task # "pending" /\ pos > 0

\* The status of each step for each place of the worker: judged before the current
\* step, PENDING after it.
Progress ==
  /\ pc \in {"check", "stop", "begin", "request", "response", "judged", "skip"} =>
       /\ \A i \in Positions : i < pos => step[i] \in Verdicts
       /\ \A i \in Positions : i > pos => step[i] = "pending"
  /\ pc \in {"check", "stop", "begin"} => step[pos] = "pending"
  /\ pc \in {"request", "response"} => step[pos] = "running"
  /\ pc \in {"judged", "skip"} => step[pos] \in Verdicts
  /\ pc = "skip" => stopOnFailure /\ step[pos] \in Bad

\* Each step is judged, or skipped after a failure that the policy stops at.
Settled ==
  /\ \A i \in Positions : step[i] \in Verdicts \cup {"skipped"}
  /\ \A i \in Positions : step[i] = "skipped" =>
       stopOnFailure /\ \E j \in 1..(i - 1) : step[j] \in Bad

\* In its loop the worker's copies are the rows.
InStep ==
  pc \in InLoop =>
    /\ wstep = step /\ CountersAre(wrun, run.passed, run.failed, run.skipped)
    /\ Progress
    /\ pc \in {"final", "complete"} => Settled

Listed ==
  pos > 0 /\ ~Overtaken => Counts /\ InStep /\ (run.status = "completed" => Settled)

CountInv == WireInv /\ NotListed /\ Places /\ Listed

\* The positions whose status is in S.
With(steps, S) == {i \in Positions : steps[i] \in S}

LEMMA WithIsCountable ==
  ASSUME NEW steps, NEW S
  PROVE  IsFiniteSet(With(steps, S)) /\ Cardinality(With(steps, S)) \in Nat
<1>1. IsFiniteSet(1..N)
  BY FS_Interval, StepsAssumption
<1>2. With(steps, S) \subseteq 1..N
  BY DEF With, Positions
<1>3. QED
  BY <1>1, <1>2, FS_Subset, FS_CardinalityType

LEMMA HavingIsWith == \A S : Having(S) = Cardinality(With(step, S))
BY DEF Having, With

\* One step changes its status.
LEMMA OneMore ==
  ASSUME NEW old \in [Positions -> StepStatus], NEW p \in Positions, NEW v, NEW new,
         \A i \in Positions : new[i] = IF i = p THEN v ELSE old[i], NEW S, old[p] \notin S
  PROVE  /\ v \in S => Cardinality(With(new, S)) = Cardinality(With(old, S)) + 1
         /\ v \notin S => With(new, S) = With(old, S)
<1>1. CASE v \in S
  <2>1. With(new, S) = With(old, S) \cup {p} /\ p \notin With(old, S)
    BY <1>1 DEF With
  <2>2. QED
    BY <1>1, <2>1, WithIsCountable, FS_AddElement
<1>2. CASE v \notin S
  <2>1. With(new, S) = With(old, S)
    BY <1>2 DEF With
  <2>2. QED
    BY <1>2, <2>1
<1>3. QED
  BY <1>1, <1>2

\* A bulk update moves the PENDING steps that it counts.
LEMMA ManyMore ==
  ASSUME NEW old \in [Positions -> StepStatus], NEW M \in SUBSET Positions, IsFiniteSet(M),
         \A i \in M : old[i] = "pending",
         NEW status \in {"stopped", "skipped"}, NEW new, new = Mark(old, M, status)
  PROVE  /\ Cardinality(With(new, {"skipped", "stopped"})) =
              Cardinality(With(old, {"skipped", "stopped"})) + Cardinality(M)
         /\ With(new, {"passed"}) = With(old, {"passed"}) /\ With(new, Bad) = With(old, Bad)
<1> DEFINE S == {"skipped", "stopped"}
<1>1. \A i \in Positions : new[i] = IF i \in M THEN status ELSE old[i]
  BY DEF Mark
<1>2. With(new, S) = With(old, S) \cup M /\ With(old, S) \cap M = {}
  BY <1>1 DEF With
<1>3. IsFiniteSet(With(old, S)) /\ Cardinality(With(old, S)) \in Nat /\ Cardinality(M) \in Nat
  BY WithIsCountable, FS_CardinalityType
<1>4. Cardinality(With(new, S)) = Cardinality(With(old, S)) + Cardinality(M)
  <2>1. Cardinality(With(old, S) \cup M) =
          Cardinality(With(old, S)) + Cardinality(M) - Cardinality(With(old, S) \cap M)
    BY <1>3, FS_Union
  <2>2. Cardinality(With(old, S) \cap M) = 0
    BY <1>2, FS_EmptySet
  <2>3. Cardinality(With(new, S)) = Cardinality(With(old, S) \cup M)
    BY <1>2
  <2> HIDE DEF S
  <2>4. QED
    BY <1>3, <2>1, <2>2, <2>3
<1>5. With(new, {"passed"}) = With(old, {"passed"}) /\ With(new, Bad) = With(old, Bad)
  BY <1>1 DEF With, Bad
<1>6. QED
  BY <1>4, <1>5

LEMMA AllWith ==
  ASSUME NEW steps, NEW v, AllSteps(steps, v), NEW S
  PROVE  Cardinality(With(steps, S)) = IF v \in S THEN N ELSE 0
<1>1. CASE v \in S
  <2>1. With(steps, S) = 1..N
    BY <1>1 DEF With, AllSteps, Positions
  <2>2. QED
    BY <1>1, <2>1, FS_Interval, StepsAssumption
<1>2. CASE v \notin S
  <2>1. With(steps, S) = {}
    BY <1>2 DEF With, AllSteps
  <2>2. QED
    BY <1>2, <2>1, FS_EmptySet
<1>3. QED
  BY <1>1, <1>2

\* Counts before the worker has listed the steps.
LEMMA CountsBefore ==
  ASSUME NotListed, pos = 0
  PROVE  Counts
<1>1. CASE AllSteps(step, "pending") /\ CountersAre(run, 0, 0, 0)
  BY <1>1, AllWith, HavingIsWith DEF Counts, CountersAre, Bad
<1>2. CASE AllSteps(step, "stopped") /\ CountersAre(run, 0, 0, N)
  BY <1>2, AllWith, HavingIsWith DEF Counts, CountersAre, Bad
<1>3. QED
  BY <1>1, <1>2 DEF NotListed

\* Between the stops and the worker: what a stop leaves alone.
LEMMA OvertakenStays ==
  ASSUME WireInv, [Next]_vars, Overtaken
  PROVE  Overtaken'
<1> USE DEF WireInv, TypeInv, TypeOK, Overtaken, db, worker, stops
<1>1. CASE WorkerNext \/ FailRun
  BY <1>1 DEF WorkerNext, Claim, LoadRun, Start, ListSteps, RefreshTask, StopRemaining, BeginStep,
     SendRequest, RefuseRequest, JudgeResponse, RecordStep, RefreshRun, SkipRemaining,
     RefreshAtEnd, Complete, FailRun
<1>2. ASSUME NEW s \in Stops, StopNext(s) PROVE Overtaken'
  BY <1>2 DEF StopNext, ReadRun, CancelRunning, CancelPending, CommitStop
<1>3. CASE Crash
  BY <1>3 DEF Crash
<1>4. CASE UNCHANGED vars
  BY <1>4 DEF vars
<1>5. QED
  BY <1>1, <1>2, <1>3, <1>4 DEF Next

\* The worker never comes back before its first step.
LEMMA PositionStays ==
  ASSUME WireInv, [Next]_vars, pos > 0
  PROVE  pos' > 0
<1> USE DEF WireInv, TypeInv, TypeOK, db, worker, stops
<1>1. CASE WorkerNext \/ FailRun
  BY <1>1, StepsAssumption DEF WorkerNext, Claim, LoadRun, Start, ListSteps, RefreshTask, StopRemaining, BeginStep,
     SendRequest, RefuseRequest, JudgeResponse, RecordStep, RefreshRun, SkipRemaining,
     RefreshAtEnd, Complete, FailRun
<1>2. ASSUME NEW s \in Stops, StopNext(s) PROVE pos' > 0
  BY <1>2 DEF StopNext, ReadRun, CancelRunning, CancelPending, CommitStop
<1>3. CASE Crash \/ UNCHANGED vars
  BY <1>3 DEF Crash, vars
<1>4. QED
  BY <1>1, <1>2, <1>3 DEF Next

LEMMA PlacesStep ==
  ASSUME WireInv, Places, [Next]_vars, TypeInv'
  PROVE  Places'
<1> USE DEF WireInv, TypeInv, TypeOK, Places, CountersAre, FreshUntilListed, InLoop, db, worker, stops
<1>1. CASE Claim \/ LoadRun \/ RefreshTask \/ BeginStep \/ SendRequest \/ RefreshAtEnd
  BY <1>1 DEF Claim, LoadRun, RefreshTask, BeginStep, SendRequest, RefreshAtEnd, Claimable
<1>2. CASE Start \/ ListSteps
  BY <1>2 DEF Start, ListSteps, Rows
<1>3. CASE StopRemaining
  BY <1>3 DEF StopRemaining, Rows
<1>4. ASSUME NEW verdict, RecordStep(verdict), pc \in {"request", "response"} PROVE Places'
  BY <1>4 DEF RecordStep, Counted, Rows
<1>5. CASE RefreshRun
  BY <1>5, StepsAssumption DEF RefreshRun, Positions
<1>6. CASE SkipRemaining
  BY <1>6 DEF SkipRemaining, Rows
<1>7. CASE Complete
  BY <1>7 DEF Complete, CompletedTask, CompletedRun, Rows, Positions
<1>8. CASE FailRun
  BY <1>8 DEF FailRun, AfterCommit, Rows
<1>9. ASSUME NEW s \in Stops, ReadRun(s) PROVE Places'
  BY <1>9 DEF ReadRun
<1>10. ASSUME NEW s \in Stops, CancelRunning(s) PROVE Places'
  BY <1>10 DEF CancelRunning, SetCancelled
<1>11. ASSUME NEW s \in Stops, CancelPending(s) PROVE Places'
  BY <1>11 DEF CancelPending
<1>12. ASSUME NEW s \in Stops, CommitStop(s) PROVE Places'
  BY <1>12 DEF CommitStop, SetCancelled, Rows
<1>13. CASE Crash \/ UNCHANGED vars
  BY <1>13 DEF Crash, vars
<1>14. QED
  BY <1>1, <1>2, <1>3, <1>4, <1>5, <1>6, <1>7, <1>8, <1>9, <1>10, <1>11, <1>12, <1>13
  DEF Next, WorkerNext, StopNext, RefuseRequest, JudgeResponse

LEMMA CommitStopBefore ==
  ASSUME CountInv, NEW s \in Stops, CommitStop(s), pos = 0
  PROVE  NotListed'
<1> USE DEF CountInv, WireInv, TypeInv, TypeOK, Places, worker
<1>1. Overtaken'
  BY DEF CommitStop, Overtaken
<1>2. \A t \in Stops : spc'[t] = "marked" => spc[t] = "marked" /\ sstep'[t] = sstep[t]
  BY DEF CommitStop
<1>3. UNCHANGED <<pos, pc, wrun>> /\ srun[s].skipped = 0
  BY DEF CommitStop
<1>4. CASE AllSteps(sstep[s], "pending")
  <2>1. PendingFrom(sstep[s], 1) = Positions
    BY <1>4 DEF PendingFrom, AllSteps, Positions
  <2>2. Cardinality(Positions) = N /\ Positions # {}
    <3>1. Cardinality(1..N) = N
      BY FS_Interval, StepsAssumption
    <3>2. 1 \in 1..N
      BY StepsAssumption
    <3>3. QED
      BY <3>1, <3>2 DEF Positions
  <2>3. AllSteps(step', "stopped")
    BY <2>1 DEF CommitStop, Mark, AllSteps
  <2>4. CountersAre(run', 0, 0, N)
    <3>1. run.passed = 0 /\ run.failed = 0
      BY DEF NotListed, CountersAre
    <3>2. SkippedColumn(srun[s], Positions) = N
      BY <1>3, <2>2, StepsAssumption DEF SkippedColumn
    <3>3. run' = [run EXCEPT !.status = "stopped", !.skipped = N]
      BY <2>1, <3>2 DEF CommitStop
    <3>4. QED
      BY <3>1, <3>3 DEF CountersAre, Rows
  <2>5. QED
    BY <1>1, <1>2, <1>3, <2>3, <2>4 DEF NotListed
<1>5. CASE AllSteps(sstep[s], "stopped")
  <2>1. PendingFrom(sstep[s], 1) = {}
    BY <1>5 DEF PendingFrom, AllSteps, Positions
  <2>2. step' = step
    BY <2>1 DEF CommitStop, Mark
  <2>3. CountersAre(run', run.passed, run.failed, run.skipped)
    BY <2>1 DEF CommitStop, SkippedColumn, CountersAre, Rows
  <2>4. QED
    BY <1>1, <1>2, <1>3, <2>2, <2>3 DEF NotListed, CountersAre, AllSteps
<1>6. QED
  BY <1>4, <1>5 DEF NotListed, CommitStop

LEMMA NotListedStep ==
  ASSUME CountInv, [Next]_vars
  PROVE  NotListed'
<1> USE DEF CountInv, WireInv, TypeInv, TypeOK, InLoop, db, worker, stops
<1>1. CASE pos > 0
  BY <1>1, PositionStays DEF NotListed
<1>2. CASE pos = 0
  <2> USE <1>2
  <2>1. pc \notin InLoop
    BY DEF Positions
  <2>2. Overtaken => Overtaken'
    BY OvertakenStays
  <2>3. CASE Claim \/ LoadRun
    BY <2>2, <2>3 DEF Claim, LoadRun, NotListed
  <2>4. CASE Start
    BY <2>2, <2>4 DEF Start, NotListed, CountersAre, Rows
  <2>5. CASE ListSteps
    BY <2>5 DEF ListSteps, NotListed
  <2>6. CASE FailRun
    BY <2>2, <2>6 DEF FailRun, NotListed, CountersAre, Rows
  <2>7. CASE RefreshTask \/ StopRemaining \/ BeginStep \/ SendRequest \/ RefuseRequest \/ JudgeResponse
             \/ RefreshRun \/ SkipRemaining \/ RefreshAtEnd \/ Complete
    BY <2>1, <2>7 DEF RefreshTask, StopRemaining, BeginStep, SendRequest, RefuseRequest,
         JudgeResponse, RefreshRun, SkipRemaining, RefreshAtEnd, Complete
  <2>8. ASSUME NEW s \in Stops, ReadRun(s) PROVE NotListed'
    BY <2>2, <2>8 DEF ReadRun, NotListed
  <2>9. ASSUME NEW s \in Stops, CancelRunning(s) PROVE NotListed'
    BY <2>2, <2>9 DEF CancelRunning, NotListed
  <2>10. ASSUME NEW s \in Stops, CancelPending(s) PROVE NotListed'
    BY <2>2, <2>10 DEF CancelPending, NotListed
  <2>11. ASSUME NEW s \in Stops, CommitStop(s) PROVE NotListed'
    BY <2>11, CommitStopBefore
  <2>12. CASE Crash
    BY <2>2, <2>12 DEF Crash, NotListed
  <2>13. CASE UNCHANGED vars
    BY <2>2, <2>13 DEF vars, NotListed
  <2>14. QED
    BY <2>3, <2>4, <2>5, <2>6, <2>7, <2>8, <2>9, <2>10, <2>11, <2>12, <2>13
    DEF Next, WorkerNext, StopNext
<1>3. QED
  BY <1>1, <1>2, StepsAssumption

----------------------------------------------------------------------------
(* The loop of the worker *)

\* A worker that nobody has overtaken.
Alone == CountInv /\ pos > 0 /\ ~Overtaken

LEMMA RecordStepCounts ==
  ASSUME Alone, NEW verdict \in Verdicts, RecordStep(verdict), pc \in {"request", "response"}
  PROVE  Counts' /\ InStep' /\ run'.status = run.status
<1> USE DEF Alone, CountInv, WireInv, TypeInv, TypeOK, InLoop
<1>1. Counts /\ wstep = step /\ CountersAre(wrun, run.passed, run.failed, run.skipped) /\ Progress
      /\ pos \in Positions /\ step[pos] = "running"
  BY DEF Listed, InStep, Progress
<1>2. step' = [step EXCEPT ![pos] = verdict] /\ wstep' = step'
  BY <1>1 DEF RecordStep
<1>3. \A S : "running" \notin S =>
        /\ verdict \in S => Having(S)' = Having(S) + 1
        /\ verdict \notin S => Having(S)' = Having(S)
  <2> SUFFICES ASSUME NEW S, "running" \notin S
               PROVE  /\ verdict \in S => Having(S)' = Having(S) + 1
                      /\ verdict \notin S => Having(S)' = Having(S)
    OBVIOUS
  <2>1. step \in [Positions -> StepStatus] /\ step[pos] \notin S /\ pos \in Positions
    BY <1>1
  <2>2. \A i \in Positions : step'[i] = IF i = pos THEN verdict ELSE step[i]
    BY <1>1, <1>2
  <2>3. Having(S)' = Cardinality(With(step', S)) /\ Having(S) = Cardinality(With(step, S))
    BY DEF Having, With
  <2> HIDE DEF Alone, CountInv, WireInv, TypeInv, TypeOK, InLoop
  <2>4. /\ verdict \in S => Cardinality(With(step', S)) = Cardinality(With(step, S)) + 1
        /\ verdict \notin S => With(step', S) = With(step, S)
    BY <2>1, <2>2, OneMore
  <2>5. QED
    BY <2>3, <2>4
<1>4. /\ verdict = "passed" => Having({"passed"})' = Having({"passed"}) + 1
      /\ verdict # "passed" => Having({"passed"})' = Having({"passed"})
      /\ verdict \in Bad => Having(Bad)' = Having(Bad) + 1
      /\ verdict \notin Bad => Having(Bad)' = Having(Bad)
      /\ Having({"skipped", "stopped"})' = Having({"skipped", "stopped"})
  BY <1>3 DEF Bad, Verdicts
<1>5. run'.status = run.status /\ CountersAre(wrun', run'.passed, run'.failed, run'.skipped)
  BY <1>1 DEF RecordStep, Counted, CountersAre, Rows
<1>6. Counts'
  <2>1. CASE verdict = "passed"
    BY <1>1, <1>4, <2>1 DEF RecordStep, Counted, Counts, CountersAre, Rows, Bad
  <2>2. CASE verdict \in Bad
    BY <1>1, <1>4, <2>2 DEF RecordStep, Counted, Counts, CountersAre, Rows, Bad
  <2>3. QED
    BY <2>1, <2>2 DEF Verdicts
<1>7. Progress' /\ pc' = "judged"
  BY <1>1, <1>2 DEF RecordStep, Progress, Verdicts, Positions
<1>8. QED
  BY <1>2, <1>5, <1>6, <1>7 DEF InStep

\* The bulk updates take the PENDING steps, and the column takes their number.
LEMMA MarkCounts ==
  ASSUME Alone, pc \in InLoop, NEW first \in Nat, NEW status \in {"stopped", "skipped"},
         step' = Mark(step, PendingFrom(wstep, first), status),
         run'.passed = run.passed, run'.failed = run.failed,
         run'.skipped = SkippedColumn(wrun, PendingFrom(wstep, first)), first > 0
  PROVE  Counts' /\ run'.skipped = wrun.skipped + Cardinality(PendingFrom(wstep, first))
<1> USE DEF Alone, CountInv, WireInv, TypeInv, TypeOK
<1> DEFINE M == PendingFrom(wstep, first)
<1>1. Counts /\ wstep = step /\ CountersAre(wrun, run.passed, run.failed, run.skipped)
  BY DEF Listed, InStep
<1>2. M \in SUBSET Positions /\ IsFiniteSet(M) /\ \A i \in M : step[i] = "pending"
  <2>1. M \in SUBSET (first..N) /\ IsFiniteSet(M)
    BY PendingIsCountable
  <2>2. \A i \in M : step[i] = "pending"
    BY <1>1 DEF PendingFrom
  <2>3. first..N \subseteq Positions
    BY StepsAssumption DEF Positions
  <2> HIDE DEF M
  <2>4. QED
    BY <2>1, <2>2, <2>3
<1> HIDE DEF M
<1>3. run'.skipped = wrun.skipped + Cardinality(M)
  <2>1. run'.skipped = IF M = {} THEN run.skipped ELSE wrun.skipped + Cardinality(M)
    BY DEF SkippedColumn, M
  <2>2. wrun.skipped = run.skipped /\ run.skipped \in Nat
    BY <1>1 DEF CountersAre, Rows
  <2>3. M = {} => Cardinality(M) = 0
    BY FS_EmptySet
  <2>4. QED
    BY <2>1, <2>2, <2>3
<1>4. /\ Cardinality(With(step', {"skipped", "stopped"})) =
           Cardinality(With(step, {"skipped", "stopped"})) + Cardinality(M)
      /\ With(step', {"passed"}) = With(step, {"passed"}) /\ With(step', Bad) = With(step, Bad)
  BY <1>2, ManyMore DEF M
<1>5. \A S : Having(S)' = Cardinality(With(step', S))
  BY DEF Having, With
<1>6. Counts'
  BY <1>1, <1>3, <1>4, <1>5, HavingIsWith DEF Counts, CountersAre
<1>7. QED
  BY <1>3, <1>6 DEF M

LEMMA StopRemainingCounts ==
  ASSUME Alone, StopRemaining
  PROVE  Counts' /\ InStep' /\ run'.status = "stopped"
<1> USE DEF Alone, CountInv, WireInv, TypeInv, TypeOK, InLoop
<1>1. /\ run'.status = "stopped" /\ run'.passed = run.passed /\ run'.failed = run.failed
      /\ run'.skipped = SkippedColumn(wrun, PendingFrom(wstep, 1))
      /\ step' = Mark(step, PendingFrom(wstep, 1), "stopped")
  BY DEF StopRemaining, Rows
<1>2. pc \in InLoop /\ pc' = "idle"
  BY DEF StopRemaining
<1>3. Counts'
  BY <1>1, <1>2, MarkCounts
<1>4. QED
  BY <1>1, <1>2, <1>3 DEF InStep

LEMMA SkipRemainingCounts ==
  ASSUME Alone, SkipRemaining
  PROVE  Counts' /\ InStep' /\ run'.status = run.status
<1> USE DEF Alone, CountInv, WireInv, TypeInv, TypeOK, InLoop
<1> DEFINE M == PendingFrom(wstep, pos + 1)
<1>1. /\ run'.status = run.status /\ run'.passed = run.passed /\ run'.failed = run.failed
      /\ run'.skipped = SkippedColumn(wrun, M) /\ step' = Mark(step, M, "skipped")
  BY DEF SkipRemaining, Rows
<1>2. pc = "skip" /\ pc' = "final" /\ pos + 1 \in Nat /\ pos + 1 > 0 /\ UNCHANGED <<pos, stopOnFailure>>
  BY StepsAssumption DEF SkipRemaining
<1>3. Counts' /\ run'.skipped = wrun.skipped + Cardinality(M)
  BY <1>1, <1>2, MarkCounts
<1>4. /\ wstep = step /\ CountersAre(wrun, run.passed, run.failed, run.skipped)
      /\ stopOnFailure /\ step[pos] \in Bad /\ pos \in Positions
      /\ \A i \in Positions : i < pos => step[i] \in Verdicts
      /\ \A i \in Positions : i > pos => step[i] = "pending"
  BY <1>2 DEF Listed, InStep, Progress
<1>5. wstep' = step' /\ CountersAre(wrun', run'.passed, run'.failed, run'.skipped)
  <2>1. wrun' = [wrun EXCEPT !.skipped = wrun.skipped + Cardinality(M)] /\ wstep' = step'
    BY <1>4 DEF SkipRemaining
  <2> HIDE DEF M
  <2>2. QED
    BY <1>1, <1>3, <1>4, <2>1 DEF CountersAre, Rows
<1>6. Settled'
  <2>1. \A i \in Positions : step'[i] = IF i > pos THEN "skipped" ELSE step[i]
    BY <1>1, <1>4, StepsAssumption DEF Mark, PendingFrom, Positions
  <2>2. \A i \in Positions : i <= pos => step'[i] \in Verdicts
    BY <1>4, <2>1 DEF Verdicts, Positions
  <2>3. step'[pos] \in Bad
    BY <1>4, <2>1 DEF Positions
  <2>4. \A i \in Positions : step'[i] = "skipped" => pos \in 1..(i - 1)
    BY <1>4, <2>2 DEF Positions, Verdicts, Bad
  <2>5. QED
    BY <1>2, <1>4, <2>1, <2>2, <2>3, <2>4 DEF Settled
<1>7. QED
  BY <1>1, <1>2, <1>3, <1>5, <1>6 DEF InStep, Progress

LEMMA RefreshRunCounts ==
  ASSUME Alone, RefreshRun
  PROVE  Counts' /\ InStep'
<1> USE DEF Alone, CountInv, WireInv, TypeInv, TypeOK, InLoop, db
<1>1. /\ Counts /\ wstep = step /\ pc = "judged" /\ pos \in Positions
      /\ step[pos] \in Verdicts
      /\ \A i \in Positions : i < pos => step[i] \in Verdicts
      /\ \A i \in Positions : i > pos => step[i] = "pending"
  BY DEF Listed, InStep, Progress, RefreshRun
<1>2. UNCHANGED <<run, step, wstep, stopOnFailure>> /\ wrun' = run
  BY DEF RefreshRun
<1>3. Counts'
  BY <1>1, <1>2 DEF Counts, CountersAre, Having
<1>4. CASE PolicyStops /\ pc' = "skip" /\ UNCHANGED pos
  BY <1>1, <1>2, <1>3, <1>4 DEF InStep, Progress, PolicyStops, CountersAre
<1>5. CASE StepsLeft /\ pc' = "check" /\ pos' = pos + 1
  <2>1. pos' \in Positions /\ pos \in Nat
    BY <1>1, <1>5, StepsAssumption DEF StepsLeft, Positions
  <2>2. \A i \in Positions : i < pos' => i < pos \/ i = pos
    BY <1>1, <1>5 DEF Positions
  <2>3. \A i \in Positions : i >= pos' => i > pos
    BY <1>1, <1>5 DEF Positions
  <2>4. Progress'
    BY <1>1, <1>2, <1>5, <2>1, <2>2, <2>3 DEF Progress, Positions
  <2>5. QED
    BY <1>1, <1>2, <1>3, <1>5, <2>4 DEF InStep, CountersAre
<1>6. CASE ~StepsLeft /\ pc' = "final" /\ UNCHANGED pos
  <2>1. pos = N
    BY <1>1, <1>6, StepsAssumption DEF StepsLeft, Positions
  <2>2. \A i \in Positions : step[i] \in Verdicts
    BY <1>1, <2>1, StepsAssumption DEF Positions
  <2>3. Settled'
    BY <1>2, <2>2 DEF Settled, Verdicts, Bad
  <2>4. QED
    BY <1>1, <1>2, <1>3, <1>6, <2>3 DEF InStep, Progress, CountersAre
<1>7. QED
  BY <1>4, <1>5, <1>6 DEF RefreshRun

LEMMA BeginStepCounts ==
  ASSUME Alone, BeginStep
  PROVE  Counts' /\ InStep'
<1> USE DEF Alone, CountInv, WireInv, TypeInv, TypeOK, InLoop, stops
<1>1. /\ Counts /\ wstep = step /\ CountersAre(wrun, run.passed, run.failed, run.skipped)
      /\ Progress /\ pc = "begin" /\ pos \in Positions /\ step[pos] = "pending"
  BY DEF Listed, InStep, Progress, BeginStep
<1>2. /\ step' = [step EXCEPT ![pos] = "running"] /\ wstep' = step' /\ pc' = "request"
      /\ UNCHANGED <<run, wrun, pos, stopOnFailure>>
  BY <1>1 DEF BeginStep
<1>3. \A S : {"pending", "running"} \cap S = {} => Having(S)' = Having(S)
  BY <1>1, <1>2 DEF Having
<1>4. /\ Having({"passed"})' = Having({"passed"}) /\ Having(Bad)' = Having(Bad)
      /\ Having({"skipped", "stopped"})' = Having({"skipped", "stopped"})
  BY <1>3 DEF Bad
<1>5. Counts'
  BY <1>1, <1>2, <1>4 DEF Counts, CountersAre
<1>6. Progress'
  BY <1>1, <1>2 DEF Progress, Positions
<1>7. QED
  BY <1>1, <1>2, <1>5, <1>6 DEF InStep, CountersAre

\* The first look at the steps: nobody has overtaken the worker, so all are PENDING.
LEMMA ListStepsCounts ==
  ASSUME CountInv, ListSteps, ~Overtaken
  PROVE  Counts' /\ InStep' /\ UNCHANGED <<run, step>>
<1> USE DEF CountInv, WireInv, TypeInv, TypeOK, InLoop, db
<1>1. pos = 0 /\ pc = "started"
  BY DEF ListSteps, Places
<1>2. /\ AllSteps(step, "pending") /\ CountersAre(run, 0, 0, 0) /\ CountersAre(wrun, 0, 0, 0)
  BY <1>1 DEF NotListed
<1>3. UNCHANGED <<run, step, wrun>> /\ wstep' = step /\ pos' = 1 /\ pc' = "check"
  BY DEF ListSteps
<1>4. Counts'
  BY <1>1, <1>3, CountsBefore DEF Counts, CountersAre, Having
<1>5. Progress'
  BY <1>2, <1>3, StepsAssumption DEF Progress, AllSteps, Positions
<1>6. QED
  BY <1>2, <1>3, <1>4, <1>5 DEF InStep, CountersAre

\* A step that leaves the rows of the steps and the counters alone.
LEMMA SameCounts ==
  ASSUME Alone, UNCHANGED <<step, stopOnFailure>>,
         CountersAre(run', run.passed, run.failed, run.skipped)
  PROVE  Counts' /\ (Settled => Settled')
BY DEF Alone, CountInv, Listed, Counts, CountersAre, Having, Settled

LEMMA ListedStep ==
  ASSUME CountInv, [Next]_vars
  PROVE  Listed'
<1> SUFFICES ASSUME pos' > 0, ~Overtaken'
             PROVE  Counts' /\ InStep' /\ (run'.status = "completed" => Settled')
  BY DEF Listed
<1> USE DEF InLoop, db, worker, stops
<1>1. WireInv /\ Places /\ TypeInv /\ ~Overtaken
  BY OvertakenStays DEF CountInv, WireInv
<1>2. pc # "idle" => run.status # "completed"
  BY <1>1 DEF Places
<1>3. CASE ListSteps
  BY <1>1, <1>2, <1>3, ListStepsCounts DEF ListSteps
<1>4. CASE pos > 0
  <2>1. Alone /\ Counts /\ InStep /\ (run.status = "completed" => Settled)
    BY <1>1, <1>4 DEF Alone, CountInv, Listed
  <2>2. CASE Claim \/ LoadRun \/ Start
    BY <1>1, <1>4, <2>2 DEF Places, Claim, Claimable, LoadRun, Start
  <2>3. CASE RefreshTask
    BY <1>2, <2>1, <2>3, SameCounts DEF RefreshTask, InStep, Progress, CountersAre
  <2>4. CASE StopRemaining
    BY <2>1, <2>4, StopRemainingCounts
  <2>5. CASE BeginStep
    BY <1>2, <2>1, <2>5, BeginStepCounts DEF BeginStep
  <2>6. CASE SendRequest
    BY <1>2, <2>1, <2>6, SameCounts DEF SendRequest, InStep, Progress, CountersAre
  <2>7. ASSUME NEW verdict \in Verdicts, RecordStep(verdict), pc \in {"request", "response"}
        PROVE  Counts' /\ InStep' /\ (run'.status = "completed" => Settled')
    BY <1>2, <2>1, <2>7, RecordStepCounts
  <2>8. CASE RefreshRun
    BY <1>2, <2>1, <2>8, RefreshRunCounts DEF RefreshRun
  <2>9. CASE SkipRemaining
    BY <1>2, <2>1, <2>9, SkipRemainingCounts DEF SkipRemaining
  <2>10. CASE RefreshAtEnd
    <3>1. Counts' /\ (Settled => Settled') /\ Settled
      BY <2>1, <2>10, SameCounts DEF RefreshAtEnd, InStep, CountersAre
    <3>2. QED
      BY <2>1, <2>10, <3>1 DEF RefreshAtEnd, InStep, Progress, CountersAre
  <2>11. CASE Complete
    <3>1. CountersAre(run', run.passed, run.failed, run.skipped)
      BY <1>1, <2>11 DEF Complete, CompletedRun, CountersAre, TypeInv, TypeOK, Rows
    <3>2. Counts' /\ Settled'
      BY <2>1, <2>11, <3>1, SameCounts DEF Complete, InStep
    <3>3. QED
      BY <2>11, <3>2 DEF Complete, InStep
  <2>12. CASE FailRun
    <3>1. CountersAre(run', run.passed, run.failed, run.skipped) /\ run'.status = "failed"
      BY <1>1, <2>12 DEF FailRun, CountersAre, TypeInv, TypeOK, Rows
    <3>2. QED
      BY <2>1, <2>12, <3>1, SameCounts DEF FailRun, InStep
  <2>13. ASSUME NEW s \in Stops, ReadRun(s) \/ CancelRunning(s) \/ CancelPending(s)
         PROVE  Counts' /\ InStep' /\ (run'.status = "completed" => Settled')
    <3>1. UNCHANGED <<run, step, stopOnFailure, pc, pos, wrun, wstep>>
      BY <2>13 DEF ReadRun, CancelRunning, CancelPending
    <3>2. QED
      BY <2>1, <3>1, SameCounts DEF InStep, Progress, CountersAre, Settled
  <2>14. ASSUME NEW s \in Stops, CommitStop(s) PROVE FALSE
    BY <1>1, <2>14 DEF CommitStop, Places, Overtaken, TypeInv, TypeOK
  <2>15. CASE Crash
    BY <2>1, <2>15, SameCounts DEF Crash, InStep, CountersAre
  <2>16. CASE UNCHANGED vars
    BY <2>1, <2>16, SameCounts DEF vars, InStep, Progress, CountersAre, Settled
  <2>17. CASE RefuseRequest
    BY <2>7, <2>17 DEF RefuseRequest, Verdicts, Bad
  <2>18. CASE JudgeResponse
    BY <2>7, <2>18 DEF JudgeResponse
  <2>19. CASE \E s \in Stops : StopNext(s)
    BY <2>13, <2>14, <2>19 DEF StopNext
  <2>20. QED
    BY <1>3, <2>2, <2>3, <2>4, <2>5, <2>6, <2>8, <2>9, <2>10, <2>11, <2>12, <2>15, <2>16, <2>17,
       <2>18, <2>19
    DEF Next, WorkerNext
<1>5. CASE pos = 0 /\ ~ListSteps
  <2>1. pc \notin InLoop
    BY <1>1, <1>5 DEF TypeInv, Positions
  <2>2. pos' = pos
    BY <1>5, <2>1 DEF Next, WorkerNext, StopNext, Claim, LoadRun, Start, RefreshTask,
       StopRemaining, BeginStep, SendRequest, RefuseRequest, JudgeResponse, RecordStep, RefreshRun,
       SkipRemaining, RefreshAtEnd, Complete, FailRun, ReadRun, CancelRunning, CancelPending,
       CommitStop, Crash, vars
  <2>3. QED
    BY <1>5, <2>2
<1>6. QED
  BY <1>1, <1>3, <1>4, <1>5, StepsAssumption DEF TypeInv, TypeOK

LEMMA CountInvariant == Spec => []CountInv
<1>1. Init => NotListed /\ Places /\ Listed
  BY DEF Init, NewRun, NewSteps, NotListed, Places, Listed, AllSteps, CountersAre, InLoop
<1>2. CountInv /\ WireInv' /\ [Next]_vars => CountInv'
  BY NotListedStep, PlacesStep, ListedStep DEF CountInv, WireInv
<1>3. WireInv /\ NotListed /\ Places /\ Listed <=> CountInv
  BY DEF CountInv
<1>4. QED
  BY <1>1, <1>2, <1>3, WireInvariant, PTL DEF Spec

\* Unless a stop that read the run PENDING overlaps the worker, the counters of the
\* run are the numbers of its steps (service.py 444-461, 484, 494).
THEOREM CountersMatch == Spec => []CountsMatchSteps
<1>1. CountInv => CountsMatchSteps
  <2> SUFFICES ASSUME CountInv, ~Raced PROVE Counts
    BY DEF Counts, CountersAre, CountsMatchSteps
  <2>1. CASE pos = 0
    BY <2>1, CountsBefore DEF CountInv
  <2>2. CASE pos > 0
    BY <2>2 DEF CountInv, Listed, Raced, Overtaken
  <2>3. QED
    BY <2>1, <2>2, StepsAssumption DEF CountInv, WireInv, TypeInv, TypeOK
<1>2. QED
  BY <1>1, CountInvariant, PTL

\* Unless a stop that read the run PENDING overlaps the worker, each step of a
\* COMPLETED run is judged, or skipped after a failure that the policy stops at
\* (service.py 214-223).
THEOREM CompletedSettled == Spec => []CompletedRunIsSettled
<1>1. CountInv => CompletedRunIsSettled
  BY DEF CountInv, Places, Listed, Settled, Raced, Overtaken, CompletedRunIsSettled
<1>2. QED
  BY <1>1, CountInvariant, PTL

=============================================================================
