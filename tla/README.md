# A TLA+ model of the AI test platform

The repository is a platform that reads the source code of a Java service, lets
a language model draft API test cases for it, has people review them and runs
the approved ones against the service. This directory holds TLA+ modules of its
backend, the TLC configurations that check them and TLAPS proofs of the
properties of its protocols.

Paths below are relative to `src/backend/app/`.

## 1. Inventory

One process hosts the HTTP API and, as an asyncio task of the same event loop,
one background worker (`main.py` 37-51). Both work on PostgreSQL through
SQLAlchemy sessions. There is no other channel between them: a request leaves a
row in `background_tasks`, the worker claims it, and everybody learns about
progress by reading rows.

| Part | State | Operations | Hard behaviour | What makes it correct |
|---|---|---|---|---|
| Execution runs (`modules/executions/service.py`) | task, run with counters, steps | create, worker loop, stop request | stops race the loop; each session works on copies; restarts | requests in order and once; a stop and the stop policy halt the run; counters and final status fit the steps; every run ends |
| Requests and answers (`variables.py`, `runner.py`, `assertion_engine.py`, `extractions.py`) | none | merge and resolve a template, build a request, evaluate an answer | kinds of errors, JSON paths with no match or several | errors have the category of their cause; extraction and assertions agree on one answer |
| Suites (`modules/test_suites/service.py`) | suite, steps, extractions | save, start a run, retry failed cases | a start reads in several statements while edits commit; variables need an earlier producer | a run is one saved definition; a missing variable has a cause in the run |
| Environments (`modules/environments/router.py`) | environment, variables | update | edits while a run is under way | one host for a run; writes go where the user confirmed |
| Task queue and worker (`workers/task_worker.py`, `modules/source_scans/repository.py`) | `background_tasks` | claim, dispatch, exception handlers | failure inside a transaction, process ends, project deleted meanwhile | task and domain row agree; nothing runs for ever; oldest first; nothing settled is processed again |
| Source scans (`modules/source_scans/service.py`) | scan, files, results | create with a version, run, publish, fail | concurrent requests; publication is one large transaction | versions dense; results whole |
| Index of the sources (`java_parser.py`, `openapi_parser.py`, `chunker.py`) | symbols, relations, interfaces, chunks | derive, merge, publish | ambiguous names, routes twice, documents that describe more than the sources | relations lead to the one type of a name; one interface for a route |
| Embedding (`modules/knowledge/embedding.py`, `repository.py`, `service.py`) | chunk status, attempts, vector | claim a batch, call the provider, save, fail, retry | several workers, crashes between commit and call, provider errors | a chunk in one batch at a time; bounded calls; success is complete and final |
| Retrieval (`exact_retrieval.py`, `hybrid_retrieval.py`, `search.py`) | none (reads) | expand, rank, cut to a budget | boundaries; vectors appear meanwhile | exactly two hops; ranking and budget |
| Test case agent (`modules/agents`) | agent run, checkpoints, rules | generation graph, validation of answers, review, recovery at start-up | long request with many commits, failure half way, concurrent reviews | run and cases agree; checkpoints follow the graph; drafts are grounded in the index |
| Test cases (`modules/testcases/service.py`) | case, assertions, version | edit | edit against review | edits only before the review |
| Reports, configurations, projects, users | rows | create, read, update, delete | check then insert | uniqueness, one default |
| Progress streams (`executions/router.py`, `source_scans/router.py`) | session of the stream | poll a row | identity map of the session | shows every change, ends |

`PROJECT.json` lists every part with what is modelled of it, and the hazards of
the code with the properties that would catch them.

## 2. Rules of the database that shape the modules

* Sessions are created with `expire_on_commit=False` (`database.py`). A loaded
  object keeps the values of its first load until `refresh`; a later query of
  the same row returns the old object with its old values. This is why
  `ExecutionRun` has the copies `wrun`, `wstep`, `srun`, `sstep`,
  `AgentReview` has `seen`, and `SuiteRun` has `loaded` and what a request
  has read.
* A commit writes only the columns that the session changed, with values that
  it computed from its copy. So `Complete` writes the status of a run and leaves
  its counters alone, while `+= 1` writes old copy plus one.
* PostgreSQL runs at READ COMMITTED. A row that a session has flushed is locked
  until its commit (`holder` in `ExecutionRun`, `locked` in `TaskWorker`), and
  `FOR UPDATE SKIP LOCKED` passes over it. Two statements of one transaction
  may see different commits (`ReadSuite`, `ReadSteps`, `CreateRun` in
  `SuiteRun`).
* An exception inside `async with session.begin()` rolls back and expires the
  objects of the session. The handler of `process_next` then reads `task.id`,
  which needs a load where none can be awaited, and raises as well: the worker
  task of the process is gone (`Dies`, `TransactionFails` in `TaskWorker`).
* An action is the code between two points where another session can commit:
  a commit, or a statement whose result the code keeps.

## 3. Modules

State machines:

**`ExecutionRun`** is `process_execution_task`, `_process_step`,
`_skip_remaining_steps`, `_stop_remaining_steps`, `_fail_run`,
`request_execution_stop` and the claim of the task. `task`, `run`, `step` are
the rows. `pc` walks the statements of the worker: `Claim` (the claim commits,
the row stays PENDING), `LoadRun`, `Start` (RUNNING is written without a look at
what has changed since), `ListSteps`, then for each step `RefreshTask`,
`BeginStep`, `SendRequest` or `RefuseRequest`, `JudgeResponse`, `RefreshRun`,
and at the end `SkipRemaining`, `StopRemaining`, `RefreshAtEnd`, `Complete` or
`FailRun`. A stop request is `ReadRun`, then `CancelRunning` or `CancelPending`
and `CommitStop`, by the status it read. `wire` is history: the step positions
of the requests that left; `cancelMark` is its length when the task row became
CANCELLED. Rows of different runs are independent, so one run is enough.

**`OrderedDelivery`** is what a run promises to the service it tests: requests
in increasing order until the run closes, nothing after. `ExecutionRun`
implements it with `open` mapped to `MaySend`.

**`SuiteRun`** looks at the same worker from the content of its requests:
authors save suites (`CheckStep` is one turn of the loop of `_replace_steps`),
administrators edit the environment, its variables and, late, a case; users
start a suite's run, replay it or retry its failed cases; the worker builds,
sends and judges each step. `loaded` is the environment that the worker read
with the run; cases and variables are read again at each step, as
`_process_step` does. A start reads `stop_on_failure` one statement before the
steps, so `RunIsOneSuite` speaks of the steps only. Stop requests, counters and
restarts are left to `ExecutionRun`: they change which steps run and not what a
step sends.

**`TaskWorker`** is the queue with `create_source_scan`, the transactions of a
scan in `process_next`, its handlers, `delete_project` and the death and restart
of the worker. `queue` orders tasks by the start of the transaction that
creates them, which is what `now()` and hence `created_at` is. The embedding
task that a scan queues is seen here from its row only.

**`EmbeddingJob`** is `process_embedding_task`, `claim_embedding_chunks`,
`_mark_embedding_failed`, the generic handler of the worker and
`retry_embeddings`, with a set of workers because `embedding.py` 122 and
`repository.py` 30 claim safety for several.

**`AgentReview`** is one agent run: the eight nodes of the graph with the commit
of `_checkpoint` after each, the three flushes of `persist_drafts` that become
visible together (or partly, by `_mark_failed`), the re-read at the end of the
request, `review_agent_run`, `update_test_case` and
`fail_interrupted_agent_runs`.

**`CodeIndex`** follows the data of one scan: the publication of the index, the
vectors that appear batch after batch, the contexts that a run of the agent
retrieves meanwhile, the answers of the model that pass the validators, and
the drafts that are stored. How the rows of these parts change their status is
in the three modules above.

Algorithms, as operators:

* **`ResponseChecks`**: JSON paths, the assertion types with their aliases and
  errors, and extraction rules. A JSON value is a tagged tuple.
* **`RequestTemplates`** (extends it): the merge of a template with an
  override, references, resolution, authentication, and the request built or
  the error that refuses it. Parts are nested one level: fields of a section.
* **`SourceIndex`**: symbols, relations, interfaces with their OpenAPI
  operations, bindings and conflicts, and chunks, from declarations.
* **`ContextRetrieval`** (extends it): expansion along relations, vector hits,
  ranking, the budget.
* **`DraftChecks`** (extends it): the fields that the tools know of an
  interface, and the validators of rules, scenarios and cases.

**`MC...`** modules only declare model values and the shape of instances.
**`..._proofs`** modules hold the theorems about the module of their name,
`SuiteValues_proofs` those about the values in `SuiteRun`. **`FoldFacts`** has the
facts about folds that these proofs use.

A definition whose name has a suffix after an underscore (`LockFree_NoForUpdate`)
is a wrong form of the definition it stands before: with it in that place TLC
finds the property of `mutants` violated, which shows that the property
depends on this line of the code.

## 4. Runs

| Run | Instance | What it shows |
|---|---|---|
| `execution_run` | 3 steps, 2 stops, 1 restart; 1.1 million states | order and uniqueness of requests, `FailureHalts`, `StopIsPrompt`, counters, final status, the refinement of `OrderedDelivery`, that a claimed task settles and a run nobody stops is finished |
| `execution_stop_lost` | 1 step, 1 stop | violation: stopped in its last step, a run stays RUNNING |
| `execution_stop_undone` | 1 step, 1 stop | violation: a STOPPED run is started again |
| `scan_safety` | 2 projects, 3 scans, 1 fault | rows agree, results whole, versions dense, settled tasks stay so, the queue drains |
| `scan_unrecorded` | 1 scan, 1 error | violation: a scan stays RUNNING for ever |
| `embedding_workers` | 3 chunks, 2 tasks, 2 workers, 1 retry, 2 crashes; 195,000 states | disjoint batches, bounded calls, vectors kept, success is complete, tasks settle |
| `embedding_stuck` | 1 worker | violation: chunks of a failed task stay PROCESSING |
| `agent_safety` | 2 cases, 2 reviews, 2 edits, 1 fault | run and cases agree, checkpoints, calls, no run stays RUNNING |
| `agent_review_final` | 2 reviews | violation: a decision is overwritten |
| `suite_safety` | 6 definitions, 2 saves, 1 edit, 2 requests for a run; 197,000 states | a saved suite is sound, a run is one saved definition, one host for a run, missing variables have a cause, used values were extracted, overrides keep the rest, assertions and extraction agree |
| `code_index` | 3 sources with 4 documents, at most 2 vectors; 12,000 states | what the index, each retrieved context and each stored draft may contain |
| `code_index_errors` | the same, no vectors | violation: the exceptions of a service are not retrieved with its interface |

*Bounds.* Three steps have a first, a middle and a last one, so that the policy
can skip several and off-by-one errors show at either end. Two stops are enough
for a stop against a stop and against the worker; a third would repeat a place
of one of the two. Three scans in two projects give a pair that competes for a
version and one that does not. Three chunks with batches of two give a full and
a partial batch, and two crashes leave a chunk claimed by a dead worker twice.
Two cases are the least that can disagree, two reviews and two edits the least
that can overlap. Two saves and two requests let a save fall between the
statements of a start, and let a run be retried or started while another one is
executed. The definitions of `MCSuiteRun` are a suite that hands over a token,
one that overrides parts and stops, one without runtime variables and three that
must be refused. The sources of `MCCodeIndex` are a small shop, the shop with a
second controller that maps the same routes and a second class of one name, and
two overloads that clash; its documents agree, describe an operation twice or
describe one that no controller has. One fault interrupts every action of the
models once. The bounds are constants of the modules (`MaxFaults`,
`MaxCrashes`, `MaxSaves`, `MaxEdits`, `MaxVectors`).

*Symmetry* is used for the requests of `suite_safety`, which are
interchangeable; that run checks invariants only.

*Deadlock* is not checked: a finished run and an empty queue have no further
step by design.

*Six runs expect a violation.* Each quotes the sentence of the repository that
the code does not keep (see `findings`). `execution_stop_lost` and
`scan_unrecorded` are temporal and state fairness, so the counterexample is not
a system that merely stopped.

*Guarded properties.* A property that holds under a condition names it.

* `CountsMatchSteps` and `CompletedRunIsSettled` exclude a stop that read the
  run PENDING and overlaps a worker that has its steps (`Raced`): there both
  sessions add to the same old `skipped_count`, and a step may go from STOPPED
  to RUNNING. With it the counters of a run may exceed its total, so that hazard
  stays without a property. Every stop of a running run and every restart remain
  included.
* The liveness of `execution_run`, `scan_safety`, `embedding_workers` and
  `agent_safety` is stated for behaviours without a fault, or up to the loss of the
  generating session, as written in each formula: a crash may leave a RUNNING task
  for good, which `scan_unrecorded` is about.
* A fault of `TaskWorker` is a crash or an exception inside a transaction,
  whatever caused it. Some sources raise one at each scan (a qualified name
  declared twice, an operation without a controller), so `RunningIsOwned` bounds
  the abandoned tasks by these scans too, and `QueueDrains` speaks of a queue
  without them.
* `SuccessIsComplete` speaks of a task whose worker was alone, since a second
  worker may hold the last batch while the first one finds nothing to claim.
* `SuiteIsSound`, `MissingIsUpstream` and `OverrideKeepsRest` speak of cases
  that nobody edited after their approval (`Unedited`). `LateEdit` is what the
  race of `AgentReview` leaves behind, and the other properties of that run hold
  with it.

## 5. Fairness

The worker is a task of the event loop whose blocking calls have timeouts (the
test request and the provider call through httpx, the database through its
pool), so `WorkerNext` is weakly fair in `ExecutionRun`, `TaskWorker` and
`EmbeddingJob`, where each worker is. The generation of `AgentReview` is a
request handler with the same kind of calls, hence `WF_vars(GenerationNext)`. A
stop request that has read the run is a coroutine that runs to its commit, hence
weakly fair from there on. Nobody has to send a stop, a review, an edit or a
retry. A crash is never fair. `Revive` (somebody restarts a process whose worker
is dead) is fair only in `AttendedSpec`, where it makes the violation stronger;
`StartUp` is fair in `AgentReview` because the deployment restarts the
container. `SuiteRun` and `CodeIndex` state safety only: that a run ends is the
question of `ExecutionRun`.

## 6. Proofs

The theorems hold for every value of the constants that meets the assumptions
of the module. None of the properties is inductive; each proof has an invariant
that says where the rows are for each place of the process, and one step per
action.

**`ExecutionRun_proofs`** (`N` is a positive number, `MaxFaults` a natural one):
`TypeCorrect`, `InOrder`, `HaltsOnFailure`, `PromptStop`, `ImplementsPromise`,
`CountersMatch`, `CompletedSettled`.
`WireInv` says where the last request can be for each place of the worker:
nothing has left while the task may still be claimed, every position on `wire`
is at most the current one, strictly less until it is sent, a bad step is the
current one and is seen by the policy before another step begins, and a
cancelled task has let at most the request through whose step was past its
check. The refinement proof shows that `SendRequest` is `Deliver`, that the
action after which nothing can leave is `Close`, and that every other step
stutters. `CountInv` adds the counters: before the worker has listed its steps
all are PENDING or a stop has ended all of them (`NotListed`); afterwards, unless
such a stop has committed (`Overtaken`), the worker's copies are the rows, and the
status of each step follows from the worker's place (`InStep`, `Progress`).

**`TaskWorker_proofs`** (every scan has a project, the faults are crashes or
errors, `None` is no task): `TypeCorrect`, `MatchingRows`, `WholePublication`,
`DenseVersions`, `RunningOwned`, `SettledStays`. The invariant has the types of
the rows, what each creation request has locked and read (`RequestsOK`), and what
the task at hand is for each place of the worker (`AtWork`). `DenseVersions` needs
beside it that the lock of a project covers the count that its holder has read
(`NumbersInv`); `RunningOwned` that a task becomes ownerless only with a fault
(`OwnedInv`).

**`EmbeddingJob_proofs`** (the first task is a task, limits are numbers, a batch
has at least one chunk): `TypeCorrect`, `BoundedCalls`, `DisjointBatches`,
`FinalSuccess`, `CompleteWhenAlone`. `Ahead` says that the attempts of a batch were counted before its
call: that the claim commits first is what keeps the bound over a crash between
claim and call. That no two workers get ahead on one chunk needs
`BatchesAreDisjoint`, and that the chunks of a batch are PROCESSING.
`CompleteWhenAlone` is about behaviours in which all workers but one stay idle, and
its step assumes that before and after (`AloneNext`). Its invariant `SInv`: the
task of that worker is pending until it starts and running from there (`OwnTask`);
without a crash or a failed task no chunk is PROCESSING outside the batch, and none
has failed (`NoneLost`); once a task has succeeded nothing is claimable
(`NothingLeft`); and a new chunk has no attempts (`NewIsUntried`), so one that is
left would be claimable.

**`AgentReview_proofs`** (there is a case, finitely many): `TypeCorrect`,
`CasesAgree`, `CheckpointsFollowGraph`, `BoundedAsks`. The invariant ties the
status of the run to the place of the generation (`Place`), the checkpoints to
the node at hand (`Path`) and the calls to the nodes entered and the repair
asked for (`Calls`).

**`FoldFacts`** has no theorem about the system but the lemmas `FoldUnfolds`,
`FoldStays` and `FoldExtends`, which hold of any operator. Most loops of the code
are folds here, and a proof about one goes over its prefixes. The module has a
constant operator `Op`, defines the fold with it as the library defines
`FoldLeft`, and proves that the fold runs through one value for each prefix;
induction comes in the form of sets (`SetInduction`: a set that holds 0 and the
successors of its members holds every natural number), from the well-foundedness
of <. A module that folds with an operator of its own instantiates `FoldFacts`
with it and shows that the two folds are one.

**`SuiteRun_proofs`**: `OneSuite`, `SingleTarget`, `OverridesKeepTheRest`.
`IInv` says that a start which has read its steps has read a saved definition
(`Asking`), that each run follows the definition it names (`Copied`), that a
pending run has sent nothing, and that the run at work has sent only to the
environment the worker holds (`AtWork`). `Calm` collects what every action of the
worker but `SendRequest` leaves alone in a run; the steps of `QuietStep` and
`WorkerStep` are shared by the actions. `KInv` adds that what a step has sent keeps
the fields its override does not name; that merging and resolving keep the names
of fields (`MergedFields`, `ResolvedFields`) is what it rests on.

**`SuiteValues_proofs`**: `ValuesAreExtracted`, `MissingComesFromErrors`,
`SavedSuitesAreSound`, `TypesHold`, `ReadAlike`. A step that uses a value has it
from the variables of the run, so `VInv` says where those come from: each is what
a step that ended well has extracted from its answer, and such a step has
extracted all its keys (`ValuesOK`). `Position` says which steps have ended for
each place of the worker. `Fed` is what `_replace_steps` promises of a saved
suite, proved of its fold over the steps (`AcceptedFacts`) and carried into each
run; a retry has no extractions and consumes nothing. A variable can then be
missing only after an error of its producer. `TInv` counts one run for each
answered request and keeps the types; with it an answer is one that the service
can give, and `ReadAlike` follows from what a path selects (`PathFacts`, a fold
over tokens of folds over values).

Assumptions, all of them about inputs: a library has two contents of each case
(the approved one and that of a late edit); suites are lists of steps with cases
of the library and one of the four sources for each extraction, as the schema
`TestSuiteCreate` requires; requests are finitely many; the first environment
passed `validate_environment`, as creation demands; JSON values hold JSON values,
and an index in a path is a natural number, since the token pattern has digits
only.

**`CodeIndex_proofs`**: `RowsRefer`, `IndexSaysTheSources`, `TwoHops`,
`ContextsRanked`, `DraftsHaveGround`. The first half is about the operators of
`SourceIndex`, for any sources: which symbols a declaration has, that clashing
names keep a publication from happening, that a relation resolves only to the one
type of its name (`ResolvedRelations`), that of two declarations of a route the
first one counts (`FirstRoutes`), that every chunk has its symbol. `CInv` says
that what is published is what these operators derive from the sources, and that
each node of the run holds what its validator has let through, about interfaces
and contexts of this index. `ContextsRanked` is about the order itself: the hits are
numbered by how many come before them, which is a sequence without gaps because
the sort key (score, line, id) is a strict order of a finite set
(`Positions`); the budget is a fold, and `Taken` says what it has taken after each
hit. `ContextsOK` adds that each context was computed from the index with the
vectors of its time.

Assumptions: sources and documents are lists, a declaration is a class, an
interface or an enum; limits are positive; lines, lengths and distances are
natural numbers, a chunk is not empty (`chunker.py` 45 leaves empty ones out)
and no two chunks of a scan have one id (a UUID is their primary key). `Uuid` is
the place of an id among all ids. `hybrid_retrieval.py` ends its sort key with
that id, which makes the order strict: `MCCodeIndex` has a controller and a
service whose chunks lie on one line, so that TLC meets such ties.

Only model-checked:

* liveness and everything under fairness: the prover has no ENABLED;
* the runs that expect a violation, which TLC refutes.

Every other property of a passing run is a theorem above.

## 7. Not modelled

* Progress streams: what a poll sees follows from the expiry of the objects in
  one long session, which is SQLAlchemy's rule and not this code's.
* LLM configurations, users, authentication, members and uploads: single row
  updates. The hazard of two default configurations is listed.
* Text: tree-sitter, YAML and ripgrep are outside, so are URL parsing, the
  resolution of host names, redaction, formatting of reports and encryption.
  `SourceIndex` starts at declarations; keyword hits do not enter the ranking.
* A template has sections with fields; deeper nesting of overrides repeats the
  same merge one level down.
* A deadlock of row locks that PostgreSQL would resolve by failing one of two
  transactions; its effect, a failed request or a dead worker, is among the
  faults.
* A document with an operation that no controller has makes the publication
  raise. It is an `error` of `TaskWorker`; `CodeIndex` does not publish there,
  and `IndexIsSound` says nothing of such a scan.
* In `Finish` of `EmbeddingJob` the empty claim and the final status are one
  step: nothing that the properties see can come between them.
* `SuiteRun` leaves stop requests, counters and restarts to `ExecutionRun`. Its
  `RetryCases` reads the failed run, the cases and the environment at one instant.
* Early returns for rows that are gone: a task without its run or with a deleted
  environment (`service.py` 187-196) is not in `ExecutionRun`, since the run is
  created with the task and refers to its environment with RESTRICT; a scan task
  without a scan is not in `Claim` of `TaskWorker`, since both rows go with the
  project.
* `Nearest` of `ContextRetrieval` keeps all chunks that tie for the last place
  where the query takes some of them; `SourceIndex` has the identifiers of a type
  only, so `int` and `int[]` are one parameter type.
* The front end, deployment and migrations.

## 8. Plan

1. Composition: `TaskWorker` with `EmbeddingJob` in the place of its two
   embedding actions, by a refinement of the task row.
2. `DefaultConfig`: concurrent changes of the default configuration, with the
   readers in `EmbeddingJob` and `AgentReview`.
3. `ProgressStream`, once the rules of the identity map are written down as an
   external module.
4. Theorems beyond the properties of the runs: the errors of `BuildError` against
   the request that `BuildRequest` yields, and the validators of `DraftChecks`.
