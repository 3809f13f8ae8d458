------------------------------ MODULE SuiteRun ------------------------------
(***************************************************************************)
(* Test suites and their runs: an author saves the suite, an administrator *)
(* changes the environment and its variables, users start runs of the      *)
(* suite, replay them or retry their failed cases, and the worker builds,  *)
(* sends and judges the request of one step after the other                *)
(* (test_suites/service.py, environments/router.py, reports/service.py,    *)
(* create_suite_execution_run and _process_step of executions/service.py). *)
(*                                                                         *)
(* A start reads the suite, its steps and the rest in statements of their  *)
(* own, and edits commit between them.  The worker keeps the environment   *)
(* it loaded with the run, and reads cases and variables anew at each step.*)
(* Stop requests, counters and crashes are those of ExecutionRun.          *)
(***************************************************************************)
EXTENDS RequestTemplates, FiniteSets

CONSTANTS
  Library,        \* case -> its API (method, parameters), approved, contents
  SuitePayloads,  \* the definitions that authors send: [steps, stop]
  Environments,   \* the payloads of environment edits, the first one apart
  FirstEnvironment,
  FirstVariables, VariableEdits,   \* key -> [secret, value]; [key, secret, value]
  Responses,      \* the answers of the tested service
  NetworkErrors,  \* the categories of RunnerError that a request may end with
  Json, AskedPaths, AskedScalars,   \* JSON values; what ChecksAgree asks of the answers
  Requests,       \* requests for a run
  Confirmations, NoHost,   \* the hosts that users confirm, or none
  MaxSaves, MaxEdits   \* bounds on suite saves, on edits of all other rows

Cases == DOMAIN Library
ASSUME BoundsAssumption == MaxSaves \in Nat /\ MaxEdits \in Nat
ASSUME LibraryAssumption == \A c \in Cases : Len(Library[c].contents) = 2
ASSUME RequestsAssumption == IsFiniteSet(Requests)

\* What TestSuiteCreate takes for a definition: a list of steps, each with a list of
\* extractions from one of the four sources.
ExtractionSources == {"status_code", "json_path", "response_header", "text"}
ASSUME SuitesAssumption ==
  \A p \in SuitePayloads :
    /\ p.steps \in Seq(ToSet(p.steps))
    /\ \A i \in DOMAIN p.steps : LET extracts == p.steps[i].extracts IN
         /\ p.steps[i].case \in Cases /\ extracts \in Seq(ToSet(extracts))
         /\ \A j \in DOMAIN extracts : extracts[j].source \in ExtractionSources

\* What json.loads returns holds JSON values again, and an index in a path is a number.
ASSUME ResponsesAssumption ==
  /\ \A a \in Responses : a.json \in Json
  /\ \A v \in Json : /\ v[1] = "array" => v[2] \in Seq(Json)
                     /\ v[1] = "object" => \A k \in DOMAIN v[2] : v[2][k] \in Json
  /\ \A path \in AskedPaths :
       /\ path.tokens \in Seq(ToSet(path.tokens))
       /\ \A token \in ToSet(path.tokens) : token[1] = "index" => token[2] \in Nat
  /\ \A v \in AskedScalars : v[1] # "array"

VARIABLES
  suites,       \* the definitions saved so far; the rows hold the last one
  environment,  \* the test_environments row
  variables,    \* the environment_variables rows
  content,      \* which of its two contents each case has
  edits,        \* how many edits of the last three were made
  request,      \* where each request for a run is, and what it has read
  runs,         \* execution_runs with their steps, in creation order
  pc, current, pos,   \* the worker, its run and its step
  loaded        \* the environment it holds

config == <<suites, environment, variables, content, edits>>
worker == <<pc, current, pos, loaded>>
vars == <<config, request, runs, worker>>

NewRequest == [pc |-> "new", environment |-> FirstEnvironment, version |-> 0,
               stop |-> FALSE, confirmed |-> NoHost]

Init ==
  /\ suites = <<>> /\ environment = FirstEnvironment /\ variables = FirstVariables
  /\ content = [c \in Cases |-> 1] /\ edits = 0
  /\ request = [q \in Requests |-> NewRequest]
  /\ runs = <<>>
  /\ pc = "idle" /\ current = 0 /\ pos = 0 /\ loaded = FirstEnvironment

\* The request of a case as a step runs it.
Content(c) == Library[c].contents[content[c]]
Merged(step) == MergeTemplate(Content(step.case).template, step.override)

Keys(extracts) == {extracts[i].key : i \in DOMAIN extracts}
Produced(steps) == UNION {Keys(steps[i].extracts) : i \in DOMAIN steps}

----------------------------------------------------------------------------
(* Suites *)

\* One step of _replace_steps, after the steps that produce the keys in acc.keys.
CheckStep_Unordered(acc, step) ==
  [ok |-> /\ acc.ok
          /\ Cardinality(Keys(step.extracts)) = Len(step.extracts)
          /\ Keys(step.extracts) \cap acc.keys = {},
   keys |-> acc.keys \cup Keys(step.extracts)]
CheckStep(acc, step) ==
  [ok |-> /\ acc.ok
          /\ DOMAIN step.override \subseteq Sections
          /\ RuntimeVariables(Merged(step)) \subseteq acc.keys
          /\ Cardinality(Keys(step.extracts)) = Len(step.extracts)
          /\ Keys(step.extracts) \cap acc.keys = {},
   keys |-> acc.keys \cup Keys(step.extracts)]

\* _replace_steps refuses a case that is not approved and a step that fails.
Accepts(steps) ==
  /\ \A i \in DOMAIN steps : Library[steps[i].case].approved
  /\ FoldLeft(CheckStep, [ok |-> TRUE, keys |-> {}], steps).ok

\* create_test_suite, update_test_suite.  Of two updates that overlap, the second
\* one to delete the steps fails.
SaveSuite(payload) ==
  /\ Len(suites) < MaxSaves /\ payload.steps # <<>> /\ Accepts(payload.steps)
  /\ suites' = Append(suites, payload)
  /\ UNCHANGED <<environment, variables, content, edits, request, runs, worker>>

----------------------------------------------------------------------------
(* Environments and cases *)

\* validate_environment
ValidEnvironment_WritableProduction(e) == e.host \in e.allowlist
ValidEnvironment(e) == e.host \in e.allowlist /\ (e.production => ~e.writes)

ASSUME EnvironmentAssumption == ValidEnvironment(FirstEnvironment)

MayEdit == edits < MaxEdits /\ edits' = edits + 1

UpdateEnvironment(e) ==
  /\ MayEdit /\ ValidEnvironment(e)
  /\ environment' = e
  /\ UNCHANGED <<suites, variables, content, request, runs, worker>>

SetVariable(v) ==
  /\ MayEdit
  /\ variables' = Overlay(v.key :> [secret |-> v.secret, value |-> v.value], variables)
  /\ UNCHANGED <<suites, environment, content, request, runs, worker>>

\* update_test_case that loaded the case before its approval commits after it.
LateEdit(c) ==
  /\ MayEdit /\ Library[c].approved /\ content[c] = 1
  /\ content' = [content EXCEPT ![c] = 2]
  /\ UNCHANGED <<suites, environment, variables, request, runs, worker>>

----------------------------------------------------------------------------
(* Requests for a run *)

\* load_variable_namespaces
Namespaces(e, runtime) ==
  LET Of(secret) == [k \in {x \in DOMAIN variables : variables[x].secret = secret} |-> variables[k].value]
  IN [env |-> Overlay(Of(FALSE), "baseUrl" :> <<"string", e.host>>), secret |-> Of(TRUE), runtime |-> runtime]

WriteMethods == {"POST", "PUT", "PATCH", "DELETE"}
IsWrite(c) == Library[c].method \in WriteMethods

\* _validate_write_confirmation, and the first checks of validate_execution_target
Allowed(e, write, confirmed) == ~e.production /\ (write => e.writes /\ confirmed = e.host)

\* A step as it is queued, with the version of its case in the snapshot.
NewStep(c, override, extracts) ==
  [case |-> c, override |-> override, extracts |-> extracts, version |-> content[c],
   status |-> "pending", error |-> "none", missing |-> {}, used |-> [k \in {} |-> Null],
   sent |-> {}, answer |-> {}]

NewRun(steps, suite, stop, confirmed) ==
  [status |-> "pending", suite |-> suite, stop |-> stop, confirmed |-> confirmed,
   steps |-> steps, vars |-> [k \in {} |-> Null]]

Ended(how) == [NewRequest EXCEPT !.pc = how]

\* start_test_suite_run, or retry_report_execution of a suite's run: the rows of
\* the suite and of the environment.
ReadSuite(q, c) ==
  /\ request[q].pc = "new" /\ suites # <<>>
  /\ request' = [request EXCEPT ![q] =
       [pc |-> "suite", environment |-> environment, version |-> 0,
        stop |-> suites[Len(suites)].stop, confirmed |-> c]]
  /\ UNCHANGED <<config, runs, worker>>

\* list_steps
ReadSteps(q) ==
  /\ request[q].pc = "suite"
  /\ request' = [request EXCEPT ![q].pc = "steps", ![q].version = Len(suites)]
  /\ UNCHANGED <<config, runs, worker>>

\* An update deletes the steps with their extractions, and a run's step that
\* refers to a deleted step cannot be inserted.
StepsExist_Unchecked(version) == TRUE
StepsExist(version) == version = Len(suites)

\* list_extractions
Extractions(version, i) ==
  IF version = Len(suites) THEN suites[version].steps[i].extracts ELSE <<>>

\* The steps of the run, with the cases and extractions of now.
QueuedSteps(q) ==
  LET version == request[q].version
  IN [i \in DOMAIN suites[version].steps |->
        NewStep(suites[version].steps[i].case, suites[version].steps[i].override, Extractions(version, i))]

Precheck(keys) == [k \in keys |-> <<"string", "__flow_precheck__">>]

\* Every request can be built, whichever step produces a variable, and may be sent.
Startable(steps, e, confirmed) ==
  /\ \A i \in DOMAIN steps :
       BuildError(Library[steps[i].case], Merged(steps[i]), Namespaces(e, Precheck(Produced(steps)))) = "none"
  /\ Allowed(e, \E i \in DOMAIN steps : IsWrite(steps[i].case), confirmed)

\* create_suite_execution_run, from list_extractions to its commit
CreateRun(q) ==
  /\ request[q].pc = "steps"
  /\ LET r == request[q] IN
       IF StepsExist(r.version) /\ Startable(QueuedSteps(q), r.environment, r.confirmed)
       THEN /\ runs' = Append(runs, NewRun(QueuedSteps(q), r.version, r.stop, r.confirmed))
            /\ request' = [request EXCEPT ![q] = Ended("done")]
       ELSE /\ request' = [request EXCEPT ![q] = Ended("refused")]
            /\ UNCHANGED runs
  /\ UNCHANGED <<config, worker>>

Bad == {"failed", "error"}

\* retry_failed_execution: its failed cases as a run of their own, without the
\* overrides, extractions and variables of the suite.
AddFailed(steps, s) ==
  IF s.status \in Bad THEN Append(steps, NewStep(s.case, [x \in {} |-> Null], <<>>)) ELSE steps
RetriedSteps(r) == FoldLeft(AddFailed, <<>>, runs[r].steps)

Distinct(steps) == \A i, j \in DOMAIN steps : steps[i].case = steps[j].case => i = j

RetryCases(q, r, c) ==
  LET steps == RetriedSteps(r) IN
  /\ request[q].pc = "new" /\ steps # <<>>
  /\ Distinct(steps) /\ Startable(steps, environment, c)
  /\ runs' = Append(runs, NewRun(steps, 0, runs[r].stop, c))
  /\ request' = [request EXCEPT ![q] = Ended("done")]
  /\ UNCHANGED <<config, worker>>

----------------------------------------------------------------------------
(* The worker *)

Pending == {r \in DOMAIN runs : runs[r].status = "pending"}

Claim ==
  /\ pc = "idle"
  /\ \E r \in Pending :
       /\ \A other \in Pending : r <= other
       /\ current' = r
       /\ runs' = [runs EXCEPT ![r].status = "running"]
  /\ loaded' = environment
  /\ pc' = "between" /\ pos' = 0
  /\ UNCHANGED <<config, request>>

Run == runs[current]
Step == Run.steps[pos]
Halts_OnlyFailed == pos > 0 /\ Run.stop /\ Step.status = "failed"
Halts == pos > 0 /\ Run.stop /\ Step.status \in Bad

BeginStep ==
  /\ pc = "between" /\ pos < Len(Run.steps) /\ ~Halts
  /\ pos' = pos + 1 /\ pc' = "prepare"
  /\ runs' = [runs EXCEPT ![current].steps[pos + 1].status = "running"]
  /\ UNCHANGED <<config, request, current, loaded>>

\* The environment that the step uses.
TargetEnvironment_Reloaded == environment
TargetEnvironment == loaded

Category(code) ==
  CASE code = "VARIABLE_EXTRACTION_FAILED" -> "variable_extraction"
    [] code = "EXECUTION_VARIABLE_MISSING" -> "precondition"
    [] OTHER -> "request_build"

\* _record_step_error and the commit of the step
RecordError(category, missing) ==
  /\ runs' = [runs EXCEPT ![current].steps[pos].status = "error",
                          ![current].steps[pos].error = category,
                          ![current].steps[pos].missing = missing]
  /\ pc' = "between"
  /\ UNCHANGED <<config, request, current, pos, loaded>>

Building == Namespaces(TargetEnvironment, Run.vars)

RefuseRequest ==
  /\ pc = "prepare"
  /\ LET code == BuildError(Library[Step.case], Merged(Step), Building)
         missing == {x[2] : x \in {y \in Missing(References(Merged(Step)), Building) : y[1] = "runtime"}}
     IN IF code # "none" THEN RecordError(Category(code), missing)
        ELSE /\ ~Allowed(TargetEnvironment, IsWrite(Step.case), Run.confirmed)
             /\ RecordError("security", {})

SendRequest ==
  /\ pc = "prepare"
  /\ BuildError(Library[Step.case], Merged(Step), Building) = "none"
  /\ Allowed(TargetEnvironment, IsWrite(Step.case), Run.confirmed)
  /\ LET template == Merged(Step)
         sent == BuildRequest(Library[Step.case], TargetEnvironment, template, Building)
     IN runs' = [runs EXCEPT ![current].steps[pos].sent = {sent},
                             ![current].steps[pos].used = [k \in RuntimeVariables(template) |-> Run.vars[k]]]
  /\ pc' = "answer"
  /\ UNCHANGED <<config, request, current, pos, loaded>>

NoAnswer(category) == pc = "answer" /\ RecordError(category, {})

\* _extract_step_variables: the first rule that yields no value ends it.
FailedRules(rules, answer) == {i \in DOMAIN rules : ExtractRuntimeValue(rules[i], answer) = {}}

\* What run.runtime_variables gains: all the values of a step or none of them.
Extracted_Partial(rules, answer) ==
  [k \in {rules[i].key : i \in DOMAIN rules \ FailedRules(rules, answer)} |->
     LET rule == CHOOSE x \in ToSet(rules) : x.key = k
     IN CHOOSE v \in ExtractRuntimeValue(rule, answer) : TRUE]
Extracted(rules, answer) ==
  IF FailedRules(rules, answer) # {} THEN [k \in {} |-> Null]
  ELSE [k \in Keys(rules) |->
          LET rule == CHOOSE x \in ToSet(rules) : x.key = k
          IN CHOOSE v \in ExtractRuntimeValue(rule, answer) : TRUE]

\* What the assertions of the case say of an answer, and those that raise.
Verdicts(answer) ==
  LET assertions == Content(Step.case).assertions
  IN [i \in DOMAIN assertions |-> Evaluate(assertions[i], answer)]
Raised(answer) == {i \in DOMAIN Verdicts(answer) : Verdicts(answer)[i] \notin {"passed", "failed"}}

\* The error of the step: the first assertion that raises, else the first rule that
\* yields no value, else an assertion that fails.
Outcome(answer) ==
  LET failed == FailedRules(Step.extracts, answer)
      FirstOf(S) == CHOOSE i \in S : \A j \in S : i <= j
  IN IF Raised(answer) # {} THEN Category(Verdicts(answer)[FirstOf(Raised(answer))])
     ELSE IF failed # {} THEN Category(ExtractionError(Step.extracts[FirstOf(failed)], answer))
     ELSE IF "failed" \in ToSet(Verdicts(answer)) THEN "assertion" ELSE "none"

EndStatus(outcome) ==
  CASE outcome = "none" -> "passed" [] outcome = "assertion" -> "failed" [] OTHER -> "error"

\* The rest of _process_step: an assertion that raises ends it before the
\* extraction, one that fails does not.
JudgeAnswer(answer) ==
  /\ pc = "answer"
  /\ runs' = [runs EXCEPT
       ![current].steps[pos].answer = {answer},
       ![current].steps[pos].error = Outcome(answer),
       ![current].steps[pos].status = EndStatus(Outcome(answer)),
       ![current].vars = IF Raised(answer) = {} THEN Overlay(Extracted(Step.extracts, answer), Run.vars)
                         ELSE Run.vars]
  /\ pc' = "between"
  /\ UNCHANGED <<config, request, current, pos, loaded>>

\* _skip_remaining_steps, if the policy stops here, and the end of the run
FinishRun ==
  /\ pc = "between" /\ (Halts \/ pos = Len(Run.steps))
  /\ runs' = [runs EXCEPT ![current].status = "completed",
                          ![current].steps = [i \in DOMAIN @ |-> IF i > pos THEN [@[i] EXCEPT !.status = "skipped"] ELSE @[i]]]
  /\ pc' = "idle" /\ current' = 0 /\ pos' = 0 /\ loaded' = FirstEnvironment
  /\ UNCHANGED <<config, request>>

WorkerNext ==
  \/ Claim \/ BeginStep \/ RefuseRequest \/ SendRequest \/ FinishRun
  \/ \E category \in NetworkErrors : NoAnswer(category)
  \/ \E answer \in Responses : JudgeAnswer(answer)

Next ==
  \/ WorkerNext
  \/ \E payload \in SuitePayloads : SaveSuite(payload)
  \/ \E e \in Environments : UpdateEnvironment(e)
  \/ \E v \in VariableEdits : SetVariable(v)
  \/ \E c \in Cases : LateEdit(c)
  \/ \E q \in Requests :
       \/ \E c \in Confirmations \cup {NoHost} : ReadSuite(q, c)
       \/ ReadSteps(q) \/ CreateRun(q)
       \/ \E r \in DOMAIN runs, c \in Confirmations \cup {NoHost} : RetryCases(q, r, c)

Spec == Init /\ [][Next]_vars

----------------------------------------------------------------------------
(* Properties *)

StepStatus == {"pending", "running", "passed", "failed", "error", "skipped"}
Categories == {"none", "assertion", "precondition", "variable_extraction", "request_build",
               "security"} \cup NetworkErrors

\* The type invariant: rows and copies hold what the code can put there, and the
\* worker's position is one of its run's steps.
TypeOK ==
  /\ Len(suites) <= MaxSaves /\ \A i \in DOMAIN suites : suites[i] \in SuitePayloads
  /\ environment \in Environments \cup {FirstEnvironment}
  /\ ~(environment.production /\ environment.writes)
  /\ content \in [Cases -> {1, 2}] /\ edits \in 0..MaxEdits
  /\ \A q \in Requests : request[q].pc \in {"new", "suite", "steps", "done", "refused"}
  /\ Len(runs) <= Cardinality(Requests)
  /\ \A r \in DOMAIN runs :
       /\ runs[r].status \in {"pending", "running", "completed"}
       /\ \A i \in DOMAIN runs[r].steps :
            runs[r].steps[i].status \in StepStatus /\ runs[r].steps[i].error \in Categories
  /\ pc \in {"idle", "between", "prepare", "answer"}
  /\ IF pc = "idle" THEN current = 0
     ELSE /\ Run.status = "running" /\ pos \in 0..Len(Run.steps)
          /\ pc # "between" => Step.status = "running"

Unedited == \A c \in Cases : content[c] = 1

\* The producers of a key before a step.
Producers(steps, i, k) == {j \in 1..(i - 1) : k \in Keys(steps[j].extracts)}

\* In a saved suite each runtime variable that a request consumes has exactly one
\* producer, and it comes earlier; no key is produced twice (_replace_steps).
SuiteIsSound ==
  Unedited => \A v \in DOMAIN suites : LET steps == suites[v].steps IN
    /\ \A i \in DOMAIN steps : \A k \in RuntimeVariables(Merged(steps[i])) :
         Cardinality(Producers(steps, i, k)) = 1
    /\ \A i, j \in DOMAIN steps :
         Keys(steps[i].extracts) \cap Keys(steps[j].extracts) # {} => i = j

\* A run of a suite executes the steps, overrides and extraction rules of one saved
\* definition, however an update of the suite falls between the statements of the
\* start (service.py 123: the definition is copied into immutable steps).  The
\* stop_on_failure of the suite is read before and may be that of an older one.
RunIsOneSuite ==
  \A r \in DOMAIN runs : runs[r].suite # 0 =>
    LET saved == suites[runs[r].suite].steps IN
      /\ DOMAIN runs[r].steps = DOMAIN saved
      /\ \A i \in DOMAIN saved : LET s == runs[r].steps[i] IN
           <<s.case, s.override, s.extracts>> = <<saved[i].case, saved[i].override, saved[i].extracts>>

\* Unless a case was edited late, a step lacks a runtime variable only because the
\* step that produces it ended in an error that the run does not stop at; never
\* because of the order of the steps, and never in a retry of failed cases
\* (test_suites/service.py 92-98, service.py 146-151, 442).
MissingIsUpstream ==
  Unedited => \A r \in DOMAIN runs : \A i \in DOMAIN runs[r].steps :
    \A k \in runs[r].steps[i].missing :
      /\ ~runs[r].stop
      /\ \E j \in Producers(runs[r].steps, i, k) : runs[r].steps[j].status = "error"

\* A run sends all its requests to one host, whatever becomes of the environment in
\* the meantime, and its writes to the host that its user confirmed
\* (service.py 193, 400-405, runner.py 46-53).
OneTarget ==
  \A r \in DOMAIN runs : LET steps == runs[r].steps IN
    /\ \A i, j \in DOMAIN steps : \A x \in steps[i].sent, y \in steps[j].sent : x.host = y.host
    /\ \A i \in DOMAIN steps : \A x \in steps[i].sent :
         x.method \in WriteMethods => x.host = runs[r].confirmed

\* A runtime value in a request is what the rule of its one producer yields on the
\* answer that this step received in the same run, and that step yielded all of
\* its values (service.py 440-442, 675-688).
UsedIsExtracted ==
  \A r \in DOMAIN runs : LET steps == runs[r].steps IN
    \A i \in DOMAIN steps : \A k \in DOMAIN steps[i].used :
      \E j \in Producers(steps, i, k) :
        /\ steps[j].status \in {"passed", "failed"}
        /\ \E rule \in ToSet(steps[j].extracts), a \in steps[j].answer :
             rule.key = k /\ steps[i].used[k] \in ExtractRuntimeValue(rule, a)

\* What a request keeps of the case whose step sends it.
Fields(template, section) ==
  IF section \in DOMAIN template /\ IsObject(template[section]) THEN DOMAIN template[section][2] ELSE {}
Replaced(override, section) == section \in DOMAIN override /\ ~IsObject(override[section])
KeepsRest(own, override, x) ==
  /\ ~Replaced(override, "query") => Fields(own, "query") \subseteq DOMAIN x.query
  /\ ~Replaced(override, "headers") => Fields(own, "headers") \subseteq DOMAIN x.headers
  /\ ~Replaced(override, "body") /\ Fields(own, "body") # {} =>
       IsObject(x.body) /\ Fields(own, "body") \subseteq DOMAIN x.body[2]

\* A field of the case's query, headers or body that the override of the step does
\* not name reaches the tested service (_merge_request_template).
OverrideKeepsRest ==
  Unedited => \A r \in DOMAIN runs : \A i \in DOMAIN runs[r].steps : LET s == runs[r].steps[i] IN
    \A x \in s.sent : KeepsRest(Content(s.case).template, s.override, x)

\* The extraction and the assertions read an answer that was just judged alike: a
\* value that is extracted from a path exists there, equals itself there and has a
\* type, and an equality with a scalar passes on one match only
\* (assertion_engine.py 86-121, extractions.py 44-47).
ChecksAgree ==
  pc = "between" /\ pos > 0 => \A a \in Step.answer, path \in AskedPaths :
      LET Ask(type, more) == Evaluate([type |-> type, config |-> Overlay([path |-> path], more)], a)
          none == [x \in {} |-> Null]
      IN /\ \A v \in ExtractRuntimeValue([source |-> "json_path", expression |-> path], a) :
              /\ Ask("json_path_exists", none) = "passed"
              /\ Ask("json_path_not_exists", none) = "failed"
              /\ Ask("json_path_equals", [expected |-> v]) = "passed"
              /\ Ask("json_path_type", [expected |-> <<"string", v[1]>>]) = "passed"
         /\ \A v \in AskedScalars :
              Ask("json_path_equals", [expected |-> v]) = "passed" =>
                Len(JsonPathValues(a.json, path)) = 1
         /\ Ask("number_range", none) = "passed" =>
              Ask("json_path_type", [expected |-> <<"string", "number">>]) = "passed"

=============================================================================
