----------------------------- MODULE AgentReview -----------------------------
(***************************************************************************)
(* One run of the test case agent: the HTTP request that walks the nodes   *)
(* of the generation graph (create_testcase_generation_run), the reviews   *)
(* that approve or disable what it drafted (review_agent_run), the edits   *)
(* of single cases (update_test_case), and restarts of the process, whose  *)
(* start-up fails the runs it finds RUNNING (fail_interrupted_agent_runs). *)
(*                                                                         *)
(* Rows are PostgreSQL's; what a session has flushed but not committed is  *)
(* kept apart in flushed, and what it read earlier in seen.                *)
(***************************************************************************)
EXTENDS Naturals, Sequences, FiniteSets

CONSTANTS
  Cases,      \* the test cases that the model answers with
  Reviews,    \* the review requests that users may send
  Edits,      \* the edits that users may send
  None,       \* the content that was generated, and "no case"
  MaxFaults   \* bound on crashes and database errors

ASSUME CasesAssumption == Cases # {} /\ IsFiniteSet(Cases) /\ None \notin Cases \cup Edits
ASSUME FaultsAssumption == MaxFaults \in Nat

Nodes == <<"validate_input", "load_api_definition", "retrieve_code_context",
           "analyze_business_rules", "generate_test_scenarios",
           "generate_structured_cases", "validate_generated_cases", "persist_drafts">>
ModelNodes == {"analyze_business_rules", "generate_test_scenarios", "generate_structured_cases"}

VARIABLES
  status,       \* agent_runs.status, "absent" before the run is created
  node,         \* agent_runs.current_node
  checkpoints,  \* node_name of the run's checkpoints, by sequence
  rules,        \* whether its business rules are stored
  case,         \* test_cases.status, "absent" without a row
  version,      \* test_cases.version
  content,      \* the edit that wrote the case's fields last, None if generated
  pc, at,       \* where the generation is, and the position of its node
  flushed,      \* what persist_drafts has written in the open transaction
  asked,        \* requests sent to the model
  review,       \* where each review is
  edit, target, \* where each edit is, and its case
  seen,         \* version and content of the cases that a review or an edit loaded
  faults

rows == <<status, node, checkpoints, rules, case, version, content>>
generation == <<pc, at, flushed, asked>>
users == <<review, edit, target, seen>>
vars == <<rows, generation, users, faults>>

Init ==
  /\ status = "absent" /\ node = "validate_input" /\ checkpoints = <<>> /\ rules = FALSE
  /\ case = [c \in Cases |-> "absent"] /\ version = [c \in Cases |-> 1]
  /\ content = [c \in Cases |-> None]
  /\ pc = "new" /\ at = 1 /\ flushed = "nothing" /\ asked = 0
  /\ review = [r \in Reviews |-> "new"]
  /\ edit = [e \in Edits |-> "new"] /\ target = [e \in Edits |-> None]
  /\ seen = [u \in Reviews \cup Edits |-> [version |-> version, content |-> content]]
  /\ faults = 0

----------------------------------------------------------------------------
(* The generation *)

Goto(place) == pc' = place /\ UNCHANGED <<at, flushed, asked>>

CreateRun ==
  /\ pc = "new"
  /\ status' = "running" /\ Goto("work")
  /\ UNCHANGED <<node, checkpoints, rules, case, version, content, users, faults>>

\* A node that reads or validates.
WorkNode ==
  /\ pc = "work" /\ Nodes[at] \notin ModelNodes \cup {"persist_drafts"}
  /\ Goto("checkpoint")
  /\ UNCHANGED <<rows, users, faults>>

\* complete_structured: an answer that does not validate is repaired once, a call
\* that fails is not.
AskModel ==
  /\ pc = "work" /\ Nodes[at] \in ModelNodes
  /\ asked' = asked + 1 /\ pc' \in {"checkpoint", "repair", "failing"}
  /\ UNCHANGED <<rows, at, flushed, users, faults>>

AfterRepair_Retries == {"checkpoint", "repair", "failing"}
AfterRepair == {"checkpoint", "failing"}

RepairAnswer ==
  /\ pc = "repair"
  /\ asked' = asked + 1 /\ pc' \in AfterRepair
  /\ UNCHANGED <<rows, at, flushed, users, faults>>

\* The three writes of persist_drafts.
SaveRules ==
  /\ pc = "work" /\ Nodes[at] = "persist_drafts"
  /\ flushed' = "rules" /\ pc' = "rules"
  /\ UNCHANGED <<rows, at, asked, users, faults>>

SaveCases ==
  /\ pc = "rules"
  /\ flushed' = "drafts" /\ pc' = "drafts"
  /\ UNCHANGED <<rows, at, asked, users, faults>>

MarkPendingReview ==
  /\ pc = "drafts"
  /\ flushed' = "cases" /\ pc' = "checkpoint"
  /\ UNCHANGED <<rows, at, asked, users, faults>>

\* A node raises: the input is invalid, the user was removed from the project, the
\* key of the model cannot be decrypted...
NodeRaises ==
  /\ pc \in {"work", "repair", "rules", "drafts"}
  /\ Goto("failing")
  /\ UNCHANGED <<rows, users, faults>>

\* What a commit of the session adds to rules and cases.
Commits ==
  /\ rules' = (rules \/ flushed # "nothing")
  /\ case' = [c \in Cases |-> CASE flushed = "drafts" -> "draft"
                                [] flushed = "cases" -> "pending_review"
                                [] OTHER -> case[c]]
  /\ flushed' = "nothing"

StatusAfter_Early(n) == IF n = "validate_generated_cases" THEN "pending_review" ELSE status
StatusAfter(n) == IF n = "persist_drafts" THEN "pending_review" ELSE status

\* _checkpoint, which ends the transaction of the node.
Checkpoint ==
  /\ pc = "checkpoint"
  /\ checkpoints' = Append(checkpoints, Nodes[at]) /\ node' = Nodes[at]
  /\ status' = StatusAfter(Nodes[at])
  /\ Commits
  /\ IF at < Len(Nodes) THEN at' = at + 1 /\ pc' = "work" ELSE pc' = "verify" /\ UNCHANGED at
  /\ UNCHANGED <<version, content, asked, users, faults>>

\* refresh(run): the request expects to find the run as it left it.
VerifyPending ==
  /\ pc = "verify"
  /\ Goto(IF status = "pending_review" THEN "done" ELSE "failing")
  /\ UNCHANGED <<rows, users, faults>>

\* _mark_failed commits what the session has flushed.
MarkFailed ==
  /\ pc = "failing"
  /\ status' = "failed" /\ Commits
  /\ pc' = "done"
  /\ UNCHANGED <<node, checkpoints, version, content, at, asked, users, faults>>

\* An error of the database makes the session unusable, for _mark_failed too.
LoseSession ==
  /\ pc \notin {"new", "lost", "done", "down"} /\ faults < MaxFaults
  /\ pc' = "lost" /\ flushed' = "nothing" /\ faults' = faults + 1
  /\ UNCHANGED <<rows, at, asked, users>>

----------------------------------------------------------------------------
(* review_agent_run *)

Up == pc # "down"
Loaded(u) == seen' = [seen EXCEPT ![u] = [version |-> version, content |-> content]]

ReadRun(r) ==
  /\ Up /\ review[r] = "new" /\ status # "absent"
  /\ review' = [review EXCEPT ![r] = IF status = "pending_review" THEN "read" ELSE "refused"]
  /\ UNCHANGED <<rows, generation, edit, target, seen, faults>>

Reviewable_NotDisabled(c) == case[c] # "disabled"
Reviewable(c) == case[c] = "pending_review"

ReadCases(r) ==
  /\ Up /\ review[r] = "read"
  /\ review' = [review EXCEPT ![r] = IF \A c \in Cases : Reviewable(c) THEN "decided" ELSE "refused"]
  /\ Loaded(r)
  /\ UNCHANGED <<rows, generation, edit, target, faults>>

Reviewed_ButOne(decision) ==
  [c \in Cases |-> IF c = CHOOSE d \in Cases : TRUE THEN case[c] ELSE decision]
Reviewed(decision) == [c \in Cases |-> decision]

\* One commit writes the run and all of its cases.
CommitReview(r) ==
  /\ Up /\ review[r] = "decided"
  /\ \E decision \in {"approved", "disabled"} : status' = decision /\ case' = Reviewed(decision)
  /\ version' = [c \in Cases |-> seen[r].version[c] + 1]
  /\ node' = "human_review_interrupt"
  /\ review' = [review EXCEPT ![r] = "done"]
  /\ UNCHANGED <<checkpoints, rules, content, generation, edit, target, seen, faults>>

----------------------------------------------------------------------------
(* update_test_case *)

Editable_Approved(c) == case[c] \in {"draft", "pending_review", "approved"}
Editable(c) == case[c] \in {"draft", "pending_review"}

ReadCase(e) ==
  /\ Up /\ edit[e] = "new"
  /\ \E c \in Cases :
       /\ case[c] # "absent"
       /\ target' = [target EXCEPT ![e] = c]
       /\ edit' = [edit EXCEPT ![e] = IF Editable(c) THEN "read" ELSE "refused"]
  /\ Loaded(e)
  /\ UNCHANGED <<rows, generation, review, faults>>

CommitEdit(e) ==
  /\ Up /\ edit[e] = "read"
  /\ content' = [content EXCEPT ![target[e]] = e]
  /\ version' = [version EXCEPT ![target[e]] = seen[e].version[target[e]] + 1]
  /\ edit' = [edit EXCEPT ![e] = "done"]
  /\ UNCHANGED <<status, node, checkpoints, rules, case, generation, review, target, seen, faults>>

\* Another edit has replaced the assertions since: the same positions are inserted
\* twice, and the unique constraint on them refuses this one.
ConflictingEdit(e) ==
  /\ Up /\ edit[e] = "read" /\ content[target[e]] # seen[e].content[target[e]]
  /\ edit' = [edit EXCEPT ![e] = "refused"]
  /\ UNCHANGED <<rows, generation, review, target, seen, faults>>

----------------------------------------------------------------------------
(* The process ends, and starts again. *)

Crash ==
  /\ Up /\ pc # "new" /\ faults < MaxFaults
  /\ pc' = "down" /\ flushed' = "nothing" /\ faults' = faults + 1
  /\ review' = [r \in Reviews |-> IF review[r] \in {"read", "decided"} THEN "refused" ELSE review[r]]
  /\ edit' = [e \in Edits |-> IF edit[e] = "read" THEN "refused" ELSE edit[e]]
  /\ UNCHANGED <<rows, at, asked, target, seen>>

RecoveredStatus_Untouched == status
RecoveredStatus_Interrupted == IF status = "running" THEN "interrupted" ELSE status
RecoveredStatus == IF status = "running" THEN "failed" ELSE status

StartUp ==
  /\ pc = "down"
  /\ status' = RecoveredStatus
  /\ Goto("done")
  /\ UNCHANGED <<node, checkpoints, rules, case, version, content, users, faults>>

GenerationNext ==
  \/ CreateRun \/ WorkNode \/ AskModel \/ RepairAnswer \/ SaveRules \/ SaveCases
  \/ MarkPendingReview \/ NodeRaises \/ Checkpoint \/ VerifyPending \/ MarkFailed

Next ==
  \/ GenerationNext
  \/ \E r \in Reviews : ReadRun(r) \/ ReadCases(r) \/ CommitReview(r)
  \/ \E e \in Edits : ReadCase(e) \/ CommitEdit(e) \/ ConflictingEdit(e)
  \/ LoseSession
  \/ Crash
  \/ StartUp

Spec == Init /\ [][Next]_vars

\* A request that was accepted goes on while the process lives, and a process that
\* ended is started again.  Nobody has to review or to edit.
FairSpec == Spec /\ WF_vars(GenerationNext) /\ WF_vars(StartUp)

----------------------------------------------------------------------------
(* Properties *)

RunStatus == {"absent", "running", "pending_review", "approved", "disabled", "failed"}
CaseStatus == {"absent", "draft", "pending_review", "approved", "disabled"}
GenerationPc == {"new", "work", "checkpoint", "repair", "rules", "drafts", "verify",
                 "failing", "done", "lost", "down"}
Content == [Cases -> Edits \cup {None}]

NodeNames == {Nodes[i] : i \in DOMAIN Nodes}

\* The type invariant.  The wrong positions, statuses and phases of a generation, a
\* review or an edit that a slip in any handler would produce show here first.
TypeOK ==
  /\ status \in RunStatus /\ checkpoints \in Seq(NodeNames) /\ rules \in BOOLEAN
  /\ node \in NodeNames \cup {"human_review_interrupt"}
  /\ case \in [Cases -> CaseStatus] /\ version \in [Cases -> Nat] /\ content \in Content
  /\ pc \in GenerationPc /\ at \in DOMAIN Nodes /\ asked \in Nat
  /\ flushed \in {"nothing", "rules", "drafts", "cases"}
  /\ review \in [Reviews -> {"new", "refused", "read", "decided", "done"}]
  /\ edit \in [Edits -> {"new", "refused", "read", "done"}]
  /\ target \in [Edits -> Cases \cup {None}]
  /\ seen \in [Reviews \cup Edits -> [version : [Cases -> Nat], content : Content]]
  /\ faults \in 0..MaxFaults

\* A run is offered for review with all of its cases or with none of them, and a
\* decision reaches the run and every case together, whichever reviews and edits
\* overlap; the cases that a failed run leaves behind are drafts, which the executor
\* refuses, unless they were decided on before.  (persist_drafts, review_agent_run and
\* _mark_failed commit the run and its cases in one session.)
CasesMatchRun ==
  /\ status \in {"pending_review", "approved", "disabled"} => \A c \in Cases : case[c] = status
  /\ \A c \in Cases : case[c] = "pending_review" => status = "pending_review"
  /\ \A c \in Cases : case[c] = "draft" => status = "failed"
  /\ \A c \in Cases : case[c] # "absent" => rules

\* The checkpoints of a run are the nodes of the graph in its order, the run's node is
\* the last of them until a review, and nobody can review, or have reviewed, a run
\* whose last node has not committed.  (_checkpoint numbers by the rows it finds.)
CheckpointsArePrefix ==
  /\ checkpoints = SubSeq(Nodes, 1, Len(checkpoints))
  /\ node # "human_review_interrupt" /\ checkpoints # <<>> => node = Nodes[Len(checkpoints)]
  /\ (status \in {"pending_review", "approved", "disabled"} \/ node = "human_review_interrupt")
       => checkpoints = Nodes

\* A run asks the model at most twice for each model node that it has entered: a
\* failed call ends the run and an invalid answer is repaired once
\* (complete_structured).
AsksAreBounded ==
  asked <= 2 * Cardinality(ModelNodes \cap {Nodes[i] : i \in 1..at})

\* A run that a reviewer approved or disabled keeps that decision: the docstring of
\* review_agent_run calls the transition irreversible.
ReviewIsFinal == [][(status \in {"approved", "disabled"}) => status' = status]_vars

\* A run that was started does not stay RUNNING: the request settles it, or the next
\* start of the process does; only a request that lost its database session leaves it
\* RUNNING until then.  (create_testcase_generation_run, fail_interrupted_agent_runs)
RunIsDecided == status = "running" ~> (status # "running" \/ pc = "lost")

=============================================================================
