------------------------- MODULE AgentReview_proofs -------------------------
(***************************************************************************)
(* Proofs about AgentReview for every set of generated cases, of reviews   *)
(* and of edits, and every bound on crashes and database errors.           *)
(***************************************************************************)
EXTENDS AgentReview, FiniteSetTheorems, TLAPS

----------------------------------------------------------------------------
(* The inductive invariant *)

Working == {"work", "checkpoint", "repair", "rules", "drafts"}
Decided == {"pending_review", "approved", "disabled"}

\* Until its last checkpoint a run is RUNNING and has no case; what persist_drafts has
\* flushed is known from the place of the request, and is dropped or committed before
\* anybody can review.
Place ==
  /\ status = "absent" <=> pc = "new"
  /\ pc \in Working => status = "running"
  /\ pc = "failing" => status # "pending_review"
  /\ status \in {"absent", "running"} => \A c \in Cases : case[c] = "absent"
  /\ flushed # "nothing" => status = "running" /\ pc \in {"rules", "drafts", "checkpoint", "failing"}
  /\ pc = "repair" => Nodes[at] \in ModelNodes
  /\ pc \in {"rules", "drafts"} => at = Len(Nodes)
  /\ pc = "rules" => flushed = "rules"
  /\ pc = "drafts" => flushed = "drafts"
  /\ pc = "checkpoint" => flushed = IF at = Len(Nodes) THEN "cases" ELSE "nothing"
  /\ pc = "failing" => flushed # "cases"

\* The checkpoints are those of the nodes before at; everything that follows from a
\* review needs all of them, and all of them need the rules.
Path ==
  /\ \A i \in 1..Len(checkpoints) : checkpoints[i] = Nodes[i]
  /\ Len(checkpoints) <= Len(Nodes)
  /\ pc \in Working \cup {"new"} => Len(checkpoints) = at - 1
  /\ pc = "verify" \/ status \in Decided \/ node = "human_review_interrupt"
       => Len(checkpoints) = Len(Nodes)
  /\ \A r \in Reviews : review[r] \in {"read", "decided"} => Len(checkpoints) = Len(Nodes)
  /\ node # "human_review_interrupt" /\ checkpoints # <<>> => node = Nodes[Len(checkpoints)]
  /\ Len(checkpoints) = Len(Nodes) => rules /\ status # "running"

\* The model nodes among the first k nodes.
Entered(k) == ModelNodes \cap {Nodes[i] : i \in 1..k}

\* The request has asked at most twice for each model node it has left, and once for
\* the one whose answer it repairs.
Calls ==
  /\ asked <= 2 * Cardinality(Entered(at))
  /\ pc \in {"new", "work"} /\ Nodes[at] \in ModelNodes => asked <= 2 * Cardinality(Entered(at)) - 2
  /\ pc = "repair" => asked <= 2 * Cardinality(Entered(at)) - 1

IInv == TypeOK /\ Place /\ Path /\ Calls /\ CasesMatchRun

----------------------------------------------------------------------------
(* The graph *)

LEMMA GraphFacts ==
  /\ Len(Nodes) = 8 /\ DOMAIN Nodes = 1..8
  /\ \A i \in 1..8 : /\ Nodes[i] \in NodeNames /\ Nodes[i] # "human_review_interrupt"
                     /\ Nodes[i] = "persist_drafts" <=> i = 8
                     /\ Nodes[i] \in ModelNodes <=> i \in 4..6
BY DEF Nodes, NodeNames, ModelNodes

\* How many model nodes there are up to each node.
LEMMA EnteredFacts ==
  \A k \in 1..8 : Cardinality(Entered(k)) = IF k < 4 THEN 0 ELSE IF k > 6 THEN 3 ELSE k - 3
<1>1. \A k \in 1..3 : Entered(k) = {}
  BY DEF Entered, Nodes, ModelNodes
<1>2. Entered(4) = {"analyze_business_rules"}
  BY DEF Entered, Nodes, ModelNodes
<1>3. Entered(5) = Entered(4) \cup {"generate_test_scenarios"}
  BY DEF Entered, Nodes, ModelNodes
<1>4. \A k \in 6..8 : Entered(k) = Entered(5) \cup {"generate_structured_cases"}
  BY DEF Entered, Nodes, ModelNodes
<1>5. Cardinality(Entered(4)) = 1 /\ IsFiniteSet(Entered(4))
  BY <1>2, FS_Singleton
<1>6. Cardinality(Entered(5)) = 2 /\ IsFiniteSet(Entered(5))
  BY <1>2, <1>3, <1>5, FS_AddElement
<1>7. \A k \in 6..8 : Cardinality(Entered(k)) = 3
  BY <1>2, <1>3, <1>4, <1>6, FS_AddElement
<1>8. \A k \in 1..3 : Cardinality(Entered(k)) = 0
  BY <1>1, FS_EmptySet
<1>9. QED
  BY <1>5, <1>6, <1>7, <1>8

LEMMA InitInv == Init => IInv
<1> SUFFICES ASSUME Init PROVE IInv
  OBVIOUS
<1>1. TypeOK
  <2>1. version \in [Cases -> Nat] /\ content \in Content
    BY DEF Init, Content
  <2>2. seen \in [Reviews \cup Edits -> [version : [Cases -> Nat], content : Content]]
    BY <2>1 DEF Init
  <2>3. node = Nodes[1] /\ node \in NodeNames
    BY GraphFacts DEF Init, Nodes
  <2>4. /\ status \in RunStatus
        /\ case \in [Cases -> CaseStatus] /\ pc \in GenerationPc /\ at \in DOMAIN Nodes
        /\ asked \in Nat /\ flushed \in {"nothing", "rules", "drafts", "cases"}
    BY GraphFacts DEF Init, RunStatus, CaseStatus, GenerationPc
  <2>5. /\ review \in [Reviews -> {"new", "refused", "read", "decided", "done"}]
        /\ edit \in [Edits -> {"new", "refused", "read", "done"}]
        /\ target \in [Edits -> Cases \cup {None}]
        /\ faults \in 0..MaxFaults
    BY FaultsAssumption DEF Init
  <2>6. checkpoints = <<>> /\ checkpoints \in Seq(NodeNames)
    BY DEF Init
  <2>7. QED
    BY <2>1, <2>2, <2>3, <2>4, <2>5, <2>6 DEF TypeOK, Init
<1>2. Place /\ Path /\ CasesMatchRun
  BY DEF Init, Place, Path, CasesMatchRun, Working, Decided, Nodes
<1>3. Calls
  BY EnteredFacts, GraphFacts DEF Init, Calls
<1>4. QED
  BY <1>1, <1>2, <1>3 DEF IInv

----------------------------------------------------------------------------
(* Each action preserves it: the generation *)

\* A step that only moves the request, or asks the model, leaves the cases alone.
LEMMA SameRows ==
  ASSUME IInv, UNCHANGED rows
  PROVE  CasesMatchRun'
BY DEF IInv, CasesMatchRun, rows

LEMMA CreateRunStep ==
  ASSUME IInv, CreateRun
  PROVE  IInv'
<1> USE DEF IInv, CreateRun, Goto
<1>1. TypeOK'
  BY DEF TypeOK, RunStatus, GenerationPc, users
<1>2. Place'
  BY GraphFacts DEF Place, TypeOK, Working
<1>3. Path'
  <2>1. /\ pc = "new" /\ pc' = "work" /\ status' = "running" /\ at \in 1..8
        /\ UNCHANGED <<node, checkpoints, rules, at, review>>
    BY GraphFacts DEF TypeOK, users
  <2>2. Len(checkpoints) = at - 1 /\ Len(checkpoints) # Len(Nodes)
    <3>1. Len(checkpoints) = at - 1
      BY <2>1 DEF Path, Working
    <3>2. QED
      BY <2>1, <3>1, GraphFacts
  <2>3. QED
    BY <2>1, <2>2 DEF Path, Working, Decided
<1>4. Calls'
  BY EnteredFacts, GraphFacts DEF Calls, TypeOK
<1>5. CasesMatchRun'
  BY DEF CasesMatchRun, Place
<1>6. QED
  BY <1>1, <1>2, <1>3, <1>4, <1>5

LEMMA WorkNodeStep ==
  ASSUME IInv, WorkNode
  PROVE  IInv'
<1> USE DEF IInv, WorkNode, Goto
<1>1. TypeOK'
  BY DEF TypeOK, GenerationPc, users, rows
<1>2. Place'
  BY GraphFacts DEF Place, TypeOK, Working, rows
<1>3. Path'
  BY DEF Path, Working, Decided, users, rows
<1>4. Calls'
  BY DEF Calls
<1>5. QED
  BY <1>1, <1>2, <1>3, <1>4, SameRows

LEMMA AskModelStep ==
  ASSUME IInv, AskModel \/ RepairAnswer
  PROVE  IInv'
<1> USE DEF IInv, AskModel, RepairAnswer, AfterRepair
<1>1. TypeOK'
  BY DEF TypeOK, GenerationPc, users, rows
<1>2. Place'
  <2>1. /\ pc \in {"work", "repair"} /\ pc' \in {"checkpoint", "repair", "failing"}
        /\ at \in 1..8 /\ UNCHANGED <<status, case, at, flushed>>
    BY GraphFacts DEF TypeOK, rows
  <2>2. Nodes[at] \in ModelNodes /\ at # 8
    BY <2>1, GraphFacts DEF Place
  <2>3. QED
    BY <2>1, <2>2, GraphFacts DEF Place, Working
<1>3. Path'
  BY DEF Path, Working, Decided, users, rows
<1>4. Calls'
  BY EnteredFacts, GraphFacts DEF Calls, TypeOK
<1>5. QED
  BY <1>1, <1>2, <1>3, <1>4, SameRows

LEMMA PersistDraftsStep ==
  ASSUME IInv, SaveRules \/ SaveCases \/ MarkPendingReview
  PROVE  IInv'
<1> USE DEF IInv, SaveRules, SaveCases, MarkPendingReview
<1>1. TypeOK'
  BY DEF TypeOK, GenerationPc, users, rows
<1>2. Place'
  BY GraphFacts DEF Place, TypeOK, Working, rows
<1>3. Path'
  BY DEF Path, Working, Decided, users, rows
<1>4. Calls'
  BY DEF Calls
<1>5. QED
  BY <1>1, <1>2, <1>3, <1>4, SameRows

LEMMA NodeRaisesStep ==
  ASSUME IInv, NodeRaises
  PROVE  IInv'
<1> USE DEF IInv, NodeRaises, Goto
<1>1. TypeOK'
  BY DEF TypeOK, GenerationPc, users, rows
<1>2. Place'
  BY DEF Place, TypeOK, Working, rows
<1>3. Path'
  BY DEF Path, Working, Decided, users, rows
<1>4. Calls'
  BY DEF Calls
<1>5. QED
  BY <1>1, <1>2, <1>3, <1>4, SameRows

LEMMA CheckpointStep ==
  ASSUME IInv, Checkpoint
  PROVE  IInv'
<1> USE DEF IInv
<1>1. /\ pc = "checkpoint" /\ at \in 1..8 /\ Len(checkpoints) = at - 1
      /\ checkpoints \in Seq(NodeNames) /\ Len(checkpoints) \in Nat
  BY GraphFacts DEF Checkpoint, TypeOK, Path, Working
<1>2. /\ status = "running" /\ flushed = IF at = 8 THEN "cases" ELSE "nothing"
      /\ \A c \in Cases : case[c] = "absent"
  BY <1>1, GraphFacts DEF Place, Working
<1>3. /\ checkpoints' \in Seq(NodeNames) /\ Len(checkpoints') = at
      /\ \A i \in 1..at : checkpoints'[i] = Nodes[i]
  BY <1>1, GraphFacts DEF Checkpoint, Path
<1>4. /\ status' = IF at = 8 THEN "pending_review" ELSE "running"
      /\ rules' = (rules \/ at = 8) /\ flushed' = "nothing"
      /\ case' = [c \in Cases |-> IF at = 8 THEN "pending_review" ELSE "absent"]
      /\ node' = Nodes[at]
      /\ IF at < 8 THEN at' = at + 1 /\ pc' = "work" ELSE pc' = "verify" /\ UNCHANGED at
      /\ UNCHANGED <<version, content, asked, users, faults>>
  BY <1>1, <1>2, GraphFacts DEF Checkpoint, StatusAfter, Commits
<1>5. TypeOK'
  BY <1>1, <1>3, <1>4, GraphFacts DEF TypeOK, users, RunStatus, CaseStatus, GenerationPc
<1>6. Place'
  BY <1>1, <1>4, GraphFacts DEF Place, Working
<1>7. Path'
  <2>1. \A r \in Reviews : review'[r] \notin {"read", "decided"}
    BY <1>1, <1>4, GraphFacts DEF Path, users
  <2>2. node' = Nodes[Len(checkpoints')] /\ node' # "human_review_interrupt"
    BY <1>1, <1>3, <1>4, GraphFacts
  <2>3. at = 8 \/ (status' \notin Decided /\ pc' # "verify")
    <3>1. CASE at = 8
      BY <3>1
    <3>2. CASE at < 8
      BY <1>4, <3>2 DEF Decided
    <3>3. QED
      BY <1>1, <3>1, <3>2
  <2>4. pc' \in Working \cup {"new"} => at = at' - 1
    BY <1>1, <1>4 DEF Working
  <2>5. Len(checkpoints') = Len(Nodes) => rules' /\ status' # "running"
    <3>1. CASE at = 8
      BY <1>4, <3>1
    <3>2. CASE at # 8
      BY <1>3, <3>2, GraphFacts
    <3>3. QED
      BY <3>1, <3>2
  <2>6. at = 8 => Len(checkpoints') = Len(Nodes)
    BY <1>3, GraphFacts
  <2>7. Len(checkpoints') <= Len(Nodes)
    BY <1>1, <1>3, GraphFacts
  <2>8. QED
    BY <1>3, <2>1, <2>2, <2>3, <2>4, <2>5, <2>6, <2>7 DEF Path
<1>8. Calls'
  BY <1>1, <1>4, EnteredFacts, GraphFacts DEF Calls, TypeOK
<1>9. CasesMatchRun'
  BY <1>2, <1>4 DEF CasesMatchRun
<1>10. QED
  BY <1>5, <1>6, <1>7, <1>8, <1>9

LEMMA VerifyPendingStep ==
  ASSUME IInv, VerifyPending
  PROVE  IInv'
<1> USE DEF IInv, VerifyPending, Goto
<1>1. TypeOK'
  BY DEF TypeOK, GenerationPc, users, rows
<1>2. Place'
  BY DEF Place, TypeOK, Working, rows
<1>3. Path'
  BY DEF Path, Working, Decided, users, rows
<1>4. Calls'
  BY DEF Calls
<1>5. QED
  BY <1>1, <1>2, <1>3, <1>4, SameRows

LEMMA MarkFailedStep ==
  ASSUME IInv, MarkFailed
  PROVE  IInv'
<1> USE DEF IInv
<1>1. /\ pc = "failing" /\ status # "pending_review" /\ flushed # "cases" /\ pc' = "done"
      /\ status' = "failed" /\ flushed' = "nothing" /\ rules' = (rules \/ flushed # "nothing")
      /\ case' = [c \in Cases |-> IF flushed = "drafts" THEN "draft" ELSE case[c]]
      /\ UNCHANGED <<node, checkpoints, version, content, at, asked, users, faults>>
  BY DEF MarkFailed, Commits, Place
<1>2. TypeOK'
  BY <1>1 DEF TypeOK, users, RunStatus, CaseStatus, GenerationPc
<1>3. Place'
  BY <1>1 DEF Place, Working
<1>4. Path'
  BY <1>1 DEF Path, users, Working, Decided
<1>5. Calls'
  BY <1>1 DEF Calls
<1>6. CasesMatchRun'
  BY <1>1 DEF CasesMatchRun, Place
<1>7. QED
  BY <1>2, <1>3, <1>4, <1>5, <1>6

----------------------------------------------------------------------------
(* ... the reviews and the edits *)

\* A step that changes neither the rows of the run nor the request.
LEMMA SameGeneration ==
  ASSUME IInv, UNCHANGED <<status, node, checkpoints, rules, case, generation>>,
         \A r \in Reviews : review'[r] \in {"read", "decided"}
                              => review[r] \in {"read", "decided"} \/ status = "pending_review"
  PROVE  Place' /\ Path' /\ Calls' /\ CasesMatchRun'
<1> USE DEF IInv, generation
<1>1. Place' /\ Calls' /\ CasesMatchRun'
  BY DEF Place, Calls, CasesMatchRun
<1>2. Path'
  BY DEF Path, Working, Decided
<1>3. QED
  BY <1>1, <1>2

\* What a session loads has the types of the rows.
LEMMA LoadedType ==
  ASSUME TypeOK, NEW u \in Reviews \cup Edits, Loaded(u)
  PROVE  seen' \in [Reviews \cup Edits -> [version : [Cases -> Nat], content : Content]]
BY DEF TypeOK, Loaded

LEMMA ReadRunStep ==
  ASSUME IInv, NEW r \in Reviews, ReadRun(r)
  PROVE  IInv'
<1> USE DEF IInv
<1>1. TypeOK'
  BY DEF ReadRun, TypeOK, rows, generation
<1>2. Place' /\ Path' /\ Calls' /\ CasesMatchRun'
  BY SameGeneration DEF ReadRun, TypeOK, rows
<1>3. QED
  BY <1>1, <1>2

LEMMA ReadCasesStep ==
  ASSUME IInv, NEW r \in Reviews, ReadCases(r)
  PROVE  IInv'
<1> USE DEF IInv
<1>1. TypeOK'
  BY LoadedType DEF ReadCases, TypeOK, rows, generation
<1>2. Place' /\ Path' /\ Calls' /\ CasesMatchRun'
  BY SameGeneration DEF ReadCases, TypeOK, rows
<1>3. QED
  BY <1>1, <1>2

LEMMA CommitReviewStep ==
  ASSUME IInv, NEW r \in Reviews, CommitReview(r)
  PROVE  IInv'
<1> USE DEF IInv
<1>1. PICK decision \in {"approved", "disabled"} :
        status' = decision /\ case' = [c \in Cases |-> decision]
  BY DEF CommitReview, Reviewed
<1>2. /\ review[r] = "decided" /\ review' = [review EXCEPT ![r] = "done"]
      /\ version' = [c \in Cases |-> seen[r].version[c] + 1]
      /\ node' = "human_review_interrupt"
      /\ UNCHANGED <<checkpoints, rules, content, pc, at, flushed, asked, edit, target, seen, faults>>
  BY DEF CommitReview, generation
<1>3. Len(checkpoints) = Len(Nodes) /\ rules /\ status # "running"
  BY <1>2 DEF Path
<1>4. version' \in [Cases -> Nat]
  BY <1>2 DEF TypeOK
<1>5. TypeOK'
  BY <1>1, <1>2, <1>4 DEF TypeOK, RunStatus, CaseStatus
<1>6. pc \notin Working \cup {"new"}
  BY <1>3, GraphFacts DEF Path, TypeOK
<1>7. Place'
  BY <1>1, <1>2, <1>3, <1>6 DEF Place, Working
<1>8. Path'
  BY <1>1, <1>2, <1>3, <1>6 DEF Path, TypeOK
<1>9. Calls' /\ CasesMatchRun'
  BY <1>1, <1>2, <1>3 DEF Calls, CasesMatchRun
<1>10. QED
  BY <1>5, <1>7, <1>8, <1>9

LEMMA ReadCaseStep ==
  ASSUME IInv, NEW e \in Edits, ReadCase(e)
  PROVE  IInv'
<1> USE DEF IInv
<1>1. TypeOK'
  BY LoadedType DEF ReadCase, TypeOK, rows, generation
<1>2. Place' /\ Path' /\ Calls' /\ CasesMatchRun'
  BY SameGeneration DEF ReadCase, rows
<1>3. QED
  BY <1>1, <1>2

LEMMA CommitEditStep ==
  ASSUME IInv, NEW e \in Edits, CommitEdit(e) \/ ConflictingEdit(e)
  PROVE  IInv'
<1> USE DEF IInv
<1>1. content' \in Content /\ version' \in [Cases -> Nat]
  <2>1. content \in Content /\ version \in [Cases -> Nat]
    BY DEF TypeOK
  <2>2. CASE ConflictingEdit(e)
    BY <2>1, <2>2 DEF ConflictingEdit, rows
  <2>3. CASE CommitEdit(e)
    <3>1. content' \in Content
      BY <2>1, <2>3 DEF CommitEdit, Content
    <3>2. seen[e].version \in [Cases -> Nat]
      BY DEF TypeOK
    <3>3. \A c \in Cases : version'[c] = IF c = target[e] THEN seen[e].version[c] + 1
                                                          ELSE version[c]
      BY <2>1, <2>3 DEF CommitEdit
    <3>4. \A c \in Cases : version'[c] \in Nat
      BY <2>1, <3>2, <3>3
    <3>5. version' \in [Cases -> Nat]
      BY <2>1, <2>3, <3>4 DEF CommitEdit
    <3>6. QED
      BY <3>1, <3>5
  <2>4. QED
    BY <2>2, <2>3
<1>2. TypeOK'
  BY <1>1 DEF CommitEdit, ConflictingEdit, TypeOK, rows, generation
<1>3. Place' /\ Path' /\ Calls' /\ CasesMatchRun'
  BY SameGeneration DEF CommitEdit, ConflictingEdit, rows
<1>4. QED
  BY <1>2, <1>3

----------------------------------------------------------------------------
(* ... and the faults *)

LEMMA LoseSessionStep ==
  ASSUME IInv, LoseSession
  PROVE  IInv'
<1> USE DEF IInv, LoseSession
<1>1. TypeOK'
  BY FaultsAssumption DEF TypeOK, GenerationPc, rows, users
<1>2. Place'
  BY DEF Place, Working, rows
<1>3. Path'
  BY DEF Path, Working, rows, users
<1>4. Calls'
  BY DEF Calls
<1>5. QED
  BY <1>1, <1>2, <1>3, <1>4, SameRows

LEMMA CrashStep ==
  ASSUME IInv, Crash
  PROVE  IInv'
<1> USE DEF IInv, Crash
<1>1. TypeOK'
  BY FaultsAssumption DEF TypeOK, GenerationPc, rows
<1>2. Place'
  BY DEF Place, Working, rows
<1>3. Path'
  BY DEF Path, Working, rows, TypeOK
<1>4. Calls'
  BY DEF Calls
<1>5. QED
  BY <1>1, <1>2, <1>3, <1>4, SameRows

LEMMA StartUpStep ==
  ASSUME IInv, StartUp
  PROVE  IInv'
<1> USE DEF IInv, StartUp, RecoveredStatus, Goto
<1>1. TypeOK'
  BY DEF TypeOK, RunStatus, GenerationPc, users
<1>2. Place'
  BY DEF Place, Working
<1>3. Path'
  BY DEF Path, Working, Decided, users
<1>4. Calls'
  BY DEF Calls
<1>5. CasesMatchRun'
  BY DEF CasesMatchRun, Place
<1>6. QED
  BY <1>1, <1>2, <1>3, <1>4, <1>5

LEMMA NextInv == IInv /\ [Next]_vars => IInv'
<1> SUFFICES ASSUME IInv, [Next]_vars PROVE IInv'
  OBVIOUS
<1>1. CASE GenerationNext
  BY <1>1, CreateRunStep, WorkNodeStep, AskModelStep, PersistDraftsStep, NodeRaisesStep,
     CheckpointStep, VerifyPendingStep, MarkFailedStep DEF GenerationNext
<1>2. CASE \E r \in Reviews : ReadRun(r) \/ ReadCases(r) \/ CommitReview(r)
  BY <1>2, ReadRunStep, ReadCasesStep, CommitReviewStep
<1>3. CASE \E e \in Edits : ReadCase(e) \/ CommitEdit(e) \/ ConflictingEdit(e)
  BY <1>3, ReadCaseStep, CommitEditStep
<1>4. CASE LoseSession \/ Crash \/ StartUp
  BY <1>4, LoseSessionStep, CrashStep, StartUpStep
<1>5. CASE UNCHANGED vars
  <2>1. TypeOK'
    BY <1>5 DEF IInv, TypeOK, vars, rows, generation, users
  <2>2. Place' /\ Path' /\ Calls' /\ CasesMatchRun'
    BY <1>5, SameGeneration DEF vars, rows, users
  <2>3. QED
    BY <2>1, <2>2 DEF IInv
<1>6. QED
  BY <1>1, <1>2, <1>3, <1>4, <1>5 DEF Next

----------------------------------------------------------------------------
(* The theorems *)

\* Every state a run reaches satisfies the inductive invariant.
THEOREM Invariant == Spec => []IInv
BY InitInv, NextInv, PTL DEF Spec

\* Every variable has its type.
THEOREM TypeCorrect == Spec => []TypeOK
<1>1. IInv => TypeOK
  BY DEF IInv
<1>2. QED
  BY Invariant, <1>1, PTL

\* A run and its cases are offered for review and decided together.
THEOREM CasesAgree == Spec => []CasesMatchRun
<1>1. IInv => CasesMatchRun
  BY DEF IInv
<1>2. QED
  BY Invariant, <1>1, PTL

\* The checkpoints follow the graph, and all of them are there before any review.
THEOREM CheckpointsFollowGraph == Spec => []CheckpointsArePrefix
<1>1. IInv => CheckpointsArePrefix
  <2> SUFFICES ASSUME IInv PROVE CheckpointsArePrefix
    OBVIOUS
  <2> USE DEF IInv
  <2>1. checkpoints \in Seq(NodeNames) /\ Len(checkpoints) \in Nat /\ Len(Nodes) = 8
        /\ Nodes \in Seq(NodeNames)
    BY GraphFacts DEF TypeOK, Nodes
  <2>2. checkpoints = SubSeq(Nodes, 1, Len(checkpoints))
    BY <2>1 DEF Path
  <2>3. SubSeq(Nodes, 1, 8) = Nodes
    BY <2>1
  <2>4. \/ status \in {"pending_review", "approved", "disabled"}
        \/ node = "human_review_interrupt"
        => checkpoints = Nodes
    BY <2>1, <2>2, <2>3 DEF Path, Decided
  <2>5. QED
    BY <2>2, <2>4 DEF CheckpointsArePrefix, Path
<1>2. QED
  BY Invariant, <1>1, PTL

\* The model is asked at most twice for each model node that the run has entered.
THEOREM BoundedAsks == Spec => []AsksAreBounded
<1>1. IInv => AsksAreBounded
  BY DEF IInv, Calls, Entered, AsksAreBounded
<1>2. QED
  BY Invariant, <1>1, PTL

=============================================================================
