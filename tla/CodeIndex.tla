------------------------------ MODULE CodeIndex ------------------------------
(***************************************************************************)
(* One scan from its sources to the drafts of test cases: the worker       *)
(* publishes the index of the sources and embeds its chunks one batch      *)
(* after the other, users ask for the context of an interface, and a run   *)
(* of the agent loads interfaces, retrieves their contexts and takes       *)
(* rules, scenarios and cases from the model into the database.            *)
(*                                                                         *)
(* How the rows of the scan, of the embedding and of the run change state  *)
(* is in TaskWorker, EmbeddingJob and AgentReview; here is what they       *)
(* compute.  Vectors appear while a run retrieves its contexts, so that    *)
(* two contexts of a run may come from different sets of vectors.          *)
(***************************************************************************)
EXTENDS DraftChecks

CONSTANTS
  Sources, Documents,  \* what may be scanned: declarations, operations
  Distance(_),         \* the distance of a chunk to the query, in percent
  Limits,              \* results, characters and candidates of a context
  Selections,             \* the sets of routes that a user may choose for a run
  ModelRules, ModelScenarios, ModelCases,  \* the answers of the model
  MaxVectors           \* bound on the chunks that get a vector

ASSUME LimitsAssumption ==
  {Limits.results, Limits.characters, Limits.candidates} \subseteq Nat \ {0} /\ MaxVectors \in Nat

\* What the parsers return: lists, a declaration is of one of three kinds.
IsList(s) == s \in Seq(ToSet(s))
ASSUME SourcesAssumption ==
  \A src \in Sources : IsList(src) /\ \A d \in ToSet(src) :
    /\ d.kind \in {"class", "interface", "enum"}
    /\ IsList(d.fields) /\ IsList(d.methods) /\ IsList(d.paths) /\ IsList(d.sql)
    /\ \A m \in ToSet(d.methods) : IsList(m.routes) /\ \A r \in ToSet(m.routes) : IsList(r.paths)
ASSUME DocumentsAssumption == \A doc \in Documents : IsList(doc)

\* Lines, lengths and distances are numbers, no chunk is empty, no two have one id.
ASSUME ChunksAssumption ==
  \A src \in Sources : \A c \in Chunks(src) :
    /\ {c.line, Distance(c), Uuid(c)} \subseteq Nat /\ c.size \in Nat \ {0}
    /\ \A o \in Chunks(src) : Uuid(o) = Uuid(c) => o = c

VARIABLES
  source, document,   \* the inputs of the scan
  scan,      \* "running", "published", or "raised" by its last transaction
  index,     \* symbols, relations, apis and chunks of the scan
  embedded,  \* the chunks that have a vector
  node,      \* the last node of the run that has finished, "none" before it
  state,     \* what the nodes of the run have computed
  contexts,  \* the context of each interface that the run has retrieved
  saved      \* the rules and cases that the run has stored

scanned == <<source, document, scan, index>>
vars == <<scanned, embedded, node, state, contexts, saved>>

NoIndex == [symbols |-> {}, relations |-> {}, apis |-> <<>>, chunks |-> {}]
NoState == [apis |-> [r \in {} |-> {}], chunks |-> {}, rules |-> <<>>, scenarios |-> <<>>, cases |-> <<>>]

Init ==
  /\ source \in Sources /\ document \in Documents
  /\ scan = "running" /\ index = NoIndex /\ embedded = {}
  /\ node = "none" /\ state = NoState /\ contexts = [r \in {} |-> <<>>]
  /\ saved = [rules |-> <<>>, cases |-> <<>>]

----------------------------------------------------------------------------
(* The worker *)

\* The transaction that stores what the parsers return.
Publish ==
  /\ scan = "running" /\ Publishes(source, document)
  /\ scan' = "published"
  /\ index' = [symbols |-> ToSet(AllSymbols(source)), relations |-> ResolvedRelations(source),
               apis |-> Apis(source, document), chunks |-> Chunks(source)]
  /\ UNCHANGED <<source, document, embedded, node, state, contexts, saved>>

\* The transaction raises and is rolled back.
PublicationRaises ==
  /\ scan = "running" /\ ~Publishes(source, document)
  /\ scan' = "raised"
  /\ UNCHANGED <<source, document, index, embedded, node, state, contexts, saved>>

\* A chunk gets its vector.
Embed(chunk) ==
  /\ chunk.id \notin embedded /\ Cardinality(embedded) < MaxVectors
  /\ embedded' = embedded \cup {chunk.id}
  /\ UNCHANGED <<scanned, node, state, contexts, saved>>

----------------------------------------------------------------------------
(* The run *)

Api(route) == CHOOSE a \in ToSet(index.apis) : Key(a) = route
RoutesOf(apis) == {Key(apis[i]) : i \in DOMAIN apis}

\* create_testcase_generation_run with validate_input and load_api_definition
LoadApis(routes) ==
  /\ node = "none" /\ routes # {} /\ routes \subseteq RoutesOf(index.apis)
  /\ node' = "load_api_definition"
  /\ state' = [state EXCEPT !.apis = [r \in routes |-> ToolApi(Api(r), index)]]
  /\ UNCHANGED <<scanned, embedded, contexts, saved>>

\* retrieve_hybrid_context of one interface; without a provider or its answer there
\* are no vectors.
RetrieveContext(route, available) ==
  /\ node = "load_api_definition" /\ route \in DOMAIN state.apis \ DOMAIN contexts
  /\ LET distance == [id \in IF available THEN embedded ELSE {} |->
                        Distance(CHOOSE c \in index.chunks : c.id = id)]
     IN contexts' = [r \in DOMAIN contexts \cup {route} |->
                       IF r = route THEN Context(Api(r), index, distance, Limits) ELSE contexts[r]]
  /\ UNCHANGED <<scanned, embedded, node, state, saved>>

\* The end of retrieve_code_context: rules may cite what the contexts hold.
ContextsRetrieved ==
  /\ node = "load_api_definition" /\ DOMAIN contexts = DOMAIN state.apis
  /\ node' = "retrieve_code_context"
  /\ state' = [state EXCEPT !.chunks =
       UNION {{contexts[r][i].hit.chunk.id : i \in DOMAIN contexts[r]} : r \in DOMAIN contexts}]
  /\ UNCHANGED <<scanned, embedded, contexts, saved>>

\* complete_structured returns an answer that the validator of the node takes.
AnalyzeRules(rules) ==
  /\ node = "retrieve_code_context" /\ ValidRules(rules, state)
  /\ node' = "analyze_business_rules" /\ state' = [state EXCEPT !.rules = rules]
  /\ UNCHANGED <<scanned, embedded, contexts, saved>>

GenerateScenarios(scenarios) ==
  /\ node = "analyze_business_rules" /\ ValidScenarios(scenarios, state)
  /\ node' = "generate_test_scenarios" /\ state' = [state EXCEPT !.scenarios = scenarios]
  /\ UNCHANGED <<scanned, embedded, contexts, saved>>

GenerateCases(cases) ==
  /\ node = "generate_test_scenarios" /\ ValidCases(cases, state)
  /\ node' = "generate_structured_cases" /\ state' = [state EXCEPT !.cases = cases]
  /\ UNCHANGED <<scanned, embedded, contexts, saved>>

\* The model fails twice, or is not reached.
ModelFails ==
  /\ node \in {"retrieve_code_context", "analyze_business_rules", "generate_test_scenarios"}
  /\ node' = "failed"
  /\ UNCHANGED <<scanned, embedded, state, contexts, saved>>

\* validate_generated_cases and persist_drafts
PersistDrafts ==
  /\ node = "generate_structured_cases" /\ ValidCases(state.cases, state)
  /\ node' = "persist_drafts" /\ saved' = [rules |-> state.rules, cases |-> state.cases]
  /\ UNCHANGED <<scanned, embedded, state, contexts>>

Next ==
  \/ Publish \/ PublicationRaises
  \/ \E chunk \in index.chunks : Embed(chunk)
  \/ \E routes \in Selections : LoadApis(routes)
  \/ \E route \in DOMAIN state.apis, available \in BOOLEAN : RetrieveContext(route, available)
  \/ ContextsRetrieved
  \/ \E rules \in ModelRules : AnalyzeRules(rules)
  \/ \E scenarios \in ModelScenarios : GenerateScenarios(scenarios)
  \/ \E cases \in ModelCases : GenerateCases(cases)
  \/ ModelFails \/ PersistDrafts

Spec == Init /\ [][Next]_vars

----------------------------------------------------------------------------
(* Properties *)

Types == {"class", "interface", "enum", "method", "field", "dto", "exception", "repository", "mapper"}

\* The type invariant: rows refer to rows of the same scan, as the foreign keys of
\* the tables ask, and the run holds what belongs to it.
TypeOK ==
  LET names == {s.qname : s \in index.symbols} IN
  /\ scan \in {"running", "published", "raised"} /\ (scan # "published" => index = NoIndex)
  /\ \A s \in index.symbols : s.type \in Types /\ s.parent \subseteq names
  /\ \A r \in index.relations : {r.source, r.target} \subseteq names /\ r.type \in {"calls", "references", "throws", "uses_dto"}
  /\ \A a \in ToSet(index.apis) : a.controller \cup a.handler \subseteq names
  /\ \A c \in index.chunks : c.symbol \subseteq names
  /\ embedded \subseteq {c.id : c \in index.chunks}
  /\ DOMAIN contexts \subseteq DOMAIN state.apis

\* The index says what the sources say: a relation leads from a symbol to the one
\* type of its name, of the kind that the relation asks for; a route has one
\* interface, whose method is a member of its controller; and each symbol but a
\* field has a chunk of its own (task_worker.py 145-202, chunker.py 31-46).
IndexIsSound ==
  LET Of(name) == CHOOSE s \in index.symbols : s.qname = name
      types == {s \in index.symbols : s.parent = {}}
  IN /\ \A r \in index.relations : LET t == Of(r.target) IN
          /\ {s \in types : s.name = t.name} = {t}
          /\ r.type = "uses_dto" => t.type = "dto"
          /\ r.type = "throws" => t.type = "exception"
     /\ \A i, j \in DOMAIN index.apis : Key(index.apis[i]) = Key(index.apis[j]) => i = j
     /\ \A i \in DOMAIN index.apis : LET a == index.apis[i] IN
          \A h \in a.handler : Of(h).type = "method" /\ Of(h).parent = a.controller
     /\ \A s \in index.symbols : s.type # "field" <=> Cardinality({c \in index.chunks : c.symbol = {s.qname}}) = 1

\* The expansion selects exactly the symbols that are at most two relations, in
\* either direction, away from the interface's method or controller
\* (exact_retrieval.py 15, 68-89).
ExpansionIsTwoHops ==
  LET Adjacent(x, y) == \E r \in index.relations : {x, y} = {r.source, r.target}
      names == {s.qname : s \in index.symbols}
  IN \A a \in ToSet(index.apis) : LET seeds == a.controller \cup a.handler IN
       Selected(a, index) =
         {x \in names : \E s \in seeds : \/ x = s \/ Adjacent(x, s)
                                         \/ \E y \in names : Adjacent(s, y) /\ Adjacent(y, x)}

\* Whatever vectors there were at that time, a context stays within its limits and
\* holds no chunk twice; it starts with the method of the interface and has the
\* hits of the exact retrieval before all others; only its last chunk may be cut;
\* and an exact hit is left out only when a limit is reached (hybrid_retrieval.py
\* 31, 40, 98, 131, 153).
ContextIsRanked ==
  \A route \in DOMAIN contexts :
    LET context == contexts[route]
        api == Api(route)
        used == FoldLeft(LAMBDA sum, hit : sum + hit.size, 0, context)
        taken == {context[i].hit.chunk : i \in DOMAIN context}
    IN /\ Len(context) <= Limits.results /\ used <= Limits.characters
       /\ Cardinality(taken) = Len(context)
       /\ context[1].hit.chunk.symbol = api.handler
       /\ \A i, j \in DOMAIN context : i < j /\ context[j].hit.exact => context[i].hit.exact
       /\ \A i \in DOMAIN context : context[i].size = context[i].hit.chunk.size \/ i = Len(context)
       /\ ExactChunks(api, index) \subseteq taken \/ Len(context) = Limits.results \/ used = Limits.characters

\* A DTO of the sources has the field f.
HasField(dto, f) == \E s \in index.symbols : s.qname = Append(dto, <<f>>) /\ s.type = "field"

\* The sources or the document give the interface a parameter f.
Given(api, f) ==
  \/ \E p \in ToSet(api.source) : f \in {p.name, p.binding}
  \/ \E o \in api.openapi : f \in {b[2] : b \in o.parameters}

\* The interface's handler uses a DTO with the field f.
InBody(api, f) ==
  \E r \in index.relations : {r.source} = api.handler /\ r.type = "uses_dto" /\ HasField(r.target, f)

\* Outside the credentials, a template for api fills what is known of api.
FillsKnown(template, api) ==
  \A s \in DOMAIN template \ {"auth"} : \A f \in template[s].fields :
    IF s = "body" THEN InBody(api, f) ELSE Given(api, f)

\* A stored case fills only fields that the sources or the document give to its
\* interface, in a body only fields of a DTO that its method takes; it is marked as
\* inferred if it rests on an inferred rule; a confirmed rule cites chunks of this
\* scan that the run retrieved; and the scenarios cover the four categories for
\* each interface (graph.py 216-217, 253-338, schemas.py 30-45).
DraftsAreGrounded ==
  /\ \A i \in DOMAIN saved.cases : LET c == saved.cases[i] IN
       /\ FillsKnown(c.template, Api(c.api))
       /\ \A k \in c.rules : saved.rules[k + 1].confirmed \/ c.inferred
  /\ \A i \in DOMAIN saved.rules : saved.rules[i].confirmed =>
       \A id \in saved.rules[i].evidence : \E r \in DOMAIN contexts :
         id \in {contexts[r][j].hit.chunk.id : j \in DOMAIN contexts[r]}
  /\ saved.cases # <<>> => \A r \in DOMAIN state.apis :
       Categories = {s.category : s \in {x \in ToSet(state.scenarios) : x.api = r}}

\* What the retrieval is documented to cover, from the controller over a service to
\* the exceptions that the service's methods throw (exact_retrieval.py 15).
ServiceErrorsSelected ==
  \A a \in ToSet(index.apis) : \A call, throw \in index.relations :
    /\ {call.source} = a.handler /\ call.type = "calls" /\ throw.type = "throws"
    /\ \E s \in index.symbols : s.qname = throw.source /\ s.parent = {call.target}
    => throw.target \in Selected(a, index)

=============================================================================
