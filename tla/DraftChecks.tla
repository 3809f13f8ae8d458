----------------------------- MODULE DraftChecks -----------------------------
(***************************************************************************)
(* What the agent lets a language model write: the fields that it knows of *)
(* an interface (tools.py) and the checks of the rules, scenarios and      *)
(* cases that the model answers with (schemas.py and the validators of     *)
(* graph.py).                                                              *)
(*                                                                         *)
(* An interface is named by its route.  A rule is [api, confirmed,         *)
(* confidence, evidence] with evidence the chunks that it cites and        *)
(* confidence in percent; a scenario is [api, category, rules], a case     *)
(* [api, scenario, category, rules, inferred, template] with indexes that  *)
(* count from zero.  A template maps sections to [object, fields].         *)
(***************************************************************************)
EXTENDS ContextRetrieval

Categories == {"functional", "boundary", "exception", "permission"}
Known == [path |-> "path", query |-> "query", headers |-> "header"]
Sections == DOMAIN Known \cup {"body", "auth"}

----------------------------------------------------------------------------
(* The fields that are known *)

\* _extract_parameter_groups: the parameters of the source and of the document.
ParameterGroup(api, place) ==
  {b[2] : b \in {x \in SourceBindings(api.source) \cup UNION {o.parameters : o \in api.openapi} : x[1] = place}}

\* _get_body_fields: the fields of the DTOs that the method takes as its body.
BodyFields_AnyRelation(api, index) ==
  LET dtos == {r.target : r \in {x \in index.relations : {x.source} = api.handler}}
  IN {s.name : s \in {x \in index.symbols : x.type = "field" /\ x.parent \cap dtos # {}}}
BodyFields(api, index) ==
  LET dtos == {r.target : r \in {x \in index.relations : {x.source} = api.handler /\ x.type = "uses_dto"}}
  IN {s.name : s \in {x \in index.symbols : x.type = "field" /\ x.parent \cap dtos # {}}}

\* _serialize_api_definition
ToolApi(api, index) ==
  [route |-> Key(api),
   fields |-> [s \in DOMAIN Known \cup {"body"} |->
                 IF s = "body" THEN BodyFields(api, index) ELSE ParameterGroup(api, Known[s])]]

----------------------------------------------------------------------------
(* Answers of the model *)

\* BusinessRuleDraft and _validate_rules
ValidRule(rule, state) ==
  /\ rule.confirmed => rule.evidence # {} /\ rule.evidence \subseteq state.chunks
  /\ ~rule.confirmed => rule.confidence <= 60
  /\ rule.api \in DOMAIN state.apis
ValidRules(rules, state) == rules # <<>> /\ \A i \in DOMAIN rules : ValidRule(rules[i], state)

Resolved(indexes, list) == indexes # {} /\ \A i \in indexes : i >= 0 /\ i < Len(list)

\* TestScenarioDraft and _validate_scenarios
ValidScenarios(scenarios, state) ==
  /\ scenarios # <<>>
  /\ \A s \in ToSet(scenarios) : s.api \in DOMAIN state.apis /\ Resolved(s.rules, state.rules)
  /\ \A a \in DOMAIN state.apis : {s.category : s \in {x \in ToSet(scenarios) : x.api = a}} = Categories

\* _validate_request_fields
ValidTemplate(template, api) ==
  /\ DOMAIN template \subseteq Sections
  /\ \A s \in DOMAIN template : template[s].object
  /\ \A s \in DOMAIN template \ {"auth"} : template[s].fields \subseteq api.fields[s]

\* StructuredCaseDraft and _validate_cases
ValidCase_Unmarked(case, state) ==
  /\ case.api \in DOMAIN state.apis
  /\ case.scenario >= 0 /\ case.scenario < Len(state.scenarios)
  /\ LET scenario == state.scenarios[case.scenario + 1]
     IN scenario.api = case.api /\ scenario.category = case.category
  /\ Resolved(case.rules, state.rules)
  /\ ValidTemplate(case.template, state.apis[case.api])
ValidCase(case, state) ==
  /\ case.api \in DOMAIN state.apis
  /\ case.scenario >= 0 /\ case.scenario < Len(state.scenarios)
  /\ LET scenario == state.scenarios[case.scenario + 1]
     IN scenario.api = case.api /\ scenario.category = case.category
  /\ Resolved(case.rules, state.rules)
  /\ (\E i \in case.rules : ~state.rules[i + 1].confirmed) => case.inferred
  /\ ValidTemplate(case.template, state.apis[case.api])
ValidCases(cases, state) == cases # <<>> /\ \A i \in DOMAIN cases : ValidCase(cases[i], state)

=============================================================================
