--------------------------- MODULE ResponseChecks ---------------------------
(***************************************************************************)
(* What the backend reads from the answer of a tested service: the         *)
(* assertions of a test case (assertion_engine.py) and the values that a   *)
(* step of a suite extracts for later steps (extractions.py).              *)
(*                                                                         *)
(* A JSON value is a tuple whose first element is its type: <<"null">>,    *)
(* <<"boolean", b>>, <<"number", n>>, <<"string", s>>, <<"array", seq>>,   *)
(* <<"object", f>>.  A JSONPath is [rooted, tokens]; a token is            *)
(* <<"key", k>>, <<"index", i>>, <<"all">> or <<"bad">>, the last one for  *)
(* text that the token pattern does not match.  The body's text is the set *)
(* of the words in it, header names are in lower case.                     *)
(***************************************************************************)
EXTENDS Integers, Sequences, SequencesExt

Null == <<"null">>

\* The value of an optional key.
Get(f, key, default) == IF key \in DOMAIN f THEN f[key] ELSE default

\* {**under, **over}
Overlay(over, under) ==
  [k \in DOMAIN over \cup DOMAIN under |-> IF k \in DOMAIN over THEN over[k] ELSE under[k]]

----------------------------------------------------------------------------
(* JSONPath *)

Children(item, token) ==
  CASE token[1] = "key" /\ item[1] = "object" /\ token[2] \in DOMAIN item[2] -> <<item[2][token[2]]>>
    [] token[1] = "all" /\ item[1] = "array" -> item[2]
    [] token[1] = "index" /\ item[1] = "array" /\ token[2] < Len(item[2]) -> <<item[2][token[2] + 1]>>
    [] OTHER -> <<>>

\* _json_path_values: each token maps the current items to their children.
Follow(items, token) == FoldLeft(LAMBDA found, item : found \o Children(item, token), <<>>, items)
JsonPathValues(json, path) ==
  IF json = Null \/ ~path.rooted THEN <<>> ELSE FoldLeft(Follow, <<json>>, path.tokens)

\* The token pattern is tried only on a rooted path and a body that is not null.
Malformed(json, path) == json # Null /\ path.rooted /\ <<"bad">> \in ToSet(path.tokens)

----------------------------------------------------------------------------
(* Assertions *)

Aliases == [status_code |-> "status_code_equals", business_code |-> "business_code_equals",
            text_contains |-> "body_contains"]
CodePath == [rooted |-> TRUE, tokens |-> <<<<"key", "code">>>>]

PathTypes == {"business_code_equals", "json_path_equals", "json_path_exists",
              "json_path_not_exists", "json_path_type", "number_range"}
TextTypes == {"body_contains", "body_not_contains"}
OtherTypes == {"status_code_equals", "response_time_less_than"}

\* Python's == takes a boolean for the number 0 or 1, inside an array too.
Plain(v) == IF v[1] = "boolean" THEN <<"number", IF v[2] THEN 1 ELSE 0>> ELSE v
PyEqual(v, w) ==
  LET Norm(x) == IF x[1] = "array" THEN <<"array", [i \in DOMAIN x[2] |-> Plain(x[2][i])]>> ELSE Plain(x)
  IN Norm(v) = Norm(w)
IsNumber(v) == v[1] \in {"number", "boolean"}

\* _equals on the list of matches: a single match stands for itself.
Unwrapped(values) == IF Len(values) = 1 THEN values[1] ELSE <<"array", values>>

\* _config_path: the path of the assertion, {} when it has none.
ConfigPath(kind, config) ==
  IF "path" \in DOMAIN config THEN {config.path}
  ELSE IF kind = "business_code_equals" THEN {CodePath} ELSE {}

\* Whether the assertion holds of the values at its path, of the status, of the
\* text or of the duration.
Holds(kind, config, values, response) ==
  LET expected == Get(config, "expected", Null)
      Within(bound, ok(_)) == bound = Null \/ (IsNumber(bound) /\ ok(Plain(bound)[2]))
  IN CASE kind = "status_code_equals" -> PyEqual(<<"number", response.status>>, expected)
       [] kind \in {"business_code_equals", "json_path_equals"} -> PyEqual(Unwrapped(values), expected)
       [] kind = "json_path_exists" -> values # <<>>
       [] kind = "json_path_not_exists" -> values = <<>>
       [] kind = "json_path_type" -> Len(values) = 1 /\ expected = <<"string", values[1][1]>>
       [] kind = "body_contains" -> expected[2] \in response.text
       [] kind = "body_not_contains" -> expected[2] \notin response.text
       [] kind = "number_range" ->
            /\ Len(values) = 1 /\ values[1][1] = "number"
            /\ Within(Get(config, "min", Null), LAMBDA n : values[1][2] >= n)
            /\ Within(Get(config, "max", Null), LAMBDA n : values[1][2] <= n)
       [] kind = "response_time_less_than" ->
            IsNumber(expected) /\ Plain(expected)[2] >= 0 /\ response.duration < Plain(expected)[2]

\* evaluate_assertion: "passed", "failed", or the code of the error it raises.
Evaluate(assertion, response) ==
  LET kind == Get(Aliases, assertion.type, assertion.type)
      paths == IF kind \in PathTypes THEN ConfigPath(kind, assertion.config) ELSE {}
      values == {JsonPathValues(response.json, p) : p \in paths}
      Verdict(seq) == IF Holds(kind, assertion.config, seq, response) THEN "passed" ELSE "failed"
  IN IF kind \in PathTypes /\ paths = {} THEN "ASSERTION_CONFIG_INVALID"
     ELSE IF \E p \in paths : Malformed(response.json, p) THEN "ASSERTION_JSON_PATH_INVALID"
     ELSE IF kind \in PathTypes THEN Verdict(CHOOSE seq \in values : TRUE)
     ELSE IF kind \in TextTypes /\ Get(assertion.config, "expected", Null)[1] # "string"
     THEN "ASSERTION_CONFIG_INVALID"
     ELSE IF kind \in TextTypes \cup OtherTypes THEN Verdict(<<>>)
     ELSE "ASSERTION_TYPE_UNSUPPORTED"

----------------------------------------------------------------------------
(* Extraction *)

\* A path must have one match that is not null; a text pattern stands for its one
\* capturing group and for the word it captures.
ExtractRuntimeValue_FirstMatch(rule, response) ==
  IF rule.source = "json_path"
  THEN LET values == JsonPathValues(response.json, rule.expression)
       IN IF values = <<>> THEN {} ELSE {values[1]} \ {Null}
  ELSE {<<"number", response.status>>}

\* extract_runtime_value: the value as a singleton, {} when the rule yields none.
ExtractRuntimeValue(rule, response) ==
  CASE rule.source = "status_code" -> {<<"number", response.status>>}
    [] rule.source = "json_path" ->
         LET values == JsonPathValues(response.json, rule.expression)
         IN IF Len(values) = 1 THEN ToSet(values) \ {Null} ELSE {}
    [] rule.source = "response_header" ->
         IF rule.expression \in DOMAIN response.headers THEN {<<"string", response.headers[rule.expression]>>} ELSE {}
    [] rule.source = "text" ->
         IF rule.expression \in response.text THEN {<<"string", rule.expression>>} ELSE {}

\* The error of a rule that yields no value: the path's own if it is malformed.
ExtractionError(rule, response) ==
  IF rule.source = "json_path" /\ Malformed(response.json, rule.expression)
  THEN "ASSERTION_JSON_PATH_INVALID" ELSE "VARIABLE_EXTRACTION_FAILED"

=============================================================================
