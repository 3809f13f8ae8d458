-------------------------- MODULE RequestTemplates --------------------------
(***************************************************************************)
(* Request templates: the five sections of a test case's request, with     *)
(* references to variables in them, the override of a suite step, and the  *)
(* request that is built from both (variables.py, _merge_template,         *)
(* _merge_request_template).                                               *)
(*                                                                         *)
(* A template maps some sections to a part.  A part is <<"literal", json>>,*)
(* <<"variable", namespace, key>> for text that is one reference,          *)
(* <<"text", namespace, key>> for text with a reference in it, or          *)
(* <<"object", f>> with f mapping fields to parts that are not objects.    *)
(***************************************************************************)
EXTENDS ResponseChecks, TLC

Sections == {"path", "query", "headers", "body", "auth"}
Mergeable == {"path", "query", "headers", "body"}

IsObject(part) == part[1] = "object"

\* A part written over a whole section instead of into it.
MergeTemplate_Replaces(template, override) == Overlay(override, template)

\* An override adds to or replaces the fields of a section, and replaces auth.
MergeTemplate(template, override) ==
  [s \in DOMAIN template \cup DOMAIN override |->
     CASE s \notin DOMAIN override -> template[s]
       [] s \in DOMAIN override /\ s \in DOMAIN template /\ s \in Mergeable
          /\ IsObject(override[s]) /\ IsObject(template[s]) ->
            <<"object", Overlay(override[s][2], template[s][2])>>
       [] OTHER -> override[s]]

Reference(part) == IF part[1] \in {"variable", "text"} THEN {<<part[2], part[3]>>} ELSE {}

\* The references in a part, in a template.
PartReferences(part) ==
  IF IsObject(part) THEN UNION {Reference(part[2][f]) : f \in DOMAIN part[2]} ELSE Reference(part)
References(template) == UNION {PartReferences(template[s]) : s \in DOMAIN template}

\* find_runtime_variables
RuntimeVariables(template) == {ref[2] : ref \in {x \in References(template) : x[1] = "runtime"}}

----------------------------------------------------------------------------
(* Resolving *)

\* _get_variable: a key without a value, or with null, is missing.
Missing(refs, namespaces) ==
  {x \in refs : Get(namespaces[x[1]], x[2], Null) = Null}

\* str(value)
AsText(json) == IF json[1] = "string" THEN json ELSE <<"string", ToString(json[2])>>

\* Text that is one reference keeps the type of the value.
ResolveLeaf(part, namespaces) ==
  CASE part[1] = "literal" -> part[2]
    [] part[1] = "variable" -> namespaces[part[2]][part[3]]
    [] part[1] = "text" -> AsText(namespaces[part[2]][part[3]])

ResolvePart(part, namespaces) ==
  IF IsObject(part) THEN <<"object", [f \in DOMAIN part[2] |-> ResolveLeaf(part[2][f], namespaces)]>>
  ELSE ResolveLeaf(part, namespaces)

\* resolve_template, when no reference is missing
ResolveTemplate(template, namespaces) ==
  [s \in DOMAIN template |-> ResolvePart(template[s], namespaces)]

----------------------------------------------------------------------------
(* The request *)

NoFields == <<"object", [f \in {} |-> Null]>>

\* _as_string_mapping, for a part that is an object
StringMapping(json) == [f \in DOMAIN json[2] |-> AsText(json[2][f])]

\* _apply_auth: what it adds to the headers and the query, {} when it refuses.
AuthFields(auth) ==
  LET Text(field) == IsObject(auth) /\ Get(auth[2], field, Null)[1] = "string"
      Has(type, fields) == /\ Text("type") /\ auth[2]["type"] = <<"string", type>>
                           /\ \A f \in fields : Text(f)
      None == [f \in {} |-> Null]
  IN CASE auth = Null -> {[headers |-> None, query |-> None]}
       [] Has("bearer", {"token"}) -> {[headers |-> ("Authorization" :> auth[2]["token"]), query |-> None]}
       [] Has("basic", {"username", "password"}) ->
            {[headers |-> ("Authorization" :> auth[2]["username"]), query |-> None]}
       [] Has("api_key", {"name", "value"}) ->
            LET field == auth[2]["name"][2] :> auth[2]["value"]
            IN {IF Get(auth[2], "in", Null) = <<"string", "query">>
                THEN [headers |-> None, query |-> field] ELSE [headers |-> field, query |-> None]}
       [] OTHER -> {}

\* The code of the error that build_request raises, in its order, "none" when it
\* builds the request.  api has the method and the parameters in the path.
BuildError(api, template, namespaces) ==
  LET resolved == ResolveTemplate(template, namespaces)
  IN IF DOMAIN template \ Sections # {} THEN "REQUEST_TEMPLATE_INVALID"
     ELSE IF Missing(References(template), namespaces) # {} THEN "EXECUTION_VARIABLE_MISSING"
     ELSE IF \E s \in {"path", "query", "headers"} : ~IsObject(Get(resolved, s, NoFields))
     THEN "REQUEST_TEMPLATE_INVALID"
     ELSE IF api.parameters \ DOMAIN Get(resolved, "path", NoFields)[2] # {}
     THEN "REQUEST_PATH_VARIABLE_MISSING"
     ELSE IF AuthFields(Get(resolved, "auth", Null)) = {} THEN "REQUEST_AUTH_INVALID"
     ELSE "none"

\* build_request; the URL is the host of the environment and the path's values.
BuildRequest(api, environment, template, namespaces) ==
  LET resolved == ResolveTemplate(template, namespaces)
      auth == CHOOSE a \in AuthFields(Get(resolved, "auth", Null)) : TRUE
  IN [method |-> api.method, host |-> environment.host,
      path |-> [p \in api.parameters |-> StringMapping(resolved["path"])[p]],
      query |-> Overlay(auth.query, StringMapping(Get(resolved, "query", NoFields))),
      headers |-> Overlay(auth.headers, Overlay(StringMapping(Get(resolved, "headers", NoFields)), environment.headers)),
      body |-> Get(resolved, "body", Null)]

=============================================================================
