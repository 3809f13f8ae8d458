---------------------------- MODULE SourceIndex ----------------------------
(***************************************************************************)
(* What a scan derives from Java sources and an OpenAPI document: symbols, *)
(* relations between them, interfaces and chunks (java_parser.py,          *)
(* openapi_parser.py, chunker.py, the publication in task_worker.py).      *)
(*                                                                         *)
(* A source is a sequence of type declarations                             *)
(*   [package, name, kind, ending, annotations, paths, line, size,         *)
(*    fields, methods, sql]                                                *)
(* where ending is the kind of name that the name's suffix makes it.  A    *)
(* field, or a constant of an enum, is [name, type, line], a method is     *)
(* [name, parameters, routes, uses, throws, line, size], a parameter is    *)
(* [name, type, source, binding].                                          *)
(* A type is the sequence of the identifiers in it, a path the sequence of *)
(* what stands between its slashes, "" included; sizes are in characters.  *)
(* A symbol is named by <<package, class>> or <<package, class, member>>,  *)
(* which is how its row is identified in a scan; a member is a tuple, of a *)
(* name or of a name and types.                                            *)
(***************************************************************************)
EXTENDS Integers, Sequences, FiniteSets, SequencesExt

None == "none"

----------------------------------------------------------------------------
(* Java declarations *)

\* _class_role
ClassRole(d) ==
  IF d.ending = "dto" THEN "dto"
  ELSE IF d.ending = "exception" \/ "ResponseStatus" \in d.annotations THEN "exception"
  ELSE IF d.ending = "repository" \/ "Repository" \in d.annotations THEN "repository"
  ELSE IF d.ending = "mapper" \/ "Mapper" \in d.annotations THEN "mapper"
  ELSE IF d.ending = "service" \/ "Service" \in d.annotations THEN "service"
  ELSE "class"

\* _type_symbol_type; a service is a class.
TypeSymbolType_Role(d) == IF d.kind = "class" THEN ClassRole(d) ELSE d.kind
TypeSymbolType(d) ==
  IF d.kind # "class" THEN d.kind
  ELSE IF ClassRole(d) = "service" THEN "class" ELSE ClassRole(d)

TypeName(d) == <<d.package, d.name>>
FieldName(d, f) == <<d.package, d.name, <<f.name>>>>

\* Overloads differ in the types of their parameters; a variable number of
\* arguments has the type "unknown" (_method_parameters).
ParameterTypes(m) == [i \in DOMAIN m.parameters |-> m.parameters[i].type]
MethodName(d, m) == <<d.package, d.name, <<m.name, ParameterTypes(m)>>>>

\* What is parsed: fields and methods of a class, constants of an enum, nothing of
\* an interface, whose body is of a type of its own.
Fields(d) == IF d.kind = "interface" THEN <<>> ELSE d.fields
Methods(d) == IF d.kind = "class" THEN d.methods ELSE <<>>

Symbol(qname, name, type, parent, line, size) ==
  [qname |-> qname, name |-> name, type |-> type, parent |-> parent, line |-> line, size |-> size]

\* _parse_type_declaration, the symbols in its order
Symbols(d) ==
  LET Field(f) == Symbol(FieldName(d, f), f.name, "field", {TypeName(d)}, f.line, 0)
      Method(m) == Symbol(MethodName(d, m), m.name, "method", {TypeName(d)}, m.line, m.size)
  IN <<Symbol(TypeName(d), d.name, TypeSymbolType(d), {}, d.line, d.size)>>
       \o [i \in DOMAIN Fields(d) |-> Field(Fields(d)[i])]
       \o [i \in DOMAIN Methods(d) |-> Method(Methods(d)[i])]

\* _referenced_type: the last identifier in a type.
ReferencedType(type) == IF type = <<>> THEN {} ELSE {Last(type)}

Relation(source, target, type) == [source |-> source, target |-> target, type |-> type]

\* _field_relations
FieldRelations(d) ==
  IF TypeSymbolType(d) \notin {"class", "repository", "mapper"} THEN {}
  ELSE UNION {{Relation(TypeName(d), t, "references") : t \in ReferencedType(f.type)} : f \in ToSet(d.fields)}

\* _method_relations: the type of a body, of a field that is used, of what is thrown.
MethodRelations(d, m) ==
  LET bodies == {p \in ToSet(m.parameters) : p.source = "body"}
      used == {f \in ToSet(d.fields) : f.name \in m.uses}
  IN (UNION {{Relation(MethodName(d, m), t, "uses_dto") : t \in ReferencedType(p.type)} : p \in bodies})
       \cup (UNION {{Relation(MethodName(d, m), t, "calls") : t \in ReferencedType(f.type)} : f \in used})
       \cup {Relation(MethodName(d, m), t, "throws") : t \in m.throws}

Relations(d) == FieldRelations(d) \cup UNION {MethodRelations(d, m) : m \in ToSet(Methods(d))}

----------------------------------------------------------------------------
(* Routes *)

\* segment.strip("/")
Stripped(path) ==
  LET named == {i \in DOMAIN path : path[i] # ""}
  IN IF named = {} THEN <<>>
     ELSE SubSeq(path, CHOOSE i \in named : \A j \in named : i <= j,
                       CHOOSE i \in named : \A j \in named : i >= j)

\* _normalize_path of the class's path and the method's
SourcePath(classPath, methodPath) == Stripped(classPath) \o Stripped(methodPath)

\* _normalize_path of openapi_parser.py drops empty segments everywhere.
OpenApiPath(path) == SelectSeq(path, LAMBDA segment : segment # "")

\* _routes_for_method: each path of the class with each path of each mapping.
MethodRoutes(d, m) ==
  LET classPaths == IF d.paths = <<>> THEN <<<<>>>> ELSE d.paths
      Definition(http, c, p) ==
        [method |-> http, path |-> SourcePath(c, p), controller |-> TypeName(d),
         handler |-> MethodName(d, m), parameters |-> m.parameters]
      Of(route) == FlattenSeq([i \in DOMAIN classPaths |->
                     [j \in DOMAIN route.paths |-> Definition(route.http, classPaths[i], route.paths[j])]])
  IN FlattenSeq([i \in DOMAIN m.routes |-> Of(m.routes[i])])

Routes(d) ==
  IF "RestController" \notin d.annotations THEN <<>>
  ELSE FlattenSeq([i \in DOMAIN Methods(d) |-> MethodRoutes(d, Methods(d)[i])])

----------------------------------------------------------------------------
(* OpenAPI *)

\* The source of a parameter and the name it is bound to.
Binding(p) == <<p.source, IF p.binding = None THEN p.name ELSE p.binding>>
SourceBindings(parameters) == {Binding(p) : p \in ToSet(parameters)}

\* compare_request_definitions, of the parameters of a method and an operation
CompareRequests(parameters, operation) ==
  LET bindings == SourceBindings(parameters)
      sourceBody == \E b \in bindings : b[1] = "body"
  IN (IF bindings # {} /\ operation.parameters # {} /\ bindings # operation.parameters
      THEN {"parameters"} ELSE {})
     \cup (IF sourceBody # operation.body THEN {"requestBody"} ELSE {})

----------------------------------------------------------------------------
(* Publication *)

\* The rows of code_symbols; a name that occurs twice breaks their constraint.
AllSymbols(source) == FlattenSeq([i \in DOMAIN source |-> Symbols(source[i])])
NamesClash(source) ==
  LET all == AllSymbols(source) IN \E i, j \in DOMAIN all : i < j /\ all[i].qname = all[j].qname

\* symbols_by_name: the types of that name.
Candidates_WithMembers(symbols, name) == {s \in symbols : s.name = name}
Candidates(symbols, name) == {s \in symbols : s.name = name /\ s.type \notin {"field", "method"}}

TargetTypes == [uses_dto |-> {"dto"}, throws |-> {"exception"}]

\* The rows of symbol_relations: a target must be the only candidate, of the type
\* that the relation asks for, and another symbol.
ResolvedRelations(source) ==
  LET symbols == ToSet(AllSymbols(source))
      Resolve(r) == {[r EXCEPT !.target = s.qname] : s \in Candidates(symbols, r.target)}
      Fits(r) == \/ r.type \notin DOMAIN TargetTypes
                 \/ \A s \in Candidates(symbols, r.target) : s.type \in TargetTypes[r.type]
      all == UNION {Relations(source[i]) : i \in DOMAIN source}
  IN {x \in UNION {Resolve(r) : r \in {y \in all : Cardinality(Resolve(y)) = 1 /\ Fits(y)}} : x.source # x.target}

Key(r) == <<r.method, r.path>>

\* seen_routes: of two definitions of a route the first one is kept.
FirstRoutes_All(routes) == routes
FirstRoutes(routes) ==
  LET Add(kept, r) == IF \E i \in DOMAIN kept : Key(kept[i]) = Key(r) THEN kept ELSE Append(kept, r)
  IN FoldLeft(Add, <<>>, routes)

SourceApis(source) ==
  LET routes == FirstRoutes(FlattenSeq([i \in DOMAIN source |-> Routes(source[i])]))
  IN [i \in DOMAIN routes |->
        [method |-> routes[i].method, path |-> routes[i].path, controller |-> {routes[i].controller},
         handler |-> {routes[i].handler}, source |-> routes[i].parameters, openapi |-> {}, conflicts |-> {}]]

OperationKey(o) == <<o.method, OpenApiPath(o.path)>>

\* An interface that is made for an operation has no request definition before it
\* is stored, and the comparison with it raises: nothing is published.
Undescribed(source, document) ==
  \E i \in DOMAIN document : \A j \in DOMAIN SourceApis(source) : Key(SourceApis(source)[j]) # OperationKey(document[i])

\* Whether the transaction that publishes commits.
Publishes(source, document) == ~NamesClash(source) /\ ~Undescribed(source, document)

\* The merge of an operation into the interface of its route.  A second operation
\* of a route finds the parameters of the source one level deeper than it, and
\* those who read the definition, look for them.
Merge(api, operation) ==
  LET source == IF api.openapi = {} THEN api.source ELSE <<>>
  IN [api EXCEPT !.source = source,
                 !.openapi = {[parameters |-> operation.parameters, body |-> operation.body]},
                 !.conflicts = CompareRequests(source, operation)]

\* The rows of api_definitions.
Apis(source, document) ==
  LET MergeInto(apis, o) == [i \in DOMAIN apis |-> IF Key(apis[i]) = OperationKey(o) THEN Merge(apis[i], o) ELSE apis[i]]
  IN FoldLeft(MergeInto, SourceApis(source), document)

----------------------------------------------------------------------------
(* Chunks *)

\* _symbol_chunk_type, {} for a field
ChunkType(type) ==
  CASE type = "field" -> {}
    [] type \in {"method", "dto", "exception"} -> {type}
    [] OTHER -> {"class"}

\* _sql_chunks: an annotation whose closing parenthesis is found.
SqlChunks(d) ==
  {[id |-> <<d.package, d.name, <<"sql", <<>>, s.line>>>>, symbol |-> {}, type |-> "sql", line |-> s.line, size |-> s.size] :
     s \in {x \in ToSet(d.sql) : x.closed}}

\* build_knowledge_chunks: a chunk is identified by its symbol, or by its line.
Chunks(source) ==
  {[id |-> s.qname, symbol |-> {s.qname}, type |-> CHOOSE t \in ChunkType(s.type) : TRUE,
    line |-> s.line, size |-> s.size] : s \in {x \in ToSet(AllSymbols(source)) : ChunkType(x.type) # {}}}
  \cup UNION {SqlChunks(source[i]) : i \in DOMAIN source}

=============================================================================
