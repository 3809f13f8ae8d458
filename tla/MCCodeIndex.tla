----------------------------- MODULE MCCodeIndex -----------------------------
(* The instance of CodeIndex that TLC checks: a small shop, whole and with a *)
(* second controller, and variants that do not publish.                     *)
EXTENDS CodeIndex

Param(name, type, from) == [name |-> name, type |-> <<type>>, source |-> from, binding |-> None]
Field(name, type, line) == [name |-> name, type |-> type, line |-> line]
Type(name, ending, line, size, fields, methods) ==
  [package |-> "shop", name |-> name, kind |-> "class", ending |-> ending, annotations |-> {}, paths |-> <<>>,
   line |-> line, size |-> size, fields |-> fields, methods |-> methods, sql |-> <<>>]
Method(name, parameters, routes, uses, throws, line) ==
  [name |-> name, parameters |-> parameters, routes |-> routes, uses |-> uses, throws |-> throws,
   line |-> line, size |-> 20]

Create == Method("create", <<[Param("key", "long", "path") EXCEPT !.binding = "id"], Param("body", "OrderDTO", "body")>>,
                 <<[http |-> "POST", paths |-> <<<<"", "{id}">>>>]>>, {"service"}, {}, 12)
Find == Method("find", <<Param("q", "String", "query")>>,
               <<[http |-> "GET", paths |-> <<<<"">>, <<"all", "">>>>]>>, {}, {"ShopException"}, 13)

Controller ==
  [Type("OrderController", "", 10, 50, <<Field("service", <<"OrderService">>, 11), Field("audit", <<"Audit">>, 11)>>, <<Create, Find>>)
     EXCEPT !.annotations = {"RestController"}, !.paths = <<<<"", "orders">>>>]
Service == Type("OrderService", "service", 20, 40, <<Field("mapper", <<"OrderMapper">>, 21)>>,
                <<Method("create", <<>>, <<>>, {"mapper"}, {"OrderException"}, 22)>>)
Dto == Type("OrderDTO", "dto", 30, 10, <<Field("item", <<"String">>, 31), Field("tags", <<"List", "String">>, 32)>>, <<>>)
Mapper == [Type("OrderMapper", "mapper", 40, 15, <<>>, <<Method("load", <<>>, <<>>, {}, {}, 42)>>)
             EXCEPT !.kind = "interface", !.annotations = {"Mapper"},
                    !.sql = <<[line |-> 41, closed |-> TRUE, size |-> 30], [line |-> 43, closed |-> FALSE, size |-> 30]>>]
Error == Type("OrderException", "exception", 50, 5, <<>>, <<>>)
Kinds == [Type("Kind", "", 60, 5, <<Field("Audit", <<>>, 61)>>, <<>>) EXCEPT !.kind = "enum"]

Shop == <<Controller, Service, Dto, Mapper, Error, Kinds>>

\* A second controller, on the line of the service in its own file, maps a route that
\* exists, and a second DTO makes its name ambiguous.
Admin == [Controller EXCEPT !.name = "AdminController", !.line = 20,
            !.methods = <<[Create EXCEPT !.line = 72], [Find EXCEPT !.line = 73, !.routes[1].http = "DELETE"]>>]
OtherDto == [Dto EXCEPT !.package = "admin", !.line = 80]
TwoControllers == <<Controller, Admin, Service, Dto, OtherDto, Mapper, Error>>

\* Two overloads whose last parameter takes a variable number of arguments.
Variadic(line) == Method("sum", <<Param("unknown", "unknown", "unknown")>>, <<>>, {}, {}, line)
Clash == <<Type("Sums", "", 90, 9, <<>>, <<Variadic(91), Variadic(92)>>)>>

MCSources == {Shop, TwoControllers, Clash}

PostOrder == <<"POST", <<"orders", "{id}">>>>
GetOrders == <<"GET", <<"orders", "all">>>>
Operation(http, path, parameters, body) == [method |-> http, path |-> path, parameters |-> parameters, body |-> body]
PostOp == Operation("POST", <<"", "orders", "", "{id}">>, {<<"path", "id">>, <<"header", "trace">>}, TRUE)
MCDocuments ==
  {<<>>, <<PostOp>>, <<PostOp, [PostOp EXCEPT !.path = <<"orders", "{id}", "">>, !.body = FALSE]>>,
   <<Operation("GET", <<"health">>, {}, FALSE)>>}

\* The SQL and the enum, which no relation leads to, are near, the rest is not.
Second(chunk) == IF chunk.id[2] = "AdminController" THEN 1 ELSE 0
MCDistance(chunk) ==
  IF chunk.type = "sql" THEN 2 ELSE IF chunk.line = 60 THEN 0 ELSE 30 + chunk.line + Second(chunk)
MCUuid(chunk) == 2 * chunk.line + 1 - Second(chunk)
MCLimits == [results |-> 6, characters |-> 120, candidates |-> 2]
MCSelections == {{PostOrder}, {PostOrder, GetOrders}}

CreateChunk == MethodName(Controller, Create)
Rule(confirmed, evidence) ==
  [api |-> PostOrder, confirmed |-> confirmed, confidence |-> 60, evidence |-> evidence]
MCModelRules ==
  {<<Rule(TRUE, {CreateChunk}), Rule(FALSE, {})>>, <<Rule(TRUE, {TypeName(Error)})>>,
   <<Rule(TRUE, {TypeName(Kinds)}), Rule(FALSE, {})>>, <<Rule(TRUE, {})>>}

Scenarios(route) ==
  LET Of(category) == [api |-> route, category |-> category, rules |-> {0}]
  IN <<Of("functional"), Of("boundary"), Of("exception"), Of("permission")>>
MCModelScenarios == {Scenarios(PostOrder), Scenarios(PostOrder) \o Scenarios(GetOrders), SubSeq(Scenarios(PostOrder), 1, 3)}

Filled(names) == [object |-> TRUE, fields |-> names]
Template(path, body) == [path |-> Filled(path), body |-> Filled(body)]
Case(rules, inferred, template) ==
  [api |-> PostOrder, scenario |-> 1, category |-> "boundary", rules |-> rules, inferred |-> inferred, template |-> template]
MCModelCases ==
  {<<Case({0}, FALSE, Template({"id"}, {"item"}))>>, <<Case({1}, TRUE, Template({"id"}, {}))>>,
   <<Case({0, 1}, FALSE, Template({"id"}, {"tags"}))>>, <<Case({0}, FALSE, Template({"id"}, {"mapper"}))>>,
   <<Case({0}, FALSE, Template({"key"}, {}))>>,
   <<Case({0}, FALSE, [headers |-> Filled({"trace"}), auth |-> Filled({"token"})])>>,
   <<[Case({0}, FALSE, Template({"id"}, {})) EXCEPT !.category = "functional"]>>,
   <<Case({0}, FALSE, [body |-> [object |-> FALSE, fields |-> {}]])>>}

=============================================================================
