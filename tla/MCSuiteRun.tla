----------------------------- MODULE MCSuiteRun -----------------------------
(* The instance of SuiteRun that TLC checks: signing in yields a token that an *)
(* order needs, the search takes its text from the environment.                *)
EXTENDS SuiteRun

S(text) == <<"string", text>>
Obj(f) == <<"object", f>>
Lit(json) == <<"literal", json>>
Path(tokens) == [rooted |-> TRUE, tokens |-> tokens]
TokenPath == Path(<<<<"key", "token">>>>)
SecondPath == Path(<<<<"key", "items">>, <<"index", 1>>>>)
ItemsPath == Path(<<<<"key", "items">>, <<"all">>>>)

IsText == [type |-> "json_path_type", config |-> [path |-> TokenPath, expected |-> S("string")]]
MentionsToken == [type |-> "text_contains", config |-> [expected |-> S("token")]]
InTime == [type |-> "response_time_less_than", config |-> [expected |-> <<"number", 10>>]]
ApiKey == Obj([type |-> Lit(S("api_key")), name |-> Lit(S("key")), value |-> <<"variable", "env", "text">>,
               in |-> Lit(S("query"))])
Status200 == [type |-> "status_code", config |-> [expected |-> <<"number", 200>>]]

SignIn == [user |-> Lit(S("u")), days |-> Lit(<<"number", 7>>)]
Bearer == Obj([type |-> Lit(S("bearer")), token |-> <<"variable", "runtime", "token">>])

MCLibrary ==
  [login |-> [method |-> "POST", parameters |-> {}, approved |-> TRUE,
     contents |-> <<[template |-> [body |-> Obj(SignIn)], assertions |-> <<Status200, IsText>>],
                    [template |-> [body |-> Obj(SignIn)], assertions |-> <<>>]>>],
   order |-> [method |-> "GET", parameters |-> {"id"}, approved |-> TRUE,
     contents |-> <<[template |-> [path |-> Obj([id |-> Lit(<<"number", 1>>)]), auth |-> Bearer],
                     assertions |-> <<Status200, MentionsToken, InTime>>],
                    [template |-> [path |-> Obj([id |-> <<"variable", "runtime", "token">>])],
                     assertions |-> <<Status200>>]>>],
   search |-> [method |-> "GET", parameters |-> {}, approved |-> TRUE,
     contents |-> <<[template |-> [query |-> Obj([q |-> <<"text", "env", "text">>, size |-> Lit(<<"number", 5>>)]), auth |-> ApiKey],
                     assertions |-> <<[type |-> "json_path_exists", config |-> [path |-> Path(<<<<"bad">>>>)]]>>],
                    [template |-> [query |-> Obj([q |-> <<"variable", "runtime", "token">>])], assertions |-> <<>>]>>],
   old |-> [method |-> "GET", parameters |-> {}, approved |-> FALSE,
     contents |-> <<[template |-> [s \in {} |-> Null], assertions |-> <<>>],
                    [template |-> [s \in {} |-> Null], assertions |-> <<>>]>>]]

NoOverride == [s \in {} |-> Null]
Use(case, override, extracts) == [case |-> case, override |-> override, extracts |-> extracts]
FromPath(key, path) == [key |-> key, source |-> "json_path", expression |-> path]
StatusAs(key) == [key |-> key, source |-> "status_code"]

MCSuites ==
  {[stop |-> FALSE, steps |-> <<Use("login", NoOverride, <<FromPath("token", TokenPath), FromPath("item", SecondPath), StatusAs("code")>>),
                                Use("order", NoOverride, <<>>)>>],
   [stop |-> TRUE, steps |-> <<Use("login", [body |-> Obj([user |-> Lit(S("v"))])],
                                   <<FromPath("token", TokenPath), [key |-> "trace", source |-> "response_header", expression |-> "trace"]>>),
                               Use("order", [path |-> Obj([id |-> Lit(<<"number", 2>>)])], <<>>)>>],
   [stop |-> FALSE, steps |-> <<Use("search", [query |-> Obj([size |-> Lit(<<"number", 9>>)])], <<>>)>>],
   [stop |-> FALSE, steps |-> <<Use("order", NoOverride, <<>>), Use("login", NoOverride, <<FromPath("token", TokenPath)>>)>>],
   [stop |-> FALSE, steps |-> <<Use("login", NoOverride, <<StatusAs("code")>>), Use("login", NoOverride, <<StatusAs("code")>>)>>],
   [stop |-> FALSE, steps |-> <<Use("old", NoOverride, <<>>)>>]}

Env(host, production, writes) ==
  [host |-> host, production |-> production, writes |-> writes, allowlist |-> {host},
   headers |-> ("Accept" :> S("json"))]
MCFirst == Env("h1", FALSE, TRUE)
MCEnvironments == {Env("h2", FALSE, TRUE), Env("h1", TRUE, FALSE), Env("h1", TRUE, TRUE)}

MCVariables == [text |-> [secret |-> FALSE, value |-> S("book")]]
MCEdits == {[key |-> "text", secret |-> TRUE, value |-> S("book")]}

Answer(status, json) ==
  [status |-> status, json |-> json, headers |-> [trace |-> "t1"], text |-> {"token"}, duration |-> 5]
MCResponses ==
  {Answer(200, Obj([token |-> S("k1")])), Answer(500, Null),
   Answer(200, Obj([token |-> <<"number", 7>>, items |-> <<"array", <<S("a"), S("b")>>>>]))}

\* The values of the answers.
MCJson == {a.json : a \in MCResponses} \cup
  {S("k1"), S("a"), S("b"), <<"number", 7>>, <<"array", <<S("a"), S("b")>>>>}

\* Requests for a run are interchangeable.
RequestSymmetry == Permutations(Requests)

MCPaths == {TokenPath, ItemsPath, SecondPath,
            Path(<<<<"bad">>>>), [rooted |-> FALSE, tokens |-> <<>>]}
MCScalars == {S("a"), <<"number", 7>>, Null}

=============================================================================
