--------------------------- MODULE MCPublicServer ---------------------------
(* Config files and requests of a small shop, for TLC. *)
EXTENDS PublicServer

MCKeyOrder   == <<"k", "q", "scenario">>
MCStateOrder == <<"a", "b", "c">>

NoValues == [k \in {} |-> ""]

Text(s)      == [kind |-> "string", text |-> s, num |-> NaN]
Number(s, n) == [kind |-> "number", text |-> s, num |-> n]
Digits(s, n) == [kind |-> "string", text |-> s, num |-> n]
Object(f)    == [kind |-> "object", text |-> "map", num |-> NaN, fields |-> f]
Array(s)     == [kind |-> "array", text |-> "list", num |-> NaN, fields |-> s]

Pattern(parts) == [slash |-> TRUE, parts |-> parts]
JSONPath(t)    == [dollar |-> TRUE, tokens |-> t]
ID == JSONPath(<<Key("id")>>)

When(method, pattern) ==
  [method |-> method, path |-> Pattern(pattern), query |-> NoValues,
   headers |-> NoValues, body |-> <<>>]

Orders   == When("POST", <<Literal("orders")>>)
AnOrder  == When("GET", <<Literal("orders"), Param("id"), Literal("")>>)
Condition(path, op, want) == [path |-> path, ops |-> {op}, want |-> want]
WithBody(w, cs) == [w EXCEPT !.body = cs]

Cheap  == WithBody(Orders, <<Condition(JSONPath(<<Key("items"), Index(0)>>), "lt", 5)>>)
Five   == WithBody(Orders, <<Condition(ID, "exists", TRUE),
                             Condition(ID, "equals", Digits("5", 5))>>)
Rush   == [AnOrder EXCEPT !.query = [k \in {"q"} |-> {"rush", "now"}],
                          !.headers = [k \in {"k"} |-> {"", "k1"}]]

OK == [status |-> None, template |-> "ok"]
Rule(w, goto) == [when |-> w, reply |-> OK, goto |-> goto]
Hook(goto) == [target |-> "t", after |-> 1, template |-> "ok", goto |-> goto]
State(enter, on) == [enter |-> enter, on |-> on]

ByHeader(k) == [kind |-> "header", arg |-> k]
ByPath    == [kind |-> "path", arg |-> Param("id")]
ByBody    == [kind |-> "body", arg |-> ID]

Scenario(id, key, states) ==
  [id |-> id, key |-> key, ttl |-> 0, initial |-> "a", states |-> states]

Endpoint(id, w) == [id |-> id, when |-> w, reply |-> OK]

Root(endpoints, scenarios) ==
  [decodes |-> TRUE, version |-> 1, header |-> "scenario",
   limits |-> [sessions |-> 0, pending |-> 0, log |-> 1, workers |-> 0],
   targets |-> [t \in {"t"} |->
     [url |-> "http", signing |-> "none", attempts |-> 0, backoff |-> 0]],
   endpoints |-> endpoints, scenarios |-> scenarios]

Include(endpoints, scenarios) ==
  [decodes |-> TRUE, version |-> 1, endpoints |-> endpoints, scenarios |-> scenarios]

\* States that lead to each other in many ways.
Graph(e, x, y, z) ==
  [n \in {"a", "b", "c"} |->
     CASE n = "a" -> State(<<Hook(e)>>, <<Rule(Orders, x)>>)
       [] n = "b" -> State(<<>>, <<Rule(AnOrder, y)>>)
       [] n = "c" -> State(<<>>, <<Rule(AnOrder, z), Rule(Orders, "")>>)]

Graphs == {<<Root(<<>>, <<Scenario("S", ByPath, Graph(e, x, y, z))>>)>> :
             e \in {"", "b"}, x \in {"", "c"}, y \in {"a", "c"}, z \in {"b"}}

Two(r1, r2) == [n \in {"a", "b"} |-> IF n = "a" THEN State(<<>>, r1) ELSE State(<<>>, r2)]

Shop  == Scenario("S", ByBody, Two(<<Rule(Cheap, "b")>>, <<Rule(Rush, ""), Rule(Five, "a")>>))
Shop2 == Scenario("S", ByBody, Two(<<Rule(Orders, "")>>, <<Rule(Orders, "b")>>))
Carts == Scenario("C", ByHeader("k"), Two(<<Rule(Rush, "b")>>, <<Rule(Orders, "a")>>))

Shops == {<<Root(<<Endpoint("e", AnOrder)>>, <<Shop>>), Include(<<>>, <<Carts>>)>>,
          <<Root(<<>>, <<Carts, Shop>>)>>,
          <<Root(<<Endpoint("e", Rush), Endpoint("f", Five)>>, <<Shop2>>)>>}

\* One mistake each.
Sound == Root(<<Endpoint("e", AnOrder)>>, <<Shop>>)
WithWhen(w)  == [Sound EXCEPT !.endpoints[1].when = w]
WithReply(r) == [Sound EXCEPT !.endpoints[1].reply = r]
WithHook(h)  == [Sound EXCEPT !.scenarios[1].states["a"].enter = <<h>>]

Mistakes ==
  {[Sound EXCEPT !.version = 2], [Sound EXCEPT !.decodes = FALSE],
   [Sound EXCEPT !.limits.workers = -1], [Sound EXCEPT !.limits.pending = 9],
   [Sound EXCEPT !.targets["t"] = None], [Sound EXCEPT !.targets["t"].attempts = -1],
   [Sound EXCEPT !.targets["t"].signing = "incomplete"],
   [Sound EXCEPT !.endpoints[1].id = ""],
   [Sound EXCEPT !.scenarios[1].states["b"].on[2].goto = "z"],
   [Sound EXCEPT !.scenarios[1].states["b"] = None],
   [Sound EXCEPT !.scenarios[1].initial = "z"],
   [Sound EXCEPT !.scenarios[1].key = [kind |-> "cookie", arg |-> "c"]],
   [Sound EXCEPT !.scenarios[1].ttl = -1],
   [Sound EXCEPT !.scenarios[1].key = [kind |-> "path", arg |-> Literal("id")]],
   [Sound EXCEPT !.scenarios[1].key = ByHeader("")],
   WithHook([Hook("b") EXCEPT !.target = "u"]), WithHook([Hook("b") EXCEPT !.target = ""]),
   WithHook([Hook("b") EXCEPT !.after = 9]),
   WithHook([Hook("") EXCEPT !.template = "bad"]),
   WithReply([OK EXCEPT !.status = 600]), WithReply([OK EXCEPT !.template = "bad"]),
   WithReply(None),
   WithWhen([AnOrder EXCEPT !.path.slash = FALSE]),
   WithWhen([AnOrder EXCEPT !.path.parts = <<BadSegment>>]),
   WithWhen([Rush EXCEPT !.query["q"] = Malformed]),
   WithWhen(WithBody(Orders, <<Condition(JSONPath(Malformed), "exists", TRUE)>>)),
   WithWhen(WithBody(Orders, <<Condition(ID, "matches", Malformed)>>)),
   WithWhen(WithBody(Orders, <<[path |-> ID, ops |-> {"gt", "lt"}, want |-> 1]>>))}

\* A null in a list, which makes the load panic.
NullRule  == [Sound EXCEPT !.scenarios[1].states["b"].on[1] = None]
Nulls ==
  {<<[Sound EXCEPT !.endpoints[1] = None]>>, <<[Sound EXCEPT !.scenarios = <<None>>]>>,
   <<WithHook(None)>>, <<NullRule>>, <<[NullRule EXCEPT !.version = 2]>>,
   <<Sound, Include(<<None>>, <<>>)>>}

\* Nobody gets to the null.
NullsUnread ==
  {<<[NullRule EXCEPT !.decodes = FALSE]>>,
   <<Sound, [Include(<<None>>, <<>>) EXCEPT !.version = 2]>>}

\* Accepted, though they cannot work: a status below 100, a selector whose path
\* never parses, a pattern of slashes.
Oddities ==
  {[WithReply([OK EXCEPT !.status = 42])
      EXCEPT !.scenarios[1].key.arg = JSONPath(Malformed)],
   [WithReply([OK EXCEPT !.status = 0])
      EXCEPT !.endpoints = @ \o <<Endpoint("f", When("GET", <<Literal(""), Literal("")>>))>>]}

MCDisk == Graphs \cup Shops \cup {<<f>> : f \in Mistakes \cup Oddities}
            \cup Nulls \cup NullsUnread \cup {<<Sound, Include(<<>>, <<Shop2>>)>>}

\* Carts is not in what the files become.
MCEdited == {<<Root(<<>>, <<Shop2>>)>>, <<[Sound EXCEPT !.version = 2]>>, <<NullRule>>}

Request(method, path, values, body) ==
  [method |-> method, path |-> path, query |-> NoValues, headers |-> values, body |-> body]

Order(id, item) == Object([k \in {"id", "items"} |-> IF k = "id" THEN id ELSE Array(<<item>>)])

MCRequests ==
  {Request("POST", <<"orders">>, NoValues, Order(Number("5", 5), Number("3", 3))),
   Request("POST", <<"orders">>, NoValues, Order(Digits("5", 5), Number("7", 7))),
   Request("POST", <<"orders">>, [k \in {"scenario"} |-> "S"], Order(Text("k1"), Null)),
   Request("POST", <<"orders", "">>, [k \in {"scenario", "k"} |-> IF k = "k" THEN "5" ELSE "C"],
           Null),
   [Request("GET", <<"orders", "5">>, [k \in {"k"} |-> "k1"], Null)
      EXCEPT !.query = [k \in {"q"} |-> "rush"]],
   Request("GET", <<"orders", "">>, [k \in {"scenario"} |-> "S"], Null),
   Request("POST", <<"orders">>, NoValues, [kind |-> "huge"])}

MCSessionKeys == {"5", "k1"}
=============================================================================
