------------------------------ MODULE Matching ------------------------------
(***************************************************************************)
(* When-clauses and session key selectors (src/internal/match and          *)
(* KeySelector of src/internal/snapshot): what compiles, what a compiled   *)
(* one takes, and the first check of it that fails.                        *)
(*                                                                         *)
(* A path is the sequence of the parts between its slashes: "/" is <<"">>, *)
(* "/a/" is <<"a", "">>.  A pattern's parts are Literal, Param or a        *)
(* malformed one.  An expected value is the set of texts it accepts, one   *)
(* for an exact value.  A JSON value carries the text it prints as and the *)
(* number it is taken for.                                                 *)
(***************************************************************************)
EXTENDS Integers, Sequences, FiniteSetsExt, SequencesExt

CONSTANTS
  KeyOrder,   \* names of query parameters and headers, sorted
  StateOrder, \* names of states, sorted
  NaN,        \* the number of what is not a number
  Malformed   \* a regular expression or JSON path that does not compile

-----------------------------------------------------------------------------
(* Values. *)

\* The empty text: a key, a header or the name of a state that is not given.
Empty == ""

\* A value a JSON path did not find; a request without a JSON body is a null.
Missing == [kind |-> "missing"]
Null    == [kind |-> "null", text |-> "null", num |-> NaN]

\* looseEqual: two strings compare as texts, what parses as a number on both
\* sides compares as numbers, the rest as texts.
LooseEqual(a, b) ==
  IF a.kind = "string" /\ b.kind = "string" THEN a.text = b.text
  ELSE IF a.num # NaN /\ b.num # NaN THEN a.num = b.num
  ELSE a.text = b.text

-----------------------------------------------------------------------------
(* JSON paths: [dollar |-> it starts with $, tokens |-> keys and indices], *)
(* tokens Malformed when the rest of it does not parse.                    *)

Key(k)   == [kind |-> "key", at |-> k]
Index(i) == [kind |-> "index", at |-> i]

JSONPathParses(e) == e.dollar /\ e.tokens # Malformed /\ e.tokens # <<>>

Walk(v, t) ==
  IF \/ t.kind = "key" /\ v.kind = "object" /\ t.at \in DOMAIN v.fields
     \/ t.kind = "index" /\ v.kind = "array" /\ t.at < Len(v.fields)
  THEN v.fields[IF t.kind = "key" THEN t.at ELSE t.at + 1]
  ELSE Missing

EvalJSONPath(body, e) == FoldLeft(Walk, body, e.tokens)

-----------------------------------------------------------------------------
(* Paths. *)

Literal(s) == [kind |-> "literal", name |-> s]
Param(s)   == [kind |-> "param", name |-> s]
BadSegment == [kind |-> "bad", name |-> ""]

\* strings.Trim(p, "/"), and strings.Split of what is left.
Trim(parts, empty) ==
  LET full == {i \in DOMAIN parts : parts[i] # empty}
  IN  IF full = {} THEN <<>> ELSE SubSeq(parts, Min(full), Max(full))

\* compilePath.  A pattern of slashes only, but "/" itself, is one empty
\* literal, which no request has.
Segments(pattern) ==
  LET trimmed == Trim(pattern.parts, Literal(""))
  IN  IF pattern.parts = <<Literal("")>> THEN <<>>
      ELSE IF trimmed = <<>> THEN <<Literal("")>> ELSE trimmed

MatchPath(pattern, path) ==
  LET segs  == Segments(pattern)
      parts == Trim(path, "")
  IN  /\ Len(parts) = Len(segs)
      /\ \A i \in DOMAIN segs :
           segs[i].kind = "literal" => segs[i].name = parts[i]

\* What the parameter p of the pattern is: of two of one name the last counts.
ParamOf(pattern, path, p) ==
  LET segs == Segments(pattern)
      at   == {i \in DOMAIN segs : segs[i] = p}
  IN  IF at = {} THEN Empty ELSE Trim(path, "")[Max(at)]

-----------------------------------------------------------------------------
(* When-clauses: [method, path, query, headers, body]. *)

\* What Get returns of a query or of the headers.
Get(values, k) == IF k \in DOMAIN values THEN values[k] ELSE Empty

\* A body condition with exactly one operator.
BodyCompiles(c) ==
  /\ JSONPathParses(c.path)
  /\ Cardinality(c.ops) = 1
  /\ c.ops = {"matches"} => c.want # Malformed

WhenCompiles(w) ==
  /\ w.path.slash
  /\ \A i \in DOMAIN w.path.parts : w.path.parts[i].kind # "bad"
  /\ \A k \in DOMAIN w.query : w.query[k] # Malformed
  /\ \A k \in DOMAIN w.headers : w.headers[k] # Malformed
  /\ \A i \in DOMAIN w.body : BodyCompiles(w.body[i])

\* bodyCond.check passes.
BodyHolds(c, body) ==
  LET v == EvalJSONPath(body, c.path)
      found == v # Missing
      op == CHOOSE o \in c.ops : TRUE
  IN  CASE op = "exists"  -> found = c.want
        [] op = "equals"  -> found /\ LooseEqual(v, c.want)
        [] op = "matches" -> found /\ v.text \in c.want
        [] op = "gt"      -> found /\ v.num # NaN /\ v.num > c.want
        [] op = "lt"      -> found /\ v.num # NaN /\ v.num < c.want

\* The checks of a clause in the order of evaluate: values sorted by name.
ChecksOf(w) ==
  LET sorted(kind, values) ==
        LET names == SelectSeq(KeyOrder, LAMBDA k : k \in DOMAIN values)
        IN  [i \in DOMAIN names |-> <<kind, names[i]>>]
  IN  <<<<"method">>, <<"path">>>> \o sorted("query", w.query)
        \o sorted("headers", w.headers) \o [i \in DOMAIN w.body |-> <<"body", i>>]

Passes(w, r, check) ==
  CASE check[1] = "method"  -> w.method = r.method
    [] check[1] = "path"    -> MatchPath(w.path, r.path)
    [] check[1] = "query"   -> Get(r.query, check[2]) \in w.query[check[2]]
    [] check[1] = "headers" -> Get(r.headers, check[2]) \in w.headers[check[2]]
    [] check[1] = "body"    -> BodyHolds(w.body[check[2]], r.body)

\* The reason of no check: the request matches.
NoReason == <<>>

\* evaluate: the first check that fails.
Explain(w, r) ==
  LET failing == SelectSeq(ChecksOf(w), LAMBDA c : ~Passes(w, r, c))
  IN  IF failing = <<>> THEN NoReason ELSE Head(failing)

Match(w, r) == Explain(w, r) = NoReason

-----------------------------------------------------------------------------
(* Session keys: a selector is [kind, arg], arg a JSON path for "body" and *)
(* a Param for "path".                                                     *)

\* The rules of a scenario's states, the states sorted by name.
RulesOf(sc) ==
  LET names == SelectSeq(StateOrder, LAMBDA n : n \in DOMAIN sc.states)
  IN  FlattenSeq([i \in DOMAIN names |-> sc.states[names[i]].on])

\* KeySelector.Extract; Empty when it yields none.  A JSON path is only parsed
\* here, and fmt prints a null as <nil>.
Extract(sc, r) ==
  LET sel == sc.key
      keyed == SelectSeq(RulesOf(sc), LAMBDA rule :
                 /\ MatchPath(rule.when.path, r.path)
                 /\ ParamOf(rule.when.path, r.path, sel.arg) # Empty)
  IN  CASE sel.kind = "header" -> Get(r.headers, sel.arg)
        [] sel.kind = "query"  -> Get(r.query, sel.arg)
        [] sel.kind = "path"   ->
             IF keyed = <<>> THEN Empty
             ELSE ParamOf(Head(keyed).when.path, r.path, sel.arg)
        [] sel.kind = "body"   ->
             LET v == EvalJSONPath(r.body, sel.arg)
             IN  IF ~JSONPathParses(sel.arg) \/ v = Missing THEN Empty
                 ELSE IF v.kind = "null" THEN "<nil>" ELSE v.text
=============================================================================
