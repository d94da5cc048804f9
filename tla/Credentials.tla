---------------------------- MODULE Credentials ----------------------------
(***************************************************************************)
(* Where an API key is looked for: in the metadata of an MCP request       *)
(* (extractAPIKey of server.go) and in an HTTP request of the dashboard    *)
(* (extractPresentedAPIKey of dashboard.go).                               *)
(*                                                                         *)
(* A text is what trimming leaves of it.  Of its spelling only this        *)
(* matters: whether it has a space, and whether what precedes the first    *)
(* one reads "bearer" in any case.  The gateway is served over stdio only, *)
(* where a request has no HTTP header: RequestExtra.Header is empty, and   *)
(* what extractAPIKey would do with one is left out.                       *)
(***************************************************************************)
EXTENDS FiniteSets

CONSTANT Words \* what a text may say: texts of API keys among them

Blank == [scheme |-> "blank", word |-> "blank"] \* absent, or only white space
NotText == [scheme |-> "value", word |-> "value"] \* a number, a list, null...
Word(w) == [scheme |-> "none", word |-> w]
Texts == [scheme : {"none", "bearer", "other"}, word : Words] \cup {Blank}

ExtractBearer(text) ==
  IF text.scheme = "bearer" THEN Word(text.word) ELSE Blank

-----------------------------------------------------------------------------
(***************************************************************************)
(* The gateway.  A map in the metadata is a set of fields.  The spelling   *)
(* of a field's name is lost, so two fields may have one name; Go walks    *)
(* the map in any order, and the last one stays.  target[n] is the set of  *)
(* texts that may end up under the name n.                                 *)
(***************************************************************************)
Field(name, text) == [name |-> name, text |-> text]

\* Mutant of MergeStringMapping: blank texts are not skipped.
MergeBlanks(target, source) ==
  LET given(n) == {f.text : f \in {g \in source : g.name = n}} \ {NotText}
  IN  [n \in DOMAIN target |-> IF given(n) = {} THEN target[n] ELSE given(n)]

MergeStringMapping(target, source) ==
  LET given(n) == {f.text : f \in {g \in source : g.name = n}} \ {Blank, NotText}
  IN  [n \in DOMAIN target |-> IF given(n) = {} THEN target[n] ELSE given(n)]

FirstOf(bearer, apiKey, query) ==
  CASE bearer # Blank -> bearer
    [] bearer = Blank /\ apiKey # Blank -> apiKey
    [] OTHER -> query

Nothing == [n \in {"authorization", "x-api-key", "api_key"} |-> {Blank}]

ExtractAPIKey(meta) ==
  LET headers == MergeStringMapping(MergeStringMapping(Nothing, meta.headers), meta.header)
      query   == MergeStringMapping(MergeStringMapping(Nothing, meta.query), meta.query_params)
  IN  {FirstOf(ExtractBearer(a), x, q) :
         a \in headers["authorization"], x \in headers["x-api-key"], q \in query["api_key"]}

-----------------------------------------------------------------------------
(***************************************************************************)
(* The dashboard.  net/http gives one text for each header and parameter.  *)
(***************************************************************************)
Presented == [authorization : Texts, apiKey : Texts, query : Texts]

ExtractPresentedAPIKey(http) ==
  IF http.authorization.scheme = "bearer" THEN Word(http.authorization.word)
  ELSE IF http.apiKey # Blank THEN http.apiKey
  ELSE http.query

-----------------------------------------------------------------------------
(***************************************************************************)
(* Requests that the two would read differently.  What a client gives the  *)
(* dashboard as h it may give the gateway in either of the two maps.  If   *)
(* the metadata also carries a request g, in the later map, g's texts      *)
(* replace h's; if one map carries both, each text is taken from h or from *)
(* g.  No other key can result.                                            *)
(***************************************************************************)
Headers(http) ==
  {Field("authorization", http.authorization), Field("x-api-key", http.apiKey)}
Query(http) == {Field("api_key", http.query)}

TwoMaps(h, g) ==
  [headers |-> Headers(h), header |-> Headers(g),
   query |-> Query(h), query_params |-> Query(g)]
OneMap(h, g) ==
  [headers |-> Headers(h) \cup Headers(g) \cup {Field("x-api-key", NotText)},
   header |-> {}, query |-> {}, query_params |-> Query(h) \cup Query(g)]

Replaced(a, b) == IF b = Blank THEN {a} ELSE {b}
Either(a, b) == IF {a, b} = {Blank} THEN {Blank} ELSE {a, b} \ {Blank}
Combined(Choice(_, _), h, g) ==
  [authorization : Choice(h.authorization, g.authorization),
   apiKey : Choice(h.apiKey, g.apiKey), query : Choice(h.query, g.query)]
KeysOf(requests) == {ExtractPresentedAPIKey(http) : http \in requests}

Differ(h, g) ==
  \/ ExtractAPIKey(TwoMaps(h, g)) # KeysOf(Combined(Replaced, h, g))
  \/ ExtractAPIKey(OneMap(h, g)) # KeysOf(Combined(Either, h, g))

Misread ==
  {pair[1] : pair \in {both \in Presented \X Presented : Differ(both[1], both[2])}}
=============================================================================
