--------------------------- MODULE MCAuditBounds ---------------------------
(***************************************************************************)
(* Payloads for model-checking AuditBounds: trees of up to four levels     *)
(* with lists and maps of up to three items, some beyond every bound, and  *)
(* values that have no JSON form, alone, in maps and in lists.             *)
(***************************************************************************)
EXTENDS AuditBounds

Names == {"query", "token", "long_a", "long_b"}
Leaves == {Text("open", 1), Text("hidden", 5)}

Maps(names, values) == {MapOf(f) : f \in UNION {[N -> values] : N \in SUBSET names}}
Lists(values) == {ListOf(s) : s \in UNION {[1..n -> values] : n \in {0, 1, 3}}}

Small == Maps(Names, Leaves) \cup Lists(Leaves)
\* One field or item inside another, under each kind of name.
Wraps(values) ==
  UNION {{MapOf([n \in {"query"} |-> v]), MapOf([n \in {"token"} |-> v]),
          MapOf([n \in {"long_a"} |-> v]), ListOf(<<v, Text("open", 1)>>),
          Opaque(v)} : v \in values}

\* The response of a call may be a result of the upstream that has no JSON.
\* Wherever it stands, its neighbours are treated as ever.
Results == {Unmarshalable({"open"}, {"inner"}, b) : b \in {2, 5}}
ResultsWithin ==
  LET fields == {[n \in N |-> IF n = m THEN r ELSE Text("hidden", 1)] :
                   N \in SUBSET Names \ {{}}, m \in Names, r \in Results}
  IN  {MapOf(f) : f \in fields} \cup {ListOf(<<r, Text("open", 1)>>) : r \in Results}

Plain(values) == {v \in values : v.kind # "opaque"}
MCPayloads ==
  LET once == Wraps(Small)
      twice == Wraps(Plain(once))
      unmarshaled == Results \cup ResultsWithin
  IN  Small \cup once \cup twice \cup Wraps(Plain(twice)) \cup unmarshaled
        \cup {w \in Wraps(unmarshaled) : w.kind # "opaque"}
=============================================================================
