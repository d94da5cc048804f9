----------------------------- MODULE AuditBounds -----------------------------
(***************************************************************************)
(* What internal/audit/models.go makes of a payload before LogEvent stores *)
(* it: values under sensitive names are redacted, and depth, number of     *)
(* items, length of texts and length of the whole are bounded.  The        *)
(* request, the response and the decision of an event are each treated so. *)
(*                                                                         *)
(* A payload is a tree.  A text is the word it spells and its length; what *)
(* is cut off a text is not modelled, its word stays.  A name is short or  *)
(* one of LongNames, which all read Cut when cut to 64 characters.  Go     *)
(* visits the fields of a map in any order, so there is a set of outcomes. *)
(***************************************************************************)
EXTENDS Naturals, Sequences, FiniteSetsExt, Functions

CONSTANTS
  MaxDepth, MaxItems, MaxText, MaxBytes,  \* the bounds of models.go
  PreviewBytes,    \* what the preview of a payload too long may take
  Sensitive,       \* the names in sensitiveKeys, in any case
  LongNames, Cut,  \* names beyond MaxJSONKeyChars, and what is left of them
  Omitted,         \* the name "_truncated_items"
  Blank,           \* a tool name of blanks only
  ToolNames,
  Payloads,        \* the values in the events
  Tallest          \* no payload has more levels below its root

ASSUME BoundsAssumption ==
  /\ {MaxDepth, MaxItems, MaxText, MaxBytes, PreviewBytes, Tallest} \subseteq Nat
  /\ MaxDepth <= Tallest
  /\ PreviewBytes <= MaxBytes
ASSUME NamesAssumption == Sensitive \cap (LongNames \cup {Cut, Omitted}) = {}

VARIABLES
  tool, payload,   \* of the event being logged
  stored           \* the payload in the row, or Pending or Refused

vars == <<tool, payload, stored>>

Scalar == [kind |-> "scalar"]
Text(word, bytes) == [kind |-> "text", word |-> word, bytes |-> bytes]
MapOf(fields) == [kind |-> "map", fields |-> fields]
ListOf(items) == [kind |-> "list", items |-> items]
\* A Go value of another type, which has a JSON form.
Opaque(json) == [kind |-> "opaque", json |-> json]
\* One that json.Marshal refuses, and what "%#v" makes of it: how long that is,
\* and the words it may spell, those under sensitive names (hidden) and others.
Unmarshalable(open, hidden, bytes) ==
  [kind |-> "unmarshalable", open |-> open, hidden |-> hidden, bytes |-> bytes]

Redacted == [kind |-> "redacted"]
Truncated == [kind |-> "truncated"]
\* What is stored of an unmarshalable value.
Formatted(words, bytes) == [kind |-> "formatted", words |-> words, bytes |-> bytes]

\* No row yet, and no row at all.
Pending == [kind |-> "pending"]
Refused == [kind |-> "refused"]

-----------------------------------------------------------------------------
\* What a value contains, but for the fields under hidden names.
Children(value, hidden) ==
  CASE value.kind = "map" -> {value.fields[n] : n \in DOMAIN value.fields \ hidden}
    [] value.kind = "list" -> {value.items[i] : i \in DOMAIN value.items}
    [] value.kind = "opaque" -> {value.json}
    [] OTHER -> {}

\* What is d steps below a value.
Level(value, hidden) ==
  LET level[d \in Nat] ==
        IF d = 0 THEN {value} ELSE UNION {Children(v, hidden) : v \in level[d - 1]}
  IN  level

IsShallower(value, d) == Level(value, {})[d] = {}

Nodes(value, hidden) == UNION {Level(value, hidden)[d] : d \in 0..Tallest}

\* Payloads are finite.
ASSUME PayloadsAssumption ==
  \A p \in Payloads :
    /\ IsShallower(p, Tallest + 1)
    /\ \A v \in Nodes(p, {}) :
         /\ v.kind = "map" => IsFiniteSet(DOMAIN v.fields)
         /\ v.kind = "list" => v.items \in Seq(Nodes(p, {}))

-----------------------------------------------------------------------------
MinInt(a, b) == IF a < b THEN a ELSE b

KeyText(name) == IF name \in LongNames THEN Cut ELSE name

\* A map with one of the outcomes of each of the fields in taken.  Of fields
\* whose names are cut to the same text, any one stays.
FieldChoices(taken, outcomes) ==
  LET texts == {KeyText(n) : n \in taken}
  IN  {f \in [texts -> UNION {outcomes[n] : n \in taken}] :
         \A t \in texts : \E n \in taken : KeyText(n) = t /\ f[t] \in outcomes[n]}

\* Mutants of TakenFields: the loop goes on beyond the bound; it stops one
\* field early.
AllFields(names) == {names}
AllButOneField(names) == kSubset(MinInt(MaxItems - 1, Cardinality(names)), names)

\* sanitizeMap takes MaxItems fields, any of them.
TakenFields(names) == kSubset(MinInt(MaxItems, Cardinality(names)), names)

WithOmission(names, fields) ==
  IF Cardinality(names) <= MaxItems THEN fields
  ELSE [t \in DOMAIN fields \cup {Omitted} |->
          IF t = Omitted THEN Scalar ELSE fields[t]]

\* sanitizeMap: names are compared with sensitiveKeys after they were cut.
\* deeper gives the outcomes of every value one level deeper.
SanitizedMap(fields, deeper) ==
  LET names == DOMAIN fields
      outcomes == [n \in names |->
                     IF KeyText(n) \in Sensitive THEN {Redacted} ELSE deeper[fields[n]]]
  IN  {MapOf(WithOmission(names, f)) :
         f \in UNION {FieldChoices(K, outcomes) : K \in TakenFields(names)}}

SanitizedList(items, deeper) ==
  LET kept == MinInt(Len(items), MaxItems)
      rest == IF Len(items) > kept THEN <<Truncated>> ELSE <<>>
  IN  {ListOf(s \o rest) :
         s \in {s \in [1..kept -> UNION {deeper[items[i]] : i \in 1..kept}] :
                  \A i \in 1..kept : s[i] \in deeper[items[i]]}}

\* The switch of sanitizeJSONValue.  A value of another type is read back from
\* its JSON, one level deeper; if it has none, it is formatted as Go writes it,
\* names and all.
SanitizedNode(value, deeper) ==
  CASE value.kind = "map" -> SanitizedMap(value.fields, deeper)
    [] value.kind = "list" -> SanitizedList(value.items, deeper)
    [] value.kind = "text" -> {Text(value.word, MinInt(value.bytes, MaxText))}
    [] value.kind = "opaque" -> deeper[value.json]
    [] value.kind = "unmarshalable" ->
         {Formatted(value.open \cup value.hidden, MinInt(value.bytes, MaxText))}
    [] OTHER -> {value}

\* sanitizeJSONValue(value, 0).
Sanitized(value) ==
  LET nodes == Nodes(value, {})
      outcomes[depth \in 0..MaxDepth] ==
        [v \in nodes |-> IF depth >= MaxDepth THEN {Truncated}
                         ELSE SanitizedNode(v, outcomes[depth + 1])]
  IN  outcomes[0][value]

-----------------------------------------------------------------------------
\* The length of serializeJSON, in units of one small value.
Bytes(value) ==
  LET bytes[left \in 0..Tallest] ==
        [v \in Nodes(value, {}) |->
           CASE v.kind = "map" ->
                  1 + MapThenSumSet(LAMBDA n : 1 + bytes[left - 1][v.fields[n]],
                                    DOMAIN v.fields)
             [] v.kind = "list" ->
                  1 + MapThenSumSet(LAMBDA i : bytes[left - 1][v.items[i]],
                                    DOMAIN v.items)
             [] v.kind \in {"text", "formatted"} -> v.bytes
             [] OTHER -> 1]
  IN  IF value.kind = "preview" THEN PreviewBytes ELSE bytes[Tallest][value]

\* The words that can be read in a value, but for those under hidden names.
WordsOf(node) ==
  CASE node.kind = "text" -> {node.word}
    [] node.kind \in {"preview", "formatted"} -> node.words
    [] node.kind = "unmarshalable" -> node.open
    [] OTHER -> {}
WordsBut(value, hidden) == UNION {WordsOf(v) : v \in Nodes(value, hidden)}
Words(value) == WordsBut(value, {})

\* The preview is the beginning of the serialised text: any of its words may
\* be in it.
Preview(value) == [kind |-> "preview", words |-> Words(value)]

\* Mutant of Bounded: the preview shows the payload itself.
BoundedByRawPreview(value) ==
  {IF Bytes(s) <= MaxBytes THEN s ELSE Preview(value) : s \in Sanitized(value)}

\* boundJSONPayload.
Bounded(value) ==
  {IF Bytes(s) <= MaxBytes THEN s ELSE Preview(s) : s \in Sanitized(value)}

\* NormalizeAndBound, and the row that LogEvent inserts.
Store ==
  /\ stored = Pending
  /\ tool # Blank
  /\ stored' \in Bounded(payload)
  /\ UNCHANGED <<tool, payload>>

\* "tool_name must be a non-empty string": no row.
Refuse ==
  /\ stored = Pending
  /\ tool = Blank
  /\ stored' = Refused
  /\ UNCHANGED <<tool, payload>>

Init ==
  /\ tool \in ToolNames \cup {Blank}
  /\ payload \in Payloads
  /\ stored = Pending

Next == Store \/ Refuse

Spec == Init /\ [][Next]_vars

-----------------------------------------------------------------------------
IsStored == stored \notin {Pending, Refused}

\* The words of a payload that no sensitive name stands above.
PublicWords(value) == WordsBut(value, Sensitive)

IsUnmarshalable(value) == value.kind = "unmarshalable"

\* The words that formatting may show of unmarshalable values, but for those
\* of values that are redacted as a whole.
FormattedWords(value) ==
  UNION {v.hidden : v \in {v \in Nodes(value, Sensitive) : IsUnmarshalable(v)}}

(***************************************************************************)
(* No word under a sensitive name, at whatever depth and inside whatever   *)
(* lists, maps and values with a JSON form, gets into the row: not in its  *)
(* place, not where a name was cut or a field dropped, not in the preview. *)
(* The one way in is a value that json.Marshal refuses, of which redaction *)
(* sees nothing: if there is none, the row has public words only; if there *)
(* is one, it gives away its own words and no other's.                     *)
(***************************************************************************)
NothingSensitiveStored ==
  IsStored => Words(stored) \subseteq PublicWords(payload) \cup FormattedWords(payload)

WidthOf(node) ==
  CASE node.kind = "map" -> Cardinality(DOMAIN node.fields)
    [] node.kind = "list" -> Len(node.items)
    [] OTHER -> 0
\* No map or list has more items.
IsNarrow(value, width) == \A v \in Nodes(value, {}) : WidthOf(v) <= width

(***************************************************************************)
(* However deep, wide or long the payload, the row is not: its depth and   *)
(* length are within the bounds, its width is at most one marker more.     *)
(***************************************************************************)
StoredIsBounded ==
  IsStored =>
    /\ IsShallower(stored, MaxDepth + 1)
    /\ IsNarrow(stored, MaxItems + 1)
    /\ Bytes(stored) <= MaxBytes

\* Two names of one map are cut to the same text.
NamesCollide(value) ==
  \E v \in Nodes(value, {}) :
    /\ v.kind = "map"
    /\ \E m, n \in DOMAIN v.fields : m # n /\ KeyText(m) = KeyText(n)

(***************************************************************************)
(* The audit trail is complete where it can be: of a payload within the    *)
(* bounds, all of which has a JSON form, every public word is stored.      *)
(* Nothing is lost but what is redacted, or overwritten by a field whose   *)
(* long name begins alike.                                                 *)
(***************************************************************************)
SmallPayloadsAreKept ==
  /\ IsStored
  /\ IsShallower(payload, MaxDepth) /\ IsNarrow(payload, MaxItems)
  /\ ~ NamesCollide(payload)
  /\ \A v \in Nodes(payload, {}) : ~ IsUnmarshalable(v)
  /\ stored.kind # "preview"
  => Words(stored) = PublicWords(payload)
=============================================================================
