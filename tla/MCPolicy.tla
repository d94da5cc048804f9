------------------------------ MODULE MCPolicy ------------------------------
(***************************************************************************)
(* Documents for model-checking Policy: a role with any list of up to two  *)
(* entries beside another with up to one, under the default limits, one of *)
(* them of a name the program does not know; and combinations of limits,   *)
(* up to two overrides, under the default lists.                           *)
(***************************************************************************)
EXTENDS Policy

Text(n, p) == [name |-> n, plain |-> p]
Window(r, s) == [requests |-> r, seconds |-> s]

Entries == {Text(n, TRUE) : n \in ToolNames \cup {Wildcard, Blank}}
             \cup {Text(Wildcard, FALSE)} \cup {Text(n, FALSE) : n \in ToolNames}
Lists == {Nil, <<>>} \cup {<<t>> : t \in Entries} \cup {<<t, u>> : t, u \in Entries}
ShortLists == {Nil} \cup {<<t>> : t \in Entries}

NoOverride == [t \in {} |-> 0]
Numbers == {-1, 0, 2}
Limits == {Window(r, s) : r, s \in Numbers}
Keys == {Text(n, p) : n \in ToolNames, p \in BOOLEAN} \cup {Text(Blank, FALSE)}
SmallOverrides ==
  UNION {[K -> {Window(0, 0), Window(2, 0), Window(0, 5), Window(2, -1)}] :
           K \in {K \in SUBSET Keys : Cardinality(K) <= 2}}

Roles(a, u, r, o) == [admin |-> a, user |-> u, readonly |-> r, other |-> o]
RoleSets ==
  {Roles(l, s, Nil, Nil) : l \in Lists, s \in ShortLists}
    \cup {Roles(s, l, Nil, Nil) : l \in Lists, s \in ShortLists}
    \cup {Roles(Nil, s, l, Nil) : l \in Lists, s \in ShortLists}
    \cup {Roles(Nil, Nil, s, l) : l \in Lists, s \in ShortLists}
RoleDocuments ==
  {[roles |-> rs, perKey |-> Window(0, 0), perTool |-> Window(0, 0),
    overrides |-> NoOverride] : rs \in RoleSets}
LimitDocuments ==
  {[roles |-> Roles(Nil, Nil, Nil, Nil), perKey |-> k, perTool |-> t, overrides |-> o] :
     k \in {Window(0, 0), Window(2, 0), Window(0, 5), Window(2, -1), Window(-1, 0)},
     t \in Limits, o \in SmallOverrides}

\* Files as README.md has them: the wildcard for admin and for one more role.
Wildcards == <<Text(Wildcard, TRUE)>>
WildcardDocuments ==
  {[roles |-> rs, perKey |-> Window(120, 60), perTool |-> Window(30, 60),
    overrides |-> NoOverride] :
     rs \in {Roles(Wildcards, Wildcards, Nil, Nil), Roles(Wildcards, Nil, Wildcards, Nil),
             Roles(Wildcards, Nil, Nil, Wildcards)}}

MCDocuments == RoleDocuments \cup LimitDocuments \cup {Unreadable}
=============================================================================
