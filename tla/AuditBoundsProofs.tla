-------------------------- MODULE AuditBoundsProofs --------------------------
(***************************************************************************)
(* Proofs about AuditBounds, for payloads of any shape, any bounds and any *)
(* sensitive names.  Level and Sanitized are recursive functions, on how   *)
(* deep a value is; SetInduction says that a set of numbers with zero and  *)
(* every next number has them all, and is what each induction cites.       *)
(* First, the recursions have the functions they describe (LevelRecursion, *)
(* SanitizedRecursion).  Then what sanitizing does to one node, if what it *)
(* did below is right (NodeIsSanitized, LevelIsSanitized), then to all of  *)
(* them, from the deepest level up (OutcomesAreRight).                     *)
(***************************************************************************)
EXTENDS AuditBounds, FiniteSetTheorems, FunctionTheorems, NumberLemmas, TLAPS

\* Induction over the numbers, for a set of them.
LEMMA SetInduction ==
  ASSUME NEW S, 0 \in S, \A n \in Nat : n \in S => n + 1 \in S
  PROVE  Nat \subseteq S
PROOF
<1> DEFINE out == Nat \ S
<1> SUFFICES ASSUME out # {} PROVE FALSE
  OBVIOUS
<1>1. PICK x \in out : \A y \in out : x <= y
  <2> out \subseteq Nat
    OBVIOUS
  <2> HIDE DEF out
  <2> QED
    BY LeastExists
<1>2. x # 0 /\ x - 1 \in Nat /\ x - 1 + 1 = x
  OBVIOUS
<1>3. x - 1 \in S
  BY <1>1, <1>2
<1> QED
  BY <1>2, <1>3

-----------------------------------------------------------------------------
\* The first levels below a value, as they are counted one by one.
Below(level, hidden) == UNION {Children(v, hidden) : v \in level}

Starts(g, k, value, hidden) ==
  /\ g[0] = {value}
  /\ \A d \in Nat : d < k => g[d + 1] = Below(g[d], hidden)

LEMMA StartsExist ==
  ASSUME NEW value, NEW hidden, NEW k \in Nat
  PROVE  \E g : Starts(g, k, value, hidden)
PROOF
<1> DEFINE S == {n \in Nat : \E g : Starts(g, n, value, hidden)}
<1>1. 0 \in S
  <2> DEFINE g == [d \in {0} |-> {value}]
  <2>1. Starts(g, 0, value, hidden)
    BY DEF Starts
  <2> QED
    BY <2>1
<1>2. ASSUME NEW n \in Nat, n \in S
      PROVE  n + 1 \in S
  <2>1. PICK g : Starts(g, n, value, hidden)
    BY <1>2
  <2> DEFINE h == [d \in 0..(n + 1) |-> IF d = n + 1 THEN Below(g[n], hidden) ELSE g[d]]
  <2>2. h[0] = {value}
    BY <2>1 DEF Starts
  <2>3. ASSUME NEW d \in Nat, d < n + 1
        PROVE  h[d + 1] = Below(h[d], hidden)
    <3>1. h[d] = g[d]
      BY <2>3
    <3>2. CASE d = n
      BY <3>1, <3>2
    <3>3. CASE d # n
      <4>1. d < n /\ d + 1 \in 0..(n + 1) /\ d + 1 # n + 1
        BY <2>3, <3>3
      <4>2. h[d + 1] = g[d + 1]
        BY <4>1
      <4> QED
        BY <2>1, <3>1, <4>1, <4>2 DEF Starts
    <3> QED
      BY <3>2, <3>3
  <2>4. Starts(h, n + 1, value, hidden)
    <3> HIDE DEF h
    <3> QED
      BY <2>2, <2>3 DEF Starts
  <2> QED
    BY <2>4
<1>3. Nat \subseteq S
  <2> HIDE DEF S
  <2> QED
    BY <1>1, <1>2, SetInduction
<1> QED
  BY <1>3

LEMMA StartsAgree ==
  ASSUME NEW value, NEW hidden, NEW k \in Nat, NEW m \in Nat, NEW g, NEW h,
         Starts(g, k, value, hidden), Starts(h, m, value, hidden)
  PROVE  \A d \in Nat : d <= k /\ d <= m => g[d] = h[d]
PROOF
<1> DEFINE S == {d \in Nat : d <= k /\ d <= m => g[d] = h[d]}
<1>1. 0 \in S
  BY DEF Starts
<1>2. ASSUME NEW n \in Nat, n \in S
      PROVE  n + 1 \in S
  <2>1. SUFFICES ASSUME n + 1 <= k, n + 1 <= m
                 PROVE  g[n + 1] = h[n + 1]
    OBVIOUS
  <2>2. n < k /\ n < m /\ g[n] = h[n]
    BY <1>2, <2>1
  <2> QED
    BY <2>2 DEF Starts
<1>3. Nat \subseteq S
  <2> HIDE DEF S
  <2> QED
    BY <1>1, <1>2, SetInduction
<1> QED
  BY <1>3

\* The recursion of Level has the function it describes.
LEMMA LevelRecursion ==
  ASSUME NEW value, NEW hidden
  PROVE  /\ Level(value, hidden)[0] = {value}
         /\ \A d \in Nat :
              Level(value, hidden)[d + 1] = Below(Level(value, hidden)[d], hidden)
PROOF
<1> DEFINE some(k) == CHOOSE g : Starts(g, k, value, hidden)
           F == [d \in Nat |-> some(d)[d]]
           Body(f, d) == IF d = 0 THEN {value} ELSE Below(f[d - 1], hidden)
<1>1. \A k \in Nat : Starts(some(k), k, value, hidden)
  BY StartsExist
<1> HIDE DEF some
<1>2. F[0] = {value}
  BY <1>1 DEF Starts
<1>3. ASSUME NEW d \in Nat
      PROVE  F[d + 1] = Below(F[d], hidden)
  <2>1. Starts(some(d), d, value, hidden) /\ Starts(some(d + 1), d + 1, value, hidden)
    BY <1>1
  <2>2. some(d + 1)[d + 1] = Below(some(d + 1)[d], hidden)
    BY <2>1 DEF Starts
  <2>3. d + 1 \in Nat /\ d <= d /\ d <= d + 1
    OBVIOUS
  <2>4. some(d)[d] = some(d + 1)[d]
    BY <2>1, <2>3, StartsAgree
  <2> QED
    BY <2>2, <2>4
<1>4. F = [d \in Nat |-> Body(F, d)]
  <2>1. ASSUME NEW d \in Nat PROVE F[d] = Body(F, d)
    <3>1. CASE d = 0
      BY <1>2, <3>1
    <3>2. CASE d # 0
      <4>1. d - 1 \in Nat /\ d - 1 + 1 = d
        BY <3>2
      <4> HIDE DEF F
      <4> QED
        BY <1>3, <3>2, <4>1
    <3> QED
      BY <3>1, <3>2
  <2> DEFINE G == [d \in Nat |-> Body(F, d)]
  <2>2. \A d \in Nat : F[d] = G[d]
    <3> HIDE DEF F
    <3> QED
      BY <2>1
  <2>3. DOMAIN F = Nat /\ DOMAIN G = Nat
    OBVIOUS
  <2>4. F = [d \in DOMAIN F |-> F[d]] /\ G = [d \in DOMAIN G |-> G[d]]
    OBVIOUS
  <2> HIDE DEF F, G
  <2>5. F = G
    BY <2>2, <2>3, <2>4
  <2> QED
    BY <2>5 DEF G
<1> DEFINE L == CHOOSE f : f = [d \in Nat |-> Body(f, d)]
<1>5. Level(value, hidden) = L
  BY DEF Level, Below
<1>6. L = [d \in Nat |-> Body(L, d)]
  <2> HIDE DEF F, Body
  <2> QED
    BY <1>4
<1> HIDE DEF L
<1>7. L[0] = {value}
  BY <1>6
<1>8. ASSUME NEW d \in Nat
      PROVE  L[d + 1] = Below(L[d], hidden)
  <2>1. d + 1 \in Nat /\ d + 1 # 0 /\ d + 1 - 1 = d
    OBVIOUS
  <2>2. L[d + 1] = Body(L, d + 1)
    <3> HIDE DEF Body
    <3> QED
      BY <1>6, <2>1
  <2> QED
    BY <2>1, <2>2
<1> QED
  BY <1>5, <1>7, <1>8

\* What is one step deeper below a value is as deep below one of its children.
LEMMA LevelOfChildren ==
  ASSUME NEW value, NEW hidden
  PROVE  \A d \in Nat : \A w :
           w \in Level(value, hidden)[d + 1]
             <=> \E c \in Children(value, hidden) : w \in Level(c, hidden)[d]
PROOF
<1> DEFINE At(v, d) == Level(v, hidden)[d]
           Same(d) == \A w : w \in At(value, d + 1)
                        <=> \E c \in Children(value, hidden) : w \in At(c, d)
           S == {d \in Nat : Same(d)}
<1>0. /\ \A v : At(v, 0) = {v}
      /\ \A v : \A d \in Nat : At(v, d + 1) = Below(At(v, d), hidden)
  BY LevelRecursion
<1> HIDE DEF At
<1>1. 0 \in S
  <2>1. At(value, 0 + 1) = Below({value}, hidden)
    BY <1>0
  <2>2. \A w : w \in At(value, 0 + 1) <=> w \in Children(value, hidden)
    BY <2>1 DEF Below
  <2>3. \A w : (\E c \in Children(value, hidden) : w \in At(c, 0))
                 <=> w \in Children(value, hidden)
    BY <1>0
  <2>4. Same(0)
    BY <2>2, <2>3
  <2> QED
    BY <2>4
<1>2. ASSUME NEW n \in Nat, n \in S
      PROVE  n + 1 \in S
  <2>1. Same(n)
    BY <1>2
  <2>2. n + 1 \in Nat
    OBVIOUS
  <2>3. At(value, n + 1 + 1) = Below(At(value, n + 1), hidden)
    BY <1>0, <2>2
  <2>4. \A c : At(c, n + 1) = Below(At(c, n), hidden)
    BY <1>0
  <2>5. ASSUME NEW w
        PROVE  w \in At(value, n + 1 + 1)
                 <=> \E c \in Children(value, hidden) : w \in At(c, n + 1)
    <3>1. w \in At(value, n + 1 + 1)
            <=> \E u \in At(value, n + 1) : w \in Children(u, hidden)
      BY <2>3 DEF Below
    <3>2. (\E u \in At(value, n + 1) : w \in Children(u, hidden))
            <=> \E u : (\E c \in Children(value, hidden) : u \in At(c, n))
                         /\ w \in Children(u, hidden)
      BY <2>1
    <3>3. (\E c \in Children(value, hidden) : w \in At(c, n + 1))
            <=> \E c \in Children(value, hidden) :
                  \E u \in At(c, n) : w \in Children(u, hidden)
      BY <2>4 DEF Below
    <3> QED
      BY <3>1, <3>2, <3>3
  <2>6. Same(n + 1)
    BY <2>5
  <2> QED
    BY <2>2, <2>6
<1>3. Nat \subseteq S
  <2> HIDE DEF S
  <2> QED
    BY <1>1, <1>2, SetInduction
<1> QED
  BY <1>3 DEF At

\* Below the last level there is nothing.
LEMMA EmptyBelow ==
  ASSUME NEW value, NEW hidden, NEW k \in Nat, Level(value, hidden)[k] = {}
  PROVE  \A d \in Nat : k <= d => Level(value, hidden)[d] = {}
PROOF
<1> DEFINE S == {d \in Nat : k <= d => Level(value, hidden)[d] = {}}
<1>1. 0 \in S
  OBVIOUS
<1>2. ASSUME NEW n \in Nat, n \in S
      PROVE  n + 1 \in S
  <2>1. Level(value, hidden)[n + 1] = Below(Level(value, hidden)[n], hidden)
    BY LevelRecursion
  <2>2. CASE k <= n
    BY <1>2, <2>1, <2>2 DEF Below
  <2>3. CASE ~ (k <= n)
    <3>1. k <= n + 1 => k = n + 1
      BY <2>3
    <3> QED
      BY <3>1
  <2> QED
    BY <2>2, <2>3
<1>3. Nat \subseteq S
  <2> HIDE DEF S
  <2> QED
    BY <1>1, <1>2, SetInduction
<1> QED
  BY <1>3

\* Hiding names hides values, and shows no other.
LEMMA LevelHidden ==
  ASSUME NEW value, NEW hidden
  PROVE  \A d \in Nat : Level(value, hidden)[d] \subseteq Level(value, {})[d]
PROOF
<1> DEFINE S == {d \in Nat : Level(value, hidden)[d] \subseteq Level(value, {})[d]}
<1>1. 0 \in S
  BY LevelRecursion
<1>2. ASSUME NEW n \in Nat, n \in S
      PROVE  n + 1 \in S
  <2>1. /\ Level(value, hidden)[n + 1] = Below(Level(value, hidden)[n], hidden)
        /\ Level(value, {})[n + 1] = Below(Level(value, {})[n], {})
    BY LevelRecursion
  <2>2. \A v : Children(v, hidden) \subseteq Children(v, {})
    BY DEF Children
  <2> QED
    BY <1>2, <2>1, <2>2 DEF Below
<1>3. Nat \subseteq S
  <2> HIDE DEF S
  <2> QED
    BY <1>1, <1>2, SetInduction
<1> QED
  BY <1>3

-----------------------------------------------------------------------------
\* The nodes of a value at any depth, of which Nodes gives those that TLC visits.
AllNodes(value, hidden) == UNION {Level(value, hidden)[d] : d \in Nat}

\* Every node of a value of the given height is visited.
LEMMA NodesAreAll ==
  ASSUME NEW value, NEW hidden, NEW k \in Nat, IsShallower(value, k), k <= Tallest + 1
  PROVE  \A w : w \in Nodes(value, hidden) <=> w \in AllNodes(value, hidden)
PROOF
<1>1. Tallest \in Nat
  BY BoundsAssumption
<1>2. ASSUME NEW d \in Nat, d \notin 0..Tallest
      PROVE  Level(value, hidden)[d] = {}
  <2>1. k <= d
    BY <1>1, <1>2
  <2>2. Level(value, {})[d] = {}
    BY <2>1, EmptyBelow DEF IsShallower
  <2> QED
    BY <2>2, LevelHidden
<1>3. 0..Tallest \subseteq Nat
  BY <1>1
<1> QED
  BY <1>2, <1>3 DEF Nodes, AllNodes

LEMMA AllNodesStep ==
  ASSUME NEW value, NEW hidden
  PROVE  \A w : w \in AllNodes(value, hidden)
           <=> \/ w = value
               \/ \E c \in Children(value, hidden) : w \in AllNodes(c, hidden)
PROOF
<1>1. Level(value, hidden)[0] = {value}
  BY LevelRecursion
<1>2. ASSUME NEW w, w \in AllNodes(value, hidden)
      PROVE  \/ w = value
             \/ \E c \in Children(value, hidden) : w \in AllNodes(c, hidden)
  <2>1. PICK d \in Nat : w \in Level(value, hidden)[d]
    BY <1>2 DEF AllNodes
  <2>2. CASE d = 0
    BY <1>1, <2>1, <2>2
  <2>3. CASE d # 0
    <3>1. d - 1 \in Nat /\ d - 1 + 1 = d
      BY <2>3
    <3>2. \E c \in Children(value, hidden) : w \in Level(c, hidden)[d - 1]
      BY <2>1, <3>1, LevelOfChildren
    <3> QED
      BY <3>1, <3>2 DEF AllNodes
  <2> QED
    BY <2>2, <2>3
<1>3. value \in AllNodes(value, hidden)
  BY <1>1 DEF AllNodes
<1>4. ASSUME NEW w, NEW c \in Children(value, hidden), w \in AllNodes(c, hidden)
      PROVE  w \in AllNodes(value, hidden)
  <2>1. PICK d \in Nat : w \in Level(c, hidden)[d]
    BY <1>4 DEF AllNodes
  <2>2. w \in Level(value, hidden)[d + 1] /\ d + 1 \in Nat
    BY <2>1, LevelOfChildren
  <2> QED
    BY <2>2 DEF AllNodes
<1> QED
  BY <1>2, <1>3, <1>4

\* A child of a node is a node.
LEMMA AllNodesClosed ==
  ASSUME NEW value, NEW hidden, NEW v \in AllNodes(value, hidden),
         NEW c \in Children(v, hidden)
  PROVE  c \in AllNodes(value, hidden)
PROOF
<1>1. PICK d \in Nat : v \in Level(value, hidden)[d]
  BY DEF AllNodes
<1>2. c \in Level(value, hidden)[d + 1] /\ d + 1 \in Nat
  BY <1>1, LevelRecursion DEF Below
<1> QED
  BY <1>2 DEF AllNodes

-----------------------------------------------------------------------------
\* What the outcomes at one depth are made from those one level deeper.
Row(nodes, depth, deeper) ==
  [v \in nodes |-> IF depth >= MaxDepth THEN {Truncated} ELSE SanitizedNode(v, deeper)]

\* g holds the outcomes at the last k depths.
Ends(g, k, nodes) ==
  \A d \in Nat : MaxDepth <= d + k /\ d <= MaxDepth => g[d] = Row(nodes, d, g[d + 1])

LEMMA EndsExist ==
  ASSUME NEW nodes
  PROVE  \A k \in Nat : \E g : Ends(g, k, nodes)
PROOF
<1> DEFINE S == {k \in Nat : \E g : Ends(g, k, nodes)}
<1>0. MaxDepth \in Nat
  BY BoundsAssumption
<1>1. 0 \in S
  <2> DEFINE g == [d \in {MaxDepth} |-> Row(nodes, MaxDepth, <<>>)]
  <2>1. \A x, y : Row(nodes, MaxDepth, x) = Row(nodes, MaxDepth, y)
    BY <1>0 DEF Row
  <2>2. \A d \in Nat : MaxDepth <= d + 0 /\ d <= MaxDepth => d = MaxDepth
    BY <1>0
  <2>3. g[MaxDepth] = Row(nodes, MaxDepth, g[MaxDepth + 1])
    <3>1. g[MaxDepth] = Row(nodes, MaxDepth, <<>>)
      OBVIOUS
    <3> HIDE DEF g
    <3> QED
      BY <2>1, <3>1
  <2>4. Ends(g, 0, nodes)
    <3> HIDE DEF g
    <3> QED
      BY <2>2, <2>3 DEF Ends
  <2> QED
    BY <2>4
<1>2. ASSUME NEW n \in Nat, n \in S
      PROVE  n + 1 \in S
  <2>1. PICK g : Ends(g, n, nodes)
    BY <1>2
  <2> DEFINE new == MaxDepth - (n + 1)
             h == [d \in Nat |-> IF d = new THEN Row(nodes, d, g[d + 1]) ELSE g[d]]
  <2>2. ASSUME NEW d \in Nat, MaxDepth <= d + (n + 1), d <= MaxDepth
        PROVE  h[d] = Row(nodes, d, h[d + 1])
    <3>1. h[d + 1] = g[d + 1]
      BY <1>0, <2>2
    <3>2. CASE d = new
      BY <3>1, <3>2
    <3>3. CASE d # new
      <4>1. MaxDepth <= d + n
        BY <1>0, <2>2, <3>3
      <4>2. h[d] = g[d]
        BY <3>3
      <4>3. g[d] = Row(nodes, d, g[d + 1])
        BY <2>1, <2>2, <4>1 DEF Ends
      <4> QED
        BY <3>1, <4>2, <4>3
    <3> QED
      BY <3>2, <3>3
  <2>3. Ends(h, n + 1, nodes)
    <3> HIDE DEF h
    <3> QED
      BY <2>2 DEF Ends
  <2> QED
    BY <2>3
<1>3. Nat \subseteq S
  <2> HIDE DEF S
  <2> QED
    BY <1>1, <1>2, SetInduction
<1> QED
  BY <1>3

\* out holds the outcomes of the nodes at every depth.
IsOutcomes(out, nodes) ==
  \A d \in 0..MaxDepth : out[d] = Row(nodes, d, out[d + 1])

\* The recursion of Sanitized has the function it describes.
LEMMA SanitizedRecursion ==
  ASSUME NEW value
  PROVE  \E out : IsOutcomes(out, Nodes(value, {})) /\ Sanitized(value) = out[0][value]
PROOF
<1> DEFINE nodes == Nodes(value, {})
           L == CHOOSE f : f = [d \in 0..MaxDepth |-> Row(nodes, d, f[d + 1])]
<1> HIDE DEF nodes
<1>0. MaxDepth \in Nat
  BY BoundsAssumption
<1>1. \E f : f = [d \in 0..MaxDepth |-> Row(nodes, d, f[d + 1])]
  <2>1. PICK g : Ends(g, MaxDepth, nodes)
    BY <1>0, EndsExist
  <2> DEFINE F == [d \in 0..MaxDepth |-> g[d]]
             G == [d \in 0..MaxDepth |-> Row(nodes, d, F[d + 1])]
  <2>2. ASSUME NEW d \in 0..MaxDepth
        PROVE  F[d] = G[d]
    <3>1. d \in Nat /\ MaxDepth <= d + MaxDepth /\ d <= MaxDepth
      BY <1>0
    <3>2. g[d] = Row(nodes, d, g[d + 1])
      BY <2>1, <3>1 DEF Ends
    <3>3. Row(nodes, d, g[d + 1]) = Row(nodes, d, F[d + 1])
      <4>1. CASE d = MaxDepth
        BY <1>0, <4>1 DEF Row
      <4>2. CASE d # MaxDepth
        <5>1. d + 1 \in 0..MaxDepth
          BY <1>0, <3>1, <4>2
        <5>2. F[d + 1] = g[d + 1]
          BY <5>1
        <5> QED
          BY <5>2
      <4> QED
        BY <4>1, <4>2
    <3>4. F[d] = g[d] /\ G[d] = Row(nodes, d, F[d + 1])
      OBVIOUS
    <3> HIDE DEF F, G
    <3> QED
      BY <3>2, <3>3, <3>4
  <2>3. DOMAIN F = 0..MaxDepth /\ DOMAIN G = 0..MaxDepth
    OBVIOUS
  <2>4. F = [d \in DOMAIN F |-> F[d]] /\ G = [d \in DOMAIN G |-> G[d]]
    OBVIOUS
  <2>5. F = G
    <3> HIDE DEF F, G
    <3> QED
      BY <2>2, <2>3, <2>4
  <2> HIDE DEF F
  <2> QED
    BY <2>5
<1>2. L = [d \in 0..MaxDepth |-> Row(nodes, d, L[d + 1])]
  BY <1>1
<1>3. Sanitized(value) = L[0][value]
  BY DEF Sanitized, Row, nodes
<1> HIDE DEF L
<1>4. IsOutcomes(L, nodes)
  BY <1>2 DEF IsOutcomes
<1> QED
  BY <1>3, <1>4 DEF nodes

-----------------------------------------------------------------------------
Markers == {Redacted, Truncated, Scalar}

\* Go can store the node: its fields are finitely many, its items a sequence.
IsNode(v) ==
  /\ v.kind = "map" => IsFiniteSet(DOMAIN v.fields)
  /\ v.kind = "list" => v.items \in Seq(Range(v.items))

\* Nothing of the node is left out or overwritten.
IsSmallNode(v) ==
  /\ WidthOf(v) <= MaxItems
  /\ v.kind = "map" =>
       \A m, n \in DOMAIN v.fields : KeyText(m) = KeyText(n) => m = n

\* What a row may tell of a node: its words, and all of them if it has no JSON.
ToldBy(v) == WordsOf(v) \cup IF IsUnmarshalable(v) THEN v.hidden ELSE {}

\* What one level of sanitizing makes of a node, deeper being what the levels
\* below make: nothing new is said, what is inside are markers and outcomes of
\* what was inside under no sensitive name, and the width is bounded.
IsBoundedCopy(s, v, deeper) ==
  /\ WordsOf(s) \subseteq ToldBy(v)
  /\ \A c \in Children(s, {}) :
       c \in Markers \/ \E w \in Children(v, Sensitive) : c \in deeper[w]
  /\ WidthOf(s) <= MaxItems + 1

\* And nothing that may be kept is missing.
IsFullCopy(s, v, deeper) ==
  /\ WordsOf(v) \subseteq WordsOf(s)
  /\ \A w \in Children(v, Sensitive) : \E c \in Children(s, {}) : c \in deeper[w]

LEMMA MinIntIsLesser ==
  ASSUME NEW a \in Nat, NEW b \in Nat
  PROVE  /\ MinInt(a, b) \in Nat
         /\ MinInt(a, b) <= a /\ MinInt(a, b) <= b
         /\ MinInt(a, b) \in {a, b}
BY DEF MinInt

\* Cutting a name neither makes it sensitive nor makes it harmless.
LEMMA KeyTextSensitive ==
  ASSUME NEW n
  PROVE  KeyText(n) \in Sensitive <=> n \in Sensitive
BY NamesAssumption DEF KeyText

\* Cutting names does not make them more.
LEMMA TextsAreFewer ==
  ASSUME NEW K, IsFiniteSet(K)
  PROVE  LET texts == {KeyText(n) : n \in K}
         IN  IsFiniteSet(texts) /\ Cardinality(texts) <= Cardinality(K)
PROOF
<1> DEFINE texts == {KeyText(n) : n \in K}
           f == [n \in K |-> KeyText(n)]
<1>1. f \in Surjection(K, texts)
  BY DEF Surjection
<1> HIDE DEF f, texts
<1>2. IsFiniteSet(texts) /\ Cardinality(texts) <= Cardinality(K)
  BY <1>1, FS_Surjection
<1> QED
  BY <1>2 DEF texts

LEMMA FieldChoice ==
  ASSUME NEW K, NEW outcomes, NEW f \in FieldChoices(K, outcomes)
  PROVE  /\ DOMAIN f = {KeyText(n) : n \in K}
         /\ \A t \in DOMAIN f : \E n \in K : KeyText(n) = t /\ f[t] \in outcomes[n]
BY DEF FieldChoices

LEMMA MapIsSanitized ==
  ASSUME NEW fields, NEW deeper, NEW s \in SanitizedMap(fields, deeper),
         IsFiniteSet(DOMAIN fields)
  PROVE  LET v == MapOf(fields)
         IN  /\ IsBoundedCopy(s, v, deeper)
             /\ IsSmallNode(v) => IsFullCopy(s, v, deeper)
PROOF
<1> DEFINE v == MapOf(fields)
           names == DOMAIN fields
           outcomes == [n \in names |->
                     IF KeyText(n) \in Sensitive THEN {Redacted} ELSE deeper[fields[n]]]
<1>1. PICK K, f : /\ K \in TakenFields(names) /\ f \in FieldChoices(K, outcomes)
                  /\ s = MapOf(WithOmission(names, f))
  BY DEF SanitizedMap
<1>2. MaxItems \in Nat /\ Cardinality(names) \in Nat
  BY BoundsAssumption, FS_CardinalityType
<1>3. K \subseteq names /\ Cardinality(K) = MinInt(MaxItems, Cardinality(names))
  BY <1>1 DEF TakenFields, kSubset
<1>4. IsFiniteSet(K) /\ Cardinality(K) <= MaxItems /\ Cardinality(K) \in Nat
  BY <1>2, <1>3, FS_Subset, MinIntIsLesser
<1> DEFINE texts == {KeyText(n) : n \in K}
           g == WithOmission(names, f)
<1>5. /\ DOMAIN f = texts
      /\ \A t \in texts : \E n \in K : KeyText(n) = t /\ f[t] \in outcomes[n]
  <2> HIDE DEF outcomes
  <2> QED
    BY <1>1, FieldChoice
<1>6. IsFiniteSet(texts) /\ Cardinality(texts) <= MaxItems /\ Cardinality(texts) \in Nat
  <2>1. IsFiniteSet(texts) /\ Cardinality(texts) <= Cardinality(K)
    BY <1>4, TextsAreFewer
  <2> QED
    BY <1>2, <1>4, <2>1, FS_CardinalityType
<1>7. s.kind = "map" /\ s.fields = g /\ v.kind = "map" /\ v.fields = fields
  BY <1>1 DEF MapOf
<1>8. WordsOf(s) = {} /\ WordsOf(v) = {}
  BY <1>7 DEF WordsOf
<1>9. /\ Children(s, {}) = {g[t] : t \in DOMAIN g}
      /\ Children(v, Sensitive) = {fields[n] : n \in names \ Sensitive}
  <2> HIDE DEF g, v
  <2> QED
    BY <1>7 DEF Children
<1>10. /\ DOMAIN g = texts \/ DOMAIN g = texts \cup {Omitted}
       /\ \A t \in DOMAIN g : g[t] = Scalar \/ (t \in texts /\ g[t] = f[t])
  BY <1>5 DEF WithOmission
<1>11. WidthOf(s) <= MaxItems + 1
  <2>1. Cardinality(texts \cup {Omitted}) <= MaxItems + 1
    <3> HIDE DEF texts
    <3>1. Cardinality(texts \cup {Omitted})
            = IF Omitted \in texts THEN Cardinality(texts) ELSE Cardinality(texts) + 1
      BY <1>6, FS_AddElement
    <3> QED
      BY <1>2, <1>6, <3>1
  <2>2. Cardinality(DOMAIN g) <= MaxItems + 1
    <3> HIDE DEF g, texts
    <3> QED
      BY <1>2, <1>6, <1>10, <2>1
  <2> HIDE DEF g
  <2> QED
    BY <1>7, <2>2 DEF WidthOf
<1>12. ASSUME NEW t \in texts
       PROVE  f[t] \in Markers \/ \E w \in Children(v, Sensitive) : f[t] \in deeper[w]
  <2>1. PICK n \in K : KeyText(n) = t /\ f[t] \in outcomes[n]
    BY <1>5
  <2>2. n \in names
    BY <1>3
  <2>3. CASE KeyText(n) \in Sensitive
    BY <2>1, <2>2, <2>3 DEF Markers
  <2>4. CASE KeyText(n) \notin Sensitive
    <3>1. n \in names \ Sensitive
      BY <2>2, <2>4, KeyTextSensitive
    <3>2. fields[n] \in Children(v, Sensitive)
      BY <1>9, <3>1
    <3>3. f[t] \in deeper[fields[n]]
      BY <2>1, <2>2, <2>4
    <3> QED
      BY <3>2, <3>3
  <2> QED
    BY <2>3, <2>4
<1>13. IsBoundedCopy(s, v, deeper)
  <2>1. ASSUME NEW c \in Children(s, {})
        PROVE  c \in Markers \/ \E w \in Children(v, Sensitive) : c \in deeper[w]
    <3>1. PICK t \in DOMAIN g : c = g[t]
      BY <1>9
    <3> HIDE DEF g, v
    <3> QED
      BY <1>10, <1>12, <3>1 DEF Markers
  <2> HIDE DEF v
  <2> QED
    BY <1>8, <1>11, <2>1 DEF IsBoundedCopy, ToldBy
<1>14. ASSUME IsSmallNode(v)
       PROVE  IsFullCopy(s, v, deeper)
  <2>1. Cardinality(names) <= MaxItems
    <3> HIDE DEF v
    <3> QED
      BY <1>7, <1>14 DEF IsSmallNode, WidthOf
  <2>2. K = names
    <3>1. Cardinality(K) = Cardinality(names)
      BY <1>2, <1>3, <2>1 DEF MinInt
    <3> QED
      BY <1>3, <3>1, FS_Subset
  <2>3. g = f
    BY <2>1 DEF WithOmission
  <2>4. ASSUME NEW w \in Children(v, Sensitive)
        PROVE  \E c \in Children(s, {}) : c \in deeper[w]
    <3>1. PICK n \in names \ Sensitive : w = fields[n]
      BY <1>9
    <3>2. KeyText(n) \in texts
      BY <2>2, <3>1
    <3>3. PICK m \in K : KeyText(m) = KeyText(n) /\ f[KeyText(n)] \in outcomes[m]
      BY <1>5, <3>2
    <3>4. m = n
      <4> HIDE DEF v
      <4> QED
        BY <1>7, <1>14, <2>2, <3>1, <3>3 DEF IsSmallNode
    <3>5. f[KeyText(n)] \in deeper[fields[n]]
      BY <3>1, <3>3, <3>4, KeyTextSensitive
    <3>6. f[KeyText(n)] \in Children(s, {})
      <4> HIDE DEF g
      <4> QED
        BY <1>5, <1>9, <2>3, <3>2
    <3> QED
      BY <3>1, <3>5, <3>6
  <2> HIDE DEF v
  <2> QED
    BY <1>8, <2>4 DEF IsFullCopy
<1> QED
  BY <1>13, <1>14

LEMMA ListIsSanitized ==
  ASSUME NEW items, NEW deeper, NEW s \in SanitizedList(items, deeper),
         items \in Seq(Range(items))
  PROVE  LET v == ListOf(items)
         IN  /\ IsBoundedCopy(s, v, deeper)
             /\ IsSmallNode(v) => IsFullCopy(s, v, deeper)
PROOF
<1> DEFINE v == ListOf(items)
           kept == MinInt(Len(items), MaxItems)
           rest == IF Len(items) > kept THEN <<Truncated>> ELSE <<>>
           all == UNION {deeper[items[i]] : i \in 1..kept}
<1>1. PICK q \in [1..kept -> all] :
        /\ s = ListOf(q \o rest)
        /\ \A i \in 1..kept : q[i] \in deeper[items[i]]
  BY DEF SanitizedList
<1>2. MaxItems \in Nat /\ Len(items) \in Nat /\ DOMAIN items = 1..Len(items)
  BY BoundsAssumption
<1>3. kept \in Nat /\ kept <= MaxItems /\ kept <= Len(items)
  BY <1>2, MinIntIsLesser
<1> DEFINE g == q \o rest
<1>4. /\ g \in Seq(all \cup {Truncated})
      /\ Len(g) <= kept + 1
      /\ \A i \in 1..kept : i \in 1..Len(g) /\ g[i] = q[i]
      /\ \A i \in 1..Len(g) : i \in 1..kept \/ g[i] = Truncated
  <2> HIDE DEF all
  <2>1. q \in Seq(all \cup {Truncated}) /\ Len(q) = kept
    <3> HIDE DEF kept
    <3> QED
      BY <1>1, <1>3
  <2>2. rest \in Seq(all \cup {Truncated}) /\ Len(rest) <= 1 /\ Len(rest) \in Nat
        /\ \A i \in 1..Len(rest) : rest[i] = Truncated
    <3>1. CASE Len(items) > kept
      <4>1. rest = <<Truncated>>
        BY <3>1
      <4> HIDE DEF rest
      <4> QED
        BY <4>1
    <3>2. CASE ~ (Len(items) > kept)
      <4>1. rest = <<>>
        BY <3>2
      <4> HIDE DEF rest
      <4> QED
        BY <4>1
    <3> QED
      BY <3>1, <3>2
  <2> HIDE DEF kept, rest
  <2> QED
    BY <1>3, <2>1, <2>2
<1>5. s.kind = "list" /\ s.items = g /\ v.kind = "list" /\ v.items = items
  BY <1>1 DEF ListOf
<1> HIDE DEF g, v
<1>6. WordsOf(s) = {} /\ WordsOf(v) = {}
  BY <1>5 DEF WordsOf
<1>7. DOMAIN g = 1..Len(g) /\ Len(g) \in Nat
  BY <1>4
<1>8. /\ Children(s, {}) = {g[i] : i \in 1..Len(g)}
      /\ Children(v, Sensitive) = {items[i] : i \in 1..Len(items)}
  BY <1>2, <1>5, <1>7 DEF Children
<1> HIDE DEF kept
<1>9. IsBoundedCopy(s, v, deeper)
  <2>1. ASSUME NEW c \in Children(s, {})
        PROVE  c \in Markers \/ \E w \in Children(v, Sensitive) : c \in deeper[w]
    <3>1. PICK i \in 1..Len(g) : c = g[i]
      BY <1>8
    <3>2. CASE i \in 1..kept
      <4>1. i \in 1..Len(items)
        BY <1>2, <1>3, <3>2
      <4>2. items[i] \in Children(v, Sensitive)
        BY <1>8, <4>1
      <4>3. c \in deeper[items[i]]
        BY <1>1, <1>4, <3>1, <3>2
      <4> QED
        BY <4>2, <4>3
    <3>3. CASE i \notin 1..kept
      BY <1>4, <3>1, <3>3 DEF Markers
    <3> QED
      BY <3>2, <3>3
  <2>2. WidthOf(s) <= MaxItems + 1
    <3>1. WidthOf(s) = Len(g)
      BY <1>5 DEF WidthOf
    <3> QED
      BY <1>2, <1>3, <1>4, <1>7, <3>1
  <2> QED
    BY <1>6, <2>1, <2>2 DEF IsBoundedCopy, ToldBy
<1>10. ASSUME IsSmallNode(v)
       PROVE  IsFullCopy(s, v, deeper)
  <2>1. Len(items) <= MaxItems
    BY <1>5, <1>10 DEF IsSmallNode, WidthOf
  <2>2. kept = Len(items)
    BY <1>2, <2>1 DEF kept, MinInt
  <2>3. ASSUME NEW w \in Children(v, Sensitive)
        PROVE  \E c \in Children(s, {}) : c \in deeper[w]
    <3>1. PICK i \in 1..Len(items) : w = items[i]
      BY <1>8
    <3>2. i \in 1..Len(g) /\ g[i] \in deeper[items[i]]
      BY <1>1, <1>4, <2>2, <3>1
    <3> QED
      BY <1>8, <3>1, <3>2
  <2> QED
    BY <1>6, <2>3 DEF IsFullCopy
<1> QED
  BY <1>9, <1>10 DEF v

\* One level of sanitizing, for a value of any kind.
LEMMA NodeIsSanitized ==
  ASSUME NEW v, IsNode(v), NEW deeper, NEW s \in SanitizedNode(v, deeper)
  PROVE  \/ v.kind = "opaque" /\ s \in deeper[v.json]
         \/ /\ v.kind # "opaque"
            /\ IsBoundedCopy(s, v, deeper)
            /\ IsSmallNode(v) => IsFullCopy(s, v, deeper)
PROOF
<1>0. MaxItems \in Nat
  BY BoundsAssumption
<1>1. CASE v.kind = "map"
  <2>1. s \in SanitizedMap(v.fields, deeper) /\ IsFiniteSet(DOMAIN v.fields)
    BY <1>1 DEF SanitizedNode, IsNode
  <2> DEFINE w == MapOf(v.fields)
  <2>2. /\ IsBoundedCopy(s, w, deeper)
        /\ IsSmallNode(w) => IsFullCopy(s, w, deeper)
    BY <2>1, MapIsSanitized
  <2>3. w.kind = v.kind /\ w.fields = v.fields
    BY <1>1 DEF MapOf
  <2> HIDE DEF w
  <2>4. /\ WordsOf(w) = WordsOf(v) /\ WidthOf(w) = WidthOf(v)
        /\ Children(w, Sensitive) = Children(v, Sensitive)
    BY <1>1, <2>3 DEF WordsOf, WidthOf, Children
  <2>6. ToldBy(w) = ToldBy(v)
    BY <1>1, <2>3, <2>4 DEF ToldBy, IsUnmarshalable
  <2>5. IsSmallNode(v) => IsSmallNode(w)
    BY <2>3, <2>4 DEF IsSmallNode
  <2> QED
    BY <1>1, <2>2, <2>4, <2>5, <2>6 DEF IsBoundedCopy, IsFullCopy
<1>2. CASE v.kind = "list"
  <2>1. s \in SanitizedList(v.items, deeper) /\ v.items \in Seq(Range(v.items))
    BY <1>2 DEF SanitizedNode, IsNode
  <2> DEFINE w == ListOf(v.items)
  <2>2. /\ IsBoundedCopy(s, w, deeper)
        /\ IsSmallNode(w) => IsFullCopy(s, w, deeper)
    BY <2>1, ListIsSanitized
  <2>3. w.kind = v.kind /\ w.items = v.items
    BY <1>2 DEF ListOf
  <2> HIDE DEF w
  <2>4. /\ WordsOf(w) = WordsOf(v) /\ WidthOf(w) = WidthOf(v)
        /\ Children(w, Sensitive) = Children(v, Sensitive)
    BY <1>2, <2>3 DEF WordsOf, WidthOf, Children
  <2>6. ToldBy(w) = ToldBy(v)
    BY <1>2, <2>3, <2>4 DEF ToldBy, IsUnmarshalable
  <2>5. IsSmallNode(v) => IsSmallNode(w)
    BY <1>2, <2>3, <2>4 DEF IsSmallNode
  <2> QED
    BY <1>2, <2>2, <2>4, <2>5, <2>6 DEF IsBoundedCopy, IsFullCopy
<1>3. CASE v.kind = "text"
  <2>1. s = Text(v.word, MinInt(v.bytes, MaxText))
    BY <1>3 DEF SanitizedNode
  <2>2. s.kind = "text" /\ s.word = v.word
    BY <2>1 DEF Text
  <2>3. /\ WordsOf(s) = WordsOf(v) /\ WidthOf(s) = 0
        /\ Children(s, {}) = {} /\ Children(v, Sensitive) = {}
    BY <1>3, <2>2 DEF WordsOf, WidthOf, Children
  <2> QED
    BY <1>0, <1>3, <2>3 DEF IsBoundedCopy, IsFullCopy, ToldBy
<1>4. CASE v.kind = "opaque"
  BY <1>4 DEF SanitizedNode
<1>5. CASE v.kind = "unmarshalable"
  <2>1. s = Formatted(v.open \cup v.hidden, MinInt(v.bytes, MaxText))
    BY <1>5 DEF SanitizedNode
  <2>2. s.kind = "formatted" /\ s.words = v.open \cup v.hidden
    BY <2>1 DEF Formatted
  <2>3. /\ WordsOf(s) = v.open \cup v.hidden
        /\ WordsOf(v) = v.open /\ ToldBy(v) = v.open \cup v.hidden
    BY <1>5, <2>2 DEF WordsOf, ToldBy, IsUnmarshalable
  <2>4. WidthOf(s) = 0 /\ Children(s, {}) = {} /\ Children(v, Sensitive) = {}
    BY <1>5, <2>2 DEF WidthOf, Children
  <2> QED
    BY <1>0, <1>5, <2>3, <2>4 DEF IsBoundedCopy, IsFullCopy
<1>6. CASE v.kind \notin {"map", "list", "text", "opaque", "unmarshalable"}
  <2>1. s = v
    BY <1>6 DEF SanitizedNode
  <2>2. WidthOf(s) = 0 /\ Children(s, {}) = {} /\ Children(v, Sensitive) = {}
    BY <1>6, <2>1 DEF WidthOf, Children
  <2> QED
    BY <1>0, <1>6, <2>1, <2>2 DEF IsBoundedCopy, IsFullCopy, ToldBy
<1> QED
  BY <1>1, <1>2, <1>3, <1>4, <1>5, <1>6

-----------------------------------------------------------------------------
AllWords(value, hidden) == UNION {WordsOf(v) : v \in AllNodes(value, hidden)}

\* The words of a value of bounded height are those of all its nodes.
LEMMA WordsAreAll ==
  ASSUME NEW value, NEW hidden, NEW k \in Nat, IsShallower(value, k), k <= Tallest + 1
  PROVE  WordsBut(value, hidden) = AllWords(value, hidden)
PROOF
<1>1. \A w : w \in Nodes(value, hidden) <=> w \in AllNodes(value, hidden)
  BY NodesAreAll
<1> QED
  BY <1>1 DEF WordsBut, AllWords

LEMMA AllWordsStep ==
  ASSUME NEW value, NEW hidden
  PROVE  \A x : x \in AllWords(value, hidden)
           <=> \/ x \in WordsOf(value)
               \/ \E c \in Children(value, hidden) : x \in AllWords(c, hidden)
PROOF
<1>1. \A w : w \in AllNodes(value, hidden)
        <=> \/ w = value
            \/ \E c \in Children(value, hidden) : w \in AllNodes(c, hidden)
  BY AllNodesStep
<1> QED
  BY <1>1 DEF AllWords

\* What a row may tell of a value.
AllTold(value) == UNION {ToldBy(v) : v \in AllNodes(value, Sensitive)}

LEMMA AllToldStep ==
  ASSUME NEW value
  PROVE  \A x : x \in AllTold(value)
           <=> \/ x \in ToldBy(value)
               \/ \E c \in Children(value, Sensitive) : x \in AllTold(c)
PROOF
<1>1. \A w : w \in AllNodes(value, Sensitive)
        <=> \/ w = value
            \/ \E c \in Children(value, Sensitive) : w \in AllNodes(c, Sensitive)
  BY AllNodesStep
<1> QED
  BY <1>1 DEF AllTold

\* A value with k levels left may become s.
IsSafe(s, value, k) ==
  /\ IsShallower(s, k + 1)
  /\ \A v \in AllNodes(s, {}) : WidthOf(v) <= MaxItems + 1
  /\ AllWords(s, {}) \subseteq AllTold(value)

\* Nothing of the value needs to be left out in k levels.
IsSmall(value, k) ==
  /\ IsShallower(value, k)
  /\ \A v \in AllNodes(value, {}) : IsSmallNode(v)

IsKept(s, value) == AllWords(value, Sensitive) \subseteq AllWords(s, {})

LEMMA MarkerIsSafe ==
  ASSUME NEW c \in Markers, NEW value, NEW k \in Nat
  PROVE  IsSafe(c, value, k)
PROOF
<1>1. Children(c, {}) = {} /\ WordsOf(c) = {} /\ WidthOf(c) = 0
  BY DEF Markers, Redacted, Truncated, Scalar, Children, WordsOf, WidthOf
<1>2. IsShallower(c, k + 1)
  BY <1>1, LevelOfChildren DEF IsShallower
<1>3. \A v \in AllNodes(c, {}) : v = c
  BY <1>1, AllNodesStep
<1>4. AllWords(c, {}) = {}
  BY <1>1, AllWordsStep
<1>5. 0 <= MaxItems + 1
  BY BoundsAssumption
<1> QED
  BY <1>1, <1>2, <1>3, <1>4, <1>5 DEF IsSafe

\* What a small value contains is small.
LEMMA ChildIsSmall ==
  ASSUME NEW value, NEW k \in Nat, IsSmall(value, k + 1), NEW c \in Children(value, {})
  PROVE  IsSmall(c, k)
PROOF
<1>1. IsShallower(c, k)
  BY LevelOfChildren DEF IsSmall, IsShallower
<1>2. \A v \in AllNodes(c, {}) : v \in AllNodes(value, {})
  BY AllNodesStep
<1> QED
  BY <1>1, <1>2 DEF IsSmall

\* If the levels below are right, so is this one.
LEMMA LevelIsSanitized ==
  ASSUME NEW value, IsNode(value), NEW deeper, NEW k \in Nat,
         \A w \in Children(value, {}) : \A c \in deeper[w] :
           IsSafe(c, w, k) /\ (IsSmall(w, k) => IsKept(c, w)),
         NEW s \in SanitizedNode(value, deeper)
  PROVE  IsSafe(s, value, k + 1) /\ (IsSmall(value, k + 1) => IsKept(s, value))
PROOF
<1>1. Children(value, Sensitive) \subseteq Children(value, {})
  BY DEF Children
<1>2. \A w \in Children(value, Sensitive) :
        AllTold(w) \subseteq AllTold(value)
  BY AllToldStep
<1>3. CASE value.kind = "opaque" /\ s \in deeper[value.json]
  <2> DEFINE w == value.json
  <2>1. /\ Children(value, {}) = {w} /\ Children(value, Sensitive) = {w}
        /\ WordsOf(value) = {}
    BY <1>3 DEF Children, WordsOf
  <2>2. IsSafe(s, w, k) /\ (IsSmall(w, k) => IsKept(s, w))
    BY <1>3, <2>1
  <2> HIDE DEF w
  <2>3. IsShallower(s, k + 1 + 1)
    <3>1. Level(s, {})[k + 1] = {} /\ k + 1 \in Nat /\ k + 1 + 1 \in Nat
          /\ k + 1 <= k + 1 + 1
      BY <2>2 DEF IsSafe, IsShallower
    <3> QED
      BY <3>1, EmptyBelow DEF IsShallower
  <2>4. IsSafe(s, value, k + 1)
    BY <1>2, <2>1, <2>2, <2>3 DEF IsSafe
  <2>5. ASSUME IsSmall(value, k + 1) PROVE IsKept(s, value)
    <3>1. IsSmall(w, k)
      BY <2>1, <2>5, ChildIsSmall
    <3>2. \A x \in AllWords(value, Sensitive) : x \in AllWords(w, Sensitive)
      BY <2>1, AllWordsStep
    <3> QED
      BY <2>2, <3>1, <3>2 DEF IsKept
  <2> QED
    BY <2>4, <2>5
<1>4. CASE /\ value.kind # "opaque"
           /\ IsBoundedCopy(s, value, deeper)
           /\ IsSmallNode(value) => IsFullCopy(s, value, deeper)
  <2>1. ASSUME NEW c \in Children(s, {})
        PROVE  /\ IsShallower(c, k + 1)
               /\ \A v \in AllNodes(c, {}) : WidthOf(v) <= MaxItems + 1
               /\ AllWords(c, {}) \subseteq AllTold(value)
    <3>1. CASE c \in Markers
      BY <3>1, MarkerIsSafe DEF IsSafe
    <3>2. CASE \E w \in Children(value, Sensitive) : c \in deeper[w]
      <4>1. PICK w \in Children(value, Sensitive) : c \in deeper[w]
        BY <3>2
      <4>2. IsSafe(c, w, k)
        BY <1>1, <4>1
      <4> QED
        BY <1>2, <4>2 DEF IsSafe
    <3> QED
      BY <1>4, <3>1, <3>2 DEF IsBoundedCopy
  <2>2. IsShallower(s, k + 1 + 1)
    <3>1. k + 1 \in Nat
      OBVIOUS
    <3>2. \A x : x \notin Level(s, {})[k + 1 + 1]
      BY <2>1, <3>1, LevelOfChildren DEF IsShallower
    <3> QED
      BY <3>2 DEF IsShallower
  <2>3. \A v \in AllNodes(s, {}) : WidthOf(v) <= MaxItems + 1
    BY <1>4, <2>1, AllNodesStep DEF IsBoundedCopy
  <2>4. AllWords(s, {}) \subseteq AllTold(value)
    <3>1. \A x : x \in AllWords(s, {})
            => x \in WordsOf(s) \/ \E c \in Children(s, {}) : x \in AllWords(c, {})
      BY AllWordsStep
    <3>2. \A x : x \in ToldBy(value) => x \in AllTold(value)
      BY AllToldStep
    <3> QED
      BY <1>4, <2>1, <3>1, <3>2 DEF IsBoundedCopy
  <2>5. ASSUME IsSmall(value, k + 1) PROVE IsKept(s, value)
    <3>1. IsSmallNode(value)
      BY <2>5, AllNodesStep DEF IsSmall
    <3>2. IsFullCopy(s, value, deeper)
      BY <1>4, <3>1
    <3>3. ASSUME NEW x \in AllWords(value, Sensitive)
          PROVE  x \in AllWords(s, {})
      <4>1. CASE x \in WordsOf(value)
        BY <3>2, <4>1, AllWordsStep DEF IsFullCopy
      <4>2. CASE \E w \in Children(value, Sensitive) : x \in AllWords(w, Sensitive)
        <5>1. PICK w \in Children(value, Sensitive) : x \in AllWords(w, Sensitive)
          BY <4>2
        <5>2. PICK c \in Children(s, {}) : c \in deeper[w]
          BY <3>2 DEF IsFullCopy
        <5>3. IsSmall(w, k)
          BY <1>1, <2>5, ChildIsSmall
        <5>4. IsKept(c, w)
          BY <1>1, <5>2, <5>3
        <5>5. x \in AllWords(c, {})
          BY <5>1, <5>4 DEF IsKept
        <5> QED
          BY <5>2, <5>5, AllWordsStep
      <4> QED
        BY <4>1, <4>2, AllWordsStep
    <3> QED
      BY <3>3 DEF IsKept
  <2> QED
    BY <2>2, <2>3, <2>4, <2>5 DEF IsSafe
<1> QED
  BY <1>3, <1>4, NodeIsSanitized

\* Nodes that contain only nodes.
IsTree(nodes) == \A v \in nodes : IsNode(v) /\ Children(v, {}) \subseteq nodes

\* What k levels make of a node.
AreRight(out, nodes, k) ==
  \A v \in nodes : \A s \in out[MaxDepth - k][v] :
    IsSafe(s, v, k) /\ (IsSmall(v, k) => IsKept(s, v))

LEMMA OutcomesAreRight ==
  ASSUME NEW nodes, IsTree(nodes), NEW out, IsOutcomes(out, nodes)
  PROVE  AreRight(out, nodes, MaxDepth)
PROOF
<1> DEFINE S == {k \in Nat : k <= MaxDepth => AreRight(out, nodes, k)}
<1>0. MaxDepth \in Nat
  BY BoundsAssumption
<1>1. 0 \in S
  <2>1. out[MaxDepth] = Row(nodes, MaxDepth, out[MaxDepth + 1]) /\ MaxDepth - 0 = MaxDepth
    BY <1>0 DEF IsOutcomes
  <2>2. ASSUME NEW v \in nodes, NEW s \in out[MaxDepth - 0][v]
        PROVE  IsSafe(s, v, 0) /\ ~ IsSmall(v, 0)
    <3>1. s = Truncated
      BY <1>0, <2>1, <2>2 DEF Row
    <3>2. Level(v, {})[0] = {v}
      BY LevelRecursion
    <3> QED
      BY <3>1, <3>2, MarkerIsSafe DEF Markers, IsSmall, IsShallower
  <2> QED
    BY <2>2 DEF AreRight
<1>2. ASSUME NEW k \in Nat, k \in S
      PROVE  k + 1 \in S
  <2>1. SUFFICES ASSUME k + 1 <= MaxDepth
                 PROVE  AreRight(out, nodes, k + 1)
    OBVIOUS
  <2> DEFINE d == MaxDepth - (k + 1)
  <2>2. d \in 0..MaxDepth /\ ~ (d >= MaxDepth) /\ d + 1 = MaxDepth - k
    BY <1>0, <2>1
  <2>3. AreRight(out, nodes, k)
    BY <1>0, <1>2, <2>1
  <2> HIDE DEF d
  <2>4. out[d] = Row(nodes, d, out[d + 1])
    BY <2>2 DEF IsOutcomes
  <2>5. ASSUME NEW v \in nodes, NEW s \in out[d][v]
        PROVE  IsSafe(s, v, k + 1) /\ (IsSmall(v, k + 1) => IsKept(s, v))
    <3>1. s \in SanitizedNode(v, out[d + 1])
      BY <2>2, <2>4, <2>5 DEF Row
    <3>2. IsNode(v) /\ Children(v, {}) \subseteq nodes
      BY DEF IsTree
    <3>3. \A w \in Children(v, {}) : \A c \in out[d + 1][w] :
            IsSafe(c, w, k) /\ (IsSmall(w, k) => IsKept(c, w))
      BY <2>2, <2>3, <3>2 DEF AreRight
    <3> QED
      BY <3>1, <3>2, <3>3, LevelIsSanitized
  <2> QED
    BY <2>5 DEF AreRight, d
<1>3. Nat \subseteq S
  <2> HIDE DEF S
  <2> QED
    BY <1>1, <1>2, SetInduction
<1>4. MaxDepth \in S
  BY <1>0, <1>3
<1> QED
  BY <1>0, <1>4

-----------------------------------------------------------------------------
LEMMA PayloadIsTree ==
  ASSUME NEW p \in Payloads
  PROVE  IsTree(Nodes(p, {})) /\ p \in Nodes(p, {})
PROOF
<1>1. IsShallower(p, Tallest + 1) /\ Tallest + 1 \in Nat /\ Tallest + 1 <= Tallest + 1
  BY PayloadsAssumption, BoundsAssumption
<1>2. \A w : w \in Nodes(p, {}) <=> w \in AllNodes(p, {})
  BY <1>1, NodesAreAll
<1>3. p \in Nodes(p, {})
  BY <1>2, AllNodesStep
<1>4. ASSUME NEW v \in Nodes(p, {})
      PROVE  IsNode(v) /\ Children(v, {}) \subseteq Nodes(p, {})
  <2>1. ASSUME v.kind = "list" PROVE v.items \in Seq(Range(v.items))
    <3>1. v.items \in Seq(Nodes(p, {}))
      BY <2>1, PayloadsAssumption
    <3>2. DOMAIN v.items = 1..Len(v.items) /\ Len(v.items) \in Nat
          /\ v.items = [i \in 1..Len(v.items) |-> v.items[i]]
      BY <3>1
    <3> QED
      BY <3>2 DEF Range
  <2>2. v.kind = "map" => IsFiniteSet(DOMAIN v.fields)
    BY PayloadsAssumption
  <2>3. Children(v, {}) \subseteq Nodes(p, {})
    BY <1>2, AllNodesClosed
  <2> QED
    BY <2>1, <2>2, <2>3 DEF IsNode
<1> QED
  BY <1>3, <1>4 DEF IsTree

\* sanitizeJSONValue(payload, 0), as a whole.
LEMMA SanitizedIsRight ==
  ASSUME NEW p \in Payloads, NEW s \in Sanitized(p)
  PROVE  IsSafe(s, p, MaxDepth) /\ (IsSmall(p, MaxDepth) => IsKept(s, p))
PROOF
<1>0. MaxDepth \in Nat /\ MaxDepth - MaxDepth = 0
  BY BoundsAssumption
<1>1. PICK out : IsOutcomes(out, Nodes(p, {})) /\ Sanitized(p) = out[0][p]
  BY SanitizedRecursion
<1>2. AreRight(out, Nodes(p, {}), MaxDepth)
  BY <1>1, PayloadIsTree, OutcomesAreRight
<1> QED
  BY <1>0, <1>1, <1>2, PayloadIsTree DEF AreRight

\* A row holds what boundJSONPayload makes of the payload.
StoredIsOutcome ==
  /\ payload \in Payloads
  /\ IsStored => stored \in Bounded(payload)

LEMMA StoredIsOutcomeHolds == Spec => []StoredIsOutcome
PROOF
<1>1. Init => StoredIsOutcome
  BY DEF Init, StoredIsOutcome, IsStored
<1>2. StoredIsOutcome /\ [Next]_vars => StoredIsOutcome'
  <2> SUFFICES ASSUME StoredIsOutcome, [Next]_vars
               PROVE  StoredIsOutcome'
    OBVIOUS
  <2>1. CASE Store
    BY <2>1 DEF Store, StoredIsOutcome
  <2>2. CASE Refuse
    BY <2>2 DEF Refuse, StoredIsOutcome, IsStored
  <2>3. CASE UNCHANGED vars
    BY <2>3 DEF vars, StoredIsOutcome, IsStored
  <2> QED
    BY <2>1, <2>2, <2>3 DEF Next
<1> QED
  BY <1>1, <1>2, PTL DEF Spec

\* A row is an outcome, or the preview of one.
LEMMA OutcomeOrPreview ==
  ASSUME StoredIsOutcome, IsStored
  PROVE  /\ payload \in Payloads
         /\ \E s \in Sanitized(payload) :
              \/ stored = s /\ Bytes(s) <= MaxBytes
              \/ stored = Preview(s)
BY DEF StoredIsOutcome, Bounded

\* What Go stores of a value is no taller than what TLC visits.
LEMMA SafeWords ==
  ASSUME NEW p \in Payloads, NEW s, IsSafe(s, p, MaxDepth)
  PROVE  /\ Words(s) = AllWords(s, {})
         /\ PublicWords(p) = AllWords(p, Sensitive)
         /\ AllTold(p) = PublicWords(p) \cup FormattedWords(p)
         /\ \A v : v \in Nodes(s, {}) <=> v \in AllNodes(s, {})
PROOF
<1>1. /\ MaxDepth + 1 \in Nat /\ MaxDepth + 1 <= Tallest + 1
      /\ Tallest + 1 \in Nat /\ Tallest + 1 <= Tallest + 1
  BY BoundsAssumption
<1>2. IsShallower(s, MaxDepth + 1)
  BY DEF IsSafe
<1>3. IsShallower(p, Tallest + 1)
  BY PayloadsAssumption
<1>4. WordsBut(s, {}) = AllWords(s, {})
  BY <1>1, <1>2, WordsAreAll
<1>5. WordsBut(p, Sensitive) = AllWords(p, Sensitive)
  BY <1>1, <1>3, WordsAreAll
<1>6. \A v : v \in Nodes(s, {}) <=> v \in AllNodes(s, {})
  BY <1>1, <1>2, NodesAreAll
<1>7. \A v : v \in Nodes(p, Sensitive) <=> v \in AllNodes(p, Sensitive)
  BY <1>1, <1>3, NodesAreAll
<1>8. \A x : x \in AllTold(p)
        <=> x \in AllWords(p, Sensitive) \/ x \in FormattedWords(p)
  BY <1>7 DEF AllTold, ToldBy, AllWords, FormattedWords
<1>9. AllTold(p) = PublicWords(p) \cup FormattedWords(p)
  BY <1>5, <1>8 DEF PublicWords
<1> QED
  BY <1>4, <1>5, <1>6, <1>9 DEF Words, PublicWords

\* Where everything has a JSON form, formatting tells nothing.
LEMMA NothingFormatted ==
  ASSUME NEW p \in Payloads, \A v \in Nodes(p, {}) : ~ IsUnmarshalable(v)
  PROVE  FormattedWords(p) = {}
PROOF
<1>1. \A d \in 0..Tallest : Level(p, Sensitive)[d] \subseteq Level(p, {})[d]
  <2>1. \A d \in 0..Tallest : d \in Nat
    BY BoundsAssumption
  <2> QED
    BY <2>1, LevelHidden
<1>2. Nodes(p, Sensitive) \subseteq Nodes(p, {})
  BY <1>1 DEF Nodes
<1> QED
  BY <1>2 DEF FormattedWords

\* A preview contains nothing and says what it previews.
LEMMA PreviewIsOneNode ==
  ASSUME NEW s
  PROVE  /\ Words(Preview(s)) = Words(s)
         /\ \A v \in Nodes(Preview(s), {}) : WidthOf(v) = 0
         /\ IsShallower(Preview(s), MaxDepth + 1)
         /\ Bytes(Preview(s)) <= MaxBytes
PROOF
<1> DEFINE v == Preview(s)
<1>1. v.kind = "preview" /\ v.words = Words(s)
  BY DEF Preview
<1> HIDE DEF v
<1>2. Children(v, {}) = {} /\ WordsOf(v) = Words(s) /\ WidthOf(v) = 0
  BY <1>1 DEF Children, WordsOf, WidthOf
<1>3. MaxDepth \in Nat /\ 1 <= Tallest + 1 /\ 1 \in Nat /\ 0 + 1 = 1 /\ 0 \in Nat
  BY BoundsAssumption
<1>4. \A d \in Nat : IsShallower(v, d + 1)
  BY <1>2, LevelOfChildren DEF IsShallower
<1>5. IsShallower(v, 1)
  BY <1>3, <1>4
<1>6. \A w : w \in Nodes(v, {}) <=> w = v
  BY <1>2, <1>3, <1>5, NodesAreAll, AllNodesStep
<1>7. Words(v) = Words(s)
  BY <1>2, <1>6 DEF Words, WordsBut
<1>8. Bytes(v) <= MaxBytes
  BY <1>1, BoundsAssumption DEF Bytes
<1> QED
  BY <1>2, <1>3, <1>4, <1>6, <1>7, <1>8 DEF v

-----------------------------------------------------------------------------
(***************************************************************************)
(* Whatever the payload, the bounds and the sensitive names: no word under *)
(* a sensitive name gets into the row, but for words of values that have   *)
(* no JSON form and are formatted instead.                                 *)
(***************************************************************************)
THEOREM NothingSensitiveStoredHolds == Spec => []NothingSensitiveStored
PROOF
<1>1. StoredIsOutcome => NothingSensitiveStored
  <2> SUFFICES ASSUME StoredIsOutcome, IsStored
               PROVE  Words(stored) \subseteq PublicWords(payload) \cup FormattedWords(payload)
    BY DEF NothingSensitiveStored
  <2>1. PICK s \in Sanitized(payload) : stored = s \/ stored = Preview(s)
    BY OutcomeOrPreview
  <2>2. payload \in Payloads
    BY OutcomeOrPreview
  <2>3. IsSafe(s, payload, MaxDepth)
    BY <2>2, SanitizedIsRight
  <2>4. Words(s) \subseteq PublicWords(payload) \cup FormattedWords(payload)
    <3>1. Words(s) = AllWords(s, {})
          /\ AllTold(payload) = PublicWords(payload) \cup FormattedWords(payload)
      BY <2>2, <2>3, SafeWords
    <3>2. AllWords(s, {}) \subseteq AllTold(payload)
      BY <2>3 DEF IsSafe
    <3> QED
      BY <3>1, <3>2
  <2> QED
    BY <2>1, <2>4, PreviewIsOneNode
<1> QED
  BY <1>1, StoredIsOutcomeHolds, PTL

(***************************************************************************)
(* Whatever the payload and the bounds: the depth, the width and the       *)
(* length of the row are within them.                                      *)
(***************************************************************************)
THEOREM StoredIsBoundedHolds == Spec => []StoredIsBounded
PROOF
<1>1. StoredIsOutcome => StoredIsBounded
  <2> SUFFICES ASSUME StoredIsOutcome, IsStored
               PROVE  /\ IsShallower(stored, MaxDepth + 1)
                      /\ IsNarrow(stored, MaxItems + 1)
                      /\ Bytes(stored) <= MaxBytes
    BY DEF StoredIsBounded
  <2>1. PICK s \in Sanitized(payload) : \/ stored = s /\ Bytes(s) <= MaxBytes
                                        \/ stored = Preview(s)
    BY OutcomeOrPreview
  <2>2. payload \in Payloads
    BY OutcomeOrPreview
  <2>3. CASE stored = s /\ Bytes(s) <= MaxBytes
    <3>1. IsSafe(s, payload, MaxDepth)
      BY <2>2, SanitizedIsRight
    <3>2. IsNarrow(s, MaxItems + 1)
      BY <2>2, <3>1, SafeWords DEF IsSafe, IsNarrow
    <3> QED
      BY <2>3, <3>1, <3>2 DEF IsSafe
  <2>4. CASE stored = Preview(s)
    <3>1. 0 <= MaxItems + 1
      BY BoundsAssumption
    <3>2. \A v \in Nodes(Preview(s), {}) : WidthOf(v) = 0
      BY PreviewIsOneNode
    <3>3. \A v \in Nodes(Preview(s), {}) : WidthOf(v) <= MaxItems + 1
      BY <3>1, <3>2
    <3>4. IsShallower(Preview(s), MaxDepth + 1) /\ Bytes(Preview(s)) <= MaxBytes
      BY PreviewIsOneNode
    <3> QED
      BY <2>4, <3>3, <3>4 DEF IsNarrow
  <2> QED
    BY <2>1, <2>3, <2>4
<1> QED
  BY <1>1, StoredIsOutcomeHolds, PTL

(***************************************************************************)
(* Whatever the bounds: of a payload within them, all of which has a JSON  *)
(* form, every public word is stored.                                      *)
(***************************************************************************)
THEOREM SmallPayloadsAreKeptHolds == Spec => []SmallPayloadsAreKept
PROOF
<1>1. StoredIsOutcome => SmallPayloadsAreKept
  <2> SUFFICES ASSUME StoredIsOutcome, IsStored,
                      IsShallower(payload, MaxDepth), IsNarrow(payload, MaxItems),
                      ~ NamesCollide(payload),
                      \A v \in Nodes(payload, {}) : ~ IsUnmarshalable(v),
                      stored.kind # "preview"
               PROVE  Words(stored) = PublicWords(payload)
    BY DEF SmallPayloadsAreKept
  <2>1. PICK s \in Sanitized(payload) : stored = s \/ stored = Preview(s)
    BY OutcomeOrPreview
  <2>2. payload \in Payloads
    BY OutcomeOrPreview
  <2>3. stored = s
    BY <2>1 DEF Preview
  <2>4. IsSmall(payload, MaxDepth)
    <3>1. MaxDepth \in Nat /\ MaxDepth <= Tallest + 1
      BY BoundsAssumption
    <3>2. \A v : v \in Nodes(payload, {}) <=> v \in AllNodes(payload, {})
      BY <3>1, NodesAreAll
    <3>3. \A v \in Nodes(payload, {}) : IsSmallNode(v)
      BY DEF IsNarrow, NamesCollide, IsSmallNode
    <3> QED
      BY <3>2, <3>3 DEF IsSmall
  <2>5. IsSafe(s, payload, MaxDepth) /\ IsKept(s, payload)
    BY <2>2, <2>4, SanitizedIsRight
  <2>6. /\ Words(s) = AllWords(s, {}) /\ PublicWords(payload) = AllWords(payload, Sensitive)
        /\ AllTold(payload) = PublicWords(payload) \cup FormattedWords(payload)
    BY <2>2, <2>5, SafeWords
  <2>7. FormattedWords(payload) = {}
    BY <2>2, NothingFormatted
  <2>8. AllWords(s, {}) = AllWords(payload, Sensitive)
    BY <2>5, <2>6, <2>7 DEF IsSafe, IsKept
  <2> QED
    BY <2>3, <2>6, <2>8
<1> QED
  BY <1>1, StoredIsOutcomeHolds, PTL

-----------------------------------------------------------------------------
(***************************************************************************)
(* That there is a row at all.                                             *)
(***************************************************************************)
LEMMA SubsetOfSize ==
  ASSUME NEW S, IsFiniteSet(S), NEW k \in Nat, k <= Cardinality(S)
  PROVE  \E T \in SUBSET S : Cardinality(T) = k
PROOF
<1> DEFINE N == {n \in Nat : n <= Cardinality(S) => \E T \in SUBSET S : Cardinality(T) = n}
<1>0. Cardinality(S) \in Nat
  BY FS_CardinalityType
<1>1. 0 \in N
  BY FS_EmptySet
<1>2. ASSUME NEW n \in Nat, n \in N
      PROVE  n + 1 \in N
  <2>1. SUFFICES ASSUME n + 1 <= Cardinality(S)
                 PROVE  \E T \in SUBSET S : Cardinality(T) = n + 1
    OBVIOUS
  <2>2. PICK T \in SUBSET S : Cardinality(T) = n
    BY <1>0, <1>2, <2>1
  <2>3. IsFiniteSet(T)
    BY FS_Subset
  <2>4. T # S
    BY <1>0, <2>1, <2>2
  <2>5. PICK x \in S : x \notin T
    BY <2>4
  <2>6. Cardinality(T \cup {x}) = n + 1
    BY <2>2, <2>3, <2>5, FS_AddElement
  <2> QED
    BY <2>6
<1>3. Nat \subseteq N
  <2> HIDE DEF N
  <2> QED
    BY <1>1, <1>2, SetInduction
<1> QED
  BY <1>3

LEMMA FieldsCanBeChosen ==
  ASSUME NEW K, NEW outcomes, \A n \in K : outcomes[n] # {}
  PROVE  FieldChoices(K, outcomes) # {}
PROOF
<1> DEFINE texts == {KeyText(n) : n \in K}
           all == UNION {outcomes[n] : n \in K}
           Fits(t, e) == \E n \in K : KeyText(n) = t /\ e \in outcomes[n]
           f == [t \in texts |-> CHOOSE e : Fits(t, e)]
<1>1. ASSUME NEW t \in texts
      PROVE  Fits(t, f[t])
  <2>1. \E e : Fits(t, e)
    <3>1. PICK n \in K : t = KeyText(n)
      OBVIOUS
    <3>2. outcomes[n] # {}
      BY \A m \in K : outcomes[m] # {}
    <3>3. PICK e : e \in outcomes[n]
      BY <3>2
    <3> QED
      BY <3>1, <3>3
  <2>2. f[t] = CHOOSE e : Fits(t, e)
    OBVIOUS
  <2> HIDE DEF Fits, f
  <2> QED
    BY <2>1, <2>2
<1>2. /\ DOMAIN f = texts
      /\ f = [t \in texts |-> f[t]]
  <2> DEFINE some(t) == CHOOSE e : Fits(t, e)
  <2>1. f = [t \in texts |-> some(t)]
    OBVIOUS
  <2> HIDE DEF some, texts, Fits, f
  <2> QED
    BY <2>1
<1> HIDE DEF f
<1>3. \A t \in texts : f[t] \in all
  BY <1>1
<1>4. f \in [texts -> all]
  <2> HIDE DEF texts, all
  <2> QED
    BY <1>2, <1>3
<1>5. f \in FieldChoices(K, outcomes)
  BY <1>1, <1>4 DEF FieldChoices
<1> QED
  BY <1>5

LEMMA NodeHasOutcome ==
  ASSUME NEW v, IsNode(v), NEW deeper, \A w \in Children(v, {}) : deeper[w] # {}
  PROVE  SanitizedNode(v, deeper) # {}
PROOF
<1>0. MaxItems \in Nat
  BY BoundsAssumption
<1>1. CASE v.kind = "map"
  <2> DEFINE fields == v.fields
             names == DOMAIN fields
             outcomes == [n \in names |->
                     IF KeyText(n) \in Sensitive THEN {Redacted} ELSE deeper[fields[n]]]
  <2>1. IsFiniteSet(names) /\ Cardinality(names) \in Nat
    BY <1>1, FS_CardinalityType DEF IsNode
  <2>2. MinInt(MaxItems, Cardinality(names)) \in Nat
        /\ MinInt(MaxItems, Cardinality(names)) <= Cardinality(names)
    BY <1>0, <2>1, MinIntIsLesser
  <2>3. PICK K \in SUBSET names : Cardinality(K) = MinInt(MaxItems, Cardinality(names))
    <3> HIDE DEF names
    <3> QED
      BY <2>1, <2>2, SubsetOfSize
  <2>4. K \in TakenFields(names)
    BY <2>3 DEF TakenFields, kSubset
  <2>5. \A n \in names : fields[n] \in Children(v, {})
    BY <1>1 DEF Children
  <2>6. \A n \in K : outcomes[n] # {}
    BY <2>5
  <2>7. PICK f : f \in FieldChoices(K, outcomes)
    <3> HIDE DEF outcomes
    <3> QED
      BY <2>6, FieldsCanBeChosen
  <2>8. MapOf(WithOmission(names, f)) \in SanitizedMap(fields, deeper)
    BY <2>4, <2>7 DEF SanitizedMap
  <2> QED
    BY <1>1, <2>8 DEF SanitizedNode
<1>2. CASE v.kind = "list"
  <2> DEFINE items == v.items
             kept == MinInt(Len(items), MaxItems)
             all == UNION {deeper[items[i]] : i \in 1..kept}
             q == [i \in 1..kept |-> CHOOSE e : e \in deeper[items[i]]]
             rest == IF Len(items) > kept THEN <<Truncated>> ELSE <<>>
  <2>1. Len(items) \in Nat /\ DOMAIN items = 1..Len(items)
    BY <1>2 DEF IsNode
  <2>2. kept \in Nat /\ kept <= Len(items)
    BY <1>0, <2>1, MinIntIsLesser
  <2>3. ASSUME NEW i \in 1..kept
        PROVE  q[i] \in deeper[items[i]]
    <3>1. i \in DOMAIN items
      BY <2>1, <2>2
    <3>2. items[i] \in Children(v, {})
      BY <1>2, <3>1 DEF Children
    <3>3. \E e : e \in deeper[items[i]]
      BY <3>2
    <3> QED
      BY <3>3
  <2>4. q = [i \in 1..kept |-> q[i]]
    OBVIOUS
  <2> HIDE DEF q
  <2>5. q \in [1..kept -> all]
    <3>1. \A i \in 1..kept : q[i] \in all
      BY <2>3
    <3> HIDE DEF all, kept
    <3> QED
      BY <2>4, <3>1
  <2>6. ListOf(q \o rest) \in SanitizedList(items, deeper)
    BY <2>3, <2>5 DEF SanitizedList
  <2> QED
    BY <1>2, <2>6 DEF SanitizedNode
<1>3. CASE v.kind = "opaque"
  BY <1>3 DEF SanitizedNode, Children
<1>4. CASE v.kind \notin {"map", "list", "opaque"}
  BY <1>4 DEF SanitizedNode
<1> QED
  BY <1>1, <1>2, <1>3, <1>4

LEMMA OutcomesExist ==
  ASSUME NEW nodes, IsTree(nodes), NEW out, IsOutcomes(out, nodes)
  PROVE  \A v \in nodes : out[0][v] # {}
PROOF
<1> DEFINE S == {k \in Nat : k <= MaxDepth => \A v \in nodes : out[MaxDepth - k][v] # {}}
<1>0. MaxDepth \in Nat
  BY BoundsAssumption
<1>1. 0 \in S
  <2>1. out[MaxDepth] = Row(nodes, MaxDepth, out[MaxDepth + 1]) /\ MaxDepth - 0 = MaxDepth
    BY <1>0 DEF IsOutcomes
  <2> QED
    BY <1>0, <2>1 DEF Row
<1>2. ASSUME NEW k \in Nat, k \in S
      PROVE  k + 1 \in S
  <2>1. SUFFICES ASSUME k + 1 <= MaxDepth, NEW v \in nodes
                 PROVE  out[MaxDepth - (k + 1)][v] # {}
    OBVIOUS
  <2> DEFINE d == MaxDepth - (k + 1)
  <2>2. d \in 0..MaxDepth /\ ~ (d >= MaxDepth) /\ d + 1 = MaxDepth - k
    BY <1>0, <2>1
  <2>3. \A w \in nodes : out[MaxDepth - k][w] # {}
    BY <1>0, <1>2, <2>1
  <2> HIDE DEF d
  <2>4. out[d] = Row(nodes, d, out[d + 1])
    BY <2>2 DEF IsOutcomes
  <2>5. out[d][v] = SanitizedNode(v, out[d + 1])
    BY <2>2, <2>4 DEF Row
  <2>6. \A w \in Children(v, {}) : out[d + 1][w] # {}
    BY <2>2, <2>3 DEF IsTree
  <2>7. SanitizedNode(v, out[d + 1]) # {}
    BY <2>6, NodeHasOutcome DEF IsTree
  <2> QED
    BY <2>5, <2>7 DEF d
<1>3. Nat \subseteq S
  <2> HIDE DEF S
  <2> QED
    BY <1>1, <1>2, SetInduction
<1>4. MaxDepth \in S /\ MaxDepth - MaxDepth = 0
  BY <1>0, <1>3
<1> QED
  BY <1>0, <1>4

(***************************************************************************)
(* Whatever the payload, there is something to store of it: sanitizing     *)
(* never ends with nothing, so an event with a tool name is not lost to    *)
(* the shape of its payload.                                               *)
(***************************************************************************)
THEOREM EveryPayloadHasARow == \A p \in Payloads : Bounded(p) # {}
PROOF
<1> SUFFICES ASSUME NEW p \in Payloads PROVE Bounded(p) # {}
  OBVIOUS
<1>1. PICK out : IsOutcomes(out, Nodes(p, {})) /\ Sanitized(p) = out[0][p]
  BY SanitizedRecursion
<1>2. Sanitized(p) # {}
  BY <1>1, PayloadIsTree, OutcomesExist
<1> QED
  BY <1>2 DEF Bounded

-----------------------------------------------------------------------------
(***************************************************************************)
(* That the row of an ordinary payload does not depend on the order in     *)
(* which Go visits the fields of a map.                                    *)
(***************************************************************************)
AtMostOne(S) == \A a, b \in S : a = b

LEMMA FieldsAreDetermined ==
  ASSUME NEW K, NEW outcomes, \A n \in K : AtMostOne(outcomes[n]),
         \A m, n \in K : KeyText(m) = KeyText(n) => m = n
  PROVE  AtMostOne(FieldChoices(K, outcomes))
PROOF
<1> SUFFICES ASSUME NEW f \in FieldChoices(K, outcomes), NEW g \in FieldChoices(K, outcomes)
             PROVE  f = g
  BY DEF AtMostOne
<1> DEFINE texts == {KeyText(n) : n \in K}
           all == UNION {outcomes[n] : n \in K}
<1>1. f \in [texts -> all] /\ g \in [texts -> all]
  BY DEF FieldChoices
<1>2. ASSUME NEW t \in texts PROVE f[t] = g[t]
  <2>1. PICK m \in K : KeyText(m) = t /\ f[t] \in outcomes[m]
    BY FieldChoice, <1>1
  <2>2. PICK n \in K : KeyText(n) = t /\ g[t] \in outcomes[n]
    BY FieldChoice, <1>1
  <2>3. m = n
    BY <2>1, <2>2
  <2> QED
    BY <2>1, <2>2, <2>3 DEF AtMostOne
<1> HIDE DEF texts, all
<1> QED
  BY <1>1, <1>2

LEMMA NodeIsDetermined ==
  ASSUME NEW v, IsNode(v), IsSmallNode(v), NEW deeper,
         \A w \in Children(v, {}) : AtMostOne(deeper[w])
  PROVE  AtMostOne(SanitizedNode(v, deeper))
PROOF
<1>0. MaxItems \in Nat
  BY BoundsAssumption
<1>1. CASE v.kind = "map"
  <2> DEFINE fields == v.fields
             names == DOMAIN fields
             outcomes == [n \in names |->
                     IF KeyText(n) \in Sensitive THEN {Redacted} ELSE deeper[fields[n]]]
  <2>1. IsFiniteSet(names) /\ Cardinality(names) \in Nat /\ Cardinality(names) <= MaxItems
    BY <1>1, FS_CardinalityType DEF IsNode, IsSmallNode, WidthOf
  <2>2. ASSUME NEW K \in TakenFields(names)
        PROVE  K = names
    <3>1. K \in SUBSET names /\ Cardinality(K) = Cardinality(names)
      BY <1>0, <2>1 DEF TakenFields, kSubset, MinInt
    <3> HIDE DEF names
    <3> QED
      BY <2>1, <3>1, FS_Subset
  <2>3. \A m, n \in names : KeyText(m) = KeyText(n) => m = n
    BY <1>1 DEF IsSmallNode
  <2>4. ASSUME NEW n \in names PROVE AtMostOne(outcomes[n])
    <3>1. fields[n] \in Children(v, {})
      BY <1>1 DEF Children
    <3>2. AtMostOne(deeper[fields[n]])
      BY <3>1
    <3> QED
      BY <3>2 DEF AtMostOne
  <2>5. AtMostOne(FieldChoices(names, outcomes))
    <3> HIDE DEF names, outcomes
    <3> QED
      BY <2>3, <2>4, FieldsAreDetermined
  <2>6. ASSUME NEW a \in SanitizedMap(fields, deeper), NEW b \in SanitizedMap(fields, deeper)
        PROVE  a = b
    <3>1. PICK K, f : /\ K \in TakenFields(names) /\ f \in FieldChoices(K, outcomes)
                      /\ a = MapOf(WithOmission(names, f))
      BY DEF SanitizedMap
    <3>2. PICK L, g : /\ L \in TakenFields(names) /\ g \in FieldChoices(L, outcomes)
                      /\ b = MapOf(WithOmission(names, g))
      BY DEF SanitizedMap
    <3> HIDE DEF names, outcomes
    <3>3. K = names /\ L = names
      BY <2>2, <3>1, <3>2
    <3>4. f = g
      BY <2>5, <3>1, <3>2, <3>3 DEF AtMostOne
    <3> QED
      BY <3>1, <3>2, <3>4
  <2> QED
    BY <1>1, <2>6 DEF SanitizedNode, AtMostOne
<1>2. CASE v.kind = "list"
  <2> DEFINE items == v.items
             kept == MinInt(Len(items), MaxItems)
             all == UNION {deeper[items[i]] : i \in 1..kept}
             rest == IF Len(items) > kept THEN <<Truncated>> ELSE <<>>
             Fits(s) == \A i \in 1..kept : s[i] \in deeper[items[i]]
  <2>1. Len(items) \in Nat /\ DOMAIN items = 1..Len(items)
    BY <1>2 DEF IsNode
  <2>2. kept \in Nat /\ kept <= Len(items)
    BY <1>0, <2>1, MinIntIsLesser
  <2>3. ASSUME NEW i \in 1..kept
        PROVE  AtMostOne(deeper[items[i]])
    <3>1. i \in DOMAIN items
      BY <2>1, <2>2
    <3>2. items[i] \in Children(v, {})
      BY <1>2, <3>1 DEF Children
    <3> QED
      BY <3>2
  <2>4. ASSUME NEW s \in [1..kept -> all], NEW u \in [1..kept -> all], Fits(s), Fits(u)
        PROVE  s = u
    <3> DEFINE places == 1..kept
    <3>1. \A i \in places : s[i] = u[i]
      BY <2>3, <2>4 DEF AtMostOne
    <3>2. s = [i \in places |-> s[i]] /\ u = [i \in places |-> u[i]]
      OBVIOUS
    <3> HIDE DEF places, kept, all
    <3> QED
      BY ONLY <3>1, <3>2
  <2>5. ASSUME NEW a \in SanitizedList(items, deeper), NEW b \in SanitizedList(items, deeper)
        PROVE  a = b
    <3>1. PICK s \in [1..kept -> all] : Fits(s) /\ a = ListOf(s \o rest)
      BY DEF SanitizedList
    <3>2. PICK u \in [1..kept -> all] : Fits(u) /\ b = ListOf(u \o rest)
      BY DEF SanitizedList
    <3> HIDE DEF kept, all, rest, Fits
    <3>3. s = u
      BY <2>4, <3>1, <3>2
    <3> QED
      BY <3>1, <3>2, <3>3
  <2> QED
    BY <1>2, <2>5 DEF SanitizedNode, AtMostOne
<1>3. CASE v.kind = "opaque"
  BY <1>3 DEF SanitizedNode, Children
<1>4. CASE v.kind \notin {"map", "list", "opaque"}
  BY <1>4 DEF SanitizedNode, AtMostOne
<1> QED
  BY <1>1, <1>2, <1>3, <1>4

LEMMA OutcomesAreDetermined ==
  ASSUME NEW nodes, IsTree(nodes), \A v \in nodes : IsSmallNode(v),
         NEW out, IsOutcomes(out, nodes)
  PROVE  \A v \in nodes : AtMostOne(out[0][v])
PROOF
<1> DEFINE S == {k \in Nat : k <= MaxDepth => \A v \in nodes : AtMostOne(out[MaxDepth - k][v])}
<1>0. MaxDepth \in Nat
  BY BoundsAssumption
<1>1. 0 \in S
  <2>1. out[MaxDepth] = Row(nodes, MaxDepth, out[MaxDepth + 1]) /\ MaxDepth - 0 = MaxDepth
    BY <1>0 DEF IsOutcomes
  <2> QED
    BY <1>0, <2>1 DEF Row, AtMostOne
<1>2. ASSUME NEW k \in Nat, k \in S
      PROVE  k + 1 \in S
  <2>1. SUFFICES ASSUME k + 1 <= MaxDepth, NEW v \in nodes
                 PROVE  AtMostOne(out[MaxDepth - (k + 1)][v])
    OBVIOUS
  <2> DEFINE d == MaxDepth - (k + 1)
  <2>2. d \in 0..MaxDepth /\ ~ (d >= MaxDepth) /\ d + 1 = MaxDepth - k
    BY <1>0, <2>1
  <2>3. \A w \in nodes : AtMostOne(out[MaxDepth - k][w])
    BY <1>0, <1>2, <2>1
  <2> HIDE DEF d
  <2>4. out[d] = Row(nodes, d, out[d + 1])
    BY <2>2 DEF IsOutcomes
  <2>5. out[d][v] = SanitizedNode(v, out[d + 1])
    BY <2>2, <2>4 DEF Row
  <2>6. \A w \in Children(v, {}) : AtMostOne(out[d + 1][w])
    BY <2>2, <2>3 DEF IsTree
  <2>7. IsNode(v) /\ IsSmallNode(v)
    BY DEF IsTree
  <2>8. AtMostOne(SanitizedNode(v, out[d + 1]))
    BY <2>6, <2>7, NodeIsDetermined
  <2> QED
    BY <2>5, <2>8 DEF d
<1>3. Nat \subseteq S
  <2> HIDE DEF S
  <2> QED
    BY <1>1, <1>2, SetInduction
<1>4. MaxDepth \in S /\ MaxDepth - MaxDepth = 0
  BY <1>0, <1>3
<1> QED
  BY <1>0, <1>4

(***************************************************************************)
(* The row of a payload that is nowhere too wide, and whose names are not  *)
(* cut to the same text, is one and the same in whatever order its maps    *)
(* are visited, however deep and long it is.                               *)
(***************************************************************************)
THEOREM OrderDoesNotMatter ==
  \A p \in Payloads :
    IsNarrow(p, MaxItems) /\ ~ NamesCollide(p) => \E row : Bounded(p) = {row}
PROOF
<1> SUFFICES ASSUME NEW p \in Payloads, IsNarrow(p, MaxItems), ~ NamesCollide(p)
             PROVE  \E row : Bounded(p) = {row}
  OBVIOUS
<1>1. PICK out : IsOutcomes(out, Nodes(p, {})) /\ Sanitized(p) = out[0][p]
  BY SanitizedRecursion
<1>2. \A v \in Nodes(p, {}) : IsSmallNode(v)
  BY DEF IsNarrow, NamesCollide, IsSmallNode
<1>3. AtMostOne(Sanitized(p))
  BY <1>1, <1>2, PayloadIsTree, OutcomesAreDetermined
<1>4. AtMostOne(Bounded(p))
  BY <1>3 DEF Bounded, AtMostOne
<1>5. Bounded(p) # {}
  BY EveryPayloadHasARow
<1>6. PICK row : row \in Bounded(p)
  BY <1>5
<1>7. Bounded(p) = {row}
  BY <1>4, <1>6 DEF AtMostOne
<1> QED
  BY <1>7
=============================================================================
