--------------------------- MODULE StartupProofs ---------------------------
(***************************************************************************)
(* Proofs about Startup, for any processes, settings and tools.            *)
(*                                                                         *)
(* The schema is complete for every process past EnsureSchema.  SchemaInv  *)
(* is inductive; the two facts behind it are that a statement makes what   *)
(* the next one needs and that the database only grows.                    *)
(*                                                                         *)
(* A gateway's table is complete for an orderly upstream.  TableInv is     *)
(* inductive beside TypeOK; the facts behind it are about one page: it is  *)
(* empty only when nothing follows, and it leaves out nothing before its   *)
(* last tool.                                                              *)
(***************************************************************************)
EXTENDS Startup, FiniteSetTheorems, NumberLemmas

\* Before the first statement nothing need be there.
LEMMA InitSchema == Init => SchemaInv
BY DEF Init, SchemaInv, Schema, Kinds, Stages, PastSchema, MadeBefore

\* What the invariant says of one process.
AtStage(q) ==
  /\ stage[q] \in PastSchema => db = Schema
  /\ stage[q] = "schema" => MadeBefore(stmt[q]) \subseteq db
  /\ stage[q] \notin PastSchema \cup {"schema"} => stmt[q] = 1

(***************************************************************************)
(* A database that grows keeps what the invariant says of the processes    *)
(* that did not move.                                                      *)
(***************************************************************************)
LEMMA OthersKeepSchema ==
  ASSUME SchemaInv, db \subseteq db', db' \subseteq Schema,
         NEW q \in Processes, stage'[q] = stage[q], stmt'[q] = stmt[q]
  PROVE  AtStage(q)'
BY DEF SchemaInv, AtStage, MadeBefore

(***************************************************************************)
(* A step that only moves one process to a stage before the statements, or *)
(* from one stage past them to the next, keeps the invariant.              *)
(***************************************************************************)
LEMMA MovesKeepSchema ==
  ASSUME SchemaInv, NEW p \in Processes, NEW where \in Stages,
         GoTo(p, where), UNCHANGED <<db, stmt>>, kind' \in [Processes -> Kinds],
         where \in PastSchema <=> stage[p] \in PastSchema,
         stage[p] # "schema"
  PROVE  SchemaInv'
PROOF
  <1>1. AtStage(p)'
    <2>1. stage'[p] = where /\ db' = db /\ stmt'[p] = stmt[p]
      BY DEF SchemaInv, GoTo
    <2>2. where \in PastSchema => db = Schema
      BY DEF SchemaInv
    <2>3. where \notin PastSchema => stmt[p] = 1
      BY DEF SchemaInv
    <2>4. MadeBefore(1) \subseteq db /\ "schema" \notin PastSchema
      BY DEF MadeBefore, PastSchema
    <2> QED
      BY <2>1, <2>2, <2>3, <2>4 DEF AtStage, MadeBefore
  <1>2. ASSUME NEW q \in Processes, q # p PROVE AtStage(q)'
    BY <1>2, OthersKeepSchema DEF SchemaInv, GoTo
  <1> QED
    BY <1>1, <1>2 DEF SchemaInv, AtStage, GoTo

\* A process that ends begins with the first statement when it comes back.
LEMMA LeavingKeepsSchema ==
  ASSUME SchemaInv, NEW p \in Processes, NEW how \in {"off", "exited"},
         Leave(p, how), db \subseteq db', db' \subseteq Schema
  PROVE  SchemaInv'
PROOF
  <1>1. /\ kind' \in [Processes -> Kinds]
        /\ stage' \in [Processes -> Stages]
        /\ stmt' \in [Processes -> 1..4]
    BY DEF SchemaInv, Leave, GoTo, Stages, Kinds
  <1>2. AtStage(p)'
    BY DEF SchemaInv, AtStage, Leave, GoTo, PastSchema
  <1>3. ASSUME NEW q \in Processes, q # p PROVE AtStage(q)'
    BY <1>3, OthersKeepSchema DEF SchemaInv, Leave, GoTo
  <1> QED
    BY <1>1, <1>2, <1>3 DEF SchemaInv, AtStage

\* A statement makes what the next one needs, and the last the rest.
LEMMA StatementsMake ==
  ASSUME NEW n \in 1..4, db \subseteq Schema, MadeBefore(n) \subseteq db
  PROVE  /\ Needs(n) \subseteq db
         /\ Makes(n) \subseteq Schema
         /\ n < 4 => MadeBefore(n + 1) \subseteq db \cup Makes(n)
         /\ n = 4 => db \cup Makes(n) = Schema
BY DEF Needs, Makes, MadeBefore, Schema

LEMMA StatementKeepsSchema ==
  ASSUME SchemaInv, NEW p \in Processes, EnsureSchema(p) \/ LoseResult(p)
  PROVE  SchemaInv'
PROOF
  <1>1. /\ stmt[p] \in 1..4
        /\ db \subseteq Schema
        /\ MadeBefore(stmt[p]) \subseteq db
        /\ kind[p] \in Kinds
    BY DEF SchemaInv, EnsureSchema, LoseResult
  <1>2. /\ db' = db \cup Makes(stmt[p])
        /\ db' \subseteq Schema
    BY <1>1, StatementsMake DEF EnsureSchema, LoseResult
  <1>3. CASE EnsureSchema(p) /\ stmt[p] < 4
    <2>1. stmt' = [stmt EXCEPT ![p] = stmt[p] + 1] /\ UNCHANGED <<stage, kind>>
      BY <1>3 DEF EnsureSchema, run
    <2>2. AtStage(p)'
      BY <1>1, <1>2, <1>3, <2>1, StatementsMake
      DEF SchemaInv, AtStage, EnsureSchema, PastSchema
    <2>3. ASSUME NEW q \in Processes, q # p PROVE AtStage(q)'
      BY <1>2, <2>1, <2>3, OthersKeepSchema DEF SchemaInv
    <2> QED
      BY <1>1, <1>2, <1>3, <2>1, <2>2, <2>3 DEF SchemaInv, AtStage
  <1>4. CASE EnsureSchema(p) /\ ~ (stmt[p] < 4)
    <2>1. stmt[p] = 4 /\ db' = Schema
      BY <1>1, <1>2, <1>4, StatementsMake
    <2>2. AfterSchema(p) \in PastSchema
      BY <1>1 DEF AfterSchema, Kinds, PastSchema
    <2>3. GoTo(p, AfterSchema(p)) /\ UNCHANGED <<stmt, kind>>
      BY <1>4 DEF EnsureSchema, run
    <2>4. AtStage(p)'
      BY <2>1, <2>2, <2>3 DEF SchemaInv, AtStage, GoTo, PastSchema
    <2>5. ASSUME NEW q \in Processes, q # p PROVE AtStage(q)'
      BY <1>2, <2>3, <2>5, OthersKeepSchema DEF SchemaInv, GoTo
    <2>6. AfterSchema(p) \in Stages
      BY <2>2 DEF PastSchema, Stages
    <2> QED
      BY <1>2, <2>3, <2>4, <2>5, <2>6 DEF SchemaInv, AtStage, GoTo
  <1>5. CASE LoseResult(p)
    BY <1>2, <1>5, LeavingKeepsSchema DEF LoseResult
  <1> QED BY <1>3, <1>4, <1>5

LEMMA NextKeepsSchema == SchemaInv /\ [Next]_vars => SchemaInv'
PROOF
  <1> SUFFICES ASSUME SchemaInv, [Next]_vars PROVE SchemaInv'
    OBVIOUS
  <1>0. kind \in [Processes -> Kinds] /\ db \subseteq Schema
    BY DEF SchemaInv
  <1>1. ASSUME NEW p \in Processes, NEW k \in Kinds, NEW s \in Settings, Launch(p, k, s)
        PROVE  SchemaInv'
    <2>1. stage[p] \in {"off", "exited"} /\ GoTo(p, "config") /\ UNCHANGED <<db, stmt>>
      BY <1>1 DEF Launch, Up
    <2>2. kind' \in [Processes -> Kinds]
      BY <1>0, <1>1 DEF Launch
    <2> QED
      BY <2>1, <2>2, MovesKeepSchema DEF Stages, PastSchema
  <1>2. ASSUME NEW p \in Processes, Load(p) \/ LoadPolicy(p) \/ GetPostgresPool(p)
        PROVE  SchemaInv'
    <2>1. PICK where \in {"policy", "pool", "schema"} : GoTo(p, where)
      BY <1>2 DEF Load, LoadPolicy, GetPostgresPool
    <2>2. /\ stage[p] \in {"config", "policy", "pool"}
          /\ UNCHANGED <<db, stmt, kind>>
      BY <1>2 DEF Load, LoadPolicy, GetPostgresPool, run
    <2> QED
      BY <1>0, <2>1, <2>2, MovesKeepSchema DEF Stages, PastSchema
  <1>3. ASSUME NEW p \in Processes, EnsureSchema(p) \/ LoseResult(p)
        PROVE  SchemaInv'
    BY <1>3, StatementKeepsSchema
  <1>4. ASSUME NEW p \in Processes, PingRedis(p) \/ Connect(p) \/ ListenAndServe(p)
        PROVE  SchemaInv'
    <2>1. PICK where \in {"connect", "tools", "serving"} : GoTo(p, where)
      BY <1>4 DEF PingRedis, Connect, ListenAndServe
    <2>2. /\ stage[p] \in {"redis", "connect", "listen"}
          /\ UNCHANGED <<db, stmt, kind>>
      BY <1>4 DEF PingRedis, Connect, ListenAndServe, run
    <2> QED
      BY <1>0, <2>1, <2>2, MovesKeepSchema DEF Stages, PastSchema
  <1>5. ASSUME NEW p \in Processes, FetchAllTools(p)
        PROVE  SchemaInv'
    <2>1. stage[p] = "tools" /\ UNCHANGED <<db, stmt, kind>>
      BY <1>5 DEF FetchAllTools, run
    <2>2. GoTo(p, "serving") \/ UNCHANGED stage
      BY <1>5 DEF FetchAllTools
    <2>3. CASE GoTo(p, "serving")
      BY <1>0, <2>1, <2>3, MovesKeepSchema DEF Stages, PastSchema
    <2>4. CASE UNCHANGED stage
      BY <2>1, <2>4 DEF SchemaInv
    <2> QED BY <2>2, <2>3, <2>4
  <1>6. ASSUME NEW p \in Processes, RunCommand(p) \/ Fail(p) \/ Crash(p)
        PROVE  SchemaInv'
    BY <1>0, <1>6, LeavingKeepsSchema DEF RunCommand, Fail, Crash
  <1>7. ASSUME NEW t \in Tools, ChangeTools(t)
        PROVE  SchemaInv'
    BY <1>7 DEF ChangeTools, run, SchemaInv
  <1>8. CASE UNCHANGED vars
    BY <1>8 DEF vars, run, SchemaInv
  <1> QED
    BY <1>1, <1>2, <1>3, <1>4, <1>5, <1>6, <1>7, <1>8 DEF Next, Step

(***************************************************************************)
(* The reason the schema is complete holds in every reachable state, for   *)
(* any number of processes, ending and starting at any step.               *)
(***************************************************************************)
THEOREM SchemaInvariant == Spec => []SchemaInv
BY InitSchema, NextKeepsSchema, PTL DEF Spec

(***************************************************************************)
(* Every process past EnsureSchema finds all tables and columns, and no    *)
(* statement it comes to refers to one that is missing.                    *)
(***************************************************************************)
THEOREM SchemaIsCompleteHolds == Spec => []SchemaIsComplete
PROOF
  <1>1. SchemaInv => SchemaIsComplete
    <2> SUFFICES ASSUME SchemaInv, NEW p \in Processes
                 PROVE  /\ stage[p] \in PastSchema => db = Schema
                        /\ stage[p] = "schema" => Needs(stmt[p]) \subseteq db
      BY DEF SchemaIsComplete
    <2>1. stage[p] \in PastSchema => db = Schema
      BY DEF SchemaInv
    <2>2. stage[p] = "schema" => Needs(stmt[p]) \subseteq db
      BY StatementsMake DEF SchemaInv
    <2> QED BY <2>1, <2>2
  <1> QED
    BY <1>1, SchemaInvariant, PTL

-----------------------------------------------------------------------------
(***************************************************************************)
(* One page of an orderly upstream.                                        *)
(***************************************************************************)
LEMMA ToolsAreNumbers == \A t \in Tools : t \in Nat /\ t # Start /\ t # End
BY ToolAssumption DEF Tools, Start, End

LEMMA OfferedIsFinite ==
  ASSUME offered \subseteq Tools, NEW S \in SUBSET offered
  PROVE  IsFiniteSet(S) /\ Cardinality(S) \in Nat
PROOF
  <1>1. IsFiniteSet(Tools)
    BY ToolAssumption, FS_Interval DEF Tools
  <1> QED
    BY <1>1, FS_Subset, FS_CardinalityType

\* The first tool that follows the cursor is on the page.
LEMMA PageIsEmptyLast ==
  ASSUME offered \subseteq Tools, NEW c \in Nat, Following(c) # {}
  PROVE  PageAfter(c) # {}
PROOF
  <1>1. Following(c) \subseteq Nat
    BY ToolsAreNumbers DEF Following
  <1>2. PICK t \in Following(c) : \A u \in Following(c) : t <= u
    BY <1>1, LeastExists
  <1>3. {u \in Following(c) : u <= t} = {t}
    BY <1>1, <1>2
  <1>4. Cardinality({t}) = 1
    BY FS_Singleton
  <1>5. 1 <= PageSize
    BY ToolAssumption
  <1> QED
    BY <1>3, <1>4, <1>5 DEF PageAfter

\* A page that does not reach the end has a last tool, its next cursor.
LEMMA NextCursorIsLast ==
  ASSUME offered \subseteq Tools, NEW c \in Nat, PageAfter(c) # Following(c)
  PROVE  /\ NextCursor(c) \in PageAfter(c)
         /\ NextCursor(c) \in Tools
         /\ \A t \in PageAfter(c) : t <= NextCursor(c)
PROOF
  <1>1. PageAfter(c) \subseteq Following(c) /\ Following(c) \subseteq Tools
    BY DEF PageAfter, Following
  <1>2. PageAfter(c) # {}
    BY <1>1, PageIsEmptyLast
  <1>3. PageAfter(c) \subseteq 0..LastTool
    BY <1>1, ToolAssumption DEF Tools
  <1>4. /\ Max(PageAfter(c)) \in PageAfter(c)
        /\ \A t \in PageAfter(c) : t <= Max(PageAfter(c))
    BY <1>2, <1>3, ToolAssumption, MaxIsGreatest
  <1> QED
    BY <1>1, <1>4 DEF NextCursor

\* What follows the cursor, up to a tool of the page, is on the page.
LEMMA PageHasNoGaps ==
  ASSUME offered \subseteq Tools, NEW c \in Nat,
         NEW t \in Following(c), NEW m \in PageAfter(c), t <= m
  PROVE  t \in PageAfter(c)
PROOF
  <1> DEFINE upTo(x) == {u \in Following(c) : u <= x}
  <1>1. Following(c) \subseteq Nat /\ m \in Following(c)
    BY ToolsAreNumbers DEF Following, PageAfter
  <1>2. upTo(t) \subseteq upTo(m)
    BY <1>1
  <1>3. upTo(m) \in SUBSET offered /\ upTo(t) \in SUBSET offered
    BY DEF Following
  <1>4. /\ IsFiniteSet(upTo(m))
        /\ Cardinality(upTo(m)) \in Nat
        /\ Cardinality(upTo(t)) \in Nat
    BY <1>3, OfferedIsFinite
  <1>5. Cardinality(upTo(t)) <= Cardinality(upTo(m))
    BY <1>2, <1>4, FS_Subset
  <1>6. Cardinality(upTo(m)) <= PageSize
    BY DEF PageAfter
  <1>7. Cardinality(upTo(t)) <= PageSize
    BY <1>4, <1>5, <1>6, ToolAssumption
  <1> QED
    BY <1>7 DEF PageAfter

\* Any answer is a page of tools and a cursor.
LEMMA AnswersAreTyped ==
  ASSUME offered \subseteq Tools, NEW c \in Tools \cup {Start}, NEW answer \in Answers(c)
  PROVE  answer.page \subseteq Tools /\ answer.next \in Tools \cup {End}
PROOF
  <1>1. CASE orderly
    <2>1. answer.page = PageAfter(c) /\ answer.next = NextCursor(c)
      BY <1>1 DEF Answers
    <2>2. c \in Nat
      BY ToolAssumption DEF Tools, Start
    <2>3. NextCursor(c) \in Tools \cup {End}
      BY <2>2, NextCursorIsLast DEF NextCursor
    <2> QED
      BY <2>1, <2>3 DEF PageAfter, Following
  <1>2. CASE ~ orderly
    BY <1>2 DEF Answers
  <1> QED
    BY <1>1, <1>2

-----------------------------------------------------------------------------
\* The fields of one process, when it leaves or only its stage changes.
LEMMA LeaveKeepsType ==
  ASSUME TypeOK, NEW p \in Processes, NEW how \in {"off", "exited"}, Leave(p, how),
         db' \subseteq Schema, UNCHANGED <<offered, orderly>>
  PROVE  TypeOK'
BY ToolAssumption DEF TypeOK, Leave, GoTo, Kinds, Stages, Start

LEMMA InitType == Init => TypeOK
BY ToolAssumption DEF Init, TypeOK, Schema, Kinds, Stages, Start

LEMMA NextKeepsType == TypeOK /\ [Next]_vars => TypeOK'
PROOF
  <1> SUFFICES ASSUME TypeOK, [Next]_vars PROVE TypeOK'
    OBVIOUS
  <1>1. ASSUME NEW p \in Processes, NEW k \in Kinds, NEW s \in Settings, Launch(p, k, s)
        PROVE  TypeOK'
    BY <1>1 DEF TypeOK, Launch, GoTo, Stages, fetch
  <1>2. ASSUME NEW p \in Processes,
               Load(p) \/ LoadPolicy(p) \/ GetPostgresPool(p) \/ PingRedis(p)
                 \/ ListenAndServe(p)
        PROVE  TypeOK'
    <2>1. PICK where \in Stages : GoTo(p, where)
      BY <1>2 DEF Load, LoadPolicy, GetPostgresPool, PingRedis, ListenAndServe, Stages
    <2>2. UNCHANGED <<db, offered, orderly, run, stmt, fetch>>
      BY <1>2 DEF Load, LoadPolicy, GetPostgresPool, PingRedis, ListenAndServe
    <2> QED
      BY <2>1, <2>2 DEF TypeOK, GoTo, run, fetch
  <1>3. ASSUME NEW p \in Processes, EnsureSchema(p) \/ LoseResult(p)
        PROVE  TypeOK'
    <2>1. stmt[p] \in 1..4 /\ kind[p] \in Kinds
      BY DEF TypeOK
    <2>2. db' \subseteq Schema
      BY <1>3, <2>1 DEF TypeOK, EnsureSchema, LoseResult, Makes, Schema
    <2>3. CASE EnsureSchema(p) /\ stmt[p] < 4
      BY <2>1, <2>2, <2>3 DEF TypeOK, EnsureSchema, run, fetch
    <2>4. CASE EnsureSchema(p) /\ ~ (stmt[p] < 4)
      <3>1. AfterSchema(p) \in Stages
        BY <2>1 DEF AfterSchema, Kinds, Stages
      <3> QED
        BY <2>2, <2>4, <3>1 DEF TypeOK, EnsureSchema, GoTo, run, fetch
    <2>5. CASE LoseResult(p)
      BY <2>2, <2>5, LeaveKeepsType DEF LoseResult
    <2> QED
      BY <1>3, <2>3, <2>4, <2>5
  <1>4. ASSUME NEW p \in Processes, Connect(p)
        PROVE  TypeOK'
    BY <1>4 DEF TypeOK, Connect, GoTo, Stages, run
  <1>5. ASSUME NEW p \in Processes, FetchAllTools(p)
        PROVE  TypeOK'
    <2>1. PICK answer \in Answers(cursor[p]) :
            /\ tools' = [tools EXCEPT ![p] = @ \cup answer.page]
            /\ cursor' = [cursor EXCEPT ![p] = answer.next]
            /\ IF answer.next = End THEN GoTo(p, "serving") ELSE UNCHANGED stage
      BY <1>5 DEF FetchAllTools
    <2>2. answer.page \subseteq Tools /\ answer.next \in Tools \cup {Start}
      BY AnswersAreTyped DEF TypeOK, Start, End
    <2>3. UNCHANGED <<db, offered, orderly, run, stmt, always, ever>>
      BY <1>5 DEF FetchAllTools
    <2>4. stage' \in [Processes -> Stages]
      BY <2>1 DEF TypeOK, GoTo, Stages
    <2> QED
      BY <2>1, <2>2, <2>3, <2>4 DEF TypeOK, run
  <1>6. ASSUME NEW p \in Processes, RunCommand(p) \/ Fail(p) \/ Crash(p)
        PROVE  TypeOK'
    <2>1. db' \subseteq Schema
      BY <1>6 DEF TypeOK, RunCommand, Fail, Crash
    <2> QED
      BY <1>6, <2>1, LeaveKeepsType DEF RunCommand, Fail, Crash
  <1>7. ASSUME NEW t \in Tools, ChangeTools(t)
        PROVE  TypeOK'
    BY <1>7 DEF TypeOK, ChangeTools, run
  <1>8. CASE UNCHANGED vars
    BY <1>8 DEF vars, run, fetch, TypeOK
  <1> QED
    BY <1>1, <1>2, <1>3, <1>4, <1>5, <1>6, <1>7, <1>8 DEF Next, Step

\* Type correctness, of the cursors an orderly upstream gives out above all.
THEOREM TypeInvariant == Spec => []TypeOK
BY InitType, NextKeepsType, PTL DEF Spec

-----------------------------------------------------------------------------
\* What TableInv says of one process.
TableOf(p) ==
  /\ stage[p] \notin {"tools", "serving"} => cursor[p] = Start /\ tools[p] = {}
  /\ stage[p] = "listen" => kind[p] = "dashboard"
  /\ stage[p] = "tools" =>
       /\ always[p] \subseteq offered
       /\ offered \subseteq ever[p]
       /\ orderly => /\ tools[p] \subseteq ever[p]
                     /\ \A t \in always[p] : t <= cursor[p] => t \in tools[p]
  /\ orderly /\ kind[p] = "serve" /\ stage[p] = "serving" =>
       always[p] \subseteq tools[p] /\ tools[p] \subseteq ever[p]

LEMMA TableInvOfEach == TableInv <=> \A p \in Processes : TableOf(p)
BY DEF TableInv, TableOf

\* A process that does nothing keeps what is said of it.
LEMMA OthersKeepTable ==
  ASSUME NEW q \in Processes, TableOf(q), UNCHANGED <<offered, orderly>>,
         stage'[q] = stage[q], kind'[q] = kind[q], cursor'[q] = cursor[q],
         tools'[q] = tools[q], always'[q] = always[q], ever'[q] = ever[q]
  PROVE  TableOf(q)'
BY DEF TableOf

LEMMA InitTable == Init => TableInv
BY DEF Init, TableInv

\* A page keeps the table complete up to the new cursor, or, at the end, whole.
LEMMA PageKeepsTable ==
  ASSUME TypeOK, NEW p \in Processes, TableOf(p), FetchAllTools(p)
  PROVE  TableOf(p)'
PROOF
  <1> DEFINE c == cursor[p]
  <1>1. PICK answer \in Answers(c) :
          /\ tools' = [tools EXCEPT ![p] = @ \cup answer.page]
          /\ cursor' = [cursor EXCEPT ![p] = answer.next]
          /\ IF answer.next = End THEN GoTo(p, "serving") ELSE UNCHANGED stage
    BY DEF FetchAllTools
  <1>2. /\ stage[p] = "tools"
        /\ UNCHANGED <<offered, orderly, kind, always, ever>>
    BY DEF FetchAllTools, run
  <1>3. /\ tools'[p] = tools[p] \cup answer.page
        /\ cursor'[p] = answer.next
        /\ stage'[p] = IF answer.next = End THEN "serving" ELSE "tools"
    BY <1>1, <1>2 DEF TypeOK, GoTo
  <1>4. always[p] \subseteq offered /\ offered \subseteq ever[p] /\ offered \subseteq Tools
    BY <1>2 DEF TableOf, TypeOK
  <1>5. CASE orderly
    <2>1. answer.page = PageAfter(c) /\ answer.next = NextCursor(c)
      BY <1>5 DEF Answers
    <2>2. c \in Nat /\ \A t \in Tools : t \in Nat /\ t # End
      BY ToolAssumption DEF TypeOK, Tools, Start, End
    <2>3. tools[p] \subseteq ever[p] /\ \A t \in always[p] : t <= c => t \in tools[p]
      BY <1>2, <1>5 DEF TableOf
    <2>4. PageAfter(c) \subseteq offered
      BY DEF PageAfter, Following
    <2>5. tools'[p] \subseteq ever[p]
      BY <1>3, <1>4, <2>1, <2>3, <2>4
    <2>6. ASSUME NEW t \in always[p], ~ (t <= c) PROVE t \in Following(c)
      BY <1>4, <2>2, <2>6 DEF Following
    <2>7. CASE PageAfter(c) = Following(c)
      <3>1. answer.next = End
        BY <2>1, <2>7 DEF NextCursor
      <3>2. always[p] \subseteq tools'[p]
        BY <1>3, <2>1, <2>3, <2>6, <2>7
      <3> QED
        BY <1>2, <1>3, <2>5, <3>1, <3>2 DEF TableOf
    <2>8. CASE PageAfter(c) # Following(c)
      <3>1. NextCursor(c) \in PageAfter(c) /\ NextCursor(c) \in Tools
        BY <1>4, <2>2, <2>8, NextCursorIsLast
      <3>2. ASSUME NEW t \in always[p], t <= NextCursor(c) PROVE t \in tools'[p]
        <4>1. CASE t <= c
          BY <1>3, <2>3, <4>1
        <4>2. CASE ~ (t <= c)
          <5>1. t \in PageAfter(c)
            BY <1>4, <2>2, <2>6, <3>1, <3>2, <4>2, PageHasNoGaps
          <5> QED
            BY <1>3, <2>1, <5>1
        <4> QED
          BY <4>1, <4>2
      <3>3. answer.next # End
        BY <2>1, <2>2, <3>1
      <3> QED
        BY <1>2, <1>3, <1>4, <2>1, <2>5, <3>2, <3>3 DEF TableOf
    <2> QED
      BY <2>7, <2>8
  <1>6. CASE ~ orderly
    BY <1>2, <1>3, <1>4, <1>6 DEF TableOf
  <1> QED
    BY <1>5, <1>6

\* A process that ends has no table.
LEMMA LeavingKeepsTable ==
  ASSUME TypeOK, TableInv, NEW p \in Processes, NEW how \in {"off", "exited"},
         Leave(p, how), UNCHANGED <<offered, orderly>>
  PROVE  TableInv'
PROOF
  <1>1. TableOf(p)'
    BY DEF TypeOK, TableOf, Leave, GoTo
  <1>2. ASSUME NEW q \in Processes, q # p PROVE TableOf(q)'
    BY <1>2, TableInvOfEach, OthersKeepTable DEF TypeOK, Leave, GoTo
  <1>3. \A q \in Processes : TableOf(q)'
    BY <1>1, <1>2
  <1> QED
    BY <1>3 DEF TableInv, TableOf

(***************************************************************************)
(* A process that moves on without a table has still none, and comes to    *)
(* listen only if it is a dashboard.                                       *)
(***************************************************************************)
LEMMA MovingKeepsTable ==
  ASSUME TypeOK, TableInv, NEW p \in Processes, NEW where \in Stages, GoTo(p, where),
         UNCHANGED <<offered, orderly, fetch>>, kind' \in [Processes -> Kinds],
         \A q \in Processes : q # p => kind'[q] = kind[q],
         stage[p] \notin {"tools", "serving"}, where # "tools",
         where = "listen" => kind'[p] = "dashboard",
         where = "serving" => kind'[p] # "serve"
  PROVE  TableInv'
PROOF
  <1>1. stage'[p] = where /\ cursor[p] = Start /\ tools[p] = {}
    BY DEF TypeOK, TableInv, GoTo
  <1>2. TableOf(p)'
    BY <1>1 DEF TableOf, fetch
  <1>3. ASSUME NEW q \in Processes, q # p PROVE TableOf(q)'
    BY <1>3, TableInvOfEach, OthersKeepTable DEF TypeOK, GoTo, fetch
  <1>4. \A q \in Processes : TableOf(q)'
    BY <1>2, <1>3
  <1> QED
    BY <1>4 DEF TableInv, TableOf

LEMMA NextKeepsTable == TypeOK /\ TableInv /\ [Next]_vars => TableInv'
PROOF
  <1> SUFFICES ASSUME TypeOK, TableInv, [Next]_vars PROVE TableInv'
    OBVIOUS
  <1>0. kind \in [Processes -> Kinds]
    BY DEF TypeOK
  <1>1. ASSUME NEW p \in Processes, NEW k \in Kinds, NEW s \in Settings, Launch(p, k, s)
        PROVE  TableInv'
    <2>1. stage[p] \in {"off", "exited"} /\ GoTo(p, "config")
      BY <1>1 DEF Launch, Up
    <2>2. UNCHANGED <<offered, orderly, fetch>> /\ kind' = [kind EXCEPT ![p] = k]
      BY <1>1 DEF Launch
    <2>3. /\ kind' \in [Processes -> Kinds]
          /\ \A q \in Processes : q # p => kind'[q] = kind[q]
      BY <1>0, <2>2
    <2> QED
      BY <2>1, <2>2, <2>3, MovingKeepsTable DEF Stages
  <1>2. ASSUME NEW p \in Processes,
               Load(p) \/ LoadPolicy(p) \/ GetPostgresPool(p) \/ PingRedis(p)
        PROVE  TableInv'
    <2>1. PICK where \in {"policy", "pool", "schema", "connect"} : GoTo(p, where)
      BY <1>2 DEF Load, LoadPolicy, GetPostgresPool, PingRedis
    <2>2. /\ stage[p] \in {"config", "policy", "pool", "redis"}
          /\ UNCHANGED <<offered, orderly, fetch, kind>>
      BY <1>2 DEF Load, LoadPolicy, GetPostgresPool, PingRedis, run
    <2> QED
      BY <1>0, <2>1, <2>2, MovingKeepsTable DEF Stages
  <1>3. ASSUME NEW p \in Processes, EnsureSchema(p)
        PROVE  TableInv'
    <2>1. /\ stage[p] = "schema"
          /\ UNCHANGED <<offered, orderly, fetch, kind>>
      BY <1>3 DEF EnsureSchema, run
    <2>2. CASE UNCHANGED stage
      BY <2>1, <2>2 DEF TableInv, fetch
    <2>3. CASE GoTo(p, AfterSchema(p))
      <3>1. /\ AfterSchema(p) \in {"redis", "listen", "command"}
            /\ AfterSchema(p) = "listen" => kind[p] = "dashboard"
        BY <1>0 DEF AfterSchema, Kinds
      <3> QED
        BY <1>0, <2>1, <2>3, <3>1, MovingKeepsTable DEF Stages
    <2> QED
      BY <1>3, <2>2, <2>3 DEF EnsureSchema
  <1>4. ASSUME NEW p \in Processes, Connect(p)
        PROVE  TableInv'
    <2>1. /\ stage'[p] = "tools" /\ always'[p] = offered /\ ever'[p] = offered
          /\ cursor[p] = Start /\ tools[p] = {}
          /\ UNCHANGED <<offered, orderly, cursor, tools>>
      BY <1>4 DEF TypeOK, TableInv, Connect, GoTo
    <2>2. \A t \in offered : ~ (t <= Start)
      BY ToolAssumption DEF TypeOK, Tools, Start
    <2>3. TableOf(p)'
      BY <2>1, <2>2 DEF TableOf
    <2>4. ASSUME NEW q \in Processes, q # p PROVE TableOf(q)'
      BY <1>4, <2>4, TableInvOfEach, OthersKeepTable DEF TypeOK, Connect, GoTo, run
    <2>5. \A q \in Processes : TableOf(q)'
      BY <2>3, <2>4
    <2> QED
      BY <2>5 DEF TableInv, TableOf
  <1>5. ASSUME NEW p \in Processes, FetchAllTools(p)
        PROVE  TableInv'
    <2>1. TableOf(p)'
      BY <1>5, TableInvOfEach, PageKeepsTable
    <2>2. ASSUME NEW q \in Processes, q # p PROVE TableOf(q)'
      BY <1>5, <2>2, TableInvOfEach, OthersKeepTable DEF TypeOK, FetchAllTools, GoTo, run
    <2>3. \A q \in Processes : TableOf(q)'
      BY <2>1, <2>2
    <2> QED
      BY <2>3 DEF TableInv, TableOf
  <1>6. ASSUME NEW p \in Processes, ListenAndServe(p)
        PROVE  TableInv'
    <2>1. /\ stage[p] = "listen" /\ GoTo(p, "serving")
          /\ UNCHANGED <<offered, orderly, fetch, kind>>
      BY <1>6 DEF ListenAndServe, run
    <2>2. kind[p] # "serve"
      BY <2>1 DEF TableInv
    <2> QED
      BY <1>0, <2>1, <2>2, MovingKeepsTable DEF Stages
  <1>7. ASSUME NEW p \in Processes, LoseResult(p) \/ RunCommand(p) \/ Fail(p) \/ Crash(p)
        PROVE  TableInv'
    BY <1>7, LeavingKeepsTable DEF LoseResult, RunCommand, Fail, Crash
  <1>8. ASSUME NEW t \in Tools, ChangeTools(t)
        PROVE  TableInv'
    <2> SUFFICES ASSUME NEW p \in Processes PROVE TableOf(p)'
      BY DEF TableInv, TableOf
    <2>1. UNCHANGED <<orderly, kind, stage, cursor, tools>>
      BY <1>8 DEF ChangeTools, run
    <2>2. CASE stage[p] = "tools"
      <3>1. always'[p] = always[p] \cap offered' /\ ever'[p] = ever[p] \cup offered'
        BY <1>8, <2>2 DEF ChangeTools
      <3> QED
        BY <2>1, <2>2, <3>1, TableInvOfEach DEF TableOf
    <2>3. CASE stage[p] # "tools"
      <3>1. always'[p] = always[p] /\ ever'[p] = ever[p]
        BY <1>8, <2>3 DEF ChangeTools
      <3> QED
        BY <2>1, <2>3, <3>1, TableInvOfEach DEF TableOf
    <2> QED
      BY <2>2, <2>3
  <1>9. CASE UNCHANGED vars
    BY <1>9 DEF vars, run, fetch, TableInv
  <1> QED
    BY <1>1, <1>2, <1>3, <1>4, <1>5, <1>6, <1>7, <1>8, <1>9 DEF Next, Step

(***************************************************************************)
(* While a gateway fetches from an orderly upstream, its table has every   *)
(* tool up to the cursor that was offered all the time.                    *)
(***************************************************************************)
THEOREM TableInvariant == Spec => []TableInv
BY InitTable, NextKeepsTable, TypeInvariant, PTL DEF Spec

(***************************************************************************)
(* A gateway that serves knows every tool that its upstream offered all    *)
(* the while, and no other than it offered at some time of the fetch, for  *)
(* any page size and any number of tools, however they change.             *)
(***************************************************************************)
THEOREM TableIsCompleteHolds == Spec => []TableIsComplete
PROOF
  <1>1. TableInv => TableIsComplete
    BY DEF TableInv, TableIsComplete
  <1> QED
    BY <1>1, TableInvariant, PTL
=============================================================================
