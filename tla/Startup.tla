------------------------------ MODULE Startup ------------------------------
(***************************************************************************)
(* How a bansho process comes up: bansho serve (RunStdioGateway), bansho   *)
(* dashboard (RunDashboard) and bansho keys (runKeys).  Processes start    *)
(* together, fail at any step, are killed and started again; they share    *)
(* the database, whose tables each of them makes sure of, statement by     *)
(* statement.  A gateway takes the table of its tools from the upstream    *)
(* page by page, while the upstream's tools change.                        *)
(*                                                                         *)
(* A page is asked for with a cursor.  An upstream made with the MCP SDK   *)
(* answers with the tools that follow the cursor in the order of their     *)
(* names, here numbers, and the last of them as the next cursor.  Another  *)
(* upstream may answer with anything (external).                           *)
(***************************************************************************)
EXTENDS Integers, FiniteSetsExt

CONSTANTS
  Processes,
  Settings,   \* what the environment may say: [ports, transport, target]
  NoSettings,
  LastTool,   \* tools are 1..LastTool
  PageSize    \* of the upstream

Kinds == {"serve", "dashboard", "keys"}
Tools == 1..LastTool
Start == 0    \* the cursor "" of the first request
End == 0      \* the cursor "" of the last answer

ASSUME ToolAssumption == LastTool \in Nat /\ PageSize \in Nat \ {0}

VARIABLES
  db,       \* the tables and columns there are
  offered,  \* the upstream's tools
  orderly,  \* whether the upstream pages as the SDK does
  kind,     \* kind[p]: "serve", "dashboard" or "keys"
  settings, \* settings[p]: what the process read
  stage,    \* stage[p]: what it does next
  stmt,     \* stmt[p]: the statement of EnsureSchema it runs next
  cursor,   \* cursor[p]: where fetchAllTools goes on
  tools,    \* tools[p]: toolByName
  always,   \* always[p]: tools offered during all of its fetch (history)
  ever      \* ever[p]: tools offered at some time of its fetch (history)

fetch == <<cursor, tools, always, ever>>
run == <<kind, settings>>
vars == <<db, offered, orderly, run, stage, stmt, fetch>>

Schema == {"api_keys", "audit_events", "role", "decision"}

\* The database may be new, have the tables of an older bansho, or be left
\* by a process that stopped halfway.
Init ==
  /\ db \in {{}, {"api_keys"}, {"api_keys", "audit_events"},
             {"api_keys", "audit_events", "role"}, Schema}
  /\ orderly \in BOOLEAN
  /\ offered \in IF orderly THEN SUBSET Tools ELSE {{}}
  /\ kind = [p \in Processes |-> "keys"]
  /\ settings = [p \in Processes |-> NoSettings]
  /\ stage = [p \in Processes |-> "off"]
  /\ stmt = [p \in Processes |-> 1]
  /\ cursor = [p \in Processes |-> Start]
  /\ tools = [p \in Processes |-> {}]
  /\ always = [p \in Processes |-> {}]
  /\ ever = [p \in Processes |-> {}]

-----------------------------------------------------------------------------
GoTo(p, where) == stage' = [stage EXCEPT ![p] = where]

\* A process that ends leaves nothing behind but the database.
Leave(p, how) ==
  /\ GoTo(p, how)
  /\ kind' = [kind EXCEPT ![p] = "keys"]
  /\ settings' = [settings EXCEPT ![p] = NoSettings]
  /\ stmt' = [stmt EXCEPT ![p] = 1]
  /\ cursor' = [cursor EXCEPT ![p] = Start]
  /\ tools' = [tools EXCEPT ![p] = {}]
  /\ always' = [always EXCEPT ![p] = {}]
  /\ ever' = [ever EXCEPT ![p] = {}]

Up(p) == stage[p] \notin {"off", "exited"}

Launch(p, k, s) ==
  /\ ~ Up(p)
  /\ GoTo(p, "config")
  /\ kind' = [kind EXCEPT ![p] = k]
  /\ settings' = [settings EXCEPT ![p] = s]
  /\ UNCHANGED <<db, offered, orderly, stmt, fetch>>

\* Only the gateway reads a policy.
Load(p) ==
  /\ stage[p] = "config"
  /\ settings[p].ports = "integers"
  /\ settings[p].transport \in {"stdio", "http"}
  /\ GoTo(p, IF kind[p] = "serve" THEN "policy" ELSE "pool")
  /\ UNCHANGED <<db, offered, orderly, run, stmt, fetch>>

LoadPolicy(p) ==
  /\ stage[p] = "policy"
  /\ GoTo(p, "pool")
  /\ UNCHANGED <<db, offered, orderly, run, stmt, fetch>>

\* The pool is new: a process asks for it once.  It connects when it is used.
GetPostgresPool(p) ==
  /\ stage[p] = "pool"
  /\ GoTo(p, "schema")
  /\ UNCHANGED <<db, offered, orderly, run, stmt, fetch>>

-----------------------------------------------------------------------------
(***************************************************************************)
(* EnsureSchema: four statements, each its own transaction.                *)
(***************************************************************************)
\* What a statement refers to must be there already.
Needs(n) ==
  CASE n = 1 -> {}
    [] n = 2 -> {"api_keys"}
    [] n \in {3, 4} -> {"audit_events"}

\* Mutant of Makes: the table's new shape only, no ALTER TABLE for role.
MakesTables(n) ==
  CASE n = 1 -> {"api_keys"}
    [] n = 2 -> IF "audit_events" \in db THEN {} ELSE {"audit_events", "role", "decision"}
    [] n = 3 -> {}
    [] n = 4 -> {"decision"}

\* CREATE TABLE IF NOT EXISTS does nothing to a table of an older shape.
Makes(n) ==
  CASE n = 1 -> {"api_keys"}
    [] n = 2 -> IF "audit_events" \in db THEN {} ELSE {"audit_events", "role", "decision"}
    [] n = 3 -> {"role"}
    [] n = 4 -> {"decision"}

AfterSchema(p) ==
  CASE kind[p] = "serve" -> "redis"
    [] kind[p] = "dashboard" -> "listen"
    [] kind[p] = "keys" -> "command"

\* Mutant of EnsureSchema: goes on after the last statement.
EnsureOneMore(p) ==
  /\ stage[p] = "schema"
  /\ Needs(stmt[p]) \subseteq db
  /\ db' = db \cup Makes(stmt[p])
  /\ stmt' = [stmt EXCEPT ![p] = @ + 1]
  /\ UNCHANGED <<offered, orderly, run, stage, fetch>>

EnsureSchema(p) ==
  /\ stage[p] = "schema"
  /\ Needs(stmt[p]) \subseteq db
  /\ db' = db \cup Makes(stmt[p])
  /\ IF stmt[p] < 4
       THEN stmt' = [stmt EXCEPT ![p] = @ + 1] /\ UNCHANGED stage
       ELSE GoTo(p, AfterSchema(p)) /\ UNCHANGED stmt
  /\ UNCHANGED <<offered, orderly, run, fetch>>

\* The statement is committed but its result is lost.
LoseResult(p) ==
  /\ stage[p] = "schema"
  /\ Needs(stmt[p]) \subseteq db
  /\ db' = db \cup Makes(stmt[p])
  /\ Leave(p, "exited")
  /\ UNCHANGED <<offered, orderly>>

-----------------------------------------------------------------------------
PingRedis(p) ==
  /\ stage[p] = "redis"
  /\ GoTo(p, "connect")
  /\ UNCHANGED <<db, offered, orderly, run, stmt, fetch>>

\* A command that shlex cannot split is no target, and neither is none.
Connect(p) ==
  /\ stage[p] = "connect"
  /\ settings[p].target = "usable"
  /\ GoTo(p, "tools")
  /\ always' = [always EXCEPT ![p] = offered]
  /\ ever' = [ever EXCEPT ![p] = offered]
  /\ UNCHANGED <<db, offered, orderly, run, stmt, cursor, tools>>

\* The upstream's answer: the first of the tools that follow the cursor.
Following(c) == {t \in offered : t > c}
PageAfter(c) ==
  {t \in Following(c) : Cardinality({u \in Following(c) : u <= t}) <= PageSize}
NextCursor(c) ==
  IF PageAfter(c) = Following(c) THEN End ELSE Max(PageAfter(c))

Answers(c) ==
  IF orderly THEN {[page |-> PageAfter(c), next |-> NextCursor(c)]}
  ELSE [page : SUBSET Tools, next : Tools \cup {End}]

\* Mutants of FetchAllTools: every page replaces those before it; the same
\* page is asked for again.
FetchLastPage(p) ==
  /\ stage[p] = "tools"
  /\ \E answer \in Answers(cursor[p]) :
       /\ tools' = [tools EXCEPT ![p] = answer.page]
       /\ cursor' = [cursor EXCEPT ![p] = answer.next]
       /\ IF answer.next = End THEN GoTo(p, "serving") ELSE UNCHANGED stage
  /\ UNCHANGED <<db, offered, orderly, run, stmt, always, ever>>

FetchFirstPage(p) ==
  /\ stage[p] = "tools"
  /\ \E answer \in Answers(Start) :
       /\ tools' = [tools EXCEPT ![p] = @ \cup answer.page]
       /\ cursor' = [cursor EXCEPT ![p] = answer.next]
       /\ IF answer.next = End THEN GoTo(p, "serving") ELSE UNCHANGED stage
  /\ UNCHANGED <<db, offered, orderly, run, stmt, always, ever>>

FetchAllTools(p) ==
  /\ stage[p] = "tools"
  /\ \E answer \in Answers(cursor[p]) :
       /\ tools' = [tools EXCEPT ![p] = @ \cup answer.page]
       /\ cursor' = [cursor EXCEPT ![p] = answer.next]
       /\ IF answer.next = End THEN GoTo(p, "serving") ELSE UNCHANGED stage
  /\ UNCHANGED <<db, offered, orderly, run, stmt, always, ever>>

-----------------------------------------------------------------------------
\* One process at a time has the dashboard's port.
ListenAndServe(p) ==
  /\ stage[p] = "listen"
  /\ \A q \in Processes : ~ (kind[q] = "dashboard" /\ stage[q] = "serving")
  /\ GoTo(p, "serving")
  /\ UNCHANGED <<db, offered, orderly, run, stmt, fetch>>

\* The command itself is KeyCommands.
RunCommand(p) ==
  /\ stage[p] = "command"
  /\ Leave(p, "exited")
  /\ UNCHANGED <<db, offered, orderly>>

\* Every call above may return an error, and the process ends with it.
Fail(p) ==
  /\ Up(p)
  /\ stage[p] # "serving"
  /\ Leave(p, "exited")
  /\ UNCHANGED <<db, offered, orderly>>

Crash(p) ==
  /\ Up(p)
  /\ Leave(p, "off")
  /\ UNCHANGED <<db, offered, orderly>>

\* The upstream adds or removes a tool.  One that answers with anything has
\* no list.
ChangeTools(t) ==
  /\ orderly
  /\ offered' = IF t \in offered THEN offered \ {t} ELSE offered \cup {t}
  /\ always' = [p \in Processes |->
                  IF stage[p] = "tools" THEN always[p] \cap offered' ELSE always[p]]
  /\ ever' = [p \in Processes |->
                IF stage[p] = "tools" THEN ever[p] \cup offered' ELSE ever[p]]
  /\ UNCHANGED <<db, orderly, run, stage, stmt, cursor, tools>>

Step(p) ==
  \/ Load(p) \/ LoadPolicy(p) \/ GetPostgresPool(p)
  \/ EnsureSchema(p) \/ LoseResult(p)
  \/ PingRedis(p) \/ Connect(p) \/ FetchAllTools(p)
  \/ ListenAndServe(p) \/ RunCommand(p) \/ Fail(p)

Next ==
  \/ \E p \in Processes : Step(p) \/ Crash(p) \/ \E k \in Kinds, s \in Settings : Launch(p, k, s)
  \/ \E t \in Tools : ChangeTools(t)

Spec == Init /\ [][Next]_vars

(***************************************************************************)
(* A process that is up goes on: every call returns, with an error if need *)
(* be.  Nothing is assumed of starts, crashes and the upstream's tools.    *)
(***************************************************************************)
FairSpec == Spec /\ \A p \in Processes : WF_vars(Step(p))

-----------------------------------------------------------------------------
Stages ==
  {"off", "exited", "config", "policy", "pool", "schema", "redis", "connect", "tools",
   "listen", "command", "serving"}

PastSchema == {"redis", "connect", "tools", "listen", "command", "serving"}

\* Type correctness.
TypeOK ==
  /\ db \subseteq Schema
  /\ offered \subseteq Tools
  /\ orderly \in BOOLEAN
  /\ kind \in [Processes -> Kinds]
  /\ settings \in [Processes -> Settings \cup {NoSettings}]
  /\ stage \in [Processes -> Stages]
  /\ stmt \in [Processes -> 1..4]
  /\ cursor \in [Processes -> Tools \cup {Start}]
  /\ tools \in [Processes -> SUBSET Tools]
  /\ always \in [Processes -> SUBSET Tools]
  /\ ever \in [Processes -> SUBSET Tools]

(***************************************************************************)
(* A process past EnsureSchema finds every table and column of the code it *)
(* runs, whatever the database was like before, whoever made which part of *)
(* it, and wherever others stopped on the way.  No statement of a process  *)
(* that has come to it can fail for what it refers to.                     *)
(***************************************************************************)
SchemaIsComplete ==
  \A p \in Processes :
    /\ stage[p] \in PastSchema => db = Schema
    /\ stage[p] = "schema" => Needs(stmt[p]) \subseteq db

\* What the statements before the n-th make.
MadeBefore(n) ==
  (IF n > 1 THEN {"api_keys"} ELSE {}) \cup (IF n > 2 THEN {"audit_events"} ELSE {})
    \cup (IF n > 3 THEN {"role"} ELSE {})

(***************************************************************************)
(* Why the schema is complete: a process comes to the first statement,     *)
(* what the statements before its next one make is there, made by          *)
(* whomever, and nothing is ever dropped.  This is inductive.              *)
(***************************************************************************)
SchemaInv ==
  /\ db \subseteq Schema
  /\ kind \in [Processes -> Kinds]
  /\ stage \in [Processes -> Stages]
  /\ stmt \in [Processes -> 1..4]
  /\ \A p \in Processes :
       /\ stage[p] \in PastSchema => db = Schema
       /\ stage[p] = "schema" => MadeBefore(stmt[p]) \subseteq db
       /\ stage[p] \notin PastSchema \cup {"schema"} => stmt[p] = 1

(***************************************************************************)
(* A gateway that serves knows every tool its upstream offered all the     *)
(* while it fetched them, and none that it did not offer at some time of   *)
(* it, although pages were read at different times of a changing list.     *)
(***************************************************************************)
TableIsComplete ==
  \A p \in Processes :
    orderly /\ kind[p] = "serve" /\ stage[p] = "serving" =>
      /\ always[p] \subseteq tools[p]
      /\ tools[p] \subseteq ever[p]

(***************************************************************************)
(* Why the table is complete.  A process begins to fetch with no table at  *)
(* the first cursor.  While it fetches from an orderly upstream, whatever  *)
(* was offered all the time is offered now and is in the table up to the   *)
(* cursor: a page has no gaps, and a tool is only offered all the time if  *)
(* it was on the page that passed over it.  Only a dashboard comes to      *)
(* serve without fetching.  This is inductive.                             *)
(***************************************************************************)
TableInv ==
  \A p \in Processes :
    /\ stage[p] \notin {"tools", "serving"} => cursor[p] = Start /\ tools[p] = {}
    /\ stage[p] = "listen" => kind[p] = "dashboard"
    /\ stage[p] = "tools" =>
         /\ always[p] \subseteq offered
         /\ offered \subseteq ever[p]
         /\ orderly => /\ tools[p] \subseteq ever[p]
                       /\ \A t \in always[p] : t <= cursor[p] => t \in tools[p]
    /\ orderly /\ kind[p] = "serve" /\ stage[p] = "serving" =>
         always[p] \subseteq tools[p] /\ tools[p] \subseteq ever[p]

(***************************************************************************)
(* A process that is started comes to serve, or ends.  A gateway needs an  *)
(* orderly upstream for that, since fetchAllTools goes on for as long as   *)
(* it is given cursors; that the tools keep changing does no harm.         *)
(***************************************************************************)
EveryStartSettles ==
  \A p \in Processes :
    (Up(p) /\ (orderly \/ kind[p] # "serve")) ~> (~ Up(p) \/ stage[p] = "serving")
=============================================================================
