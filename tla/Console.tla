------------------------------ MODULE Console ------------------------------
(***************************************************************************)
(* The operator's side of bansho: commands on keys, and visits to the      *)
(* dashboard while gateways write events, all at once on one database.     *)
(***************************************************************************)
EXTENDS Credentials, Integers, Sequences, Functions

CONSTANTS
  Commands, Roles, Existing,                      \* of KeyCommands
  Events, ContentOf, Visits, Requests, NoRequest, AnyText,
  DefaultEventLimit, MaxEventLimit, MaxTime,      \* of Dashboard
  Keys, NoKey                                     \* of both

ASSUME LimitAssumption ==
  /\ MaxEventLimit \in Nat
  /\ DefaultEventLimit \in 1..MaxEventLimit
  /\ MaxTime \in Nat

ASSUME KeyAssumption == NoKey \notin Keys

\* The statuses that gateways record (server.go).
ASSUME StatusAssumption ==
  \A e \in Events : ContentOf[e].status \in {200, 401, 403, 429, 500, 502}

VARIABLES
  keys, role,                                     \* of both
  todo, stage, report, found,                     \* of KeyCommands
  clock, ts, stored,                           \* of Dashboard
  request, progress, status, page, fetched, barred

Shell == INSTANCE KeyCommands
Pages == INSTANCE Dashboard WITH Words <- Keys, stage <- progress

table == <<keys, role>>
commands == <<todo, stage, report, found>>
pages == <<clock, ts, stored, request, progress, status, page, fetched, barred>>
vars == <<table, commands, pages>>

Init == Shell!Init /\ Pages!Init

Next ==
  \/ Shell!Next /\ UNCHANGED pages
  \/ Pages!Next /\ UNCHANGED commands

Spec == Init /\ [][Next]_vars

\* What this side leaves of the keys for the gateways to see.
KeyRows == INSTANCE KeyTable
ImplementsKeyTable == KeyRows!Spec

-----------------------------------------------------------------------------
\* Type correctness.
TypeOK ==
  /\ keys \in [Keys -> {"absent", "active", "revoked"}]
  /\ role \in [Keys -> Roles \cup {"", Shell!DefaultAPIKeyRole} \cup Range(Existing)]
  /\ todo \in [Commands -> [do : {"nothing", "create", "list", "revoke"},
                            key : Keys \cup {NoKey}, role : Roles \cup {""}]]
  /\ stage \in [Commands -> {"off", "ready", "ended"}]
  /\ report \in
       [Commands -> [says : {"nothing", "created", "listed", "revoked", "not found", "failed"},
                     rows : SUBSET (Keys \X {"active", "revoked"})]]
  /\ found \in [Commands -> [Keys -> {"absent", "active", "revoked"}]]
  /\ clock \in 0..MaxTime
  /\ ts \in [Events -> {Pages!NoTime} \cup 0..MaxTime]
  /\ stored \subseteq {e \in Events : ts[e] # Pages!NoTime}
  /\ request \in [Visits -> Requests \cup {NoRequest}]
  /\ progress \in [Visits -> {"none", "resolving", "fetching", "answered"}]
  /\ status \in [Visits -> {0, 200, 400, 401, 403, 404, 500}]
  /\ page \in [Visits -> SUBSET stored]
  /\ \A v \in Visits : Cardinality(page[v]) <= MaxEventLimit
  /\ fetched \in Seq(Visits) /\ IsInjective(fetched)
  /\ barred \in [Visits -> SUBSET Keys]

(***************************************************************************)
(* What commands print is true, and one revocation is reported once, for   *)
(* any interleaving with other commands (KeyCommands).                     *)
(***************************************************************************)
ReportsAreTrue == Shell!ReportsAreTrue
OneRevocationReported == Shell!OneRevocationReported

(***************************************************************************)
(* The dashboard lets only admins through who came before their key was    *)
(* revoked, its pages lose only the oldest events, and it counts what it   *)
(* shows (Dashboard).                                                      *)
(***************************************************************************)
OnlyAdminsGetThrough == Pages!OnlyAdminsGetThrough
PagesOnlyLoseOldest == Pages!PagesOnlyLoseOldest
EveryEventIsCounted == Pages!EveryEventIsCounted

(***************************************************************************)
(* The reasons for these: the state is well formed, what commands know of  *)
(* the table stays so, and each visit is explained by the tables as they   *)
(* were.  Inductive together, and each only beside the others.             *)
(***************************************************************************)
CommandInv == Shell!CommandInv
VisitInv == Pages!VisitInv
ConsoleInv == TypeOK /\ CommandInv /\ VisitInv

(***************************************************************************)
(* A client that gives the gateway what it gave the dashboard is known by  *)
(* the same key, alone or mixed with any other credentials: Go's order of  *)
(* a map never brings up a key that was not presented (Credentials).       *)
(***************************************************************************)
SameKeyForBoth ==
  \A v \in Visits : request[v] # NoRequest =>
    [authorization |-> request[v].authorization, apiKey |-> request[v].apiKey,
     query |-> request[v].query] \notin Misread
=============================================================================
