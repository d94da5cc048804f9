---------------------------- MODULE KeyCommands ----------------------------
(***************************************************************************)
(* The commands bansho keys create, list and revoke (runKeys of main.go)   *)
(* on the table api_keys.  Each command is a process of its own that runs  *)
(* one SQL statement and prints what came of it.  The statement may fail,  *)
(* its result may be lost after it was committed, and the process may be   *)
(* killed before it prints: what the operator knows then is the same.      *)
(***************************************************************************)
EXTENDS Integers, FiniteSets

CONSTANTS
  Commands, \* the processes
  Keys,     \* ids of api_keys, each with the text that was made for it
  NoKey,    \* an id of no row: malformed, or nobody's
  Roles,    \* what --role may say, trimmed; "" is nothing
  Existing  \* the keys in the table at first, with their roles

VARIABLES
  keys,   \* keys[k]: "absent", "active" or "revoked"
  role,   \* role[k]: its role
  todo,   \* todo[c]: what the command is to do
  stage,  \* stage[c]: "off", "ready" or "ended"
  report, \* report[c]: what it printed in the end
  found   \* found[c]: the keys when a listing was started (history)

table == <<keys, role>>
commands == <<todo, stage, report, found>>
vars == <<table, commands>>

NoRow == [do |-> "nothing", key |-> NoKey, role |-> ""]
Says(what) == [says |-> what, rows |-> {}]

DefaultAPIKeyRole == "readonly"
NormalizeRole(flag) == IF flag = "" THEN DefaultAPIKeyRole ELSE flag

Init ==
  /\ keys = [k \in Keys |-> IF k \in DOMAIN Existing THEN "active" ELSE "absent"]
  /\ role = [k \in Keys |-> IF k \in DOMAIN Existing THEN Existing[k] ELSE ""]
  /\ todo = [c \in Commands |-> NoRow]
  /\ stage = [c \in Commands |-> "off"]
  /\ report = [c \in Commands |-> Says("nothing")]
  /\ found = [c \in Commands |-> keys]

Start(c, what) ==
  /\ stage[c] = "off"
  /\ stage' = [stage EXCEPT ![c] = "ready"]
  /\ todo' = [todo EXCEPT ![c] = what]
  /\ UNCHANGED <<table, report>>

\* The id and the text of the key are random: nobody has used them before.
StartCreate(c) ==
  \E k \in Keys, r \in Roles :
    /\ keys[k] = "absent"
    /\ \A d \in Commands : todo[d].key # k
    /\ Start(c, [do |-> "create", key |-> k, role |-> r])
    /\ UNCHANGED found

StartList(c) ==
  /\ Start(c, [do |-> "list", key |-> NoKey, role |-> ""])
  /\ found' = [found EXCEPT ![c] = keys]

StartRevoke(c) ==
  \E k \in {q \in Keys : keys[q] # "absent"} \cup {NoKey} :
    /\ Start(c, [do |-> "revoke", key |-> k, role |-> ""])
    /\ UNCHANGED found

End(c, what) ==
  /\ stage[c] = "ready"
  /\ stage' = [stage EXCEPT ![c] = "ended"]
  /\ report' = [report EXCEPT ![c] = what]
  /\ UNCHANGED <<todo, found>>

\* The statement is committed; its result is printed, or lost on the way.
Executed(c, what) == End(c, what) \/ End(c, Says("failed"))

CreateAPIKey(c) ==
  /\ todo[c].do = "create"
  /\ Executed(c, Says("created"))
  /\ keys' = [keys EXCEPT ![todo[c].key] = "active"]
  /\ role' = [role EXCEPT ![todo[c].key] = NormalizeRole(todo[c].role)]

\* Mutant of ListAPIKeys: WHERE revoked_at IS NULL.
ListActiveKeys(c) ==
  /\ todo[c].do = "list"
  /\ Executed(c, [says |-> "listed",
                  rows |-> {<<k, keys[k]>> : k \in {q \in Keys : keys[q] = "active"}}])
  /\ UNCHANGED table

\* All keys, as one snapshot, with whether they are revoked.
ListAPIKeys(c) ==
  /\ todo[c].do = "list"
  /\ Executed(c, [says |-> "listed",
                  rows |-> {<<k, keys[k]>> : k \in {q \in Keys : keys[q] # "absent"}}])
  /\ UNCHANGED table

\* Mutant of RevokeAPIKey: without AND revoked_at IS NULL.
RevokeAgain(c) ==
  /\ todo[c].do = "revoke"
  /\ LET rows == {k \in Keys : k = todo[c].key /\ keys[k] # "absent"}
     IN  /\ Executed(c, Says(IF rows # {} THEN "revoked" ELSE "not found"))
         /\ keys' = [k \in Keys |-> IF k \in rows THEN "revoked" ELSE keys[k]]
         /\ UNCHANGED role

\* Only the update that finds the key active counts as having revoked it.
RevokeAPIKey(c) ==
  /\ todo[c].do = "revoke"
  /\ LET rows == {k \in Keys : k = todo[c].key /\ keys[k] = "active"}
     IN  /\ Executed(c, Says(IF rows # {} THEN "revoked" ELSE "not found"))
         /\ keys' = [k \in Keys |-> IF k \in rows THEN "revoked" ELSE keys[k]]
         /\ UNCHANGED role

\* The statement has no effect.
Fail(c) ==
  /\ End(c, Says("failed"))
  /\ UNCHANGED table

Next ==
  \E c \in Commands :
    \/ StartCreate(c) \/ StartList(c) \/ StartRevoke(c)
    \/ CreateAPIKey(c) \/ ListAPIKeys(c) \/ RevokeAPIKey(c)
    \/ Fail(c)

Spec == Init /\ [][Next]_vars

-----------------------------------------------------------------------------
(***************************************************************************)
(* What the operator may rely on.                                          *)
(***************************************************************************)
Reported(what) == {c \in Commands : stage[c] = "ended" /\ report[c].says = what}

(***************************************************************************)
(* What a command printed is so, whatever other commands do meanwhile: a   *)
(* key reported as created exists, a key reported as revoked or not found  *)
(* opens nothing any more, and a listing shows every key there was when    *)
(* it was asked for - those whose creation was reported as failed          *)
(* included, so that they can be revoked - and none as revoked too early,  *)
(* or as good too late.                                                    *)
(***************************************************************************)
ReportsAreTrue ==
  /\ \A c \in Reported("created") : keys[todo[c].key] # "absent"
  /\ \A c \in Reported("revoked") \cup Reported("not found") :
       todo[c].key # NoKey => keys[todo[c].key] = "revoked"
  /\ \A c \in Reported("listed"), k \in Keys :
       LET shown == {s \in {"active", "revoked"} : <<k, s>> \in report[c].rows}
       IN  /\ Cardinality(shown) <= 1
           /\ found[c][k] # "absent" => shown # {}
           /\ found[c][k] = "revoked" => shown = {"revoked"}
           /\ shown = {"revoked"} => keys[k] = "revoked"

(***************************************************************************)
(* Of several operators who revoke one key at once, at most one is told    *)
(* that he did it: RevokeAPIKey reports the rows its update affected.      *)
(***************************************************************************)
OneRevocationReported ==
  \A c, d \in Reported("revoked") : todo[c].key = todo[d].key => c = d

(***************************************************************************)
(* Why reports stay true.  The key a command is to create is not there and *)
(* no other command has its id, so creating it undoes no revocation; a key *)
(* that a command is to revoke was there when its id was given and keys    *)
(* never go away; and since a listing was asked for the table has only     *)
(* grown, and keys have only been revoked.  This is inductive.             *)
(***************************************************************************)
CommandInv ==
  /\ \A c \in Commands : stage[c] = "ready" /\ todo[c].do = "create" =>
       /\ todo[c].key \in Keys
       /\ keys[todo[c].key] = "absent"
       /\ \A d \in Commands \ {c} : todo[d].key # todo[c].key
  /\ \A c \in Commands : todo[c].do = "revoke" /\ todo[c].key # NoKey =>
       keys[todo[c].key] # "absent"
  /\ \A c \in Commands : stage[c] = "ready" /\ todo[c].do = "list" =>
       \A k \in Keys : /\ found[c][k] # "absent" => keys[k] # "absent"
                       /\ found[c][k] = "revoked" => keys[k] = "revoked"
  /\ \A c \in Reported("created") : todo[c].key \in Keys
  /\ ReportsAreTrue
  /\ OneRevocationReported
=============================================================================
