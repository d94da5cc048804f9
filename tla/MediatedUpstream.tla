-------------------------- MODULE MediatedUpstream --------------------------
(***************************************************************************)
(* What the gateway promises to whoever runs the upstream, without saying  *)
(* how: no stages, no processes, no counters and no audit.                 *)
(*                                                                         *)
(* A client asks once, with a key, for a tool, and is judged by one        *)
(* policy.  The call may be sent if the key was not revoked when it was    *)
(* asked for, if the policy lets the key's role call the tool, and if      *)
(* fewer calls than the limits were sent for this key.  It is sent at most *)
(* once and runs at most once, and nothing else ever runs.                 *)
(***************************************************************************)
EXTENDS Integers, FiniteSets

CONSTANTS Requests, Keys, NoKey, Tools, RoleOf, Policies, KeyLimit, ToolLimit

VARIABLES
  keys,  \* keys[k]: "absent", "active" or "revoked"
  asked, \* what clients asked for
  sent,  \* the calls among it that the upstream was sent
  done   \* those it has run

vars == <<keys, asked, sent, done>>

Init ==
  /\ keys = [k \in Keys |-> "absent"]
  /\ asked = {}
  /\ sent = {}
  /\ done = {}

CreateAPIKey(k) ==
  /\ keys[k] = "absent"
  /\ keys' = [keys EXCEPT ![k] = "active"]
  /\ UNCHANGED <<asked, sent, done>>

RevokeAPIKey(k) ==
  /\ keys[k] = "active"
  /\ keys' = [keys EXCEPT ![k] = "revoked"]
  /\ UNCHANGED <<asked, sent, done>>

\* The call remembers which keys were revoked when it was asked for.
Ask(r, k, t, p) ==
  /\ \A a \in asked : a.request # r
  /\ asked' = asked \cup
       {[request |-> r, key |-> k, tool |-> t, policy |-> p,
         revoked |-> {q \in Keys : keys[q] = "revoked"}]}
  /\ UNCHANGED <<keys, sent, done>>

Entitled(c) ==
  /\ c.key \in Keys
  /\ keys[c.key] # "absent"
  /\ c.key \notin c.revoked
  /\ <<RoleOf[c.key], c.tool>> \in c.policy

SentLike(c) == {a \in sent : a.key = c.key}

Send(c) ==
  /\ c \in asked \ sent
  /\ Entitled(c)
  /\ Cardinality(SentLike(c)) < KeyLimit
  /\ Cardinality({a \in SentLike(c) : a.tool = c.tool}) < ToolLimit
  /\ sent' = sent \cup {c}
  /\ UNCHANGED <<keys, asked, done>>

Execute(c) ==
  /\ c \in sent \ done
  /\ done' = done \cup {c}
  /\ UNCHANGED <<keys, asked, sent>>

Next ==
  \/ \E k \in Keys : CreateAPIKey(k) \/ RevokeAPIKey(k)
  \/ \E c \in asked : Send(c) \/ Execute(c)
  \/ \E r \in Requests, k \in Keys \cup {NoKey}, t \in Tools, p \in Policies :
       Ask(r, k, t, p)

Spec == Init /\ [][Next]_vars
=============================================================================
