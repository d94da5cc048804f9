------------------------------ MODULE Gateway ------------------------------
(***************************************************************************)
(* The request pipeline of internal/proxy/server.go, with the stores it    *)
(* works on: any number of gateway processes, each serving one client over *)
(* stdio and many requests of it at a time, share the keys and the audit   *)
(* table in Postgres and the counters in Redis, and send what they let     *)
(* through to an upstream MCP server.                                      *)
(*                                                                         *)
(* Between any two steps of a request other requests run, keys are created *)
(* and revoked, and processes crash and come back with another policy.     *)
(* Every call to a store or to the upstream may fail; the cancellation of  *)
(* a request by its client is one more reason for such a failure.          *)
(*                                                                         *)
(* A behaviour covers one window of time: the counters are WindowCounters  *)
(* with a single window and nothing forgotten.  What happens when windows  *)
(* follow each other is RateLimiter's subject.  Policies are taken after   *)
(* loading: which role may call which tool, which Policy derives from the  *)
(* file.                                                                   *)
(***************************************************************************)
EXTENDS Integers, FiniteSets

CONSTANTS
  Requests,      \* the requests that clients send
  Gateways,      \* the processes
  Keys,          \* the API keys that will ever be created
  NoKey,         \* nothing presented, or no key that was ever created
  RoleOf,        \* RoleOf[k]: the role in the row of key k
  Tools,         \* the names clients may call
  UpstreamTools, \* those fetchAllTools finds at the upstream
  AllTools,      \* stands in for the tool in the scope of a per-key quota
  Policies,      \* the policies that may be in the file: sets of <<role, tool>>
  KeyLimit,      \* requests per key in the window
  ToolLimit,     \* requests per key and tool in the window
  MaxCharges     \* bound: the charges a counter can take

ASSUME ToolsAssumption == UpstreamTools \subseteq Tools /\ AllTools \notin Tools
ASSUME KeysAssumption == NoKey \notin Keys
ASSUME LimitsAssumption == KeyLimit \in Nat \ {0} /\ ToolLimit \in Nat \ {0}
ASSUME BoundAssumption == MaxCharges \in Nat
ASSUME RequestsAssumption == IsFiniteSet(Requests)

VARIABLES
  running,     \* the gateway processes that are up
  policy,      \* policy[g]: the policy g loaded when it last started
  keys,        \* keys[k]: "absent", "active" or "revoked"
  input,       \* input[r]: what the client sent, and what held when it came
  stage,       \* where request r is in the pipeline
  caller,      \* caller[r]: the key that authenticated it, or NoKey
  status,      \* statusCode of makeToolHandler
  decision,    \* decision[r]: the payload of the three stages
  used,        \* the counters in Redis ...
  admitted,    \* ... and what they let through, as in WindowCounters
  upstream,    \* upstream[r]: "unsent", "sent" or "done" by the upstream
  rows,        \* the audit_events table
  reported,    \* requests whose audit failure went to stderr
  shown        \* shown[r]: the tools a tools/list answer names

counters == <<used, admitted>>
vars == <<running, policy, keys, input, stage, caller, status, decision, used,
          admitted, upstream, rows, reported, shown>>

\* "relayed" stands for resources/* and prompts/*.
Methods == {"tools/call", "tools/list", "relayed"}
Kinds == {"key", "tool"}
KeyStates == {"absent", "active", "revoked"}
Stages == {"unsent", "received", "verifying", "authorizing", "listing",
           "key_rate", "tool_rate", "forwarding", "calling", "relaying",
           "auditing", "answering", "answered", "lost"}

\* The outcome of a stage in the decision payload.
Outcomes == {"not_evaluated", "denied", "allowed"}
Decision == [auth : Outcomes, authz : Outcomes, rate : Outcomes]
\* Mutant of NothingDecided: the payload starts without the rate-limit stage.
NothingDecidedOfRate == [auth |-> "not_evaluated", authz |-> "not_evaluated"]

NothingDecided ==
  [auth |-> "not_evaluated", authz |-> "not_evaluated", rate |-> "not_evaluated"]

Scopes == Keys \X (Tools \cup {AllTools})
ScopeOf(r, k) ==
  <<caller[r], IF k = "key" THEN AllTools ELSE input[r].tool>>

Counters == INSTANCE WindowCounters WITH
  Clients <- Requests \X Kinds,
  Windows <- {"now"},
  Limit   <- [s \in Scopes |-> IF s[2] = AllTools THEN KeyLimit ELSE ToolLimit]

InFlight(r) == stage[r] \notin {"unsent", "answered", "lost"}

-----------------------------------------------------------------------------
(***************************************************************************)
(* Processes and keys.                                                     *)
(***************************************************************************)
\* Mutant of Start: a process takes up what it was doing when it died.
StartAndResume(g, p) ==
  /\ g \notin running
  /\ running' = running \cup {g}
  /\ policy' = [policy EXCEPT ![g] = p]
  /\ stage' = [r \in Requests |->
                 IF stage[r] = "lost" /\ input[r].host = g
                 THEN "received" ELSE stage[r]]
  /\ UNCHANGED <<keys, input, caller, status, decision, counters, upstream,
                 rows, reported, shown>>

\* RunStdioGateway.  The file may have been edited since the last start.
Start(g, p) ==
  /\ g \notin running
  /\ running' = running \cup {g}
  /\ policy' = [policy EXCEPT ![g] = p]
  /\ UNCHANGED <<keys, input, stage, caller, status, decision, counters,
                 upstream, rows, reported, shown>>

\* What the process was doing is gone; what it sent is not.
Crash(g) ==
  /\ g \in running
  /\ running' = running \ {g}
  /\ stage' = [r \in Requests |->
                 IF InFlight(r) /\ input[r].host = g THEN "lost" ELSE stage[r]]
  /\ UNCHANGED <<policy, keys, input, caller, status, decision, counters,
                 upstream, rows, reported, shown>>

CreateAPIKey(k) ==
  /\ keys[k] = "absent"
  /\ keys' = [keys EXCEPT ![k] = "active"]
  /\ UNCHANGED <<running, policy, input, stage, caller, status, decision,
                 counters, upstream, rows, reported, shown>>

RevokeAPIKey(k) ==
  /\ keys[k] = "active"
  /\ keys' = [keys EXCEPT ![k] = "revoked"]
  /\ UNCHANGED <<running, policy, input, stage, caller, status, decision,
                 counters, upstream, rows, reported, shown>>

-----------------------------------------------------------------------------
(***************************************************************************)
(* The middleware.                                                         *)
(***************************************************************************)
MoveTo(r, s) == stage' = [stage EXCEPT ![r] = s]

Receive(r, g, m, k, t) ==
  /\ stage[r] = "unsent"
  /\ g \in running
  /\ input' = [input EXCEPT ![r] =
                 [host |-> g, method |-> m, key |-> k, tool |-> t,
                  policy |-> policy[g],
                  revoked |-> {j \in Keys : keys[j] = "revoked"}]]
  /\ MoveTo(r, "received")
  /\ UNCHANGED <<running, policy, keys, caller, status, decision, counters,
                 upstream, rows, reported, shown>>

\* Only the upstream's tools have a handler.  The SDK answers for any other
\* name by itself, and nothing of makeToolHandler runs.
AnswerUnknownTool(r) ==
  /\ stage[r] = "received"
  /\ input[r].method = "tools/call"
  /\ input[r].tool \notin UpstreamTools
  /\ MoveTo(r, "answered")
  /\ UNCHANGED <<running, policy, keys, input, caller, status, decision,
                 counters, upstream, rows, reported, shown>>

\* These go to the upstream as they are, for anybody.
Relay(r) ==
  /\ stage[r] = "received"
  /\ input[r].method = "relayed"
  /\ upstream' = [upstream EXCEPT ![r] = "sent"]
  /\ MoveTo(r, "relaying")
  /\ UNCHANGED <<running, policy, keys, input, caller, status, decision,
                 counters, rows, reported, shown>>

\* Its result, or the error of the session, is the answer.
AnswerRelayed(r) ==
  /\ stage[r] = "relaying"
  /\ MoveTo(r, "answered")
  /\ UNCHANGED <<running, policy, keys, input, caller, status, decision,
                 counters, upstream, rows, reported, shown>>

-----------------------------------------------------------------------------
(***************************************************************************)
(* The stages.  Conclude(r, code) sets statusCode and returns from the     *)
(* handler, whose deferred function then writes the audit event.           *)
(***************************************************************************)
Conclude(r, code) ==
  /\ status' = [status EXCEPT ![r] = code]
  /\ MoveTo(r, "auditing")

Decide(r, which, outcome) ==
  decision' = [decision EXCEPT ![r][which] = outcome]

NeedsKey(r) ==
  /\ stage[r] = "received"
  /\ input[r].method # "relayed"
  /\ input[r].method = "tools/call" => input[r].tool \in UpstreamTools

\* Mutant of QueryKeys: the query does not leave out revoked keys.
QueryAllKeys(r) ==
  /\ NeedsKey(r)
  /\ caller' = [caller EXCEPT ![r] =
                  IF input[r].key \in Keys /\ keys[input[r].key] # "absent"
                  THEN input[r].key ELSE NoKey]
  /\ MoveTo(r, "verifying")
  /\ UNCHANGED <<running, policy, keys, input, status, decision, counters,
                 upstream, rows, reported, shown>>

\* ResolveAPIKey's query: the keys that are not revoked at this moment.  The
\* hashes are compared afterwards.
QueryKeys(r) ==
  /\ NeedsKey(r)
  /\ caller' = [caller EXCEPT ![r] =
                  IF input[r].key \in Keys /\ keys[input[r].key] = "active"
                  THEN input[r].key ELSE NoKey]
  /\ MoveTo(r, "verifying")
  /\ UNCHANGED <<running, policy, keys, input, status, decision, counters,
                 upstream, rows, reported, shown>>

\* Mutants of Unauthorized: the matched row is kept when the query fails
\* after it; an unknown key is not answered once the hashes were compared.
UnauthorizedWithKey(r) ==
  /\ NeedsKey(r) \/ stage[r] = "verifying"
  /\ IF input[r].method = "tools/list"
     THEN /\ MoveTo(r, "answered")
          /\ UNCHANGED <<status, decision>>
     ELSE /\ Conclude(r, 401)
          /\ Decide(r, "auth", "denied")
  /\ UNCHANGED <<running, policy, keys, input, caller, counters, upstream,
                 rows, reported, shown>>

UnauthorizedBeforeQuery(r) ==
  /\ NeedsKey(r)
  /\ IF input[r].method = "tools/list"
     THEN /\ MoveTo(r, "answered")
          /\ UNCHANGED <<status, decision>>
     ELSE /\ Conclude(r, 401)
          /\ Decide(r, "auth", "denied")
  /\ UNCHANGED <<running, policy, keys, input, caller, counters, upstream,
                 rows, reported, shown>>

\* No key, no such key, or an error of Postgres, which may come after the
\* matching row: 401.  A tools/list request has no audit event and is answered
\* at once.
Unauthorized(r) ==
  /\ NeedsKey(r) \/ stage[r] = "verifying"
  /\ caller' = [caller EXCEPT ![r] = NoKey]
  /\ IF input[r].method = "tools/list"
     THEN /\ MoveTo(r, "answered")
          /\ UNCHANGED <<status, decision>>
     ELSE /\ Conclude(r, 401)
          /\ Decide(r, "auth", "denied")
  /\ UNCHANGED <<running, policy, keys, input, counters, upstream, rows,
                 reported, shown>>

Authenticated(r) ==
  /\ stage[r] = "verifying"
  /\ caller[r] # NoKey
  /\ IF input[r].method = "tools/list"
     THEN /\ MoveTo(r, "listing")
          /\ UNCHANGED decision
     ELSE /\ MoveTo(r, "authorizing")
          /\ Decide(r, "auth", "allowed")
  /\ UNCHANGED <<running, policy, keys, input, caller, status, counters,
                 upstream, rows, reported, shown>>

MayCall(r, t) == <<RoleOf[caller[r]], t>> \in policy[input[r].host]

\* Mutant of AnswerList: the SDK's table is shown as it is.
AnswerWholeList(r) ==
  /\ stage[r] = "listing"
  /\ shown' = [shown EXCEPT ![r] = UpstreamTools]
  /\ MoveTo(r, "answered")
  /\ UNCHANGED <<running, policy, keys, input, caller, status, decision,
                 counters, upstream, rows, reported>>

\* tools/list: the tools of the SDK's table that the caller's role may call.
AnswerList(r) ==
  /\ stage[r] = "listing"
  /\ shown' = [shown EXCEPT ![r] = {t \in UpstreamTools : MayCall(r, t)}]
  /\ MoveTo(r, "answered")
  /\ UNCHANGED <<running, policy, keys, input, caller, status, decision,
                 counters, upstream, rows, reported>>

\* The SDK's own answer to the request is an error (a bad cursor).
ListFails(r) ==
  /\ stage[r] = "listing"
  /\ MoveTo(r, "answered")
  /\ UNCHANGED <<running, policy, keys, input, caller, status, decision,
                 counters, upstream, rows, reported, shown>>

Authorize(r) ==
  /\ stage[r] = "authorizing"
  /\ IF MayCall(r, input[r].tool)
     THEN /\ Decide(r, "authz", "allowed")
          /\ MoveTo(r, "key_rate")
          /\ UNCHANGED status
     ELSE /\ Decide(r, "authz", "denied")
          /\ Conclude(r, 403)
  /\ UNCHANGED <<running, policy, keys, input, caller, counters, upstream,
                 rows, reported, shown>>

RateStage(k) == IF k = "key" THEN "key_rate" ELSE "tool_rate"

\* enforceRateLimit: the per-key counter, then the per-tool counter.  A call
\* refused by the second has been charged to both.
CheckRate(r, k) ==
  LET s == ScopeOf(r, k)
  IN  /\ stage[r] = RateStage(k)
      /\ Counters!Charge(<<r, k>>, s, "now")
      /\ IF Counters!HasRoom(s, "now")
         THEN /\ MoveTo(r, IF k = "key" THEN "tool_rate" ELSE "forwarding")
              /\ IF k = "tool" THEN Decide(r, "rate", "allowed")
                               ELSE UNCHANGED decision
              /\ UNCHANGED status
         ELSE /\ Decide(r, "rate", "denied")
              /\ Conclude(r, 429)
      /\ UNCHANGED <<running, policy, keys, input, caller, upstream, rows,
                     reported, shown>>

\* The counter is charged but the reply is lost; the client may try again.
LoseRateReply(r, k) ==
  /\ stage[r] = RateStage(k)
  /\ Counters!ChargeUnseen(ScopeOf(r, k), "now")
  /\ UNCHANGED <<running, policy, keys, input, stage, caller, status, decision,
                 upstream, rows, reported, shown>>

\* Mutant of RateError: a call goes on when the limiter cannot be asked.
RateErrorPasses(r, k) ==
  /\ stage[r] = RateStage(k)
  /\ Decide(r, "rate", "allowed")
  /\ MoveTo(r, "forwarding")
  /\ UNCHANGED <<running, policy, keys, input, caller, status, counters,
                 upstream, rows, reported, shown>>

\* Any error of the limiter is answered with 429.
RateError(r, k) ==
  /\ stage[r] = RateStage(k)
  /\ Decide(r, "rate", "denied")
  /\ Conclude(r, 429)
  /\ UNCHANGED <<running, policy, keys, input, caller, counters, upstream, rows,
                 reported, shown>>

-----------------------------------------------------------------------------
(***************************************************************************)
(* Forwarding, and the upstream.                                           *)
(***************************************************************************)
Forward(r) ==
  /\ stage[r] = "forwarding"
  /\ upstream' = [upstream EXCEPT ![r] = "sent"]
  /\ MoveTo(r, "calling")
  /\ UNCHANGED <<running, policy, keys, input, caller, status, decision,
                 counters, rows, reported, shown>>

\* The upstream runs what it was sent, however late, and even if nobody
\* waits for it any more.
Execute(r) ==
  /\ upstream[r] = "sent"
  /\ upstream' = [upstream EXCEPT ![r] = "done"]
  /\ UNCHANGED <<running, policy, keys, input, stage, caller, status, decision,
                 counters, rows, reported, shown>>

UpstreamAnswers(r) ==
  /\ stage[r] = "calling"
  /\ upstream[r] = "done"
  /\ Conclude(r, 200)
  /\ UNCHANGED <<running, policy, keys, input, caller, decision, counters,
                 upstream, rows, reported, shown>>

\* CallTool returns an error: nothing was sent, or the session broke, or the
\* upstream answered with one, or the client gave up.
UpstreamFails(r) ==
  /\ stage[r] \in {"forwarding", "calling"}
  /\ Conclude(r, 502)
  /\ UNCHANGED <<running, policy, keys, input, caller, decision, counters,
                 upstream, rows, reported, shown>>

-----------------------------------------------------------------------------
(***************************************************************************)
(* The deferred audit, and the answer.                                     *)
(***************************************************************************)
Event(r) ==
  [request |-> r, key |-> caller[r], tool |-> input[r].tool,
   status |-> status[r], decision |-> decision[r]]

\* Mutant of LogEvent: a failed insert goes unreported.
LogEventQuietly(r) ==
  /\ stage[r] = "auditing"
  /\ rows' \in {rows, rows \cup {Event(r)}}
  /\ MoveTo(r, "answering")
  /\ UNCHANGED <<running, policy, keys, input, caller, status, decision,
                 counters, upstream, reported, shown>>

\* LogEvent: the row is inserted or not, and Postgres' acknowledgement comes
\* or not.  Without it the failure is reported on stderr.
LogEvent(r) ==
  /\ stage[r] = "auditing"
  /\ \/ rows' = rows \cup {Event(r)} /\ UNCHANGED reported
     \/ rows' = rows \cup {Event(r)} /\ reported' = reported \cup {r}
     \/ UNCHANGED rows /\ reported' = reported \cup {r}
  /\ MoveTo(r, "answering")
  /\ UNCHANGED <<running, policy, keys, input, caller, status, decision,
                 counters, upstream, shown>>

Answer(r) ==
  /\ stage[r] = "answering"
  /\ MoveTo(r, "answered")
  /\ UNCHANGED <<running, policy, keys, input, caller, status, decision,
                 counters, upstream, rows, reported, shown>>

-----------------------------------------------------------------------------
NoInput ==
  [host |-> "none", method |-> "none", key |-> NoKey, tool |-> "none",
   policy |-> {}, revoked |-> {}]

Init ==
  /\ running = {}
  /\ policy = [g \in Gateways |-> {}]
  /\ keys = [k \in Keys |-> "absent"]
  /\ input = [r \in Requests |-> NoInput]
  /\ stage = [r \in Requests |-> "unsent"]
  /\ caller = [r \in Requests |-> NoKey]
  /\ status = [r \in Requests |-> 500]
  /\ decision = [r \in Requests |-> NothingDecided]
  /\ Counters!Init
  /\ upstream = [r \in Requests |-> "unsent"]
  /\ rows = {}
  /\ reported = {}
  /\ shown = [r \in Requests |-> {}]

\* What the gateway does by itself, or with an answer of a store.
OwnStep(r) ==
  \/ AnswerUnknownTool(r)
  \/ Relay(r)
  \/ QueryKeys(r)
  \/ Unauthorized(r)
  \/ Authenticated(r)
  \/ AnswerList(r)
  \/ Authorize(r)
  \/ \E k \in Kinds : CheckRate(r, k) \/ RateError(r, k)
  \/ Forward(r)
  \/ LogEvent(r)
  \/ Answer(r)

\* What it takes the upstream to get on.
UpstreamStep(r) ==
  \/ Execute(r)
  \/ UpstreamAnswers(r)
  \/ AnswerRelayed(r)

Next ==
  \/ \E g \in Gateways : Crash(g) \/ \E p \in Policies : Start(g, p)
  \/ \E k \in Keys : CreateAPIKey(k) \/ RevokeAPIKey(k)
  \/ \E r \in Requests, g \in Gateways, m \in Methods,
        k \in Keys \cup {NoKey}, t \in Tools : Receive(r, g, m, k, t)
  \/ \E r \in Requests :
       \/ OwnStep(r)
       \/ UpstreamStep(r)
       \/ UpstreamFails(r)
       \/ ListFails(r)
       \/ \E k \in Kinds : LoseRateReply(r, k)

Spec == Init /\ [][Next]_vars

-----------------------------------------------------------------------------
Input ==
  [host : Gateways, method : Methods, key : Keys \cup {NoKey}, tool : Tools,
   policy : Policies, revoked : SUBSET Keys]
Codes == {200, 401, 403, 429, 500, 502}
Events ==
  [request : Requests, key : Keys \cup {NoKey}, tool : Tools, status : Codes,
   decision : Decision]

TypeOK ==
  /\ running \subseteq Gateways
  /\ policy \in [Gateways -> Policies \cup {{}}]
  /\ \A g \in running : policy[g] \in Policies
  /\ keys \in [Keys -> KeyStates]
  /\ stage \in [Requests -> Stages]
  /\ \A r \in Requests : IF stage[r] = "unsent" THEN input[r] = NoInput
                                                ELSE input[r] \in Input
  /\ DOMAIN input = Requests
  /\ caller \in [Requests -> Keys \cup {NoKey}]
  /\ status \in [Requests -> Codes]
  /\ decision \in [Requests -> Decision]
  /\ upstream \in [Requests -> {"unsent", "sent", "done"}]
  /\ rows \subseteq Events
  /\ reported \subseteq Requests
  /\ shown \in [Requests -> SUBSET UpstreamTools]
  /\ Counters!TypeOK

IsCall(r) == stage[r] # "unsent" /\ input[r].method = "tools/call"

(***************************************************************************)
(* Mediation: a tool call reaches the upstream only if the client          *)
(* presented the key it is accounted to, that key was not revoked before   *)
(* the request came, the policy its process was started with lets the      *)
(* key's role call the tool, and both counters admitted it.  Holds after   *)
(* crashes and restarts with another policy, and if the key is revoked     *)
(* while the request is on its way.                                        *)
(***************************************************************************)
WasEntitled(r) ==
  /\ caller[r] \in Keys
  /\ caller[r] = input[r].key
  /\ caller[r] \notin input[r].revoked
  /\ keys[caller[r]] # "absent"
  /\ <<RoleOf[caller[r]], input[r].tool>> \in input[r].policy
  /\ \A k \in Kinds : <<r, k>> \in admitted[<<ScopeOf(r, k), "now">>]

ForwardedWasEntitled ==
  \A r \in Requests : IsCall(r) /\ upstream[r] # "unsent" => WasEntitled(r)

(***************************************************************************)
(* End to end, over all processes together: in one window the upstream is  *)
(* sent at most KeyLimit tool calls of a key, at most ToolLimit of them    *)
(* for any one tool.                                                       *)
(***************************************************************************)
Forwarded(k) ==
  {r \in Requests : IsCall(r) /\ upstream[r] # "unsent" /\ caller[r] = k}

UpstreamWithinQuota ==
  \A k \in Keys :
    /\ Cardinality(Forwarded(k)) <= KeyLimit
    /\ \A t \in Tools :
         Cardinality({r \in Forwarded(k) : input[r].tool = t}) <= ToolLimit

\* The stages of a row's decision, by its status.
RefusedAt(row) ==
  CASE row.status = 401 -> [auth |-> "denied", authz |-> "not_evaluated",
                            rate |-> "not_evaluated"]
    [] row.status = 403 -> [auth |-> "allowed", authz |-> "denied",
                            rate |-> "not_evaluated"]
    [] row.status = 429 -> [auth |-> "allowed", authz |-> "allowed",
                            rate |-> "denied"]
    [] OTHER            -> [auth |-> "allowed", authz |-> "allowed",
                            rate |-> "allowed"]

\* What a row says of its request is so.
IsTrue(row) ==
  /\ row.status \in {200, 401, 403, 429, 502}
  /\ row.decision = RefusedAt(row)
  /\ row.status \in {401, 403, 429} => upstream[row.request] = "unsent"
  /\ row.status = 200 => upstream[row.request] = "done"
  /\ IF row.status = 401 THEN row.key = NoKey
     ELSE /\ row.key \in Keys
          /\ row.key = input[row.request].key
          /\ keys[row.key] # "absent"

(***************************************************************************)
(* What the audit table says happened did happen: a call it shows as       *)
(* refused never runs, not even later; one it shows as answered did run;   *)
(* the stages of the decision stop at the one that refused; the key is one *)
(* that exists (audit_events.api_key_id is a foreign key) and was shown by *)
(* the client.                                                             *)
(***************************************************************************)
AuditIsTruthful == \A row \in rows : IsTrue(row)

(***************************************************************************)
(* Of every tool call that a handler answered there is exactly one row, or *)
(* a report on stderr that there may be none; and the client was told the  *)
(* status in the row.                                                      *)
(***************************************************************************)
AnsweredIsAuditedOrReported ==
  \A r \in Requests :
    LET mine == {row \in rows : row.request = r}
    IN  IsCall(r) /\ input[r].tool \in UpstreamTools /\ stage[r] = "answered" =>
          /\ mine = {} => r \in reported
          /\ \A row \in mine : mine = {row} /\ row.status = status[r]

(***************************************************************************)
(* The SDK's table holds every tool of the upstream, but a client is only  *)
(* shown those its own key may call, and none for a key that was revoked   *)
(* before it asked.                                                        *)
(***************************************************************************)
ShowsCallable(r) ==
  /\ input[r].key \in input[r].revoked \cup {NoKey} => shown[r] = {}
  /\ \A t \in shown[r] : <<RoleOf[input[r].key], t>> \in input[r].policy

ShownIsCallable == \A r \in Requests : ShowsCallable(r)

(***************************************************************************)
(* A process that died does nothing more for its requests: only what was   *)
(* already sent can still run, and no restart picks a request up again.    *)
(***************************************************************************)
LostStaysLost ==
  [][\A r \in Requests :
       stage[r] = "lost" =>
         /\ stage'[r] = "lost"
         /\ upstream[r] = "unsent" => upstream'[r] = "unsent"
         /\ \A row \in rows' \ rows : row.request # r]_vars

-----------------------------------------------------------------------------
(***************************************************************************)
(* Refinement: seen from the upstream, the pipeline is MediatedUpstream.   *)
(* What a client asks for is fixed when its request comes, whatever it     *)
(* takes to look it up; a tool call is sent when Forward sends it.  Every  *)
(* other step, crashes and lost replies included, changes nothing of it.   *)
(***************************************************************************)
CallOf(r) ==
  [request |-> r, key |-> input[r].key, tool |-> input[r].tool,
   policy |-> input[r].policy, revoked |-> input[r].revoked]
CallsWith(states) ==
  {CallOf(r) : r \in {q \in Requests : IsCall(q) /\ upstream[q] \in states}}

Promise == INSTANCE MediatedUpstream WITH
  asked <- CallsWith({"unsent", "sent", "done"}),
  sent  <- CallsWith({"sent", "done"}),
  done  <- CallsWith({"done"})

ImplementsPromise == Promise!Spec

\* What the operator may do to the keys meanwhile.
KeyRows == INSTANCE KeyTable

-----------------------------------------------------------------------------
(***************************************************************************)
(* Why mediation holds: a request is in a stage only if it passed those    *)
(* before it, and what it passed them with stays as it was.                *)
(***************************************************************************)
\* Keys do not come back, and a process keeps its policy.
RevokedStays ==
  \A r \in Requests :
    stage[r] # "unsent" => \A k \in input[r].revoked : keys[k] = "revoked"

PolicyStays ==
  \A r \in Requests :
    InFlight(r) => /\ input[r].host \in running
                   /\ policy[input[r].host] = input[r].policy

\* Whoever is the caller of a request was presented with it.
IsGenuine(r) ==
  /\ stage[r] # "unsent"
  /\ caller[r] \in Keys
  /\ caller[r] = input[r].key
  /\ caller[r] \notin input[r].revoked
  /\ keys[caller[r]] # "absent"

CallersAreGenuine == \A r \in Requests : caller[r] # NoKey => IsGenuine(r)

MayUse(r) == <<RoleOf[caller[r]], input[r].tool>> \in input[r].policy
AdmittedBy(r, k) == <<r, k>> \in admitted[<<ScopeOf(r, k), "now">>]

Checking == {"authorizing", "key_rate", "tool_rate", "forwarding"}
IsEarned(r) ==
  /\ stage[r] \in Checking \cup {"calling", "listing"} => caller[r] # NoKey
  /\ stage[r] \in Checking \cup {"calling"} => input[r].method = "tools/call"
  /\ stage[r] = "verifying" => input[r].method # "relayed"
  /\ stage[r] \in {"key_rate", "tool_rate", "forwarding", "calling"} => MayUse(r)
  /\ stage[r] \in {"tool_rate", "forwarding", "calling"} => AdmittedBy(r, "key")
  /\ stage[r] \in {"forwarding", "calling"} => AdmittedBy(r, "tool")
  /\ stage[r] \in Checking \cup {"unsent", "received", "verifying"}
       => upstream[r] = "unsent" /\ shown[r] = {}

StagesAreEarned == \A r \in Requests : IsEarned(r)

MediationInv ==
  /\ TypeOK
  /\ RevokedStays
  /\ PolicyStays
  /\ CallersAreGenuine
  /\ StagesAreEarned
  /\ ForwardedWasEntitled
  /\ ShownIsCallable

(***************************************************************************)
(* Why the audit is truthful and complete: the decision says which stages  *)
(* a request has passed, its handler concludes once, and what the row was  *)
(* made of does not change any more.                                       *)
(***************************************************************************)
DecisionFits(r) ==
  /\ stage[r] \in {"unsent", "received", "verifying"} => decision[r] = NothingDecided
  /\ stage[r] = "authorizing" =>
       decision[r] = [NothingDecided EXCEPT !.auth = "allowed"]
  /\ stage[r] \in {"key_rate", "tool_rate"} =>
       decision[r] = [auth |-> "allowed", authz |-> "allowed", rate |-> "not_evaluated"]
  /\ stage[r] \in {"forwarding", "calling"} =>
       decision[r] = [auth |-> "allowed", authz |-> "allowed", rate |-> "allowed"]

\* Only a tool call has an event.
MethodFits(r) ==
  /\ stage[r] = "listing" => input[r].method = "tools/list"
  /\ stage[r] = "relaying" => input[r].method = "relayed"
  /\ stage[r] \in {"auditing", "answering"} => IsCall(r) /\ IsTrue(Event(r))

HasRow(r) == \E row \in rows : row.request = r

RowsFit(r) ==
  /\ HasRow(r) => stage[r] \in {"answering", "answered", "lost"}
  /\ \A row \in rows : row.request = r => row = Event(r) /\ IsTrue(row)
  /\ \/ stage[r] = "answering"
     \/ stage[r] = "answered" /\ IsCall(r) /\ input[r].tool \in UpstreamTools
     => HasRow(r) \/ r \in reported

AuditInv == \A r \in Requests : DecisionFits(r) /\ MethodFits(r) /\ RowsFit(r)

(***************************************************************************)
(* README.md:29-33 draws the audit before the forwarding.  Does not hold:  *)
(* the event is logged when the handler returns.                           *)
(***************************************************************************)
AuditedBeforeForwarded ==
  \A r \in Requests :
    IsCall(r) /\ upstream[r] # "unsent" => \E row \in rows : row.request = r

(***************************************************************************)
(* README.md:468: an event for every call regardless of outcome.  Does not *)
(* hold: the SDK answers a call of an unknown tool itself.                 *)
(***************************************************************************)
EveryCallAudited ==
  \A r \in Requests :
    IsCall(r) /\ stage[r] = "answered" =>
      r \in reported \/ \E row \in rows : row.request = r

(***************************************************************************)
(* Fairness.  Go runs the goroutine of a request, and a call to Postgres   *)
(* or Redis returns, with an error if need be.  CallTool has no timeout:   *)
(* that the upstream runs what it is sent and that its answer arrives is   *)
(* an assumption about the upstream, not about the gateway.  Nothing is    *)
(* assumed of clients, crashes, restarts, failures or lost replies.        *)
(***************************************************************************)
FairSpec ==
  /\ Spec
  /\ \A r \in Requests : WF_vars(OwnStep(r)) /\ WF_vars(UpstreamStep(r))

(***************************************************************************)
(* Every request that comes is answered, unless its process dies: no stage *)
(* of the pipeline waits for something only another request could do, and  *)
(* no failure of a store leaves a request without an answer.               *)
(***************************************************************************)
EveryRequestSettles ==
  \A r \in Requests : stage[r] = "received" ~> stage[r] \in {"answered", "lost"}
=============================================================================
