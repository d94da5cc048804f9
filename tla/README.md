# bansho in TLA+

bansho is a gateway that stands between MCP clients and an MCP server. It
authenticates every request by an API key, lets a policy decide which tools the
key's role may see and call, counts calls against quotas, forwards what is left,
and records what happened. These modules model that program, TLC checks them on
small instances, and TLAPS proves the theorems listed below for every value of
the constants.

## The system

| Component | Source | State | Operations |
|---|---|---|---|
| request pipeline | `internal/proxy/server.go` | per request: status code, decision payload, caller; per process: policy, tool table, upstream session | the middleware for `tools/list`, `resources/*`, `prompts/*`; the handler of `tools/call` |
| rate limiter | `internal/ratelimit/limiter.go`, `internal/storage/redis.go` | counters in Redis, each with a time to live | `CheckAPIKeyLimit`, `CheckToolLimit` |
| policy | `internal/policy` | the policy in force, loaded once | `LoadPolicy`, `IsToolAllowed`, `ForRole`, `ForTool` |
| API keys | `internal/auth/api_keys.go` | table `api_keys` | create, list, revoke, resolve |
| key hashing | `internal/auth/hash.go` | none | hash, verify |
| audit payloads | `internal/audit/models.go` | none | redact and bound request, response and decision |
| audit log | `internal/audit/logger.go`, `internal/storage/schema.go` | table `audit_events` | insert an event, read recent events |
| upstream session | `internal/proxy/upstream.go` | one client session per process | connect, call, close |
| dashboard | `internal/ui/dashboard.go` | none of its own | authenticate, check for an admin, query, render |
| store connections | `internal/storage/postgres.go`, `redis.go` | one pool and one client per process, behind mutexes | get, replace, close |
| configuration, command line | `internal/config`, `cmd/bansho` | none | read the environment, dispatch |
| demo programs | `cmd/demo-*`, `cmd/vulnerable-server` | none | demonstration only |

How they interact. A `bansho serve` process speaks to one client over stdio. The
MCP SDK runs each request in a goroutine of its own, so requests interleave
within a process as they do between processes. All processes, the `keys`
commands and the dashboard share Postgres; all processes share Redis. The policy
and the table of the upstream's tools are read at startup and never again.

What is hard about it:

* **Concurrency.** No lock is held across the stages of a request. What a stage
  found may no longer hold when the next one runs: keys are revoked, windows
  end, counters expire.
* **Failure.** Any call to Postgres, Redis or the upstream may fail, before or
  after it took effect. The Redis client resends a script whose reply was lost.
  A process may die at any point, most unpleasantly between a call reaching the
  upstream and its audit event.
* **Time.** A quota check reads the clock once and uses the reading for the name
  and the time to live of a counter that Redis touches later.
* **Boundaries.** Zero for "left out" in limits, remainder zero at the start of a
  window, wildcards, blanks, depth, width and length of payloads.
* **Order.** Go's maps are walked in any order: overrides, fields of a payload,
  headers.

What makes each part correct: the pipeline lets through only what is entitled and
tells the truth about it; the limiter admits no more than the quota and refuses
nobody for others' calls; a policy grants what its file says; the audit table
agrees with what ran, and holds no unbounded payloads, and no value under a sensitive
name of a payload that has a JSON form; a command reports what is so; the dashboard shows events to admins only, and loses none but
the oldest; a process serves only on a complete database, with a complete table of
its tools.
`PROJECT.json` lists every hazard with the properties that would catch it.

## The modules

```
 WindowCounters            the promise of a quota: no clock, no Redis
   ^ implemented by RateLimiter    the limiter over time
   ^ instantiated by Gateway       the pipeline, within one window
 MediatedUpstream          the promise of the gateway, seen from the upstream
   ^ implemented by Gateway
 KeyTable                  the promise of the table of keys
   ^ implemented by Console, assumed by Gateway
 Policy                    file -> policy -> decisions
 AuditBounds               payload -> what is stored of it
 Credentials               request -> the key it presents
 KeyCommands, Dashboard    bansho keys; bansho dashboard
   ^ composed by Console           both, on one database
 Startup                   how any of the processes comes up
```

`Gateway` does not repeat what the others establish. It takes the counters from
`WindowCounters`, which `RateLimiter` is shown to implement. It takes a policy as
the set of (role, tool) pairs it allows, which `Policy` derives from the file.
The limiter's limits are positive by assumption, which is `Policy`'s theorem
`LimitsArePositiveHolds`. And of those who create and revoke keys it assumes what
`KeyTable` says, which `Console` is shown to implement.

### WindowCounters

`used` and `admitted` give, for each scope (a key, or a key and a tool) and
window, the charges and the admitted requests. `Charge` is a check that gets its
answer, `ChargeUnseen` one whose reply is lost, `Forget` a counter that Redis no
longer has. `QuotaKept` is the promise.

### RateLimiter

`stage` follows a call through `enforceRateLimit`: clock, script, clock, script.
`stamp` is the `time.Now().Unix()` of each check; `redis` is the set of live
counters with count and deadline. `Admit`, `Refuse`, `LoseReply` and `Fail` are
the outcomes of `checkFixedWindowLimit`: the script as one step, its reply
received or not. `Expire` removes a counter whose deadline has come, at any moment
of that second, and `Tick` advances the clock but keeps no counter beyond it.
`servedAt`, `runs` and the `admitted` field are histories that the properties
speak of. All clocks, Redis' included, agree to the second: a skewed clock of a
gateway host is not modelled, nor a Redis that loses live counters (as `Forget`, which
`RateLimiter` uses only for expired ones, would allow).

* `WindowQuota`: of the checks that Redis answers within the window they were
  stamped in, at most the limit is admitted, whatever late checks, resends and
  expiries do in between.
* `CounterLifetime`: the TTL is computed from an old clock reading, and still no
  counter goes before its window is over, nor stays longer than one window.
* `DenialIsEarned`: a refusal needs more script runs than the limit, for the same
  key (and tool), in the same window.
* `ImplementsPromise`: every step is a step of `WindowCounters` or a stutter.

### Policy

The state machine is one `LoadPolicy`: `Load` or `Reject`. The rest is operators,
one for each method of `models.go`, and `Authorize` for `authorize` in
`server.go`. A text is what is left of it after trimming (for a role, also
lower-casing) and whether it was written that way, since nothing else of the
spelling matters. A file may also list tools for a role of "other" name: `Load` does
not look at that list, as `yaml.Unmarshal` has no field for it, and `ForRole` knows
three roles. `NormalizedOverrides` is a set: where two names trim to one, Go's
map order decides. The properties compare the result with a reading of the file
that knows nothing of normalisation (`Grants`, `LimitsAreThoseWritten`), and the
`tools/list` filter with `authorize`.

### Gateway

One variable per thing that outlives a step: `running` and `policy` of the
processes, `keys`, the counters, the `upstream`'s view of each request, the audit
`rows`; and per request `stage`, `caller`, `status` (`statusCode`), `decision`.
`input` records what came with the request and, for the properties, which keys
were revoked and which policy was in force in its process then.

| Action | Code |
|---|---|
| `Start`, `Crash` | `RunStdioGateway`; the end of the process |
| `CreateAPIKey`, `RevokeAPIKey` | the functions of that name |
| `Receive` | a request enters the middleware |
| `AnswerUnknownTool` | the SDK, for a tool without a handler (external) |
| `Relay`, `AnswerRelayed` | `resources/*` and `prompts/*` |
| `QueryKeys` | the `SELECT` of `ResolveAPIKey`; verification follows |
| `Unauthorized`, `Authenticated` | the two outcomes of `authenticate` |
| `AnswerList`, `ListFails` | the rest of `tools/list` |
| `Authorize` | `authorize` and the 403 |
| `CheckRate`, `LoseRateReply`, `RateError` | each of the two checks of `enforceRateLimit` |
| `Forward`, `UpstreamAnswers`, `UpstreamFails` | `CallTool` and its two returns |
| `Execute` | the upstream runs what it was sent (external) |
| `LogEvent`, `Answer` | the deferred function; the answer leaves |

Steps are cut where the code leaves the goroutine: at each call to a store or the
upstream. What happens between two such calls is one step. A behaviour covers one
window of time, so that quotas can be stated end to end; windows following each
other are `RateLimiter`'s subject.

### MediatedUpstream

What `Gateway` promises to whoever runs the upstream, with no stages, processes,
counters or audit: `Ask`, `Send`, `Execute`, and the keys. A call may be sent if its
key was not revoked when it was asked for, if the policy lets its role call the
tool, and if fewer calls than the limits were sent; once, and nothing else runs.
`ImplementsPromise` maps a request of `Gateway` to the call it stands for (`CallOf`)
and checks that every step, crashes, retries and lost replies included, is one of
those steps or a stutter.

### KeyTable

The rows of `api_keys`, seen by whoever only reads them: a key is created once and
revoked once, and a revoked key stays revoked. Failures and lost results, which
`Console` has, are invisible here: a statement took effect or it did not.

### AuditBounds

A payload is a tree of maps, lists, texts and other values; `SanitizedNode` is the
switch of `sanitizeJSONValue`, and `SanitizedMap`, `SanitizedList` and `Bounded` follow
`models.go`. They give sets of outcomes, because a map's fields are visited in any
order: which fields are kept beyond the limit, and which of two names cut to the
same text wins, is open. The request, the response and the decision are each treated
this way. `Level` and `Nodes` say what there is in a payload, and how deep: Go's
recursion over a payload is a recursive function from depths to the outcomes of all
nodes, `Sanitized`, so that it can be reasoned about. A Go value of another type is
`Opaque`, standing for what its JSON is read back as, or `Unmarshalable`, if
`json.Marshal` refuses it (models.go:184-192). That can be: the response of an event
is the `*mcp.CallToolResult` itself (server.go:311), and one with parts the SDK cannot
encode has no JSON. What is stored of it is its Go syntax, cut to the longest text,
with its `StructuredContent` and `Meta` as they are. So `NothingSensitiveStored` says
what redaction does achieve: words under sensitive names stay out of the row, except
those of such values, and one such value gives away nothing of its neighbours. `Tallest` bounds the payloads that
are looked at, not what the code does with them.

### Credentials

`ExtractAPIKey` and `ExtractPresentedAPIKey` are the two functions that look for a
key, one in the metadata of an MCP request, one in an HTTP request. A text is a
scheme and a word, since only the first space and the word "bearer" matter. A map
of the metadata is a set of fields, and merging one gives, for each name, the set
of texts that may end up there: two spellings of one name may overwrite each other
in either order. `Misread` is the set of requests that the two would read
differently. The headers of `RequestExtra` are left out: the gateway is served over
stdio, where there are none.

### KeyCommands

A command is started, runs its one statement, and ends with a report. The
statement's result may be lost after the commit, or the statement fails; both
print a failure. Being killed before printing leaves the operator with as little.

### Dashboard

A visit arrives, resolves its key, then fetches its page: the two queries of
`handleAuthAndQuery`, with the early returns before, between and after. Gateways
`Stamp` an event and insert it later. A page is any choice of the newest matching
rows, since `ORDER BY ts` leaves the order of equals open. The counts and row
marks of `renderDashboardHTML` are operators on the page.

### Console

The commands and the visits together: `KeyCommands` and `Dashboard` instantiated on
the same `keys` and `role`, their steps interleaved.

### Startup

`stage` follows a process through `runServe` and `RunStdioGateway`, `runDashboard` and
`RunDashboard`, or `runKeys`. `db` is what there is of the schema, and each statement
of `EnsureSchema` is one step that needs some parts and makes others. `Fail` is every
early return, `LoseResult` a statement that took effect all the same, `Crash` the end
at any point; a process may be launched again as any kind. `FetchAllTools` reads a
page of what the upstream offers at that moment, and `ChangeTools` changes it in
between. An upstream that is not `orderly` may answer with any page and any cursor.
`always` and `ever` remember what was offered during a fetch.

## The runs

| Run | Checks | Instance |
|---|---|---|
| `window_counters` | `QuotaInv`, `QuotaKept` | 3 requests, 2 scopes, 2 windows, limit 2, up to 4 charges |
| `rate_limiter` | `TypeOK`, `CounterLifetime`, `WindowQuota`, `QuotaInv`, `DenialIsEarned`, `ChargesInv`, `ImplementsPromise` | 2 calls of either of 2 keys, windows of 2 s (key) and 1 s (tool), limit 1, clock to 2, 1 resend |
| `policy` | `GrantsAreThoseWritten`, `ListingMatchesCalling`, `LimitsArePositive`, `LimitsAreThoseWritten` | 2 tools; lists of up to 2 entries, for known roles and one of another name; up to 2 overrides, numbers negative, zero, positive; unreadable files |
| `gateway` | `TypeOK`, `AuditIsTruthful`, `AuditInv`, `AnsweredIsAuditedOrReported`, `ShownIsCallable`, `LostStaysLost`, `ImplementsPromise`, `EveryRequestSettles` | 2 requests of any method, 1 process that restarts with either of 2 policies, 1 key, 1 tool and 1 unknown, limits 1; under `FairSpec` |
| `gateway_keys` | `ForwardedWasEntitled`, `UpstreamWithinQuota`, `MediationInv` | 2 requests, 2 processes, 2 keys of different roles, 1 tool, limits 1 |
| `audit_bounds` | `NothingSensitiveStored`, `StoredIsBounded`, `SmallPayloadsAreKept` | trees of up to 4 levels of maps and lists; depth 3, 2 items, 10 units; values without a JSON form at the root, in maps and in lists |
| `console` | `ConsoleInv`, `ReportsAreTrue`, `OneRevocationReported`, `OnlyAdminsGetThrough`, `PagesOnlyLoseOldest`, `EveryEventIsCounted`, `SameKeyForBoth` | 2 commands, 2 visits with any of 6 requests, 2 keys of which one is there at first, 2 events, 2 instants, pages of 1 (default) and at most 2 |
| `startup` | `TypeOK`, `SchemaIsComplete`, `SchemaInv`, `TableIsComplete`, `TableInv`, `EveryStartSettles` | 2 processes of any kind, 4 settings, databases of 5 ages, 3 tools in pages of 1 |
| `rate_limiter_stamped` | `StampedWindowQuota`, violated | as `rate_limiter` |
| `policy_as_documented` | `ListedIsGranted`, violated | 3 files: the wildcard for admin and for user, for readonly, or for another role |
| `gateway_every_call` | `EveryCallAudited`, violated | as `gateway`, with a second tool |
| `gateway_audit_order` | `AuditedBeforeForwarded`, violated | as `gateway`, with a second tool |

Why these bounds are enough to be interesting. With a limit of one, two requests
already compete; a third contender comes from resends and lost replies. With
windows of two and one seconds and the clock at 0, 1 and 2, a check can be late
for its window, a counter can expire between two checks, and the two checks of one
call can fall in different windows. One process that dies and comes back with
another policy suffices for what crashes do to requests and audit; two processes
and two keys are needed where revocation and quotas are shared. Two keys and two
policies at once are too many states. So the policies are two in `gateway`, where
`ImplementsPromise` asks that a call is allowed by the policy its process had when it
came, and `ShownIsCallable` the same of what is shown; and one in `gateway_keys`, whose
`MediationInv` has `ShownIsCallable` among its conjuncts. That processes of different
policies run side by side is left to the theorems. A second tool in `gateway` would
share the key's limit of one, so there is one, which a policy allows or not, beside the
name nobody serves; without symmetry, which liveness forbids, two are too many states.
The trees go one
level, one item and a few units beyond each bound. Two commands meet on one key;
two visits, pages of one and two events inserted in either order show what a second
look can miss, and the six requests reach every answer. `SameKeyForBoth` pairs each
visit's credentials with every other credentials there are. Three tools in pages of
one let the list change before, at and after the cursor. `MaxCharges`, `MaxTime` and
`MaxResends` bound counters in the guards; every other set is finite by its
constant.

Symmetry is used for requests and calls (and processes in `gateway_keys`) in runs
without liveness properties. Deadlock is checked in the gateway runs and
`window_counters`, where processes can always start, die or a counter be
forgotten. It is not checked in `rate_limiter` (the clock stops at its bound),
`policy`, `audit_bounds` and `console` (a load, an insert, commands and visits end). In
`startup` it is: a process that ended can be launched again.

### What the violated runs show

* A check stamped in one window and answered after it starts the counter of the
  finished window again. The quota of README.md:297 is therefore kept for checks
  answered in time, not for every check counted in a window.
* A `tools/call` of a name the upstream does not have is answered by the SDK:
  nothing of `makeToolHandler` runs, so README.md:468's event for every call is
  missing.
* The event is written when the handler returns, after the upstream was called.
  The diagrams in README.md (lines 32-33 and 452-453) have it the other way round,
  and it matters if the process dies in between.
* A file that lists tools for a role of the operator's own loads, and the keys of
  that role are denied everything, as `unknown_role`; README.md:213 offers "any role in
  your policy". A file in which `user` or `readonly` has `allow: ["*"]` is refused, and
  the gateway does not start; README.md:312 and docs/policies.md:42 say that the
  wildcard grants access "for that role". Each of the run's three files violates
  `ListedIsGranted`, in one of these two ways; TLC stops at any one of them, and with
  `-continue` reports all three. What does hold of such files is in
  `GrantsAreThoseWritten`.

## Fairness

`FairSpec` asks for weak fairness of a request's own steps: Go runs its goroutine,
and a call to Postgres or Redis returns, with an error if need be. It also asks
for weak fairness of the upstream's steps. That is an assumption about the
upstream: `CallTool` is given no timeout (server.go:300), and without the
assumption a request may wait for ever. Nothing is assumed of clients, crashes,
restarts, failures or lost replies: those may happen or not.

`Startup` has a `FairSpec` of its own: a process that is up takes its next step,
because every call it makes returns, with an error if need be. A process that is
serving has no step to take. `EveryStartSettles` asks an orderly upstream of a gateway:
`fetchAllTools` (server.go:441) goes on for as long as it is given cursors, so an
upstream that repeats one keeps it from ever serving, and nothing bounds that. That
the upstream's tools keep changing does no harm: cursors only move up.

## The proofs

| Theorem | Says |
|---|---|
| `WindowCountersProofs!QuotaInvariant`, `QuotaIsKept` | `Spec => []QuotaInv`, `Spec => []QuotaKept` |
| `RateLimiterProofs!QuotaInvariant`, `ChargesInvariant` | `Spec => []QuotaInv`, `[]ChargesInv` |
| `RateLimiterProofs!TypeCorrect`, `CounterLifetimeHolds`, `WindowQuotaHolds`, `DenialIsEarnedHolds` | `Spec => []TypeOK`, `[]CounterLifetime`, `[]WindowQuota`, `[]DenialIsEarned` |
| `RateLimiterProofs!ImplementsPromiseHolds` | `Spec => ImplementsPromise`: the limiter implements `WindowCounters` |
| `PolicyProofs!LimitsArePositiveHolds`, `ListingMatchesCallingHolds`, `GrantsAreThoseWrittenHolds`, `LimitsAreThoseWrittenHolds` | `Spec => []` of each of the run's four properties, for any set of documents |
| `GatewayProofs!TypeCorrect`, `MediationInvariant` | `Spec => []TypeOK`, `[]MediationInv` |
| `GatewayProofs!ForwardedWasEntitledHolds`, `ShownIsCallableHolds`, `UpstreamWithinQuotaHolds` | `Spec => []ForwardedWasEntitled`, `[]ShownIsCallable`, `[]UpstreamWithinQuota` |
| `GatewayProofs!AuditInvariant`, `AuditIsTruthfulHolds`, `AnsweredIsAuditedOrReportedHolds` | `Spec => []AuditInv`, `[]AuditIsTruthful`, `[]AnsweredIsAuditedOrReported` |
| `GatewayProofs!LostStaysLostHolds` | `Spec => LostStaysLost`, an action property |
| `GatewayProofs!ImplementsPromiseHolds` | `Spec => ImplementsPromise`: the pipeline implements `MediatedUpstream` |
| `StartupProofs!SchemaInvariant`, `SchemaIsCompleteHolds` | `Spec => []SchemaInv`, `Spec => []SchemaIsComplete` |
| `StartupProofs!TypeInvariant`, `TableInvariant`, `TableIsCompleteHolds` | `Spec => []TypeOK`, `[]TableInv`, `[]TableIsComplete` |
| `ConsoleProofs!ConsoleInvariant` | `Spec => []ConsoleInv` |
| `ConsoleProofs!ReportsAreTrueHolds`, `OneRevocationReportedHolds` | `Spec => []ReportsAreTrue`, `[]OneRevocationReported` |
| `ConsoleProofs!OnlyAdminsGetThroughHolds`, `PagesOnlyLoseOldestHolds`, `EveryEventIsCountedHolds`, `SameKeyForBothHolds` | `Spec => []` of each |
| `GatewayProofs!CountersAreWindowCounters` | `Spec => Counters!Spec`: what the pipeline does to the counters is what `WindowCounters` allows |
| `ConsoleProofs!KeyTableIsImplemented` | `Spec => ImplementsKeyTable`: commands and visits implement `KeyTable` |
| `AuditBoundsProofs!NothingSensitiveStoredHolds`, `StoredIsBoundedHolds`, `SmallPayloadsAreKeptHolds` | `Spec => []` of each, for payloads of any shape |
| `AuditBoundsProofs!EveryPayloadHasARow` | `Bounded` of a payload is never empty |
| `AuditBoundsProofs!OrderDoesNotMatter` | `Bounded` of a payload that is not too wide, and whose names are not cut alike, has one element |

`NumberLemmas` holds what several of them need: a set of naturals that is not empty
has a least member, a bounded one a greatest, and `Min` and `Max` are those. The
library's theorem that a well-founded relation has minimal elements is enough for
it, so no induction over an operator is asked of the provers.

*Counters.* `QuotaKept` is not inductive: that nine of ten were admitted says
nothing unless the counter remembers nine charges. `QuotaInv` adds that a counter
has admitted no more than it was charged.

*Limiter.* `WindowQuota` counts checks, not counters, so the argument goes by
tickets, the count that Redis answered. Prompt checks of one counter that were
admitted have different tickets (`DistinctTickets`), all between 1 and the limit;
a set of distinct numbers between 1 and n has at most n members. Tickets stay
distinct because the counter is still there, and has counted at least that far
(`Remembered`), until the window is over; and it is still there because no counter
expires before its window ends (`CounterLifetime`), whatever the age of the clock
reading: the stamp lies in the window and in the past (`StampsArePast`), so
`now + ttl` is not before the end. The division facts this needs are lemmas of
their own, and each action has a lemma for each part it can disturb. Assumed are
the constants' assumptions only: positive limits and window lengths, a finite set
of calls, `AllTools` not a tool, natural bounds of clock and resends.

*Denials.* `DenialIsEarned` is the other direction: a counter never counts more
than the script ran for checks of its own scope and window (`CountsAreSpent`), and
only a ticket beyond the limit refuses (`RefusedByTicket`). For a run to be spent
on the counter the check names, a call must not yet have run any script before it
reads its clock (`NotRunYet`): then its stamp, and so its counter, is fixed once the
script has run for it. `ChargesInv` is inductive beside `QuotaInv`. That a sum of
runs rises by one with one more run is a set of pairs that gains one member.

*The limiter implements the counters.* A scope's window is charged what its live
counter holds. A run of the script is `Charge` if the reply arrives, and
`ChargeUnseen` if not; the counter it touches is the one of its own scope and window
(`CounterIsPromised`), for only there does it find or make an entry, and its count
stays within `MaxCharges` because all runs together are bounded (`RunsAreBounded`).
Expiry is `Forget`. Steps of the clock, and a failure before the script ran, change
nothing of it.

*Policy.* `IsAccepted` validates every window that `NormalizedOverrides` may choose
from, and `ForTool` answers one of those or the default. `tools/list` and
`tools/call` agree because both ask `IsToolAllowed` of what is the same role and the
same name after each trims and lower-cases in its own place. `GrantsAreThoseWritten`
compares the normalised list with the written one: a list that `IsAccepted` stops
normalising early stops at a wildcard only (`ValidStopIsWildcard`), so what is
dropped behind it was granted anyway. `Min` of the places where it stops is where
`NumberLemmas` comes in. Of a role of another name nothing is assumed, not even that
its list is a list: no decision looks at it. Assumed: the wildcard is not a tool, the blank text neither,
the list of a role of the three is a sequence of texts or absent, and `Nil` is not a set of names.

*Pipeline.* `ForwardedWasEntitled` says nothing of a request that was not yet
forwarded, so it is not inductive. `MediationInv` adds what each stage has earned
(`StagesAreEarned`) and why it cannot be lost again: keys that were revoked stay
revoked (`RevokedStays`), a process keeps the policy it started with until it
dies, and its requests die with it (`PolicyStays`), and a caller is always the key
that was presented (`CallersAreGenuine`). The proof looks at one request at a time:
`Sound(r)` is the invariant for `r`, a step of another request leaves all of it
alone except that counters may admit more (`OthersUntouched`, `AdmissionsStay`,
`UntouchedStaysSound`), and each own step earns what its new stage requires. For
`UpstreamWithinQuota` every counter is within its limit (`WithinLimits`, the
argument of `WindowCounters` again), and tagging a forwarded request with the kind
of its check maps the forwarded calls one to one into what a counter admitted
(`TaggedFits`). Assumed: the constants' assumptions of `Gateway`, positive limits,
`NoKey` not a key, `AllTools` not a tool.

*Audit.* What a row says is compared with the stages the request passed
(`AuditIsTruthful`), so the invariant must say what is decided in each stage
(`DecisionFits`), that what is about to be logged is already true (`MethodFits`), and
that a row, once written, is of an event nobody changes any more (`RowsFit`). `AuditInv`
is inductive beside `MediationInv`, which gives the caller and the admissions that a
true event speaks of. The proof follows one request again: of a bystander nothing
changes but that counters admit more (`BystanderStaysAudited`), and the request that
takes the step earns what its next stage says. That it was answered without a row
leaves `reported`, because the acknowledgement, not the commit, decides what is
reported. `LostStaysLost` needs no more than that every step of a request begins in
a stage other than "lost".

*The pipeline implements the promise.* `Receive` of a tool call is `Ask`, `Forward`
is `Send`, `Execute` and the steps of keys are themselves; every other step leaves the three sets of calls alone
(`OtherStepsUnseen`, `SurroundingsUnseen`). `Send` is allowed because the request is
`Sound` in the stage before it and, being admitted but not yet sent, is one more
than those that were sent, of a set no larger than the limit (`FewerThan`).

*Startup.* `SchemaIsComplete` speaks of the statement a process runs next; that it
finds what it needs follows from the statements the process ran before, but only
because nobody takes back what they made. `SchemaInv` adds just that: what the
first n - 1 statements make is there when a process comes to the n-th
(`MadeBefore`), whichever process made it, and a process that comes back begins
with the first. `StatementsMake` goes through the four statements once, for any
state of the database; `OthersKeepSchema` is that the database only grows. Nothing
is assumed of the constants for it.

`TableIsComplete` speaks of a gateway that serves; of one that still fetches,
`TableInv` says that the tools up to the cursor that were there throughout are
fetched already. A page preserves that: it begins behind the cursor and has no gaps
before the next one (`PageHasNoGaps`), which is the last tool of the page, or the
end if nothing follows it (`NextCursorIsLast`). Tools that come and go in between only shrink
`always` and grow `ever`. Of tools it is assumed that they are numbered in the order
of the pages, and that a page holds at least one.

*Operator.* `ConsoleInv` is the conjunction of three, each inductive only
beside the others: `TypeOK`, `CommandInv` and `VisitInv`. A report is true because of
what the command knew when it was started: the id it is to create is nobody's, the
one to revoke was there, and keys neither go away nor come back. Visits are shown to
be let in by a key that was an admin's, and that was not revoked before they came:
commands revoke keys at any moment but never clear `barred` of a visit that is
under way, and `role` of a key changes only when it is made. `PagesOnlyLoseOldest`
compares two pages taken at different times; the table has only grown between them,
and a page that is not full has every matching row (`NewestIsFullOrAll`), so a row
that is missing from the later one was pushed out by newer ones. `EveryEventIsCounted`
(whose run has events of 401 and 429 only) holds of any page of statuses that gateways record (`StatusAssumption`); of other
statuses it would not. `SameKeyForBoth` is a fact about the operators of `Credentials`:
what merging leaves under each name (`MergedTwo`, `MergedOne`), and the keys that are
read from it (`FoundInMeta`). Assumed: the limits of pages as in the code, a natural
bound of the clock, `NoKey` not a key, and the statuses.

*Keys.* Every proof about `Gateway` goes through the steps of its keys, and those are
all the steps `KeyTable` has (`EveryKeyStepIsCovered`). `KeyTableIsImplemented` is the
other half: whatever becomes of a command, it creates a key only where there was
none, because the id it goes for was nobody's when it was started and stays so
(`ConsoleInv`), and its `UPDATE` asks that the key is not revoked yet. So the
pipeline's theorems hold beside the operator's commands, and neither module repeats
the other. What goes the other way is what `Console` takes for granted of events: that
their status is one a gateway records (`StatusAssumption`), and that an event that
names a key is of a key there is (the guard of `Stamp`). Both are part of `Gateway`'s
`AuditIsTruthful`.

*Counters behind the pipeline.* `Gateway` uses `Charge` and `ChargeUnseen` of
`WindowCounters` as parts of its own steps. That it does nothing else to the counters
is `CountersAreWindowCounters`; that each is charged in a scope there is, of a request
that has a caller, is why it needs `MediationInv`.

*Audit payloads.* There is no induction over trees here, but one over depths, which
are numbers: `SetInduction` says of a set, not of an operator, that it holds every
number, by a least one that is missing. The first half of the proof is that the
recursions of the model have the functions they describe, which nothing grants: for
`Level` by gluing together its beginnings (`LevelRecursion`), for `Sanitized` its
ends, as it goes from the last depth up (`SanitizedRecursion`). The second half is
one node: if the outcomes of what it contains are right, its own are
(`NodeIsSanitized`, a lemma for each kind of node; `LevelIsSanitized`). Right means at
once that nothing new is said, that depth and width are bounded, and, for a small
value, that no public word is lost; from the deepest level up it holds at every
depth (`OutcomesAreRight`). What is new is told by a set of words, those a value may tell
(`ToldBy`): for a value without a JSON form they are all of its own, and one step of
the recursion adds none (`AllToldStep`). A preview says what it previews, so it inherits the
redaction. A name is redacted after it was cut: that this makes no difference needs
`NamesAssumption`, that no long name, nor what is left of one, is sensitive, as is so
of the names in `sensitiveKeys` (`KeyTextSensitive`). Where maps are narrow and names
stay different, the outcome is the same in every order (`OrderDoesNotMatter`). Assumed
besides: the bounds are numbers and a preview fits (`BoundsAssumption`), payloads are
finite trees (`PayloadsAssumption`). `Bytes` is not unfolded: of the length it matters
only that `Bounded` compares it with the bound, whatever it is.

What is left to TLC. `EveryRequestSettles` and `EveryStartSettles`, because liveness
under fairness is out of the prover's reach. The four properties that do not hold
have counterexamples instead of proofs. Every safety property of a passing run is a
theorem.

## Not modelled

* Limits that differ between processes. `KeyLimit`, `ToolLimit` and the window are the
  same for every process of `Gateway` and `MediatedUpstream`, and after every restart,
  as they are for every call of `RateLimiter`. In the code they are part of the policy
  each process loads (server.go:47-50) and reads for each call (server.go:391-392). So
  the quota theorems are about processes that share the limits; only the (role, tool)
  pairs of the policies may differ. Two processes with different window lengths would
  not even count in the same counters, whose names have the number of the window.
* That a result without a JSON form cannot be sent to the client either: the SDK fails
  where it answers, while the row says 200. And which words of a formatted value are
  cut off with its end, or show as pointers: any may be in the row.
* Hashing (`hash.go`): that a key verifies only against its own hash is assumed.
* Values of hosts, ports and addresses, and the text of messages.
* The HTML of the dashboard, its escaping and its scripts: formatting.
* The branches of `GetPostgresPool` and `GetRedisClient` that reuse or replace a
  connection: each process asks once, so they never run.
* The headers of `RequestExtra` in `extractAPIKey`: there are none over stdio.
* A limited pool of connections: each is given back, so a small pool delays only.
* Demo programs. Latency. Clock skew between hosts. The lengths that JSON escaping
  adds.

## What may follow

1. The events in the table as those of calls the upstream was promised: a statement
   about `MediatedUpstream` and the audit together.
2. `Policy` and `Gateway` composed: the set of (role, tool) pairs a process decides by
   as a refinement of the file it read.
3. Clocks of several hosts in `RateLimiter`: how far the quota slips with their
   difference.
