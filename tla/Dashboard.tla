----------------------------- MODULE Dashboard -----------------------------
(***************************************************************************)
(* The dashboard's pages (dashboard.go, FetchRecentEvents of logger.go) on *)
(* the tables api_keys and audit_events, while gateways write events.  A   *)
(* visit is one GET of /dashboard or /api/events; net/http gives it a      *)
(* goroutine of its own, and its two queries are two steps.                *)
(***************************************************************************)
EXTENDS Credentials, Integers, Sequences

CONSTANTS
  Keys, NoKey,
  Events,       \* events that gateways write
  ContentOf,    \* ContentOf[e]: what the event says: [key, tool, status]
  Visits,
  Requests,     \* what a visit may ask: method, credentials, filters, limit
  NoRequest,
  AnyText,      \* a filter that is left empty
  DefaultEventLimit, MaxEventLimit, \* 50 and 200
  MaxTime       \* bound on the clock

VARIABLES
  keys, role, \* the table api_keys
  clock,      \* what time.Now says, the same everywhere
  ts,         \* ts[e]: the event's time stamp, or NoTime
  stored,     \* the events in audit_events
  request,    \* request[v]: what the visit asks
  stage,      \* stage[v]: "none", "resolving", "fetching" or "answered"
  status,     \* status[v]: the status code of the answer
  page,       \* page[v]: the events it shows
  fetched,    \* the visits that got a page, in order (history)
  barred      \* barred[v]: keys revoked when the visit came (history)

table == <<keys, role>>
log == <<clock, ts, stored>>
NoTime == -1
visits == <<request, stage, status, page, fetched, barred>>
vars == <<table, log, visits>>

Init ==
  /\ clock = 0
  /\ ts = [e \in Events |-> NoTime]
  /\ stored = {}
  /\ request = [v \in Visits |-> NoRequest]
  /\ stage = [v \in Visits |-> "none"]
  /\ status = [v \in Visits |-> 0]
  /\ page = [v \in Visits |-> {}]
  /\ fetched = <<>>
  /\ barred = [v \in Visits |-> {}]

-----------------------------------------------------------------------------
(***************************************************************************)
(* Gateways: an event gets its time first and is inserted later, or never. *)
(***************************************************************************)
Stamp(e) ==
  /\ ts[e] = NoTime
  /\ ContentOf[e].key # NoKey => keys[ContentOf[e].key] # "absent"
  /\ ts' = [ts EXCEPT ![e] = clock]
  /\ UNCHANGED <<table, clock, stored, visits>>

\* Mutant of LogEvent: inserts before the time is known.
LogEarly(e) ==
  /\ e \notin stored
  /\ stored' = stored \cup {e}
  /\ UNCHANGED <<table, clock, ts, visits>>

LogEvent(e) ==
  /\ ts[e] # NoTime
  /\ e \notin stored
  /\ stored' = stored \cup {e}
  /\ UNCHANGED <<table, clock, ts, visits>>

Tick ==
  /\ clock < MaxTime
  /\ clock' = clock + 1
  /\ UNCHANGED <<table, ts, stored, visits>>

-----------------------------------------------------------------------------
(***************************************************************************)
(* Visits.                                                                 *)
(***************************************************************************)
Arrive(v, q) ==
  /\ stage[v] = "none"
  /\ request' = [request EXCEPT ![v] = q]
  /\ barred' = [barred EXCEPT ![v] = {k \in Keys : keys[k] = "revoked"}]

Respond(v, code) ==
  /\ stage' = [stage EXCEPT ![v] = "answered"]
  /\ status' = [status EXCEPT ![v] = code]

NotFound(v, q) ==
  /\ q.method # "GET"
  /\ Arrive(v, q)
  /\ Respond(v, 404)
  /\ UNCHANGED <<table, log, page, fetched>>

NoCredentials(v, q) ==
  /\ q.method = "GET"
  /\ ExtractPresentedAPIKey(q) = Blank
  /\ Arrive(v, q)
  /\ Respond(v, 401)
  /\ UNCHANGED <<table, log, page, fetched>>

Receive(v, q) ==
  /\ q.method = "GET"
  /\ ExtractPresentedAPIKey(q) # Blank
  /\ Arrive(v, q)
  /\ stage' = [stage EXCEPT ![v] = "resolving"]
  /\ UNCHANGED <<table, log, status, page, fetched>>

\* Mutant of ResolveAPIKey: without WHERE revoked_at IS NULL.
ResolveAnyKey(text) == {k \in Keys : keys[k] # "absent" /\ text = Word(k)}

\* The text of a key is a word that only this key's hash verifies.
ResolveAPIKey(text) == {k \in Keys : keys[k] = "active" /\ text = Word(k)}

\* Role names are compared in lower case; of those used here one has any other.
ToLower(r) == IF r = "Admin" THEN "admin" ELSE r

\* An empty limit is the default; another must be a number within bounds.
LimitIsValid(limit) ==
  \/ limit.kind = "blank"
  \/ limit.kind = "number" /\ limit.n \in 1..MaxEventLimit
ParsedLimit(limit) == IF limit.kind = "blank" THEN DefaultEventLimit ELSE limit.n

Verdict(q) ==
  LET resolved == ResolveAPIKey(ExtractPresentedAPIKey(q))
  IN  IF resolved = {} THEN 401
      ELSE IF \E k \in resolved : ToLower(role[k]) # "admin" THEN 403
      ELSE IF ~ LimitIsValid(q.limit) THEN 400
      ELSE 200

\* One snapshot of the active keys decides; later revocations do not count.
TurnAway(v) ==
  /\ stage[v] = "resolving"
  /\ Verdict(request[v]) # 200
  /\ Respond(v, Verdict(request[v]))
  /\ UNCHANGED <<table, log, request, page, fetched, barred>>

Admit(v) ==
  /\ stage[v] = "resolving"
  /\ Verdict(request[v]) = 200
  /\ stage' = [stage EXCEPT ![v] = "fetching"]
  /\ UNCHANGED <<table, log, request, status, page, fetched, barred>>

ResolveFails(v) ==
  /\ stage[v] = "resolving"
  /\ Respond(v, 401)
  /\ UNCHANGED <<table, log, request, page, fetched, barred>>

\* FetchRecentEvents has limits of its own, for other callers.
QueryLimit(n) ==
  IF n <= 0 THEN DefaultEventLimit ELSE IF n > MaxEventLimit THEN MaxEventLimit ELSE n

\* Filters are compared as texts: another spelling of an id matches nothing,
\* and an event of no key matches no id.
Matching(q) ==
  {e \in stored : /\ q.keyFilter \in {AnyText, ContentOf[e].key}
                  /\ q.toolFilter \in {AnyText, ContentOf[e].tool}}

\* Mutant of Newest: LIMIT n without ORDER BY.
AnyRows(rows, n) ==
  {p \in SUBSET rows :
     Cardinality(p) = IF Cardinality(rows) <= n THEN Cardinality(rows) ELSE n}

\* ORDER BY ts DESC LIMIT n: which of equally old events is left out is open.
Newest(rows, n) ==
  {p \in SUBSET rows :
     /\ Cardinality(p) = IF Cardinality(rows) <= n THEN Cardinality(rows) ELSE n
     /\ \A e \in p, f \in rows \ p : ts[e] >= ts[f]}

Fetch(v) ==
  /\ stage[v] = "fetching"
  /\ \E p \in Newest(Matching(request[v]), QueryLimit(ParsedLimit(request[v].limit))) :
       page' = [page EXCEPT ![v] = p]
  /\ Respond(v, 200)
  /\ fetched' = Append(fetched, v)
  /\ UNCHANGED <<table, log, request, barred>>

FetchFails(v) ==
  /\ stage[v] = "fetching"
  /\ Respond(v, 500)
  /\ UNCHANGED <<table, log, request, page, fetched, barred>>

Next ==
  \/ \E e \in Events : Stamp(e) \/ LogEvent(e)
  \/ Tick
  \/ \E v \in Visits :
       \/ \E q \in Requests : NotFound(v, q) \/ NoCredentials(v, q) \/ Receive(v, q)
       \/ TurnAway(v) \/ Admit(v) \/ ResolveFails(v)
       \/ Fetch(v) \/ FetchFails(v)

-----------------------------------------------------------------------------
(***************************************************************************)
(* What renderDashboardHTML counts and how it marks a row.                 *)
(***************************************************************************)
OkCount(rows) == Cardinality({e \in rows : ContentOf[e].status \in 200..299})
\* Mutant of ErrCount: 401 is left out.
ErrCountWithout401(rows) ==
  Cardinality({e \in rows : ContentOf[e].status = 403 \/ ContentOf[e].status >= 500})
ErrCount(rows) ==
  Cardinality({e \in rows : ContentOf[e].status \in {401, 403} \/ ContentOf[e].status >= 500})
RateCount(rows) == Cardinality({e \in rows : ContentOf[e].status = 429})

RowClass(code) ==
  CASE code \in 200..299 -> "row-ok"
    [] code \in {401, 403} -> "row-auth"
    [] code = 429 -> "row-rate"
    [] code >= 500 -> "row-err"
    [] OTHER -> ""

-----------------------------------------------------------------------------
(***************************************************************************)
(* A page, or any answer that tells more than that the key will not do,    *)
(* goes only to the holder of an admin key that was not revoked before the *)
(* visit came, although the role and the events are read by two queries.   *)
(***************************************************************************)
OnlyAdminsGetThrough ==
  \A v \in Visits :
    (stage[v] = "fetching" \/ status[v] \in {200, 400, 500}) =>
      \E k \in Keys \ barred[v] :
        /\ ExtractPresentedAPIKey(request[v]) = Word(k)
        /\ keys[k] # "absent"
        /\ ToLower(role[k]) = "admin"

(***************************************************************************)
(* Events are inserted late and in any order, yet who looks again with the *)
(* same filters misses an event he saw before only if the page is full of  *)
(* events at least as recent.                                              *)
(***************************************************************************)
PagesOnlyLoseOldest ==
  \A i, j \in DOMAIN fetched :
    LET old == fetched[i]
        new == fetched[j]
        limit == ParsedLimit(request[new].limit)
    IN  ( /\ i < j
          /\ request[old].keyFilter = request[new].keyFilter
          /\ request[old].toolFilter = request[new].toolFilter ) =>
        \A e \in page[old] \ page[new] :
          /\ Cardinality(page[new]) = limit
          /\ \A f \in page[new] : ts[f] >= ts[e]

(***************************************************************************)
(* The three counts at the top of a page cover every event on it, whatever *)
(* status a gateway may have recorded, and agree with how the rows are     *)
(* marked.                                                                 *)
(***************************************************************************)
EveryEventIsCounted ==
  \A v \in Visits :
    LET marked(classes) ==
          Cardinality({e \in page[v] : RowClass(ContentOf[e].status) \in classes})
    IN  /\ OkCount(page[v]) = marked({"row-ok"})
        /\ ErrCount(page[v]) = marked({"row-auth", "row-err"})
        /\ RateCount(page[v]) = marked({"row-rate"})
        /\ marked({""}) = 0

(***************************************************************************)
(* Why visits are answered as they should.  A visit has no status before   *)
(* its answer; the keys that were revoked when it came still are, so the   *)
(* active key it resolves to is none of them; its limit is checked before  *)
(* it fetches; and a page stays as it was fetched, of events that are      *)
(* still there and match what was asked.  This is inductive.               *)
(***************************************************************************)
VisitInv ==
  /\ IsFiniteSet(stored)
  /\ \A v \in Visits :
       /\ stage[v] # "answered" => status[v] = 0
       /\ stage[v] = "fetching" => LimitIsValid(request[v].limit)
       /\ \A k \in barred[v] : keys[k] = "revoked"
  /\ \A i \in DOMAIN fetched :
       /\ stage[fetched[i]] = "answered"
       /\ page[fetched[i]] \subseteq Matching(request[fetched[i]])
  /\ OnlyAdminsGetThrough
  /\ PagesOnlyLoseOldest
=============================================================================
