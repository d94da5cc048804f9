---------------------------- MODULE RateLimiter ----------------------------
(***************************************************************************)
(* The fixed-window limiter of internal/ratelimit/limiter.go and the two   *)
(* checks that enforceRateLimit (internal/proxy/server.go) makes with it.  *)
(*                                                                         *)
(* Every gateway process, and every request inside it, shares the counters *)
(* kept in Redis.  A check reads the local clock, names the counter of     *)
(* that instant's window, and has Redis run INCR and EXPIRE as one script. *)
(* Nothing ties the two moments together: other requests are counted and   *)
(* time passes between them.  The script is atomic; its reply may be lost, *)
(* and the Redis client then sends it again.                               *)
(*                                                                         *)
(* Time is in whole seconds and all clocks agree.  Redis keeps time finer  *)
(* than that: a counter goes at any moment of the second it is due in.     *)
(***************************************************************************)
EXTENDS Integers, FiniteSets

CONSTANTS
  Calls,       \* the tool calls that reach the limiter
  ApiKeys,
  Tools,
  AllTools,    \* stands in for the tool in the scope of a per-key quota
  PerKey,      \* rate_limits.per_api_key: [requests, seconds]
  PerTool,     \* PerTool[t]: what ForTool(t) answers
  MaxTime,     \* bound: the clock stops here
  MaxResends   \* how often the Redis client repeats a script (go-redis: 3)

\* What Policy's LimitsArePositive establishes of every loaded policy; it is
\* why the limiter's own checks for non-positive arguments never answer.
RateLimitWindow == [requests : Nat \ {0}, seconds : Nat \ {0}]

ASSUME WindowAssumption ==
  /\ PerKey \in RateLimitWindow
  /\ PerTool \in [Tools -> RateLimitWindow]
ASSUME AllToolsAssumption == AllTools \notin Tools
ASSUME ResendAssumption == MaxResends \in Nat
ASSUME TimeAssumption == MaxTime \in Nat
ASSUME CallsAssumption == IsFiniteSet(Calls)

VARIABLES
  now,         \* the clock, and Redis' idea of time
  redis,       \* the live counters: name -> [count, deadline, admitted], the
               \* last one a history of the checks the counter let through
  stage,       \* where each call is in enforceRateLimit
  caller,      \* caller[c]: the key the call was authenticated with
  tool,        \* tool[c]: the tool it calls
  stamp,       \* stamp[<<c, k>>]: the clock reading of check k
  servedAt,    \* servedAt[<<c, k>>]: when Redis counted it (history)
  ticket,      \* ticket[<<c, k>>]: the count Redis answered, 0 before that
  runs         \* runs[<<c, k>>]: how often Redis ran the script for it

vars == <<now, redis, stage, caller, tool, stamp, servedAt, ticket, runs>>

Kinds == {"key", "tool"}
Checks == Calls \X Kinds
Scopes == ApiKeys \X (Tools \cup {AllTools})

Stages == {"key_clock", "key_redis", "tool_clock", "tool_redis",
           "allowed", "refused", "failed"}
ClockStage(k) == IF k = "key" THEN "key_clock" ELSE "tool_clock"
RedisStage(k) == IF k = "key" THEN "key_redis" ELSE "tool_redis"
NextStage(k) == IF k = "key" THEN "tool_clock" ELSE "allowed"

-----------------------------------------------------------------------------
(***************************************************************************)
(* The limiter's arithmetic.                                               *)
(***************************************************************************)
WindowBucket(epoch, seconds) == epoch \div seconds

\* Mutant of SecondsUntilReset: no time is left at the start of a window.
SecondsUntilResetOrZero(epoch, seconds) ==
  (seconds - (epoch % seconds)) % seconds

SecondsUntilReset(epoch, seconds) ==
  LET remainder == epoch % seconds
  IN  IF remainder = 0 THEN seconds ELSE seconds - remainder

LimitOf(s) == IF s[2] = AllTools THEN PerKey ELSE PerTool[s[2]]

ScopeOf(c, k) == <<caller[c], IF k = "key" THEN AllTools ELSE tool[c]>>

\* Mutant of CounterName: the tool is not part of the name.
CounterNameOfKey(s, epoch) ==
  <<<<s[1], AllTools>>, WindowBucket(epoch, LimitOf(s).seconds)>>

\* rl:<api key>:<bucket> or rl:<api key>:<tool>:<bucket>
CounterName(s, epoch) == <<s, WindowBucket(epoch, LimitOf(s).seconds)>>

CounterOf(c, k) == CounterName(ScopeOf(c, k), stamp[<<c, k>>])

\* Mutants of Incremented: the call that creates the counter does not count;
\* only that call counts.
IncrementedFromZero(name, ttl) ==
  IF name \in DOMAIN redis
  THEN [redis[name] EXCEPT !.count = @ + 1]
  ELSE [count |-> 0, deadline |-> now + ttl, admitted |-> {}]

IncrementedOnce(name, ttl) ==
  IF name \in DOMAIN redis
  THEN redis[name]
  ELSE [count |-> 1, deadline |-> now + ttl, admitted |-> {}]

\* The first two lines of FixedWindowIncrScript.  The EXPIRE is for the call
\* that created the counter only.
Incremented(name, ttl) ==
  IF name \in DOMAIN redis
  THEN [redis[name] EXCEPT !.count = @ + 1]
  ELSE [count |-> 1, deadline |-> now + ttl, admitted |-> {}]

\* Mutant of Within: the call being counted is left out.
WithinBefore(s, count) == count - 1 <= LimitOf(s).requests

Within(s, count) == count <= LimitOf(s).requests

\* The counter after the script ran for check k of call c.
Charged(c, k) ==
  Incremented(CounterOf(c, k),
              SecondsUntilReset(stamp[<<c, k>>], LimitOf(ScopeOf(c, k)).seconds))

\* Redis with the counter of check k of call c replaced.
Store(c, k, counter) ==
  redis' = [n \in DOMAIN redis \cup {CounterOf(c, k)} |->
              IF n = CounterOf(c, k) THEN counter ELSE redis[n]]

-----------------------------------------------------------------------------
(***************************************************************************)
(* The steps of a call, from the moment it enters enforceRateLimit.        *)
(***************************************************************************)
\* time.Now().Unix(), read once per check.
ReadClock(c, k) ==
  /\ stage[c] = ClockStage(k)
  /\ stage' = [stage EXCEPT ![c] = RedisStage(k)]
  /\ stamp' = [stamp EXCEPT ![<<c, k>>] = now]
  /\ UNCHANGED <<now, redis, caller, tool, servedAt, ticket, runs>>

SendScript(c, k) ==
  /\ stage[c] = RedisStage(k)
  /\ runs[<<c, k>>] <= MaxResends
  /\ runs' = [runs EXCEPT ![<<c, k>>] = @ + 1]

\* The script runs, its count comes back and is within the limit.
Admit(c, k) ==
  LET counter == Charged(c, k)
  IN  /\ SendScript(c, k)
      /\ Within(ScopeOf(c, k), counter.count)
      /\ Store(c, k, [counter EXCEPT !.admitted = @ \cup {<<c, k>>}])
      /\ ticket' = [ticket EXCEPT ![<<c, k>>] = counter.count]
      /\ servedAt' = [servedAt EXCEPT ![<<c, k>>] = now]
      /\ stage' = [stage EXCEPT ![c] = NextStage(k)]
      /\ UNCHANGED <<now, caller, tool, stamp>>

\* ... and is beyond it: errors.New("too_many_requests").
Refuse(c, k) ==
  LET counter == Charged(c, k)
  IN  /\ SendScript(c, k)
      /\ ~ Within(ScopeOf(c, k), counter.count)
      /\ Store(c, k, counter)
      /\ ticket' = [ticket EXCEPT ![<<c, k>>] = counter.count]
      /\ servedAt' = [servedAt EXCEPT ![<<c, k>>] = now]
      /\ stage' = [stage EXCEPT ![c] = "refused"]
      /\ UNCHANGED <<now, caller, tool, stamp>>

\* The script runs but its reply is lost; the client may send it again.
LoseReply(c, k) ==
  /\ SendScript(c, k)
  /\ Store(c, k, Charged(c, k))
  /\ UNCHANGED <<now, stage, caller, tool, stamp, servedAt, ticket>>

\* Redis is out of reach, the request was cancelled, or the resends ran out:
\* the check returns an error.
Fail(c, k) ==
  /\ stage[c] = RedisStage(k)
  /\ stage' = [stage EXCEPT ![c] = "failed"]
  /\ UNCHANGED <<now, redis, caller, tool, stamp, servedAt, ticket, runs>>

(***************************************************************************)
(* Time and Redis.                                                         *)
(***************************************************************************)
Expire(n) ==
  /\ redis[n].deadline <= now
  /\ redis' = [m \in DOMAIN redis \ {n} |-> redis[m]]
  /\ UNCHANGED <<now, stage, caller, tool, stamp, servedAt, ticket, runs>>

\* No counter outlives the second it is due in.
Tick ==
  /\ now < MaxTime
  /\ \A n \in DOMAIN redis : redis[n].deadline > now
  /\ now' = now + 1
  /\ UNCHANGED <<redis, stage, caller, tool, stamp, servedAt, ticket, runs>>

Init ==
  /\ now = 0
  /\ redis = [n \in {} |-> 0]
  /\ stage = [c \in Calls |-> "key_clock"]
  /\ caller \in [Calls -> ApiKeys]
  /\ tool \in [Calls -> Tools]
  /\ stamp = [x \in Checks |-> 0]
  /\ servedAt = [x \in Checks |-> 0]
  /\ ticket = [x \in Checks |-> 0]
  /\ runs = [x \in Checks |-> 0]

CheckStep(c, k) ==
  \/ ReadClock(c, k)
  \/ Admit(c, k)
  \/ Refuse(c, k)
  \/ LoseReply(c, k)
  \/ Fail(c, k)

Next ==
  \/ \E c \in Calls, k \in Kinds : CheckStep(c, k)
  \/ \E n \in DOMAIN redis : Expire(n)
  \/ Tick

Spec == Init /\ [][Next]_vars

-----------------------------------------------------------------------------
Counter == [count : Nat \ {0}, deadline : Nat, admitted : SUBSET Checks]

TypeOK ==
  /\ now \in Nat
  /\ DOMAIN redis \subseteq Scopes \X Nat
  /\ \A n \in DOMAIN redis : redis[n] \in Counter
  /\ stage \in [Calls -> Stages]
  /\ caller \in [Calls -> ApiKeys]
  /\ tool \in [Calls -> Tools]
  /\ stamp \in [Checks -> Nat]
  /\ servedAt \in [Checks -> Nat]
  /\ ticket \in [Checks -> Nat]
  /\ runs \in [Checks -> Nat]

\* The first second after window b of scope s.
WindowEnd(s, b) == (b + 1) * LimitOf(s).seconds

(***************************************************************************)
(* secondsUntilReset is computed from a clock reading that may be old when *)
(* the script runs.  Even so a counter never goes before the window it     *)
(* counts is over, which would give the window a second quota, and never   *)
(* stays longer than one window's length after it was last due for         *)
(* creation, which would leak keys in Redis.                               *)
(***************************************************************************)
CounterLifetime ==
  \A n \in DOMAIN redis :
    /\ WindowEnd(n[1], n[2]) <= redis[n].deadline
    /\ redis[n].deadline <= now + LimitOf(n[1]).seconds

\* Check x was made in window b of scope s, by its own reading of the clock.
StampedIn(x, s, b) ==
  /\ ScopeOf(x[1], x[2]) = s
  /\ WindowBucket(stamp[x], LimitOf(s).seconds) = b

Admitted(x) ==
  ticket[x] > 0 /\ Within(ScopeOf(x[1], x[2]), ticket[x])

\* Counted in the window it is stamped with.
Prompt(x) ==
  LET seconds == LimitOf(ScopeOf(x[1], x[2])).seconds
  IN  WindowBucket(servedAt[x], seconds) = WindowBucket(stamp[x], seconds)

AdmittedIn(s, b) == {x \in Checks : Admitted(x) /\ StampedIn(x, s, b)}

(***************************************************************************)
(* The quota of README.md: of the checks that Redis answers within the     *)
(* window they were stamped in, a window admits at most the limit, for     *)
(* every key and every key and tool, whatever the processes, the lost      *)
(* replies and the late checks of the same window do meanwhile.            *)
(***************************************************************************)
WindowQuota ==
  \A s \in Scopes, b \in 0..MaxTime :
    Cardinality({x \in AdmittedIn(s, b) : Prompt(x)}) <= LimitOf(s).requests

(***************************************************************************)
(* The same, of every check stamped in a window.  Does not hold: a check   *)
(* that Redis answers after its window may find the counter gone and start *)
(* the quota of the finished window again.                                 *)
(***************************************************************************)
StampedWindowQuota ==
  \A s \in Scopes, b \in 0..MaxTime :
    Cardinality(AdmittedIn(s, b)) <= LimitOf(s).requests

\* The runs of the script for the checks made in window b of scope s, the
\* i-th run for check x being <<x, i>>.
SpentIn(s, b) ==
  {y \in Checks \X (1..(MaxResends + 1)) :
     y[2] <= runs[y[1]] /\ StampedIn(y[1], s, b)}

RunsIn(s, b) == Cardinality(SpentIn(s, b))

(***************************************************************************)
(* Nobody pays for somebody else: a call is refused only if the script ran *)
(* more often than the limit for its own key, or its own key and tool, in  *)
(* its own window.  Nothing left over from other windows, tools or keys    *)
(* adds to it; the resends of a lost reply do.                             *)
(***************************************************************************)
DenialIsEarned ==
  \A c \in Calls :
    stage[c] = "refused" =>
      \E k \in Kinds :
        LET s == ScopeOf(c, k)
            b == WindowBucket(stamp[<<c, k>>], LimitOf(s).seconds)
        IN  ticket[<<c, k>>] > 0 /\ RunsIn(s, b) > LimitOf(s).requests

(***************************************************************************)
(* The limiter implements the counters it promises: a counter is its live  *)
(* Redis key, or fresh if there is none, and Expire is what forgets it.    *)
(***************************************************************************)
Windows == 0..MaxTime
WindowsOfScopes == Scopes \X Windows
Promise == INSTANCE WindowCounters WITH
  Clients  <- Checks,
  MaxCharges <- 2 * Cardinality(Calls) * (MaxResends + 1),
  Limit    <- [s \in Scopes |-> LimitOf(s).requests],
  used     <- [x \in WindowsOfScopes |->
                 IF x \in DOMAIN redis THEN redis[x].count ELSE 0],
  admitted <- [x \in WindowsOfScopes |->
                 IF x \in DOMAIN redis THEN redis[x].admitted ELSE {}]

ImplementsPromise == Promise!Spec

-----------------------------------------------------------------------------
(***************************************************************************)
(* Why WindowQuota holds.  Until its window is over, a counter that has    *)
(* admitted a prompt check is still there and has counted at least that    *)
(* far, so the next one it admits gets a larger ticket.                    *)
(***************************************************************************)
NotCountedYet ==
  \A c \in Calls :
    /\ stage[c] \in {"key_clock", "key_redis"} => ticket[<<c, "key">>] = 0
    /\ stage[c] \in {"key_clock", "key_redis", "tool_clock", "tool_redis"}
         => ticket[<<c, "tool">>] = 0

StampsArePast == \A x \in Checks : stamp[x] <= now

Remembered ==
  \A x \in Checks :
    LET n == CounterOf(x[1], x[2])
    IN  Admitted(x) /\ Prompt(x) /\ now < WindowEnd(n[1], n[2])
          => n \in DOMAIN redis /\ ticket[x] <= redis[n].count

DistinctTickets ==
  \A x, y \in Checks :
    /\ x # y /\ CounterOf(x[1], x[2]) = CounterOf(y[1], y[2])
    /\ Admitted(x) /\ Prompt(x) /\ Admitted(y) /\ Prompt(y)
    => ticket[x] # ticket[y]

QuotaInv ==
  /\ TypeOK
  /\ NotCountedYet
  /\ StampsArePast
  /\ CounterLifetime
  /\ Remembered
  /\ DistinctTickets

(***************************************************************************)
(* Why DenialIsEarned holds.  A counter never counts more than the runs    *)
(* for its own checks, so no check gets a ticket beyond them; and a call   *)
(* is refused by a ticket only.                                            *)
(***************************************************************************)
NotRunYet ==
  /\ \A x \in Checks : runs[x] <= MaxResends + 1
  /\ \A c \in Calls :
       /\ stage[c] = "key_clock" => runs[<<c, "key">>] = 0
       /\ stage[c] \in {"key_clock", "key_redis", "tool_clock"}
            => runs[<<c, "tool">>] = 0

\* The runs for the checks that share the counter of check x.
RunsBeside(x) ==
  LET n == CounterOf(x[1], x[2]) IN RunsIn(n[1], n[2])

CountsAreSpent ==
  /\ \A n \in DOMAIN redis : redis[n].count <= RunsIn(n[1], n[2])
  /\ \A x \in Checks : ticket[x] <= RunsBeside(x)

RefusedByTicket ==
  \A c \in Calls :
    stage[c] = "refused" =>
      \E k \in Kinds : /\ ticket[<<c, k>>] > 0
                       /\ ~ Within(ScopeOf(c, k), ticket[<<c, k>>])

ChargesInv ==
  /\ now <= MaxTime
  /\ DOMAIN redis \subseteq WindowsOfScopes
  /\ NotRunYet
  /\ CountsAreSpent
  /\ RefusedByTicket
=============================================================================
