------------------------- MODULE RateLimiterProofs -------------------------
(***************************************************************************)
(* Proofs about RateLimiter, for any number of calls, keys and tools, any  *)
(* limits and window lengths, and a clock that never stops.                *)
(***************************************************************************)
EXTENDS RateLimiter, FiniteSetTheorems, TLAPS

-----------------------------------------------------------------------------
(***************************************************************************)
(* The arithmetic of windows.                                              *)
(***************************************************************************)
LEMMA DivMod ==
  ASSUME NEW e \in Nat, NEW w \in Nat \ {0}
  PROVE  /\ e \div w \in Nat
         /\ e % w \in 0..(w - 1)
         /\ e = (e \div w) * w + (e % w)
  BY SMT

\* windowBucket and secondsUntilReset agree on when a window ends.
LEMMA WindowEndLaw ==
  ASSUME NEW e \in Nat, NEW w \in Nat \ {0}
  PROVE  /\ WindowBucket(e, w) \in Nat
         /\ e < (WindowBucket(e, w) + 1) * w
         /\ SecondsUntilReset(e, w) \in 1..w
         /\ e + SecondsUntilReset(e, w) = (WindowBucket(e, w) + 1) * w
PROOF
<1>1. (e \div w + 1) * w = (e \div w) * w + w
  BY DivMod, SMT
<1> QED
  BY <1>1, DivMod DEF WindowBucket, SecondsUntilReset

LEMMA LimitTyped ==
  ASSUME NEW s \in Scopes
  PROVE  /\ LimitOf(s).requests \in Nat \ {0}
         /\ LimitOf(s).seconds \in Nat \ {0}
BY WindowAssumption DEF LimitOf, Scopes, RateLimitWindow

LEMMA CounterOfTyped ==
  ASSUME TypeOK, NEW c \in Calls, NEW k \in Kinds
  PROVE  /\ ScopeOf(c, k) \in Scopes
         /\ CounterOf(c, k) \in Scopes \X Nat
         /\ CounterOf(c, k)[1] = ScopeOf(c, k)
         /\ CounterOf(c, k)[2] =
              WindowBucket(stamp[<<c, k>>], LimitOf(ScopeOf(c, k)).seconds)
PROOF
<1>1. ScopeOf(c, k) \in Scopes
  BY DEF ScopeOf, Scopes, TypeOK
<1>2. stamp[<<c, k>>] \in Nat
  BY DEF TypeOK, Checks
<1> QED
  BY <1>1, <1>2, LimitTyped, WindowEndLaw DEF CounterOf, CounterName

LEMMA WindowEndTyped ==
  ASSUME NEW n \in Scopes \X Nat
  PROVE  WindowEnd(n[1], n[2]) \in Nat
BY LimitTyped DEF WindowEnd

-----------------------------------------------------------------------------
(***************************************************************************)
(* What one script does to Redis.                                          *)
(***************************************************************************)
LEMMA ChargedFacts ==
  ASSUME TypeOK, StampsArePast, CounterLifetime,
         NEW c \in Calls, NEW k \in Kinds
  PROVE  LET n == CounterOf(c, k)
         IN  /\ Charged(c, k) \in Counter
             /\ WindowEnd(n[1], n[2]) <= Charged(c, k).deadline
             /\ Charged(c, k).deadline <= now + LimitOf(n[1]).seconds
             /\ n \in DOMAIN redis => Charged(c, k).count = redis[n].count + 1
PROOF
<1> DEFINE n == CounterOf(c, k)
           w == LimitOf(n[1]).seconds
           e == stamp[<<c, k>>]
           ttl == SecondsUntilReset(e, w)
<1>1. n \in Scopes \X Nat /\ n[1] = ScopeOf(c, k) /\ n[2] = WindowBucket(e, w)
  BY CounterOfTyped
<1>2. w \in Nat \ {0}
  BY <1>1, LimitTyped
<1>3. e \in Nat /\ now \in Nat /\ e <= now
  BY DEF TypeOK, StampsArePast, Checks
<1>4. ttl \in 1..w /\ e + ttl = WindowEnd(n[1], n[2])
  BY <1>1, <1>2, <1>3, WindowEndLaw DEF WindowEnd
<1>5. WindowEnd(n[1], n[2]) \in Nat
  BY <1>1, WindowEndTyped
<1>6. Charged(c, k) = Incremented(n, ttl)
  BY <1>1 DEF Charged
<1>7. CASE n \in DOMAIN redis
  <2>1. redis[n] \in Counter
    BY <1>7 DEF TypeOK
  <2>2. Charged(c, k) = [redis[n] EXCEPT !.count = @ + 1]
    BY <1>6, <1>7 DEF Incremented
  <2>3. /\ WindowEnd(n[1], n[2]) <= redis[n].deadline
        /\ redis[n].deadline <= now + w
    BY <1>7 DEF CounterLifetime
  <2> QED
    BY <2>1, <2>2, <2>3 DEF Counter
<1>8. CASE n \notin DOMAIN redis
  <2>1. Charged(c, k) = [count |-> 1, deadline |-> now + ttl, admitted |-> {}]
    BY <1>6, <1>8 DEF Incremented
  <2> QED
    BY <1>2, <1>3, <1>4, <1>5, <1>8, <2>1 DEF Counter
<1> QED
  BY <1>7, <1>8

\* A script run changes one counter, only upwards.
LEMMA ChargeKeeps ==
  ASSUME QuotaInv, NEW c \in Calls, NEW k \in Kinds,
         NEW counter \in Counter,
         counter.count = Charged(c, k).count,
         counter.deadline = Charged(c, k).deadline,
         Store(c, k, counter), now' = now
  PROVE  /\ DOMAIN redis' \subseteq Scopes \X Nat
         /\ \A n \in DOMAIN redis' : redis'[n] \in Counter
         /\ CounterLifetime'
         /\ \A n \in DOMAIN redis :
              n \in DOMAIN redis' /\ redis[n].count <= redis'[n].count
PROOF
<1> DEFINE n0 == CounterOf(c, k)
<1> USE DEF QuotaInv
<1>1. n0 \in Scopes \X Nat
  BY CounterOfTyped
<1>2. /\ DOMAIN redis' = DOMAIN redis \cup {n0}
      /\ redis'[n0] = counter
      /\ \A m \in DOMAIN redis : m # n0 => redis'[m] = redis[m]
  BY DEF Store
<1>3. /\ WindowEnd(n0[1], n0[2]) <= counter.deadline
      /\ counter.deadline <= now + LimitOf(n0[1]).seconds
      /\ n0 \in DOMAIN redis => counter.count = redis[n0].count + 1
  BY ChargedFacts
<1>4. /\ DOMAIN redis \subseteq Scopes \X Nat
      /\ \A m \in DOMAIN redis : redis[m] \in Counter
  BY DEF TypeOK
<1>5. DOMAIN redis' \subseteq Scopes \X Nat
  BY <1>1, <1>2, <1>4
<1>6. ASSUME NEW n \in DOMAIN redis' PROVE redis'[n] \in Counter
  BY <1>2, <1>4, <1>6
<1>7. CounterLifetime'
  <2> SUFFICES ASSUME NEW n \in DOMAIN redis'
               PROVE  /\ WindowEnd(n[1], n[2]) <= redis'[n].deadline
                      /\ redis'[n].deadline <= now + LimitOf(n[1]).seconds
    BY DEF CounterLifetime, WindowEnd
  <2>1. CASE n = n0
    BY <1>2, <1>3, <2>1
  <2>2. CASE n # n0
    BY <1>2, <2>2 DEF CounterLifetime
  <2> QED
    BY <2>1, <2>2
<1>8. ASSUME NEW n \in DOMAIN redis
      PROVE  n \in DOMAIN redis' /\ redis[n].count <= redis'[n].count
  <2>1. redis[n].count \in Nat
    BY <1>4 DEF Counter
  <2> QED
    BY <1>2, <1>3, <2>1
<1> QED
  BY <1>5, <1>6, <1>7, <1>8

-----------------------------------------------------------------------------
(***************************************************************************)
(* A check that a step does not touch.                                     *)
(***************************************************************************)
LEMMA CheckParts ==
  ASSUME NEW x \in Checks
  PROVE  x[1] \in Calls /\ x[2] \in Kinds /\ x = <<x[1], x[2]>>
BY DEF Checks

LEMMA CounterStays ==
  ASSUME NEW c, NEW k, caller' = caller, tool' = tool,
         stamp'[<<c, k>>] = stamp[<<c, k>>]
  PROVE  /\ CounterOf(c, k)' = CounterOf(c, k)
         /\ ScopeOf(c, k)' = ScopeOf(c, k)
BY DEF CounterOf, CounterName, ScopeOf

LEMMA CheckStays ==
  ASSUME NEW x \in Checks, caller' = caller, tool' = tool,
         stamp'[x] = stamp[x], servedAt'[x] = servedAt[x], ticket'[x] = ticket[x]
  PROVE  /\ CounterOf(x[1], x[2])' = CounterOf(x[1], x[2])
         /\ Admitted(x)' = Admitted(x)
         /\ Prompt(x)' = Prompt(x)
PROOF
<1>1. /\ CounterOf(x[1], x[2])' = CounterOf(x[1], x[2])
      /\ ScopeOf(x[1], x[2])' = ScopeOf(x[1], x[2])
  BY CheckParts, CounterStays
<1>2. Admitted(x)' = Admitted(x)
  BY <1>1 DEF Admitted, Within
<1>3. Prompt(x)' = Prompt(x)
  BY <1>1 DEF Prompt
<1> QED
  BY <1>1, <1>2, <1>3

-----------------------------------------------------------------------------
(***************************************************************************)
(* QuotaInv is preserved, action by action.                                *)
(***************************************************************************)
\* While a check has no ticket, it constrains nothing.
LEMMA UncountedIsFree ==
  ASSUME NEW x \in Checks, ticket'[x] = 0
  PROVE  ~ Admitted(x)'
BY DEF Admitted

\* Whatever leaves the other checks alone keeps what is said of them, if the
\* counters only grow.
LEMMA OthersRemembered ==
  ASSUME QuotaInv, NEW x \in Checks,
         now' = now, caller' = caller, tool' = tool,
         stamp'[x] = stamp[x], servedAt'[x] = servedAt[x], ticket'[x] = ticket[x],
         \A n \in DOMAIN redis :
           n \in DOMAIN redis' /\ redis[n].count <= redis'[n].count,
         \A n \in DOMAIN redis' : redis'[n].count \in Nat
  PROVE  LET n == CounterOf(x[1], x[2])
         IN  Admitted(x)' /\ Prompt(x)' /\ now' < WindowEnd(n[1], n[2])
               => n \in DOMAIN redis' /\ ticket'[x] <= redis'[n].count
PROOF
<1> DEFINE n == CounterOf(x[1], x[2])
<1>1. Admitted(x)' = Admitted(x) /\ Prompt(x)' = Prompt(x)
  BY CheckStays
<1> SUFFICES ASSUME Admitted(x), Prompt(x), now < WindowEnd(n[1], n[2])
             PROVE  n \in DOMAIN redis' /\ ticket'[x] <= redis'[n].count
  BY <1>1
<1>2. n \in DOMAIN redis /\ ticket[x] <= redis[n].count
  BY DEF QuotaInv, Remembered
<1>3. ticket[x] \in Nat /\ redis[n].count \in Nat
  BY <1>2 DEF QuotaInv, TypeOK, Counter
<1> QED
  BY <1>2, <1>3

LEMMA ReadClockKeeps ==
  ASSUME QuotaInv, NEW c \in Calls, NEW k \in Kinds, ReadClock(c, k)
  PROVE  QuotaInv'
PROOF
<1> DEFINE x0 == <<c, k>>
<1>1. x0 \in Checks /\ ticket[x0] = 0
  BY DEF QuotaInv, NotCountedYet, ReadClock, ClockStage, Checks, Kinds
<1>2. /\ now' = now /\ redis' = redis /\ caller' = caller /\ tool' = tool
      /\ servedAt' = servedAt /\ ticket' = ticket /\ runs' = runs
  BY DEF ReadClock
<1>3. stamp' = [stamp EXCEPT ![x0] = now]
  BY DEF ReadClock
<1>4. ASSUME NEW x \in Checks, x # x0 PROVE stamp'[x] = stamp[x]
  BY <1>3, <1>4 DEF QuotaInv, TypeOK
<1>5. TypeOK'
  BY <1>2, <1>3 DEF QuotaInv, TypeOK, ReadClock, RedisStage, Stages, Kinds
<1>6. NotCountedYet'
  BY <1>2 DEF QuotaInv, TypeOK, NotCountedYet, ReadClock, ClockStage, RedisStage,
              Kinds
<1>7. StampsArePast'
  BY <1>2, <1>3 DEF QuotaInv, TypeOK, StampsArePast
<1>8. CounterLifetime'
  BY <1>2 DEF QuotaInv, CounterLifetime, WindowEnd
<1>9. Remembered'
  <2> SUFFICES ASSUME NEW x \in Checks, Admitted(x)', Prompt(x)'
               PROVE  LET n == CounterOf(x[1], x[2])'
                      IN  now' < WindowEnd(n[1], n[2])
                            => n \in DOMAIN redis' /\ ticket'[x] <= redis'[n].count
    BY DEF Remembered, WindowEnd
  <2>1. x # x0
    BY <1>1, <1>2, UncountedIsFree
  <2>2. stamp'[x] = stamp[x]
    BY <1>4, <2>1
  <2>3. \A n \in DOMAIN redis : redis[n].count \in Nat
    BY DEF QuotaInv, TypeOK, Counter
  <2> QED
    BY <1>2, <2>2, <2>3, CheckStays, OthersRemembered
<1>10. DistinctTickets'
  <2> SUFFICES ASSUME NEW x \in Checks, NEW y \in Checks, x # y,
                      CounterOf(x[1], x[2])' = CounterOf(y[1], y[2])',
                      Admitted(x)', Prompt(x)', Admitted(y)', Prompt(y)'
               PROVE  ticket'[x] # ticket'[y]
    BY DEF DistinctTickets
  <2>1. x # x0 /\ y # x0
    BY <1>1, <1>2, UncountedIsFree
  <2>2. stamp'[x] = stamp[x] /\ stamp'[y] = stamp[y]
    BY <1>4, <2>1
  <2> QED
    BY <1>2, <2>2, CheckStays DEF QuotaInv, DistinctTickets
<1> QED
  BY <1>5, <1>6, <1>7, <1>8, <1>9, <1>10 DEF QuotaInv

\* A step that lets no further check through.
LEMMA NothingAdmitted ==
  ASSUME QuotaInv,
         now' = now, caller' = caller, tool' = tool, stamp' = stamp,
         \A x \in Checks :
           Admitted(x)' => servedAt'[x] = servedAt[x] /\ ticket'[x] = ticket[x],
         \A n \in DOMAIN redis :
           n \in DOMAIN redis' /\ redis[n].count <= redis'[n].count,
         \A n \in DOMAIN redis' : redis'[n].count \in Nat
  PROVE  Remembered' /\ DistinctTickets'
PROOF
<1>1. Remembered'
  <2> SUFFICES ASSUME NEW x \in Checks, Admitted(x)', Prompt(x)'
               PROVE  LET n == CounterOf(x[1], x[2])'
                      IN  now' < WindowEnd(n[1], n[2])
                            => n \in DOMAIN redis' /\ ticket'[x] <= redis'[n].count
    BY DEF Remembered, WindowEnd
  <2> QED
    BY CheckStays, OthersRemembered
<1>2. DistinctTickets'
  <2> SUFFICES ASSUME NEW x \in Checks, NEW y \in Checks, x # y,
                      CounterOf(x[1], x[2])' = CounterOf(y[1], y[2])',
                      Admitted(x)', Prompt(x)', Admitted(y)', Prompt(y)'
               PROVE  ticket'[x] # ticket'[y]
    BY DEF DistinctTickets
  <2> QED
    BY CheckStays DEF QuotaInv, DistinctTickets
<1> QED
  BY <1>1, <1>2

\* What the three outcomes of a script have in common.
LEMMA ChargeKeepsRest ==
  ASSUME QuotaInv, NEW c \in Calls, NEW k \in Kinds, NEW counter \in Counter,
         counter.count = Charged(c, k).count,
         counter.deadline = Charged(c, k).deadline,
         Store(c, k, counter), SendScript(c, k),
         now' = now, caller' = caller, tool' = tool, stamp' = stamp,
         stage' \in [Calls -> Stages], ticket' \in [Checks -> Nat],
         servedAt' \in [Checks -> Nat]
  PROVE  /\ TypeOK' /\ StampsArePast' /\ CounterLifetime'
         /\ \A n \in DOMAIN redis :
              n \in DOMAIN redis' /\ redis[n].count <= redis'[n].count
         /\ \A n \in DOMAIN redis' : redis'[n].count \in Nat
PROOF
<1>1. /\ DOMAIN redis' \subseteq Scopes \X Nat
      /\ \A n \in DOMAIN redis' : redis'[n] \in Counter
      /\ CounterLifetime'
      /\ \A n \in DOMAIN redis :
           n \in DOMAIN redis' /\ redis[n].count <= redis'[n].count
  BY ChargeKeeps
<1>2. runs' \in [Checks -> Nat]
  <2>1. <<c, k>> \in Checks
    BY DEF Checks
  <2> QED
    BY <2>1 DEF SendScript, QuotaInv, TypeOK
<1>3. TypeOK'
  BY <1>1, <1>2 DEF QuotaInv, TypeOK
<1>4. StampsArePast'
  BY DEF QuotaInv, StampsArePast
<1> QED
  BY <1>1, <1>3, <1>4 DEF Counter

LEMMA NotCountedYetKept ==
  ASSUME QuotaInv, NEW c \in Calls, NEW k \in Kinds,
         stage[c] = RedisStage(k),
         \A d \in Calls : d # c => stage'[d] = stage[d],
         \A x \in Checks : x # <<c, k>> => ticket'[x] = ticket[x],
         \/ stage'[c] \in {"refused", "failed", "allowed"}
         \/ stage'[c] = NextStage(k)
         \/ stage'[c] = stage[c] /\ ticket' = ticket
  PROVE  NotCountedYet'
PROOF
<1> SUFFICES ASSUME NEW d \in Calls
             PROVE  /\ stage'[d] \in {"key_clock", "key_redis"}
                         => ticket'[<<d, "key">>] = 0
                    /\ stage'[d] \in {"key_clock", "key_redis", "tool_clock",
                                      "tool_redis"}
                         => ticket'[<<d, "tool">>] = 0
  BY DEF NotCountedYet
<1>1. <<d, "key">> \in Checks /\ <<d, "tool">> \in Checks
  BY DEF Checks, Kinds
<1>2. CASE d # c
  BY <1>1, <1>2 DEF QuotaInv, NotCountedYet
<1>3. CASE d = c
  BY <1>1, <1>3 DEF QuotaInv, NotCountedYet, RedisStage, NextStage, Kinds
<1> QED
  BY <1>2, <1>3

LEMMA RefuseKeeps ==
  ASSUME QuotaInv, NEW c \in Calls, NEW k \in Kinds, Refuse(c, k)
  PROVE  QuotaInv'
PROOF
<1> DEFINE x0 == <<c, k>>
           counter == Charged(c, k)
<1>1. /\ SendScript(c, k) /\ Store(c, k, counter) /\ stage[c] = RedisStage(k)
      /\ ticket' = [ticket EXCEPT ![x0] = counter.count]
      /\ servedAt' = [servedAt EXCEPT ![x0] = now]
      /\ stage' = [stage EXCEPT ![c] = "refused"]
      /\ now' = now /\ caller' = caller /\ tool' = tool /\ stamp' = stamp
      /\ ~ Within(ScopeOf(c, k), counter.count)
  BY DEF Refuse, SendScript
<1>2. counter \in Counter
  BY ChargedFacts DEF QuotaInv
<1>3. x0 \in Checks
  BY DEF Checks
<1>4. /\ stage' \in [Calls -> Stages]
      /\ ticket' \in [Checks -> Nat]
      /\ servedAt' \in [Checks -> Nat]
  BY <1>1, <1>2 DEF QuotaInv, TypeOK, Counter, Stages
<1>5. /\ TypeOK' /\ StampsArePast' /\ CounterLifetime'
      /\ \A n \in DOMAIN redis :
           n \in DOMAIN redis' /\ redis[n].count <= redis'[n].count
      /\ \A n \in DOMAIN redis' : redis'[n].count \in Nat
  BY <1>1, <1>2, <1>4, ChargeKeepsRest
<1>6. NotCountedYet'
  BY <1>1, NotCountedYetKept DEF QuotaInv, TypeOK
<1>7. ~ Admitted(x0)'
  <2>1. ScopeOf(c, k)' = ScopeOf(c, k)
    BY <1>1, CounterStays
  <2>2. ticket'[x0] = counter.count
    BY <1>1, <1>3 DEF QuotaInv, TypeOK
  <2> QED
    BY <1>1, <2>1, <2>2 DEF Admitted, Within
<1>8. ASSUME NEW x \in Checks, Admitted(x)'
      PROVE  servedAt'[x] = servedAt[x] /\ ticket'[x] = ticket[x]
  BY <1>1, <1>7, <1>8 DEF QuotaInv, TypeOK
<1>9. Remembered' /\ DistinctTickets'
  BY <1>1, <1>5, <1>8, NothingAdmitted
<1> QED
  BY <1>5, <1>6, <1>9 DEF QuotaInv

LEMMA LoseReplyKeeps ==
  ASSUME QuotaInv, NEW c \in Calls, NEW k \in Kinds, LoseReply(c, k)
  PROVE  QuotaInv'
PROOF
<1> DEFINE counter == Charged(c, k)
<1>1. /\ SendScript(c, k) /\ Store(c, k, counter) /\ stage[c] = RedisStage(k)
      /\ ticket' = ticket /\ servedAt' = servedAt /\ stage' = stage
      /\ now' = now /\ caller' = caller /\ tool' = tool /\ stamp' = stamp
  BY DEF LoseReply, SendScript
<1>2. counter \in Counter
  BY ChargedFacts DEF QuotaInv
<1>3. /\ stage' \in [Calls -> Stages]
      /\ ticket' \in [Checks -> Nat]
      /\ servedAt' \in [Checks -> Nat]
  BY <1>1 DEF QuotaInv, TypeOK
<1>4. /\ TypeOK' /\ StampsArePast' /\ CounterLifetime'
      /\ \A n \in DOMAIN redis :
           n \in DOMAIN redis' /\ redis[n].count <= redis'[n].count
      /\ \A n \in DOMAIN redis' : redis'[n].count \in Nat
  BY <1>1, <1>2, <1>3, ChargeKeepsRest
<1>5. NotCountedYet'
  BY <1>1, NotCountedYetKept
<1>6. Remembered' /\ DistinctTickets'
  BY <1>1, <1>4, NothingAdmitted
<1> QED
  BY <1>4, <1>5, <1>6 DEF QuotaInv

LEMMA FailKeeps ==
  ASSUME QuotaInv, NEW c \in Calls, NEW k \in Kinds, Fail(c, k)
  PROVE  QuotaInv'
PROOF
<1>1. /\ stage[c] = RedisStage(k) /\ stage' = [stage EXCEPT ![c] = "failed"]
      /\ now' = now /\ redis' = redis /\ caller' = caller /\ tool' = tool
      /\ stamp' = stamp /\ servedAt' = servedAt /\ ticket' = ticket
      /\ runs' = runs
  BY DEF Fail
<1>2. TypeOK' /\ StampsArePast' /\ CounterLifetime'
  BY <1>1 DEF QuotaInv, TypeOK, Stages, StampsArePast, CounterLifetime, WindowEnd
<1>3. NotCountedYet'
  BY <1>1, NotCountedYetKept DEF QuotaInv, TypeOK
<1>4. \A n \in DOMAIN redis : redis[n].count \in Nat
  BY DEF QuotaInv, TypeOK, Counter
<1>5. Remembered' /\ DistinctTickets'
  BY <1>1, <1>4, NothingAdmitted
<1> QED
  BY <1>2, <1>3, <1>5 DEF QuotaInv

\* The one step that hands out a ticket.  A check is admitted promptly only
\* while its window lasts, so its counter remembers every earlier prompt one.
LEMMA AdmitKeeps ==
  ASSUME QuotaInv, NEW c \in Calls, NEW k \in Kinds, Admit(c, k)
  PROVE  QuotaInv'
PROOF
<1> DEFINE x0 == <<c, k>>
           n0 == CounterOf(c, k)
           counter == [Charged(c, k) EXCEPT !.admitted = @ \cup {x0}]
<1>1. /\ SendScript(c, k) /\ Store(c, k, counter) /\ stage[c] = RedisStage(k)
      /\ ticket' = [ticket EXCEPT ![x0] = Charged(c, k).count]
      /\ servedAt' = [servedAt EXCEPT ![x0] = now]
      /\ stage' = [stage EXCEPT ![c] = NextStage(k)]
      /\ now' = now /\ caller' = caller /\ tool' = tool /\ stamp' = stamp
  BY DEF Admit, SendScript
<1>2. x0 \in Checks
  BY DEF Checks
<1>3. Charged(c, k) \in Counter
  BY ChargedFacts DEF QuotaInv
<1>4. /\ counter \in Counter
      /\ counter.count = Charged(c, k).count
      /\ counter.deadline = Charged(c, k).deadline
  BY <1>2, <1>3 DEF Counter
<1>5. /\ stage' \in [Calls -> Stages]
      /\ ticket' \in [Checks -> Nat]
      /\ servedAt' \in [Checks -> Nat]
  <2>1. NextStage(k) \in Stages
    BY DEF NextStage, Stages
  <2> QED
    BY <1>1, <1>2, <1>3, <2>1 DEF QuotaInv, TypeOK, Counter
<1>6. /\ TypeOK' /\ StampsArePast' /\ CounterLifetime'
      /\ \A n \in DOMAIN redis :
           n \in DOMAIN redis' /\ redis[n].count <= redis'[n].count
      /\ \A n \in DOMAIN redis' : redis'[n].count \in Nat
  BY <1>1, <1>4, <1>5, ChargeKeepsRest
<1>7. NotCountedYet'
  BY <1>1, NotCountedYetKept DEF QuotaInv, TypeOK
<1>8. /\ CounterOf(c, k)' = n0
      /\ ticket'[x0] = counter.count /\ servedAt'[x0] = now
      /\ n0 \in DOMAIN redis' /\ redis'[n0] = counter
  BY <1>1, <1>2, <1>4, CounterStays DEF QuotaInv, TypeOK, Store
<1>9. ASSUME NEW x \in Checks, x # x0
      PROVE  servedAt'[x] = servedAt[x] /\ ticket'[x] = ticket[x]
  BY <1>1, <1>9 DEF QuotaInv, TypeOK
<1>10. Remembered'
  <2> SUFFICES ASSUME NEW x \in Checks, Admitted(x)', Prompt(x)'
               PROVE  LET n == CounterOf(x[1], x[2])'
                      IN  now' < WindowEnd(n[1], n[2])
                            => n \in DOMAIN redis' /\ ticket'[x] <= redis'[n].count
    BY DEF Remembered, WindowEnd
  <2>1. CASE x = x0
    BY <1>3, <1>4, <1>8, <2>1 DEF Counter
  <2>2. CASE x # x0
    BY <1>1, <1>6, <1>9, <2>2, CheckStays, OthersRemembered
  <2> QED
    BY <2>1, <2>2
<1>11. ASSUME NEW x \in Checks, x # x0, Admitted(x)', Prompt(x)', Prompt(x0)',
              CounterOf(x[1], x[2])' = n0
       PROVE  ticket'[x] < ticket'[x0]
  <2>1. Admitted(x) /\ Prompt(x) /\ CounterOf(x[1], x[2]) = n0
    BY <1>1, <1>9, <1>11, CheckStays
  <2>2. servedAt'[x0] < WindowEnd(n0[1], n0[2])
    <3>1. x0 = <<x0[1], x0[2]>> /\ x0[1] = c /\ x0[2] = k
      OBVIOUS
    <3>2. LimitOf(ScopeOf(c, k)).seconds \in Nat \ {0}
      BY CounterOfTyped, LimitTyped DEF QuotaInv
    <3>3. ScopeOf(c, k)' = ScopeOf(c, k)
      BY <1>1, CounterStays
    <3>4. WindowBucket(now, LimitOf(ScopeOf(c, k)).seconds)
            = WindowBucket(stamp[x0], LimitOf(ScopeOf(c, k)).seconds)
      BY <1>1, <1>8, <1>11, <3>1, <3>3 DEF Prompt
    <3> QED
      BY <1>8, <3>2, <3>4, CounterOfTyped, WindowEndLaw
      DEF WindowEnd, QuotaInv, TypeOK
  <2>3. n0 \in DOMAIN redis /\ ticket[x] <= redis[n0].count
    BY <1>8, <2>1, <2>2 DEF QuotaInv, Remembered
  <2>4. Charged(c, k).count = redis[n0].count + 1
    BY <2>3, ChargedFacts DEF QuotaInv
  <2>5. ticket[x] \in Nat /\ redis[n0].count \in Nat
    BY <2>3 DEF QuotaInv, TypeOK, Counter
  <2> QED
    BY <1>4, <1>8, <1>9, <1>11, <2>3, <2>4, <2>5
<1>12. DistinctTickets'
  <2> SUFFICES ASSUME NEW x \in Checks, NEW y \in Checks, x # y,
                      CounterOf(x[1], x[2])' = CounterOf(y[1], y[2])',
                      Admitted(x)', Prompt(x)', Admitted(y)', Prompt(y)'
               PROVE  ticket'[x] # ticket'[y]
    BY DEF DistinctTickets
  <2>1. ticket'[x] \in Nat /\ ticket'[y] \in Nat
    BY <1>5
  <2>2. CounterOf(x0[1], x0[2])' = n0
    BY <1>8
  <2>3. CASE x = x0
    BY <1>11, <2>1, <2>2, <2>3
  <2>4. CASE y = x0
    BY <1>11, <2>1, <2>2, <2>4
  <2>5. CASE x # x0 /\ y # x0
    BY <1>1, <1>9, <2>5, CheckStays DEF QuotaInv, DistinctTickets
  <2> QED
    BY <2>3, <2>4, <2>5
<1> QED
  BY <1>6, <1>7, <1>10, <1>12 DEF QuotaInv

LEMMA ExpireKeeps ==
  ASSUME QuotaInv, NEW n0 \in DOMAIN redis, Expire(n0)
  PROVE  QuotaInv'
PROOF
<1>1. /\ redis[n0].deadline <= now
      /\ redis' = [m \in DOMAIN redis \ {n0} |-> redis[m]]
      /\ now' = now /\ stage' = stage /\ caller' = caller /\ tool' = tool
      /\ stamp' = stamp /\ servedAt' = servedAt /\ ticket' = ticket
      /\ runs' = runs
  BY DEF Expire
<1>2. /\ DOMAIN redis' = DOMAIN redis \ {n0}
      /\ \A m \in DOMAIN redis' : redis'[m] = redis[m]
  BY <1>1
<1>3. TypeOK' /\ NotCountedYet' /\ StampsArePast'
  BY <1>1, <1>2 DEF QuotaInv, TypeOK, NotCountedYet, StampsArePast
<1>4. CounterLifetime'
  BY <1>1, <1>2 DEF QuotaInv, CounterLifetime, WindowEnd
<1>5. now >= WindowEnd(n0[1], n0[2])
  <2>1. /\ n0 \in Scopes \X Nat /\ redis[n0].deadline \in Nat /\ now \in Nat
        /\ WindowEnd(n0[1], n0[2]) <= redis[n0].deadline
    BY DEF QuotaInv, TypeOK, Counter, CounterLifetime
  <2> QED
    BY <1>1, <2>1, WindowEndTyped
<1>6. Remembered'
  <2> SUFFICES ASSUME NEW x \in Checks, Admitted(x)', Prompt(x)'
               PROVE  LET n == CounterOf(x[1], x[2])'
                      IN  now' < WindowEnd(n[1], n[2])
                            => n \in DOMAIN redis' /\ ticket'[x] <= redis'[n].count
    BY DEF Remembered, WindowEnd
  <2> DEFINE n == CounterOf(x[1], x[2])
  <2>1. n = CounterOf(x[1], x[2])' /\ Admitted(x) /\ Prompt(x)
    BY <1>1, CheckStays
  <2>2. now < WindowEnd(n[1], n[2]) => n # n0
    <3>1. n \in Scopes \X Nat
      BY CheckParts, CounterOfTyped DEF QuotaInv
    <3>2. WindowEnd(n[1], n[2]) \in Nat /\ now \in Nat
      BY <3>1, WindowEndTyped DEF QuotaInv, TypeOK
    <3> QED
      BY <1>5, <3>2
  <2> QED
    BY <1>1, <1>2, <2>1, <2>2 DEF QuotaInv, Remembered
<1>7. DistinctTickets'
  <2> SUFFICES ASSUME NEW x \in Checks, NEW y \in Checks, x # y,
                      CounterOf(x[1], x[2])' = CounterOf(y[1], y[2])',
                      Admitted(x)', Prompt(x)', Admitted(y)', Prompt(y)'
               PROVE  ticket'[x] # ticket'[y]
    BY DEF DistinctTickets
  <2> QED
    BY <1>1, CheckStays DEF QuotaInv, DistinctTickets
<1> QED
  BY <1>3, <1>4, <1>6, <1>7 DEF QuotaInv

LEMMA TickKeeps ==
  ASSUME QuotaInv, Tick
  PROVE  QuotaInv'
PROOF
<1>1. /\ now' = now + 1 /\ redis' = redis /\ stage' = stage /\ caller' = caller
      /\ tool' = tool /\ stamp' = stamp /\ servedAt' = servedAt
      /\ ticket' = ticket /\ runs' = runs
  BY DEF Tick
<1>2. now \in Nat
  BY DEF QuotaInv, TypeOK
<1>3. TypeOK' /\ NotCountedYet' /\ StampsArePast'
  BY <1>1, <1>2 DEF QuotaInv, TypeOK, NotCountedYet, StampsArePast
<1>4. CounterLifetime'
  <2> SUFFICES ASSUME NEW n \in DOMAIN redis
               PROVE  /\ WindowEnd(n[1], n[2]) <= redis[n].deadline
                      /\ redis[n].deadline <= now + 1 + LimitOf(n[1]).seconds
    BY <1>1 DEF CounterLifetime, WindowEnd
  <2>1. /\ n \in Scopes \X Nat /\ redis[n].deadline \in Nat
        /\ WindowEnd(n[1], n[2]) <= redis[n].deadline
        /\ redis[n].deadline <= now + LimitOf(n[1]).seconds
    BY DEF QuotaInv, TypeOK, Counter, CounterLifetime
  <2> QED
    BY <1>2, <2>1, LimitTyped
<1>5. Remembered'
  <2> SUFFICES ASSUME NEW x \in Checks, Admitted(x)', Prompt(x)'
               PROVE  LET n == CounterOf(x[1], x[2])'
                      IN  now' < WindowEnd(n[1], n[2])
                            => n \in DOMAIN redis' /\ ticket'[x] <= redis'[n].count
    BY DEF Remembered, WindowEnd
  <2> DEFINE n == CounterOf(x[1], x[2])
  <2>1. n = CounterOf(x[1], x[2])' /\ Admitted(x) /\ Prompt(x)
    BY <1>1, CheckStays
  <2>2. WindowEnd(n[1], n[2]) \in Nat
    <3>1. n \in Scopes \X Nat
      BY CheckParts, CounterOfTyped DEF QuotaInv
    <3> QED
      BY <3>1, WindowEndTyped
  <2>3. now + 1 < WindowEnd(n[1], n[2]) => now < WindowEnd(n[1], n[2])
    BY <1>2, <2>2
  <2> QED
    BY <1>1, <2>1, <2>3 DEF QuotaInv, Remembered
<1>6. DistinctTickets'
  <2> SUFFICES ASSUME NEW x \in Checks, NEW y \in Checks, x # y,
                      CounterOf(x[1], x[2])' = CounterOf(y[1], y[2])',
                      Admitted(x)', Prompt(x)', Admitted(y)', Prompt(y)'
               PROVE  ticket'[x] # ticket'[y]
    BY DEF DistinctTickets
  <2> QED
    BY <1>1, CheckStays DEF QuotaInv, DistinctTickets
<1> QED
  BY <1>3, <1>4, <1>5, <1>6 DEF QuotaInv

-----------------------------------------------------------------------------
(***************************************************************************)
(* The theorems.                                                           *)
(***************************************************************************)
LEMMA InitKeeps ==
  ASSUME Init
  PROVE  QuotaInv
PROOF
<1>1. \A x \in Checks : ticket[x] = 0 /\ stamp[x] = 0
  BY DEF Init
<1>2. TypeOK
  BY DEF Init, TypeOK, Stages
<1>3. NotCountedYet
  BY <1>1 DEF NotCountedYet, Checks, Kinds
<1>4. StampsArePast
  BY <1>1 DEF Init, StampsArePast
<1>5. CounterLifetime
  BY DEF Init, CounterLifetime
<1>6. Remembered /\ DistinctTickets
  BY <1>1 DEF Remembered, DistinctTickets, Admitted
<1> QED
  BY <1>2, <1>3, <1>4, <1>5, <1>6 DEF QuotaInv

LEMMA StutterKeeps ==
  ASSUME QuotaInv, UNCHANGED vars
  PROVE  QuotaInv'
PROOF
<1>1. /\ now' = now /\ redis' = redis /\ stage' = stage /\ caller' = caller
      /\ tool' = tool /\ stamp' = stamp /\ servedAt' = servedAt
      /\ ticket' = ticket /\ runs' = runs
  BY DEF vars
<1>2. TypeOK' /\ NotCountedYet' /\ StampsArePast' /\ CounterLifetime'
  BY <1>1 DEF QuotaInv, TypeOK, NotCountedYet, StampsArePast, CounterLifetime,
              WindowEnd
<1>3. \A n \in DOMAIN redis : redis[n].count \in Nat
  BY DEF QuotaInv, TypeOK, Counter
<1>4. Remembered' /\ DistinctTickets'
  BY <1>1, <1>3, NothingAdmitted
<1> QED
  BY <1>2, <1>4 DEF QuotaInv

LEMMA StepKeeps ==
  ASSUME QuotaInv, [Next]_vars
  PROVE  QuotaInv'
PROOF
<1>1. CASE UNCHANGED vars
  BY <1>1, StutterKeeps
<1>2. ASSUME NEW c \in Calls, NEW k \in Kinds, CheckStep(c, k)
      PROVE  QuotaInv'
  BY <1>2, ReadClockKeeps, AdmitKeeps, RefuseKeeps, LoseReplyKeeps, FailKeeps
  DEF CheckStep
<1>3. ASSUME NEW n \in DOMAIN redis, Expire(n)
      PROVE  QuotaInv'
  BY <1>3, ExpireKeeps
<1>4. CASE Tick
  BY <1>4, TickKeeps
<1> QED
  BY <1>1, <1>2, <1>3, <1>4 DEF Next

(***************************************************************************)
(* The state of the limiter is well typed, its counters live as long as    *)
(* their window and no longer than one window more, and what Redis has     *)
(* counted is never forgotten within the window.                           *)
(***************************************************************************)
THEOREM QuotaInvariant == Spec => []QuotaInv
PROOF
<1>1. Init => QuotaInv
  BY InitKeeps
<1>2. QuotaInv /\ [Next]_vars => QuotaInv'
  BY StepKeeps
<1> QED
  BY <1>1, <1>2, PTL DEF Spec

THEOREM TypeCorrect == Spec => []TypeOK
PROOF
<1>1. QuotaInv => TypeOK
  BY DEF QuotaInv
<1> QED
  BY <1>1, QuotaInvariant, PTL

(***************************************************************************)
(* checkFixedWindowLimit: a TTL computed from an old reading of the clock  *)
(* neither cuts a window short nor leaves a counter behind.                *)
(***************************************************************************)
THEOREM CounterLifetimeHolds == Spec => []CounterLifetime
PROOF
<1>1. QuotaInv => CounterLifetime
  BY DEF QuotaInv
<1> QED
  BY <1>1, QuotaInvariant, PTL

\* Prompt checks of one window carry different tickets from 1 to the limit.
LEMMA QuotaFromTickets ==
  ASSUME QuotaInv
  PROVE  WindowQuota
PROOF
<1> SUFFICES ASSUME NEW s \in Scopes, NEW b \in 0..MaxTime
             PROVE  Cardinality({x \in AdmittedIn(s, b) : Prompt(x)})
                      <= LimitOf(s).requests
  BY DEF WindowQuota
<1> DEFINE T == {x \in AdmittedIn(s, b) : Prompt(x)}
           limit == LimitOf(s).requests
           f == [x \in T |-> ticket[x]]
<1>1. limit \in Nat
  BY LimitTyped
<1>2. ASSUME NEW x \in T
      PROVE  x \in Checks /\ f[x] \in 1..limit
  <2>1. /\ x \in Checks /\ Admitted(x)
        /\ ScopeOf(x[1], x[2]) = s /\ ticket[x] \in Nat
    BY DEF AdmittedIn, StampedIn, QuotaInv, TypeOK
  <2> QED
    BY <1>1, <2>1 DEF Admitted, Within
<1>3. ASSUME NEW x \in T, NEW y \in T, f[x] = f[y]
      PROVE  x = y
  <2>1. /\ x \in Checks /\ Admitted(x) /\ Prompt(x)
        /\ y \in Checks /\ Admitted(y) /\ Prompt(y)
        /\ CounterOf(x[1], x[2]) = CounterOf(y[1], y[2])
    BY CheckParts DEF AdmittedIn, StampedIn, CounterOf, CounterName
  <2> QED
    BY <1>3, <2>1 DEF QuotaInv, DistinctTickets
<1>4. f \in Injection(T, 1..limit)
  BY <1>2, <1>3 DEF Injection, IsInjective
<1>5. IsFiniteSet(1..limit) /\ Cardinality(1..limit) = limit
  <2> HIDE DEF limit
  <2>1. 1 \in Int /\ limit \in Int
    BY <1>1
  <2>2. /\ IsFiniteSet(1..limit)
        /\ Cardinality(1..limit) = IF 1 > limit THEN 0 ELSE limit - 1 + 1
    BY <2>1, FS_Interval, Zenon
  <2> QED
    BY <1>1, <2>2
<1>6. IsFiniteSet(T) /\ Cardinality(T) <= Cardinality(1..limit)
  BY <1>4, <1>5, FS_Injection
<1> QED
  BY <1>5, <1>6

(***************************************************************************)
(* The quota of README.md, for every number of calls and every policy.     *)
(***************************************************************************)
THEOREM WindowQuotaHolds == Spec => []WindowQuota
PROOF
<1>1. QuotaInv => WindowQuota
  BY QuotaFromTickets
<1> QED
  BY <1>1, QuotaInvariant, PTL

-----------------------------------------------------------------------------
(***************************************************************************)
(* What the runs of the script for a window's checks add up to.            *)
(***************************************************************************)
MostRuns == 2 * Cardinality(Calls) * (MaxResends + 1)

LEMMA KindsAreTwo == IsFiniteSet(Kinds) /\ Cardinality(Kinds) = 2
PROOF
<1>1. Kinds = {"key"} \cup {"tool"} /\ "tool" \notin {"key"}
  BY DEF Kinds
<1>2. IsFiniteSet({"key"}) /\ Cardinality({"key"}) = 1
  BY FS_Singleton, Zenon
<1>3. /\ IsFiniteSet({"key"} \cup {"tool"})
      /\ Cardinality({"key"} \cup {"tool"}) = Cardinality({"key"}) + 1
  BY <1>1, <1>2, FS_AddElement, Zenon
<1> QED
  BY <1>1, <1>2, <1>3

LEMMA PairsAreBounded ==
  ASSUME NEW T, T \subseteq Checks \X (1..(MaxResends + 1))
  PROVE  /\ IsFiniteSet(T)
         /\ Cardinality(T) \in Nat
         /\ MostRuns \in Nat
         /\ Cardinality(T) <= MostRuns
PROOF
<1> DEFINE n == MaxResends + 1
           R == 1..n
<1>1. n \in Nat \ {0}
  BY ResendAssumption
<1>2. IsFiniteSet(R) /\ Cardinality(R) = n
  <2> HIDE DEF n
  <2>1. IsFiniteSet(1..n) /\ Cardinality(1..n) = IF 1 > n THEN 0 ELSE n - 1 + 1
    BY <1>1, FS_Interval
  <2> QED
    BY <1>1, <2>1
<1>3. IsFiniteSet(Calls) /\ Cardinality(Calls) \in Nat
  BY CallsAssumption, FS_CardinalityType
<1>4. IsFiniteSet(Checks) /\ Cardinality(Checks) = Cardinality(Calls) * 2
  BY <1>3, KindsAreTwo, FS_Product DEF Checks
<1>5. /\ IsFiniteSet(Checks \X R)
      /\ Cardinality(Checks \X R) = Cardinality(Checks) * Cardinality(R)
  <2> HIDE DEF R
  <2> QED
    BY <1>2, <1>4, FS_Product
<1>6. Cardinality(Checks \X R) = MostRuns /\ MostRuns \in Nat
  BY <1>1, <1>2, <1>3, <1>4, <1>5 DEF MostRuns
<1> HIDE DEF R, n
<1>7. IsFiniteSet(T) /\ Cardinality(T) <= Cardinality(Checks \X R)
  BY <1>5, FS_Subset DEF R, n
<1>8. Cardinality(T) \in Nat
  BY <1>7, FS_CardinalityType
<1> QED
  BY <1>6, <1>7, <1>8

LEMMA RunsAreBounded ==
  ASSUME NEW s, NEW b
  PROVE  /\ IsFiniteSet(SpentIn(s, b))
         /\ RunsIn(s, b) \in Nat
         /\ MostRuns \in Nat
         /\ RunsIn(s, b) <= MostRuns
BY PairsAreBounded DEF RunsIn, SpentIn

LEMMA RunsStayBounded ==
  ASSUME NEW s, NEW b
  PROVE  RunsIn(s, b)' \in Nat /\ RunsIn(s, b)' <= MostRuns
BY PairsAreBounded DEF RunsIn, SpentIn

LEMMA StampedStays ==
  ASSUME NEW x, NEW s, NEW b, caller' = caller, tool' = tool, stamp'[x] = stamp[x]
  PROVE  StampedIn(x, s, b)' = StampedIn(x, s, b)
BY DEF StampedIn, ScopeOf

\* A step without a script run; it may read the clock for a check without one.
LEMMA RunsStay ==
  ASSUME TypeOK, caller' = caller, tool' = tool, runs' = runs,
         \A x \in Checks : runs[x] > 0 => stamp'[x] = stamp[x]
  PROVE  \A s, b : RunsIn(s, b)' = RunsIn(s, b)
PROOF
<1> SUFFICES ASSUME NEW s, NEW b PROVE RunsIn(s, b)' = RunsIn(s, b)
  OBVIOUS
<1> DEFINE R == 1..(MaxResends + 1)
<1>1. ASSUME NEW y \in Checks \X R
      PROVE  (y[2] <= runs[y[1]] /\ StampedIn(y[1], s, b))'
               <=> y[2] <= runs[y[1]] /\ StampedIn(y[1], s, b)
  <2>1. y[1] \in Checks /\ y[2] \in Nat \ {0} /\ runs[y[1]] \in Nat
    BY ResendAssumption DEF TypeOK
  <2>2. y[2] <= runs[y[1]] => stamp'[y[1]] = stamp[y[1]]
    BY <2>1
  <2> QED
    BY <2>2, StampedStays
<1>2. SpentIn(s, b)' = SpentIn(s, b)
  BY <1>1 DEF SpentIn
<1> QED
  BY <1>2 DEF RunsIn

\* A script run adds one to what its own counter may count.
LEMMA RunIsSpent ==
  ASSUME TypeOK, NEW c \in Calls, NEW k \in Kinds, SendScript(c, k),
         caller' = caller, tool' = tool, stamp' = stamp
  PROVE  \A s, b :
           RunsIn(s, b)' = IF <<s, b>> = CounterOf(c, k) THEN RunsIn(s, b) + 1
                                                         ELSE RunsIn(s, b)
PROOF
<1> DEFINE x0 == <<c, k>>
           i == runs[x0] + 1
           R == 1..(MaxResends + 1)
<1>1. /\ x0 \in Checks /\ i \in R /\ runs[x0] \in Nat
      /\ \A x \in Checks : runs'[x] = IF x = x0 THEN i ELSE runs[x]
      /\ \A x \in Checks : runs[x] \in Nat
  BY ResendAssumption DEF SendScript, TypeOK, Checks
<1> SUFFICES ASSUME NEW s, NEW b
             PROVE  RunsIn(s, b)' = IF <<s, b>> = CounterOf(c, k)
                                    THEN RunsIn(s, b) + 1 ELSE RunsIn(s, b)
  OBVIOUS
<1>2. StampedIn(x0, s, b) <=> <<s, b>> = CounterOf(c, k)
  BY DEF StampedIn, CounterOf, CounterName
<1>3. \A x : StampedIn(x, s, b)' = StampedIn(x, s, b)
  BY StampedStays
<1>4. CASE <<s, b>> = CounterOf(c, k)
  <2>1. SpentIn(s, b)' = SpentIn(s, b) \cup {<<x0, i>>}
    <3>1. ASSUME NEW y \in Checks \X R
          PROVE  y[2] <= runs'[y[1]] /\ StampedIn(y[1], s, b)
                   <=> \/ y[2] <= runs[y[1]] /\ StampedIn(y[1], s, b)
                       \/ y = <<x0, i>>
      <4>1. y = <<y[1], y[2]>> /\ y[1] \in Checks /\ y[2] \in Nat
        BY ResendAssumption
      <4> HIDE DEF x0
      <4>2. CASE y[1] = x0
        BY <1>1, <1>2, <1>4, <4>1, <4>2
      <4>3. CASE y[1] # x0
        BY <1>1, <4>1, <4>3
      <4> QED
        BY <4>2, <4>3
    <3>2. <<x0, i>> \in Checks \X R
      BY <1>1
    <3> QED
      BY <1>3, <3>1, <3>2 DEF SpentIn
  <2>2. <<x0, i>> \notin SpentIn(s, b)
    BY <1>1 DEF SpentIn
  <2>3. IsFiniteSet(SpentIn(s, b))
    BY RunsAreBounded
  <2>4. Cardinality(SpentIn(s, b) \cup {<<x0, i>>}) = Cardinality(SpentIn(s, b)) + 1
    BY <2>2, <2>3, FS_AddElement
  <2> QED
    BY <1>4, <2>1, <2>4 DEF RunsIn
<1>5. CASE <<s, b>> # CounterOf(c, k)
  <2>1. ASSUME NEW y \in Checks \X R
        PROVE  y[2] <= runs'[y[1]] /\ StampedIn(y[1], s, b)
                 <=> y[2] <= runs[y[1]] /\ StampedIn(y[1], s, b)
    BY <1>1, <1>2, <1>5
  <2>2. SpentIn(s, b)' = SpentIn(s, b)
    BY <1>3, <2>1 DEF SpentIn
  <2> QED
    BY <1>5, <2>2 DEF RunsIn
<1> QED
  BY <1>4, <1>5

-----------------------------------------------------------------------------
(***************************************************************************)
(* ChargesInv is preserved.                                                *)
(***************************************************************************)
LEMMA CountsStay ==
  ASSUME QuotaInv, CountsAreSpent, caller' = caller, tool' = tool,
         ticket' = ticket, \A s, b : RunsIn(s, b)' = RunsIn(s, b),
         \A x \in Checks : stamp'[x] = stamp[x] \/ ticket[x] = 0,
         \A n \in DOMAIN redis' : n \in DOMAIN redis /\ redis'[n] = redis[n]
  PROVE  CountsAreSpent'
PROOF
<1>1. \A n \in DOMAIN redis' : redis'[n].count <= RunsIn(n[1], n[2])'
  BY DEF CountsAreSpent
<1>2. ASSUME NEW x \in Checks
      PROVE  ticket'[x] <= RunsBeside(x)'
  <2>1. CASE ticket[x] = 0
    BY <2>1, RunsStayBounded DEF RunsBeside
  <2>2. CASE stamp'[x] = stamp[x]
    <3>1. RunsBeside(x)' = RunsBeside(x)
      BY <2>2, CheckParts, CounterStays DEF RunsBeside
    <3> QED
      BY <3>1 DEF CountsAreSpent
  <2> QED
    BY <2>1, <2>2
<1> QED
  BY <1>1, <1>2 DEF CountsAreSpent

LEMMA BucketIsPast ==
  ASSUME NEW e \in Nat, NEW w \in Nat \ {0}
  PROVE  WindowBucket(e, w) \in Nat /\ WindowBucket(e, w) <= e
PROOF
<1> DEFINE q == e \div w
<1>1. q \in Nat /\ e % w \in 0..(w - 1) /\ e = q * w + (e % w)
  BY DivMod
<1>2. q * w = q + q * (w - 1) /\ q * (w - 1) \in Nat
  <2> HIDE DEF q
  <2> QED
    BY <1>1
<1> HIDE DEF q
<1>3. q <= e
  BY <1>1, <1>2
<1> QED
  BY <1>1, <1>3 DEF WindowBucket, q

\* The counter of a check has its place among those that are promised.
LEMMA CounterIsPromised ==
  ASSUME QuotaInv, now <= MaxTime, NEW c \in Calls, NEW k \in Kinds
  PROVE  CounterOf(c, k) \in WindowsOfScopes
PROOF
<1> DEFINE e == stamp[<<c, k>>]
           w == LimitOf(ScopeOf(c, k)).seconds
<1>1. /\ CounterOf(c, k) \in Scopes \X Nat
      /\ CounterOf(c, k)[2] = WindowBucket(e, w)
      /\ w \in Nat \ {0}
  BY CounterOfTyped, LimitTyped DEF QuotaInv
<1>2. e \in Nat /\ now \in Nat /\ e <= now
  BY DEF QuotaInv, TypeOK, StampsArePast, Checks
<1> HIDE DEF e, w
<1>3. WindowBucket(e, w) \in Nat /\ WindowBucket(e, w) <= e
  BY <1>1, <1>2, BucketIsPast
<1> QED
  BY <1>1, <1>2, <1>3, TimeAssumption DEF WindowsOfScopes, Windows

LEMMA FreshCount ==
  ASSUME NEW c, NEW k, CounterOf(c, k) \notin DOMAIN redis
  PROVE  Charged(c, k).count = 1 /\ Charged(c, k).admitted = {}
BY DEF Charged, Incremented

\* What the three outcomes of a script run have in common.
LEMMA ChargeIsSpent ==
  ASSUME QuotaInv, ChargesInv, NEW c \in Calls, NEW k \in Kinds, NEW counter,
         counter.count = Charged(c, k).count, Store(c, k, counter),
         SendScript(c, k), now' = now,
         caller' = caller, tool' = tool, stamp' = stamp,
         ticket' = ticket \/ ticket' = [ticket EXCEPT ![<<c, k>>] = counter.count]
  PROVE  /\ CountsAreSpent' /\ now' <= MaxTime
         /\ DOMAIN redis' \subseteq WindowsOfScopes
         /\ counter.count <= MostRuns
PROOF
<1> DEFINE n0 == CounterOf(c, k)
<1>1. /\ DOMAIN redis' = DOMAIN redis \cup {n0} /\ redis'[n0] = counter
      /\ \A n \in DOMAIN redis : n # n0 => redis'[n] = redis[n]
  BY DEF Store
<1>2. n0 \in WindowsOfScopes /\ DOMAIN redis \subseteq WindowsOfScopes
  BY CounterIsPromised DEF ChargesInv
<1> PICK s0 \in Scopes, b0 \in Windows : n0 = <<s0, b0>>
  BY <1>2 DEF WindowsOfScopes
<1>3. \A s, b :
        /\ RunsIn(s, b) \in Nat
        /\ RunsIn(s, b)' = IF <<s, b>> = n0 THEN RunsIn(s, b) + 1 ELSE RunsIn(s, b)
  BY RunIsSpent, RunsAreBounded DEF QuotaInv
<1>4. counter.count <= RunsIn(s0, b0)' /\ counter.count \in Nat
  <2>1. /\ Charged(c, k) \in Counter
        /\ n0 \in DOMAIN redis => Charged(c, k).count = redis[n0].count + 1
    BY ChargedFacts DEF QuotaInv
  <2>2. n0 \in DOMAIN redis => redis[n0].count <= RunsIn(s0, b0)
                               /\ redis[n0].count \in Nat
    BY DEF ChargesInv, CountsAreSpent, QuotaInv, TypeOK, Counter
  <2>3. n0 \notin DOMAIN redis => Charged(c, k).count = 1
    BY FreshCount
  <2>4. RunsIn(s0, b0)' = RunsIn(s0, b0) + 1 /\ RunsIn(s0, b0) \in Nat
    BY <1>3
  <2> HIDE DEF n0
  <2> QED
    BY <2>1, <2>2, <2>3, <2>4 DEF Counter
<1>5. ASSUME NEW n \in DOMAIN redis'
      PROVE  redis'[n].count <= RunsIn(n[1], n[2])'
  <2>1. CASE n = n0
    <3>1. redis'[n].count = counter.count /\ n[1] = s0 /\ n[2] = b0
      BY <1>1, <2>1
    <3> QED
      BY <1>4, <3>1
  <2>2. CASE n # n0
    <3>1. /\ redis'[n] = redis[n]
          /\ redis[n].count <= RunsIn(n[1], n[2]) /\ redis[n].count \in Nat
      BY <1>1, <2>2 DEF ChargesInv, CountsAreSpent, QuotaInv, TypeOK, Counter
    <3>2. n = <<n[1], n[2]>>
      BY <1>1, <1>2, <2>2 DEF WindowsOfScopes
    <3>3. RunsIn(n[1], n[2])' = RunsIn(n[1], n[2])
      BY <1>3, <2>2, <3>2
    <3> QED
      BY <3>1, <3>3
  <2> QED
    BY <2>1, <2>2
<1>6. ASSUME NEW x \in Checks
      PROVE  ticket'[x] <= RunsBeside(x)'
  <2>1. CounterOf(x[1], x[2])' = CounterOf(x[1], x[2])
    BY CheckParts, CounterStays
  <2> PICK s, b : s = CounterOf(x[1], x[2])[1] /\ b = CounterOf(x[1], x[2])[2]
    OBVIOUS
  <2>2. RunsBeside(x)' = RunsIn(s, b)'
    BY <2>1 DEF RunsBeside
  <2>3. ticket[x] <= RunsIn(s, b) /\ ticket[x] \in Nat
    BY DEF ChargesInv, CountsAreSpent, QuotaInv, TypeOK, RunsBeside
  <2>4. CASE ticket'[x] = ticket[x]
    <3>1. RunsIn(s, b) <= RunsIn(s, b)' /\ RunsIn(s, b) \in Nat /\ RunsIn(s, b)' \in Nat
      BY <1>3
    <3> QED
      BY <2>2, <2>3, <2>4, <3>1
  <2>5. CASE ticket'[x] # ticket[x]
    <3>1. x = <<c, k>> /\ ticket'[x] = counter.count
      BY <2>5 DEF QuotaInv, TypeOK
    <3>2. s = s0 /\ b = b0
      BY <3>1
    <3> QED
      BY <1>4, <2>2, <3>1, <3>2
  <2> QED
    BY <2>4, <2>5
<1>7. counter.count <= MostRuns
  <2>1. /\ RunsIn(s0, b0)' \in Nat /\ RunsIn(s0, b0)' <= MostRuns
        /\ MostRuns \in Nat
    BY RunsAreBounded, RunsStayBounded
  <2> QED
    BY <1>4, <2>1
<1> QED
  BY <1>1, <1>2, <1>5, <1>6, <1>7 DEF CountsAreSpent, ChargesInv

LEMMA NotRunYetKept ==
  ASSUME QuotaInv, NotRunYet, NEW c \in Calls, NEW k \in Kinds, SendScript(c, k),
         \A d \in Calls : d # c => stage'[d] = stage[d],
         stage'[c] \in {stage[c], NextStage(k), "refused"}
  PROVE  NotRunYet'
PROOF
<1>1. /\ \A x \in Checks : runs'[x] = IF x = <<c, k>> THEN runs[x] + 1 ELSE runs[x]
      /\ runs[<<c, k>>] <= MaxResends /\ stage[c] = RedisStage(k)
      /\ \A x \in Checks : runs[x] \in Nat
      /\ <<c, k>> \in Checks
  BY DEF SendScript, QuotaInv, TypeOK, Checks
<1>2. \A x \in Checks : runs'[x] <= MaxResends + 1
  BY <1>1, ResendAssumption DEF NotRunYet
<1>3. ASSUME NEW d \in Calls
      PROVE  /\ stage'[d] = "key_clock" => runs'[<<d, "key">>] = 0
             /\ stage'[d] \in {"key_clock", "key_redis", "tool_clock"}
                  => runs'[<<d, "tool">>] = 0
  <2>1. <<d, "key">> \in Checks /\ <<d, "tool">> \in Checks
    BY DEF Checks, Kinds
  <2>2. CASE d # c
    BY <1>1, <2>1, <2>2 DEF NotRunYet
  <2>3. CASE d = c
    BY <1>1, <2>1, <2>3 DEF NotRunYet, RedisStage, NextStage, Kinds
  <2> QED
    BY <2>2, <2>3
<1> QED
  BY <1>2, <1>3 DEF NotRunYet

LEMMA RefusedStays ==
  ASSUME QuotaInv, RefusedByTicket, caller' = caller, tool' = tool,
         NEW c \in Calls, NEW k \in Kinds, stage[c] \in {ClockStage(k), RedisStage(k)},
         \A d \in Calls : d # c => stage'[d] = stage[d],
         \A x \in Checks : x # <<c, k>> => ticket'[x] = ticket[x],
         stage'[c] = "refused" =>
           ticket'[<<c, k>>] > 0 /\ ~ Within(ScopeOf(c, k), ticket'[<<c, k>>])
  PROVE  RefusedByTicket'
PROOF
<1> SUFFICES ASSUME NEW d \in Calls, stage'[d] = "refused"
             PROVE  \E j \in Kinds : /\ ticket'[<<d, j>>] > 0
                                     /\ ~ Within(ScopeOf(d, j), ticket'[<<d, j>>])
  BY DEF RefusedByTicket, Within, ScopeOf
<1>1. CASE d = c
  BY <1>1
<1>2. CASE d # c
  <2>1. \A j \in Kinds : ticket'[<<d, j>>] = ticket[<<d, j>>]
    BY <1>2 DEF Checks
  <2> QED
    BY <1>2, <2>1 DEF RefusedByTicket
<1> QED
  BY <1>1, <1>2

\* Every run of the script leaves a counter with one more charge.
LEMMA RunStores ==
  ASSUME QuotaInv, NEW c \in Calls, NEW k \in Kinds,
         Admit(c, k) \/ Refuse(c, k) \/ LoseReply(c, k)
  PROVE  \E counter :
           /\ counter.count = Charged(c, k).count
           /\ \/ counter.admitted = Charged(c, k).admitted \cup {<<c, k>>} /\ Admit(c, k)
              \/ counter.admitted = Charged(c, k).admitted /\ ~ Admit(c, k)
           /\ Store(c, k, counter)
           /\ \/ ticket' = ticket
              \/ ticket' = [ticket EXCEPT ![<<c, k>>] = counter.count]
PROOF
<1>1. CASE Admit(c, k)
  <2> DEFINE counter == [Charged(c, k) EXCEPT !.admitted = @ \cup {<<c, k>>}]
  <2>1. Charged(c, k) \in Counter
    BY ChargedFacts DEF QuotaInv
  <2>2. /\ counter.count = Charged(c, k).count
        /\ counter.admitted = Charged(c, k).admitted \cup {<<c, k>>}
    BY <2>1 DEF Counter
  <2> QED
    BY <1>1, <2>2 DEF Admit
<1>2. CASE ~ Admit(c, k)
  BY <1>2 DEF Refuse, LoseReply
<1> QED
  BY <1>1, <1>2

LEMMA RunsKeepCharges ==
  ASSUME QuotaInv, ChargesInv, NEW c \in Calls, NEW k \in Kinds,
         Admit(c, k) \/ Refuse(c, k) \/ LoseReply(c, k)
  PROVE  ChargesInv'
PROOF
<1> DEFINE x0 == <<c, k>>
<1>1. /\ SendScript(c, k) /\ stage[c] = RedisStage(k)
      /\ now' = now /\ caller' = caller /\ tool' = tool /\ stamp' = stamp
  BY DEF Admit, Refuse, LoseReply, SendScript
<1>2. PICK counter : /\ counter.count = Charged(c, k).count
                     /\ Store(c, k, counter)
                     /\ \/ ticket' = ticket
                        \/ ticket' = [ticket EXCEPT ![x0] = counter.count]
  BY RunStores
<1>3. /\ \A d \in Calls : d # c => stage'[d] = stage[d]
      /\ stage'[c] \in {stage[c], NextStage(k), "refused"}
      /\ \A x \in Checks : x # x0 => ticket'[x] = ticket[x]
  BY <1>2 DEF Admit, Refuse, LoseReply, QuotaInv, TypeOK
<1>4. CountsAreSpent' /\ now' <= MaxTime /\ DOMAIN redis' \subseteq WindowsOfScopes
  BY <1>1, <1>2, ChargeIsSpent
<1>5. NotRunYet'
  BY <1>1, <1>3, NotRunYetKept DEF ChargesInv
<1>6. RefusedByTicket'
  <2>1. stage'[c] = "refused" =>
          ticket'[x0] > 0 /\ ~ Within(ScopeOf(c, k), ticket'[x0])
    <3> SUFFICES ASSUME stage'[c] = "refused"
                 PROVE  ticket'[x0] > 0 /\ ~ Within(ScopeOf(c, k), ticket'[x0])
      OBVIOUS
    <3>1. Refuse(c, k)
      BY <1>1 DEF Admit, LoseReply, QuotaInv, TypeOK, NextStage, RedisStage
    <3>2. /\ ticket' = [ticket EXCEPT ![x0] = Charged(c, k).count]
          /\ ~ Within(ScopeOf(c, k), Charged(c, k).count)
      BY <3>1 DEF Refuse
    <3>3. ticket'[x0] = Charged(c, k).count
      BY <3>2 DEF QuotaInv, TypeOK, Checks
    <3>4. Charged(c, k).count \in Nat \ {0}
      BY ChargedFacts DEF QuotaInv, Counter
    <3> QED
      BY <3>2, <3>3, <3>4
  <2> QED
    BY <1>1, <1>3, <2>1, RefusedStays DEF ChargesInv
<1> QED
  BY <1>4, <1>5, <1>6 DEF ChargesInv

LEMMA WaitsKeepCharges ==
  ASSUME QuotaInv, ChargesInv, NEW c \in Calls, NEW k \in Kinds,
         ReadClock(c, k) \/ Fail(c, k)
  PROVE  ChargesInv'
PROOF
<1>1. /\ now' = now /\ caller' = caller /\ tool' = tool /\ redis' = redis
      /\ ticket' = ticket /\ runs' = runs
      /\ stage[c] \in {ClockStage(k), RedisStage(k)}
      /\ \A d \in Calls : d # c => stage'[d] = stage[d]
      /\ stage'[c] # "refused"
      /\ stage'[c] = "failed" \/ (stage[c] = ClockStage(k) /\ stage'[c] = RedisStage(k))
  BY DEF ReadClock, Fail, QuotaInv, TypeOK, RedisStage
<1>2. \A x \in Checks : stamp'[x] = stamp[x] \/ (ticket[x] = 0 /\ runs[x] = 0)
  <2> DEFINE x0 == <<c, k>>
  <2>1. CASE ReadClock(c, k)
    <3>1. ticket[x0] = 0 /\ runs[x0] = 0
      BY <2>1 DEF QuotaInv, NotCountedYet, ChargesInv, NotRunYet, ReadClock, ClockStage,
                  Kinds
    <3>2. \A x \in Checks : x # x0 => stamp'[x] = stamp[x]
      BY <2>1 DEF ReadClock, QuotaInv, TypeOK
    <3> QED
      BY <3>1, <3>2
  <2>2. CASE Fail(c, k)
    BY <2>2 DEF Fail
  <2> QED
    BY <2>1, <2>2
<1>3. CountsAreSpent'
  <2>1. \A s, b : RunsIn(s, b)' = RunsIn(s, b)
    BY <1>1, <1>2, RunsStay DEF QuotaInv
  <2> QED
    BY <1>1, <1>2, <2>1, CountsStay DEF ChargesInv
<1>4. NotRunYet'
  BY <1>1 DEF ChargesInv, NotRunYet, ClockStage, RedisStage, Kinds
<1>5. RefusedByTicket'
  BY <1>1, RefusedStays DEF ChargesInv
<1> QED
  BY <1>1, <1>3, <1>4, <1>5 DEF ChargesInv

LEMMA TimeKeepsCharges ==
  ASSUME QuotaInv, ChargesInv,
         Tick \/ UNCHANGED vars \/ \E n \in DOMAIN redis : Expire(n)
  PROVE  ChargesInv'
PROOF
<1>1. /\ stage' = stage /\ caller' = caller /\ tool' = tool /\ stamp' = stamp
      /\ ticket' = ticket /\ runs' = runs
      /\ now' = now \/ (now' = now + 1 /\ now < MaxTime)
      /\ \A n \in DOMAIN redis' : n \in DOMAIN redis /\ redis'[n] = redis[n]
  BY DEF Tick, vars, Expire
<1>2. CountsAreSpent'
  BY <1>1, RunsStay, CountsStay DEF QuotaInv, ChargesInv
<1>3. NotRunYet' /\ RefusedByTicket'
  BY <1>1 DEF ChargesInv, NotRunYet, RefusedByTicket, Within, ScopeOf
<1>4. now' <= MaxTime
  BY <1>1, TimeAssumption DEF ChargesInv, QuotaInv, TypeOK
<1> QED
  BY <1>1, <1>2, <1>3, <1>4 DEF ChargesInv

LEMMA InitCharges == Init => ChargesInv
PROOF
<1> SUFFICES ASSUME Init PROVE ChargesInv
  OBVIOUS
<1>1. \A x \in Checks : ticket[x] = 0 /\ runs[x] = 0
  BY DEF Init
<1>2. CountsAreSpent
  BY <1>1, RunsAreBounded DEF Init, CountsAreSpent, RunsBeside
<1> QED
  BY <1>1, <1>2, TimeAssumption, ResendAssumption
     DEF Init, ChargesInv, NotRunYet, RefusedByTicket, Checks, Kinds

LEMMA AlwaysCharged == Spec => [](QuotaInv /\ ChargesInv)
PROOF
<1>1. Init => QuotaInv /\ ChargesInv
  BY InitKeeps, InitCharges
<1>2. (QuotaInv /\ ChargesInv) /\ [Next]_vars => (QuotaInv /\ ChargesInv)'
  BY StepKeeps, RunsKeepCharges, WaitsKeepCharges, TimeKeepsCharges DEF Next, CheckStep
<1> QED
  BY <1>1, <1>2, PTL DEF Spec

(***************************************************************************)
(* However many checks, lost replies and expiries there are, no counter    *)
(* and no ticket goes beyond the runs for the checks of its own window.    *)
(***************************************************************************)
THEOREM ChargesInvariant == Spec => []ChargesInv
BY AlwaysCharged, PTL

(***************************************************************************)
(* A call is refused only by what was run for its own key, or its own key  *)
(* and tool, in its own window.                                            *)
(***************************************************************************)
THEOREM DenialIsEarnedHolds == Spec => []DenialIsEarned
PROOF
<1>1. QuotaInv /\ ChargesInv => DenialIsEarned
  <2> SUFFICES ASSUME QuotaInv, ChargesInv, NEW c \in Calls, stage[c] = "refused"
               PROVE  \E k \in Kinds :
                        LET s == ScopeOf(c, k)
                            b == WindowBucket(stamp[<<c, k>>], LimitOf(s).seconds)
                        IN  ticket[<<c, k>>] > 0 /\ RunsIn(s, b) > LimitOf(s).requests
    BY DEF DenialIsEarned
  <2> PICK k \in Kinds : /\ ticket[<<c, k>>] > 0
                         /\ ~ Within(ScopeOf(c, k), ticket[<<c, k>>])
    BY DEF ChargesInv, RefusedByTicket
  <2> DEFINE s == ScopeOf(c, k)
             b == WindowBucket(stamp[<<c, k>>], LimitOf(s).seconds)
  <2>1. <<c, k>> \in Checks /\ CounterOf(c, k) = <<s, b>>
    BY DEF Checks, CounterOf, CounterName
  <2>2. ticket[<<c, k>>] <= RunsIn(s, b)
    BY <2>1 DEF ChargesInv, CountsAreSpent, RunsBeside
  <2>3. /\ ticket[<<c, k>>] \in Nat /\ RunsIn(s, b) \in Nat
        /\ LimitOf(s).requests \in Nat
    BY <2>1, RunsAreBounded, LimitTyped, CounterOfTyped DEF QuotaInv, TypeOK
  <2>4. ~ (ticket[<<c, k>>] <= LimitOf(s).requests)
    BY DEF Within
  <2> QED
    BY <2>2, <2>3, <2>4
<1> QED
  BY <1>1, AlwaysCharged, PTL

-----------------------------------------------------------------------------
(***************************************************************************)
(* The refinement: what WindowCounters sees of Redis.                      *)
(***************************************************************************)
CountIn(x) == IF x \in DOMAIN redis THEN redis[x].count ELSE 0
AdmittedOf(x) == IF x \in DOMAIN redis THEN redis[x].admitted ELSE {}

Used == [x \in WindowsOfScopes |-> CountIn(x)]
AdmittedSets == [x \in WindowsOfScopes |-> AdmittedOf(x)]

\* Only one counter is written.
LEMMA StoreIsLocal ==
  ASSUME NEW c, NEW k, NEW counter, Store(c, k, counter), CounterOf(c, k) \in WindowsOfScopes
  PROVE  /\ Used' = [Used EXCEPT ![CounterOf(c, k)] = counter.count]
         /\ AdmittedSets' = [AdmittedSets EXCEPT ![CounterOf(c, k)] = counter.admitted]
PROOF
<1> DEFINE n == CounterOf(c, k)
<1>1. /\ DOMAIN redis' = DOMAIN redis \cup {n} /\ redis'[n] = counter
      /\ \A m \in DOMAIN redis : m # n => redis'[m] = redis[m]
  BY DEF Store
<1> HIDE DEF n
<1>2. \A x \in WindowsOfScopes :
        /\ CountIn(x)' = IF x = n THEN counter.count ELSE CountIn(x)
        /\ AdmittedOf(x)' = IF x = n THEN counter.admitted ELSE AdmittedOf(x)
  BY <1>1 DEF CountIn, AdmittedOf
<1> QED
  BY <1>2 DEF Used, AdmittedSets, n

LEMMA ChargedIsNext ==
  ASSUME QuotaInv, NEW c \in Calls, NEW k \in Kinds
  PROVE  /\ CountIn(CounterOf(c, k)) \in Nat
         /\ Charged(c, k).count = CountIn(CounterOf(c, k)) + 1
         /\ Charged(c, k).admitted = AdmittedOf(CounterOf(c, k))
PROOF
<1> DEFINE n == CounterOf(c, k)
<1>1. CASE n \in DOMAIN redis
  <2>1. redis[n] \in Counter
    BY <1>1 DEF QuotaInv, TypeOK
  <2>2. Charged(c, k) = [redis[n] EXCEPT !.count = @ + 1]
    BY <1>1 DEF Charged, Incremented
  <2> QED
    BY <1>1, <2>1, <2>2 DEF CountIn, AdmittedOf, Counter
<1>2. CASE n \notin DOMAIN redis
  BY <1>2, FreshCount DEF CountIn, AdmittedOf
<1> QED
  BY <1>1, <1>2

\* A script run is a charge, seen or unseen.
LEMMA RunIsCharge ==
  ASSUME QuotaInv, ChargesInv, NEW c \in Calls, NEW k \in Kinds,
         Admit(c, k) \/ Refuse(c, k) \/ LoseReply(c, k)
  PROVE  Promise!Next
PROOF
<1> DEFINE x0 == <<c, k>>
           n == CounterOf(c, k)
<1> PICK s \in Scopes, w \in Windows : n = <<s, w>>
  BY CounterIsPromised DEF WindowsOfScopes, ChargesInv
<1>1. /\ n \in WindowsOfScopes /\ x0 \in Checks /\ s = ScopeOf(c, k)
  BY CounterOfTyped DEF WindowsOfScopes, Checks, QuotaInv
<1>2. /\ CountIn(n) \in Nat /\ Charged(c, k).count = CountIn(n) + 1
      /\ Charged(c, k).admitted = AdmittedOf(n)
      /\ Used[n] = CountIn(n) /\ AdmittedSets[n] = AdmittedOf(n)
  BY <1>1, ChargedIsNext DEF Used, AdmittedSets
<1>3. PICK counter : /\ counter.count = Charged(c, k).count
                     /\ \/ counter.admitted = Charged(c, k).admitted \cup {x0} /\ Admit(c, k)
                        \/ counter.admitted = Charged(c, k).admitted /\ ~ Admit(c, k)
                     /\ Store(c, k, counter)
                     /\ \/ ticket' = ticket
                        \/ ticket' = [ticket EXCEPT ![x0] = counter.count]
  BY RunStores
<1>4. Used[n] < MostRuns
  <2>1. counter.count <= MostRuns
    <3>1. /\ SendScript(c, k) /\ now' = now
          /\ caller' = caller /\ tool' = tool /\ stamp' = stamp
      BY DEF Admit, Refuse, LoseReply, SendScript
    <3> QED
      BY <1>3, <3>1, ChargeIsSpent
  <2> QED
    BY <1>2, <1>3, <2>1, RunsAreBounded
<1>5. Used' = [Used EXCEPT ![n] = Used[n] + 1]
  BY <1>1, <1>2, <1>3, StoreIsLocal
<1>6. AdmittedSets' = [AdmittedSets EXCEPT ![n] = counter.admitted]
  BY <1>1, <1>3, StoreIsLocal
<1>7. Promise!HasRoom(s, w) <=> Within(s, Charged(c, k).count)
  <2>1. LimitOf(s).requests \in Nat
    BY LimitTyped
  <2> QED
    BY <1>2, <2>1 DEF Promise!HasRoom, Within, Used, CountIn
<1>8. CASE Admit(c, k)
  <2>1. AdmittedSets' = [AdmittedSets EXCEPT ![n] = AdmittedSets[n] \cup {x0}]
    BY <1>2, <1>3, <1>6, <1>8
  <2>2. Promise!HasRoom(s, w)
    BY <1>1, <1>7, <1>8 DEF Admit
  <2>3. Promise!Charge(x0, s, w)
    BY <1>4, <1>5, <2>1, <2>2
       DEF Promise!Charge, Used, AdmittedSets, CountIn, AdmittedOf, MostRuns
  <2> QED
    BY <1>1, <2>3 DEF Promise!Next
<1>9. CASE ~ Admit(c, k)
  <2>1. AdmittedSets' = [AdmittedSets EXCEPT ![n] = AdmittedSets[n]]
    BY <1>2, <1>3, <1>6, <1>9
  <2>2. AdmittedSets' = AdmittedSets
    BY <2>1 DEF AdmittedSets
  <2>3. Promise!ChargeUnseen(s, w)
    BY <1>4, <1>5, <2>2
       DEF Promise!ChargeUnseen, Used, AdmittedSets, CountIn, AdmittedOf, MostRuns
  <2> QED
    BY <2>3 DEF Promise!Next
<1> QED
  BY <1>8, <1>9

\* What Expire takes away is forgotten.
LEMMA ExpiryIsForget ==
  ASSUME ChargesInv, NEW n \in DOMAIN redis, Expire(n)
  PROVE  Promise!Next
PROOF
<1> PICK s \in Scopes, w \in Windows : n = <<s, w>>
  BY DEF ChargesInv, WindowsOfScopes
<1>1. n \in WindowsOfScopes
  BY DEF WindowsOfScopes
<1>2. \A x \in WindowsOfScopes :
        /\ CountIn(x)' = IF x = n THEN 0 ELSE CountIn(x)
        /\ AdmittedOf(x)' = IF x = n THEN {} ELSE AdmittedOf(x)
  BY DEF Expire, CountIn, AdmittedOf
<1>3. /\ Used' = [Used EXCEPT ![n] = 0]
      /\ AdmittedSets' = [AdmittedSets EXCEPT ![n] = {}]
  BY <1>1, <1>2 DEF Used, AdmittedSets
<1>4. Promise!Forget(s, w)
  BY <1>3 DEF Promise!Forget, Used, AdmittedSets, CountIn, AdmittedOf
<1> QED
  BY <1>4 DEF Promise!Next

LEMMA StepIsPromised ==
  QuotaInv /\ ChargesInv /\ [Next]_vars => [Promise!Next]_(Promise!vars)
PROOF
<1> SUFFICES ASSUME QuotaInv, ChargesInv, [Next]_vars
             PROVE  Promise!Next \/ UNCHANGED Promise!vars
  OBVIOUS
<1>1. CASE redis' = redis
  BY <1>1 DEF Promise!vars
<1>2. ASSUME NEW c \in Calls, NEW k \in Kinds, CheckStep(c, k)
      PROVE  Promise!Next \/ redis' = redis
  BY <1>2, RunIsCharge DEF CheckStep, ReadClock, Fail
<1>3. ASSUME NEW n \in DOMAIN redis, Expire(n)
      PROVE  Promise!Next
  BY <1>3, ExpiryIsForget
<1> QED
  BY <1>1, <1>2, <1>3 DEF Next, Tick, vars

(***************************************************************************)
(* The limiter implements WindowCounters: with its clock, its late and     *)
(* repeated scripts and the expiries of Redis it still is a set of         *)
(* counters, one per scope and window, that may forget but do not miscount.*)
(***************************************************************************)
THEOREM ImplementsPromiseHolds == Spec => ImplementsPromise
PROOF
<1>1. Init => Promise!Init
  BY DEF Init, Promise!Init, Promise!Counters, WindowsOfScopes
<1>2. QuotaInv /\ ChargesInv /\ [Next]_vars => [Promise!Next]_(Promise!vars)
  BY StepIsPromised
<1> QED
  BY <1>1, <1>2, AlwaysCharged, PTL DEF Spec, ImplementsPromise, Promise!Spec

=============================================================================
