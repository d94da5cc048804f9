--------------------------- MODULE WindowCounters ---------------------------
(***************************************************************************)
(* What bansho's rate limiter promises, with no clock and no Redis in      *)
(* sight.  A scope is what a quota is about: an API key, or an API key and *)
(* a tool.  A window of a scope has one counter.  A request charges the    *)
(* counter of some window and is admitted when the counter, its own charge *)
(* included, is within the limit.  At any moment the store may forget      *)
(* a counter, which starts that window afresh.                             *)
(*                                                                         *)
(* RateLimiter implements this specification over time; Gateway composes   *)
(* it with the request pipeline.                                           *)
(***************************************************************************)
EXTENDS Naturals, FiniteSets

CONSTANTS
  Clients,   \* the requests that are charged
  Scopes,    \* what the quotas are about
  Windows,   \* the windows of time a request can be counted in
  Limit,     \* Limit[s]: how many requests one window of scope s admits
  MaxCharges \* bound: the charges a counter can take

ASSUME LimitAssumption == Limit \in [Scopes -> Nat \ {0}]
ASSUME ChargesAssumption == MaxCharges \in Nat

VARIABLES
  used,      \* used[<<s, w>>]: charges since the counter was last forgotten
  admitted   \* admitted[<<s, w>>]: the requests it admitted since then

vars == <<used, admitted>>

Counters == Scopes \X Windows

Init ==
  /\ used = [x \in Counters |-> 0]
  /\ admitted = [x \in Counters |-> {}]

\* Mutant of HasRoom: the comparison is made before the charge is added.
HasRoomBeforeCharge(s, w) == used[<<s, w>>] <= Limit[s]

\* The counter answers within its limit to the next charge.
HasRoom(s, w) == used[<<s, w>>] < Limit[s]

Charge(c, s, w) ==
  /\ used[<<s, w>>] < MaxCharges
  /\ used' = [used EXCEPT ![<<s, w>>] = @ + 1]
  /\ admitted' = [admitted EXCEPT ![<<s, w>>] =
                    IF HasRoom(s, w) THEN @ \cup {c} ELSE @]

\* The charge happens and nobody learns of it: the reply is lost.
ChargeUnseen(s, w) ==
  /\ used[<<s, w>>] < MaxCharges
  /\ used' = [used EXCEPT ![<<s, w>>] = @ + 1]
  /\ UNCHANGED admitted

\* Mutant of Forget: the count starts afresh, what it admitted does not.
ForgetCount(s, w) ==
  /\ used' = [used EXCEPT ![<<s, w>>] = 0]
  /\ UNCHANGED admitted

Forget(s, w) ==
  /\ used' = [used EXCEPT ![<<s, w>>] = 0]
  /\ admitted' = [admitted EXCEPT ![<<s, w>>] = {}]

Next ==
  \E s \in Scopes, w \in Windows :
    \/ \E c \in Clients : Charge(c, s, w)
    \/ ChargeUnseen(s, w)
    \/ Forget(s, w)

Spec == Init /\ [][Next]_vars

-----------------------------------------------------------------------------
TypeOK ==
  /\ used \in [Counters -> Nat]
  /\ admitted \in [Counters -> SUBSET Clients]

(***************************************************************************)
(* The promise: however charges, lost replies and forgotten counters       *)
(* interleave, a counter has admitted at most its limit since it was last  *)
(* forgotten.                                                              *)
(***************************************************************************)
QuotaKept ==
  \A s \in Scopes, w \in Windows : Cardinality(admitted[<<s, w>>]) <= Limit[s]

-----------------------------------------------------------------------------
\* Why: a request is admitted only by a charge that finds room.
QuotaInv ==
  /\ TypeOK
  /\ \A x \in Counters :
       /\ IsFiniteSet(admitted[x])
       /\ Cardinality(admitted[x]) <= used[x]
       /\ Cardinality(admitted[x]) <= Limit[x[1]]
=============================================================================
