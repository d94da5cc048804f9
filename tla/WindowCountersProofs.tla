------------------------ MODULE WindowCountersProofs ------------------------
(***************************************************************************)
(* Proofs about WindowCounters, for any number of requests and any limits. *)
(***************************************************************************)
EXTENDS WindowCounters, FiniteSetTheorems, TLAPS

LEMMA LimitTyped ==
  ASSUME NEW x \in Counters
  PROVE  Limit[x[1]] \in Nat \ {0}
BY LimitAssumption DEF Counters

LEMMA CardinalityTyped ==
  ASSUME QuotaInv, NEW x \in Counters
  PROVE  Cardinality(admitted[x]) \in Nat
BY FS_CardinalityType DEF QuotaInv

LEMMA InitKeeps ==
  ASSUME Init
  PROVE  QuotaInv
BY FS_EmptySet, LimitTyped DEF Init, QuotaInv, TypeOK

LEMMA ChargeKeeps ==
  ASSUME QuotaInv, NEW c \in Clients, NEW s \in Scopes, NEW w \in Windows,
         Charge(c, s, w)
  PROVE  QuotaInv'
PROOF
<1> DEFINE x0 == <<s, w>>
<1>1. x0 \in Counters /\ Limit[x0[1]] = Limit[s]
  BY DEF Counters
<1>2. TypeOK'
  BY <1>1 DEF QuotaInv, TypeOK, Charge
<1> SUFFICES ASSUME NEW x \in Counters
             PROVE  /\ IsFiniteSet(admitted'[x])
                    /\ Cardinality(admitted'[x]) <= used'[x]
                    /\ Cardinality(admitted'[x]) <= Limit[x[1]]
  BY <1>2 DEF QuotaInv
<1>3. /\ IsFiniteSet(admitted[x])
      /\ Cardinality(admitted[x]) <= used[x]
      /\ Cardinality(admitted[x]) <= Limit[x[1]]
      /\ used[x] \in Nat
      /\ Limit[x[1]] \in Nat
      /\ Cardinality(admitted[x]) \in Nat
  BY LimitTyped, CardinalityTyped DEF QuotaInv, TypeOK
<1>4. CASE x # x0
  BY <1>1, <1>3, <1>4 DEF Charge, QuotaInv, TypeOK
<1>5. CASE x = x0 /\ HasRoom(s, w)
  <2>1. /\ used'[x] = used[x] + 1 /\ used[x] < Limit[x[1]]
        /\ admitted'[x] = admitted[x] \cup {c}
    BY <1>1, <1>5 DEF Charge, HasRoom, QuotaInv, TypeOK
  <2>2. /\ IsFiniteSet(admitted'[x])
        /\ \/ Cardinality(admitted'[x]) = Cardinality(admitted[x])
           \/ Cardinality(admitted'[x]) = Cardinality(admitted[x]) + 1
    <3> DEFINE S == admitted[x]
    <3> HIDE DEF S
    <3>1. /\ IsFiniteSet(S \cup {c})
          /\ Cardinality(S \cup {c}) =
               IF c \in S THEN Cardinality(S) ELSE Cardinality(S) + 1
      <4>1. IsFiniteSet(S)
        BY <1>3 DEF S
      <4> QED
        BY <4>1, FS_AddElement, Zenon
    <3> QED
      BY <2>1, <3>1 DEF S
  <2> QED
    BY <1>3, <2>1, <2>2
<1>6. CASE x = x0 /\ ~ HasRoom(s, w)
  BY <1>1, <1>3, <1>6 DEF Charge, QuotaInv, TypeOK
<1> QED
  BY <1>4, <1>5, <1>6

LEMMA ChargeUnseenKeeps ==
  ASSUME QuotaInv, NEW s \in Scopes, NEW w \in Windows, ChargeUnseen(s, w)
  PROVE  QuotaInv'
PROOF
<1>1. /\ admitted' = admitted /\ TypeOK'
      /\ \A x \in Counters : used'[x] \in Nat /\ used[x] <= used'[x]
  <2>1. <<s, w>> \in Counters
    BY DEF Counters
  <2> QED
    BY <2>1 DEF ChargeUnseen, QuotaInv, TypeOK
<1>2. ASSUME NEW x \in Counters
      PROVE  Cardinality(admitted[x]) <= used'[x]
  BY <1>1, CardinalityTyped DEF QuotaInv, TypeOK
<1> QED
  BY <1>1, <1>2 DEF QuotaInv

LEMMA ForgetKeeps ==
  ASSUME QuotaInv, NEW s \in Scopes, NEW w \in Windows, Forget(s, w)
  PROVE  QuotaInv'
PROOF
<1>1. TypeOK'
  BY DEF Forget, QuotaInv, TypeOK
<1>2. ASSUME NEW x \in Counters
      PROVE  \/ used'[x] = used[x] /\ admitted'[x] = admitted[x]
             \/ used'[x] = 0 /\ admitted'[x] = {}
  BY DEF Forget, QuotaInv, TypeOK
<1> QED
  BY <1>1, <1>2, FS_EmptySet, LimitTyped DEF QuotaInv

(***************************************************************************)
(* A counter never admits more than it was charged, nor than its limit.    *)
(***************************************************************************)
THEOREM QuotaInvariant == Spec => []QuotaInv
PROOF
<1>1. Init => QuotaInv
  BY InitKeeps
<1>2. QuotaInv /\ [Next]_vars => QuotaInv'
  <2>1. QuotaInv /\ UNCHANGED vars => QuotaInv'
    BY DEF QuotaInv, TypeOK, vars
  <2> QED
    BY <2>1, ChargeKeeps, ChargeUnseenKeeps, ForgetKeeps DEF Next
<1> QED
  BY <1>1, <1>2, PTL DEF Spec

(***************************************************************************)
(* What the rest of the gateway relies on: no counter of a key, or of a    *)
(* key and a tool, lets more requests through than its limit.              *)
(***************************************************************************)
THEOREM QuotaIsKept == Spec => []QuotaKept
PROOF
<1>1. QuotaInv => QuotaKept
  BY DEF QuotaInv, QuotaKept, Counters
<1> QED
  BY <1>1, QuotaInvariant, PTL
=============================================================================
