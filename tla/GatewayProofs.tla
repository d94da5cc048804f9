--------------------------- MODULE GatewayProofs ---------------------------
(***************************************************************************)
(* Proofs about Gateway, for any number of processes, keys, tools,         *)
(* policies and requests.                                                  *)
(***************************************************************************)
EXTENDS Gateway, FiniteSetTheorems, TLAPS

Cells == Scopes \X {"now"}

LEMMA CellsTyped ==
  /\ Counters!Counters = Cells
  /\ Counters!TypeOK <=> /\ used \in [Cells -> Nat]
                         /\ admitted \in [Cells -> SUBSET (Requests \X Kinds)]
BY DEF Cells, Counters!Counters, Counters!TypeOK

LEMMA ScopesTyped ==
  ASSUME TypeOK, NEW r \in Requests, NEW k \in Kinds, stage[r] # "unsent",
         caller[r] \in Keys
  PROVE  ScopeOf(r, k) \in Scopes /\ <<ScopeOf(r, k), "now">> \in Cells
BY DEF TypeOK, Input, ScopeOf, Scopes, Cells, Kinds

LEMMA InitTyped == Init => TypeOK
BY LimitsAssumption, CellsTyped
   DEF Init, TypeOK, Counters!Init, Counters!TypeOK, Counters!Counters,
       KeyStates, Stages, Codes, Events, Decision, NothingDecided, Outcomes, Cells


(***************************************************************************)
(* Types.                                                                  *)
(***************************************************************************)
LEMMA ProcessesKeepTypes ==
  ASSUME TypeOK, NEW g \in Gateways,
         Crash(g) \/ \E p \in Policies : Start(g, p)
  PROVE  TypeOK'
PROOF
<1>1. CASE Crash(g)
  <2>1. /\ stage' \in [Requests -> Stages]
        /\ \A q \in Requests : stage'[q] = "unsent" <=> stage[q] = "unsent"
    BY <1>1 DEF Crash, TypeOK, Stages, InFlight
  <2> QED
    BY <1>1, <2>1 DEF Crash, TypeOK, counters, Counters!TypeOK
<1>2. ASSUME NEW p \in Policies, Start(g, p)
      PROVE  TypeOK'
  BY <1>2 DEF Start, TypeOK, counters, Counters!TypeOK, NoInput
<1> QED
  BY <1>1, <1>2

LEMMA KeysKeepTypes ==
  ASSUME TypeOK, NEW k \in Keys, CreateAPIKey(k) \/ RevokeAPIKey(k)
  PROVE  TypeOK'
BY DEF CreateAPIKey, RevokeAPIKey, TypeOK, KeyStates, counters, Counters!TypeOK

LEMMA ReceiveKeepsTypes ==
  ASSUME TypeOK, NEW r \in Requests, NEW g \in Gateways, NEW m \in Methods,
         NEW k \in Keys \cup {NoKey}, NEW t \in Tools, Receive(r, g, m, k, t)
  PROVE  TypeOK'
BY DEF Receive, MoveTo, TypeOK, Stages, Input, counters, Counters!TypeOK

LEMMA DecideTyped ==
  ASSUME decision \in [Requests -> Decision], NEW r \in Requests,
         NEW which \in {"auth", "authz", "rate"}, NEW outcome \in Outcomes,
         Decide(r, which, outcome)
  PROVE  decision' \in [Requests -> Decision]
PROOF
<1>1. decision[r] \in Decision
  OBVIOUS
<1>2. [decision[r] EXCEPT ![which] = outcome] \in Decision
  BY <1>1 DEF Decision
<1>3. decision' = [decision EXCEPT ![r] = [decision[r] EXCEPT ![which] = outcome]]
  BY DEF Decide
<1> QED
  BY <1>2, <1>3

LEMMA RequestsKeepTypes ==
  ASSUME TypeOK, NEW r \in Requests,
         OwnStep(r) \/ UpstreamStep(r) \/ UpstreamFails(r) \/ ListFails(r)
           \/ \E k \in Kinds : LoseRateReply(r, k)
  PROVE  TypeOK'
PROOF
<1> USE DEF TypeOK, Stages, MoveTo, counters
<1>1. CASE AnswerUnknownTool(r)
  BY <1>1 DEF AnswerUnknownTool, Counters!TypeOK
<1>2. CASE Relay(r)
  BY <1>2 DEF Relay, Counters!TypeOK
<1>3. CASE QueryKeys(r)
  BY <1>3 DEF QueryKeys, NeedsKey, Counters!TypeOK
<1>4. CASE Unauthorized(r)
  <2>1. decision' \in [Requests -> Decision]
    BY <1>4, DecideTyped DEF Unauthorized, Outcomes
  <2> QED
    <3>1. /\ stage' \in [Requests -> Stages]
          /\ \A q \in Requests : stage'[q] = "unsent" <=> stage[q] = "unsent"
      BY <1>4 DEF Unauthorized, NeedsKey, Conclude
    <3>2. status' \in [Requests -> Codes] /\ caller' \in [Requests -> Keys \cup {NoKey}]
      BY <1>4 DEF Unauthorized, Conclude, Codes
    <3> QED
      BY <1>4, <2>1, <3>1, <3>2 DEF Unauthorized, Counters!TypeOK
<1>5. CASE Authenticated(r)
  <2>1. decision' \in [Requests -> Decision]
    BY <1>5, DecideTyped DEF Authenticated, Outcomes
  <2> QED
    BY <1>5, <2>1 DEF Authenticated, Counters!TypeOK
<1>6. CASE AnswerList(r) \/ ListFails(r)
  BY <1>6 DEF AnswerList, ListFails, Counters!TypeOK
<1>7. CASE Authorize(r)
  <2>1. decision' \in [Requests -> Decision]
    BY <1>7, DecideTyped DEF Authorize, Outcomes
  <2> QED
    BY <1>7, <2>1 DEF Authorize, Conclude, Codes, Counters!TypeOK
<1>8. CASE \E k \in Kinds : CheckRate(r, k) \/ LoseRateReply(r, k)
  <2> PICK k \in Kinds : CheckRate(r, k) \/ LoseRateReply(r, k)
    BY <1>8
  <2>1. decision' \in [Requests -> Decision]
    BY DecideTyped DEF CheckRate, LoseRateReply, Outcomes
  <2>2. Counters!TypeOK'
    <3> DEFINE x0 == <<ScopeOf(r, k), "now">>
    <3>1. used' = [used EXCEPT ![x0] = used[x0] + 1]
      BY DEF CheckRate, LoseRateReply, Counters!Charge, Counters!ChargeUnseen
    <3>2. \/ admitted' = admitted
          \/ admitted' = [admitted EXCEPT ![x0] = admitted[x0]]
          \/ admitted' = [admitted EXCEPT ![x0] = admitted[x0] \cup {<<r, k>>}]
      BY DEF CheckRate, LoseRateReply, Counters!Charge, Counters!ChargeUnseen
    <3>3. /\ used \in [Cells -> Nat]
          /\ admitted \in [Cells -> SUBSET (Requests \X Kinds)]
      BY CellsTyped
    <3> HIDE DEF x0
    <3>4. used' \in [Cells -> Nat]
      <4>1. \A x \in Cells : used[x] \in Nat /\ used[x] + 1 \in Nat
        BY <3>3
      <4> QED
        BY <3>1, <3>3, <4>1
    <3>5. admitted' \in [Cells -> SUBSET (Requests \X Kinds)]
      BY <3>2, <3>3
    <3> QED
      BY <3>4, <3>5 DEF Cells, Counters!Counters, Counters!TypeOK
  <2>3. CASE CheckRate(r, k)
    BY <2>1, <2>2, <2>3 DEF CheckRate, RateStage, Conclude, Codes
  <2>4. CASE LoseRateReply(r, k)
    BY <2>1, <2>2, <2>4 DEF LoseRateReply
  <2> QED
    BY <2>3, <2>4
<1>9. CASE \E k \in Kinds : RateError(r, k)
  <2> PICK k \in Kinds : RateError(r, k)
    BY <1>9
  <2>1. decision' \in [Requests -> Decision]
    BY DecideTyped DEF RateError, Outcomes
  <2> QED
    <3>1. /\ stage' \in [Requests -> Stages]
          /\ \A q \in Requests : stage'[q] = "unsent" <=> stage[q] = "unsent"
      BY DEF RateError, RateStage, Conclude
    <3>2. status' \in [Requests -> Codes]
      BY DEF RateError, Conclude, Codes
    <3> QED
      BY <2>1, <3>1, <3>2 DEF RateError, Counters!TypeOK
<1>11. CASE Forward(r) \/ Execute(r)
  BY <1>11 DEF Forward, Execute, Counters!TypeOK
<1>12. CASE UpstreamAnswers(r) \/ UpstreamFails(r)
  BY <1>12 DEF UpstreamAnswers, UpstreamFails, Conclude, Codes, Counters!TypeOK
<1>13. CASE LogEvent(r)
  BY <1>13 DEF LogEvent, Event, Events, Input, Counters!TypeOK
<1>14. CASE Answer(r) \/ AnswerRelayed(r)
  BY <1>14 DEF Answer, AnswerRelayed, Counters!TypeOK
<1> QED
  BY <1>1, <1>2, <1>3, <1>4, <1>5, <1>6, <1>7, <1>8, <1>9, <1>11, <1>12, <1>13, <1>14
     DEF OwnStep, UpstreamStep

LEMMA StepKeepsTypes == TypeOK /\ [Next]_vars => TypeOK'
PROOF
<1>1. TypeOK /\ UNCHANGED vars => TypeOK'
  BY DEF TypeOK, vars, counters, Counters!TypeOK
<1> QED
  BY <1>1, ProcessesKeepTypes, KeysKeepTypes, ReceiveKeepsTypes, RequestsKeepTypes
     DEF Next

(***************************************************************************)
(* The state stays well formed.                                            *)
(***************************************************************************)
THEOREM TypeCorrect == Spec => []TypeOK
BY InitTyped, StepKeepsTypes, PTL DEF Spec

-----------------------------------------------------------------------------
(***************************************************************************)
(* Mediation.  A step of one request leaves the others alone, and what     *)
(* they were admitted by.                                                  *)
(***************************************************************************)
RequestStep(r) ==
  \/ OwnStep(r)
  \/ UpstreamStep(r)
  \/ UpstreamFails(r)
  \/ ListFails(r)
  \/ \E k \in Kinds : LoseRateReply(r, k)

\* What MediationInv says of one request.
Sound(r) ==
  /\ stage[r] # "unsent" => \A k \in input[r].revoked : keys[k] = "revoked"
  /\ InFlight(r) => /\ input[r].host \in running
                    /\ policy[input[r].host] = input[r].policy
  /\ caller[r] # NoKey => IsGenuine(r)
  /\ IsEarned(r)
  /\ IsCall(r) /\ upstream[r] # "unsent" => WasEntitled(r)
  /\ ShowsCallable(r)

LEMMA MediationIsSoundness ==
  MediationInv <=> TypeOK /\ \A r \in Requests : Sound(r)
BY DEF MediationInv, Sound, RevokedStays, PolicyStays, CallersAreGenuine,
       StagesAreEarned, ForwardedWasEntitled, ShownIsCallable

LEMMA InitSound == Init => MediationInv
PROOF
<1> SUFFICES ASSUME Init, NEW r \in Requests
             PROVE  Sound(r)
  BY InitTyped, MediationIsSoundness
<1> QED
  BY DEF Init, Sound, InFlight, IsGenuine, IsEarned, Checking, IsCall, ShowsCallable,
         NoInput

LEMMA AdmissionsStay ==
  ASSUME TypeOK, NEW r \in Requests,
         RequestStep(r), NEW x \in Cells
  PROVE  admitted[x] \subseteq admitted'[x]
PROOF
<1> SUFFICES ASSUME admitted' # admitted
             PROVE  admitted[x] \subseteq admitted'[x]
  OBVIOUS
<1> PICK k \in Kinds : CheckRate(r, k)
  BY DEF RequestStep, OwnStep, UpstreamStep, AnswerUnknownTool, Relay, QueryKeys,
         Unauthorized, Authenticated, AnswerList, ListFails, Authorize, RateError,
         Forward, Execute, UpstreamAnswers, UpstreamFails, LogEvent, Answer,
         AnswerRelayed, LoseRateReply, Counters!ChargeUnseen, counters
<1> DEFINE x0 == <<ScopeOf(r, k), "now">>
<1>1. \/ admitted' = [admitted EXCEPT ![x0] = admitted[x0]]
      \/ admitted' = [admitted EXCEPT ![x0] = admitted[x0] \cup {<<r, k>>}]
  BY DEF CheckRate, Counters!Charge
<1>2. admitted \in [Cells -> SUBSET (Requests \X Kinds)]
  BY CellsTyped DEF TypeOK
<1> HIDE DEF x0
<1> QED
  BY <1>1, <1>2

LEMMA OthersUntouched ==
  ASSUME TypeOK, NEW r \in Requests, RequestStep(r)
  PROVE  /\ UNCHANGED <<running, policy, keys, input>>
         /\ \A q \in Requests \ {r} :
              /\ stage'[q] = stage[q] /\ caller'[q] = caller[q]
              /\ upstream'[q] = upstream[q] /\ shown'[q] = shown[q]
BY DEF TypeOK, RequestStep, OwnStep, UpstreamStep, AnswerUnknownTool, Relay, QueryKeys,
       Unauthorized, Authenticated, AnswerList, ListFails, Authorize, CheckRate,
       RateError, Forward, Execute, UpstreamAnswers, UpstreamFails, LogEvent, Answer,
       AnswerRelayed, LoseRateReply, Conclude, MoveTo

\* What is known of a genuine caller's scopes.
LEMMA GenuineScopes ==
  ASSUME TypeOK, NEW q \in Requests, NEW k \in Kinds, IsGenuine(q)
  PROVE  <<ScopeOf(q, k), "now">> \in Cells
BY ScopesTyped DEF IsGenuine

\* Nothing of q changes but that its counters admit more.
LEMMA UntouchedStaysSound ==
  ASSUME TypeOK, NEW q \in Requests, Sound(q),
         UNCHANGED <<running, policy, keys>>,
         input'[q] = input[q], stage'[q] = stage[q], caller'[q] = caller[q],
         upstream'[q] = upstream[q], shown'[q] = shown[q],
         \A x \in Cells : admitted[x] \subseteq admitted'[x]
  PROVE  Sound(q)'
PROOF
<1>1. \A k \in Kinds : ScopeOf(q, k)' = ScopeOf(q, k)
  BY DEF ScopeOf
<1>2. /\ stage[q] \in {"tool_rate", "forwarding", "calling"} => IsGenuine(q)
      /\ IsCall(q) /\ upstream[q] # "unsent" => IsGenuine(q)
  BY DEF Sound, IsEarned, IsGenuine, WasEntitled, Checking, IsCall
<1>3. ASSUME NEW k \in Kinds, IsGenuine(q), AdmittedBy(q, k)
      PROVE  AdmittedBy(q, k)'
  BY <1>1, <1>3, GenuineScopes DEF AdmittedBy
<1>4. IsEarned(q)'
  BY <1>2, <1>3 DEF Sound, IsEarned, MayUse, Kinds
<1>5. (IsCall(q) /\ upstream[q] # "unsent" => WasEntitled(q))'
  BY <1>2, <1>3 DEF Sound, WasEntitled, IsCall, AdmittedBy
<1> QED
  BY <1>4, <1>5 DEF Sound, InFlight, IsGenuine, ShowsCallable

\* A request on its way has an input of the right kind.
LEMMA InputTyped ==
  ASSUME TypeOK, NEW r \in Requests, stage[r] # "unsent"
  PROVE  input[r] \in Input
BY DEF TypeOK

LEMMA StaysSoundBeforeRate ==
  ASSUME TypeOK, NEW r \in Requests, Sound(r),
         \/ AnswerUnknownTool(r) \/ Relay(r) \/ QueryKeys(r) \/ Unauthorized(r)
         \/ Authenticated(r) \/ AnswerList(r) \/ ListFails(r) \/ Authorize(r)
  PROVE  Sound(r)'
PROOF
<1> USE DEF Sound, TypeOK, MoveTo, InFlight, IsGenuine, IsEarned, Checking, IsCall,
            counters
<1>1. CASE AnswerUnknownTool(r)
  BY <1>1 DEF AnswerUnknownTool, ShowsCallable
<1>2. CASE Relay(r)
  BY <1>2 DEF Relay, ShowsCallable
<1>3. CASE QueryKeys(r)
  BY <1>3, KeysAssumption DEF QueryKeys, NeedsKey, ShowsCallable
<1>4. CASE Unauthorized(r)
  BY <1>4 DEF Unauthorized, NeedsKey, Conclude, ShowsCallable
<1>5. CASE Authenticated(r)
  <2>1. input[r].method \in Methods
    BY <1>5, InputTyped DEF Authenticated, Input
  <2> QED
    BY <1>5, <2>1 DEF Authenticated, Methods, ShowsCallable
<1>6. CASE AnswerList(r) \/ ListFails(r)
  <2>1. ShowsCallable(r)'
    <3>1. /\ caller[r] = input[r].key /\ caller[r] # NoKey
          /\ caller[r] \notin input[r].revoked
          /\ policy[input[r].host] = input[r].policy
      BY <1>6 DEF AnswerList, ListFails
    <3>2. CASE AnswerList(r)
      <4>1. shown'[r] = {t \in UpstreamTools : MayCall(r, t)} /\ input' = input
        BY <3>2 DEF AnswerList
      <4> QED
        BY <3>1, <4>1 DEF MayCall, ShowsCallable
    <3>3. CASE ListFails(r)
      BY <3>3 DEF ListFails, ShowsCallable
    <3> QED
      BY <1>6, <3>2, <3>3
  <2> QED
    BY <1>6, <2>1 DEF AnswerList, ListFails, WasEntitled, ScopeOf
<1>7. CASE Authorize(r)
  BY <1>7 DEF Authorize, Conclude, MayCall, MayUse, ShowsCallable
<1> QED
  BY <1>1, <1>2, <1>3, <1>4, <1>5, <1>6, <1>7

LEMMA StaysSoundFromRate ==
  ASSUME TypeOK, NEW r \in Requests, Sound(r),
         \/ \E k \in Kinds : CheckRate(r, k) \/ RateError(r, k) \/ LoseRateReply(r, k)
         \/ Forward(r) \/ Execute(r) \/ UpstreamAnswers(r) \/ UpstreamFails(r)
         \/ LogEvent(r) \/ Answer(r) \/ AnswerRelayed(r)
  PROVE  Sound(r)'
PROOF
<1>1. CASE \E k \in Kinds : LoseRateReply(r, k)
  BY <1>1, UntouchedStaysSound DEF LoseRateReply, Counters!ChargeUnseen
<1>2. ASSUME NEW k \in Kinds, RateError(r, k)
      PROVE  Sound(r)'
  BY <1>2 DEF RateError, RateStage, Conclude, MoveTo, Sound, TypeOK, InFlight,
              IsGenuine, IsEarned, Checking, IsCall, ShowsCallable, WasEntitled, counters
<1>3. CASE Forward(r)
  BY <1>3 DEF Forward, MoveTo, Sound, TypeOK, InFlight, IsGenuine, IsEarned, Checking,
              IsCall, ShowsCallable, WasEntitled, MayUse, AdmittedBy, ScopeOf, Kinds,
              counters
<1>4. CASE Execute(r)
  BY <1>4 DEF Execute, Sound, TypeOK, InFlight, IsGenuine, IsEarned, Checking,
              IsCall, ShowsCallable, WasEntitled, MayUse, AdmittedBy, ScopeOf, Kinds,
              counters
<1>5. CASE \/ UpstreamAnswers(r) \/ UpstreamFails(r) \/ LogEvent(r) \/ Answer(r)
           \/ AnswerRelayed(r)
  BY <1>5 DEF UpstreamAnswers, UpstreamFails, LogEvent, Answer, AnswerRelayed, Conclude,
              MoveTo, Sound, TypeOK, InFlight, IsGenuine, IsEarned, Checking,
              IsCall, ShowsCallable, WasEntitled, ScopeOf, counters
<1>6. ASSUME NEW k \in Kinds, CheckRate(r, k)
      PROVE  Sound(r)'
  <2> DEFINE x0 == <<ScopeOf(r, k), "now">>
  <2>1. /\ UNCHANGED <<running, policy, keys, input, caller, upstream, shown>>
        /\ stage[r] = RateStage(k)
        /\ stage'[r] \in {"tool_rate", "forwarding", "auditing"}
        /\ stage'[r] = "tool_rate" => k = "key"
        /\ stage'[r] = "forwarding" => k = "tool"
    BY <1>6 DEF CheckRate, MoveTo, Conclude, TypeOK, Kinds
  <2>2. IsGenuine(r) /\ x0 \in Cells /\ \A j \in Kinds : ScopeOf(r, j)' = ScopeOf(r, j)
    <3>1. caller[r] # NoKey
      BY <2>1 DEF Sound, IsEarned, Checking, RateStage
    <3>2. IsGenuine(r)
      BY <3>1 DEF Sound
    <3> QED
      BY <2>1, <3>2, GenuineScopes DEF ScopeOf
  <2>3. stage'[r] # "auditing" => AdmittedBy(r, k)'
    <3>1. ASSUME stage'[r] # "auditing"
          PROVE  admitted' = [admitted EXCEPT ![x0] = admitted[x0] \cup {<<r, k>>}]
      <4>1. Counters!HasRoom(ScopeOf(r, k), "now")
        BY <1>6, <3>1 DEF CheckRate, Conclude, MoveTo, TypeOK
      <4> QED
        BY <1>6, <4>1 DEF CheckRate, Counters!Charge
    <3>2. admitted \in [Cells -> SUBSET (Requests \X Kinds)]
      BY CellsTyped DEF TypeOK
    <3>3. AdmittedBy(r, k)' <=> <<r, k>> \in admitted'[x0]
      BY <2>2 DEF AdmittedBy
    <3> HIDE DEF x0
    <3> QED
      BY <2>2, <3>1, <3>2, <3>3
  <2>4. k = "tool" /\ stage'[r] # "auditing" => AdmittedBy(r, "key")'
    <3> DEFINE y == <<ScopeOf(r, "key"), "now">>
    <3>1. admitted[y] \subseteq admitted'[y]
      <4>1. RequestStep(r)
        BY <1>6 DEF RequestStep, OwnStep
      <4> QED
        BY <2>2, <4>1, AdmissionsStay, GenuineScopes DEF Kinds
    <3>2. k = "tool" => AdmittedBy(r, "key")
      BY <2>1 DEF Sound, IsEarned, RateStage
    <3> QED
      BY <2>2, <3>1, <3>2 DEF AdmittedBy, Kinds
  <2> QED
    BY <2>1, <2>3, <2>4 DEF Sound, InFlight, IsGenuine, IsEarned, Checking, IsCall,
         ShowsCallable, MayUse, RateStage, Kinds
<1> QED
  BY <1>1, <1>2, <1>3, <1>4, <1>5, <1>6

LEMMA RequestsStaySound ==
  ASSUME TypeOK, \A q \in Requests : Sound(q), NEW r \in Requests, RequestStep(r)
  PROVE  \A q \in Requests : Sound(q)'
PROOF
<1>1. Sound(r)'
  <2>1. \/ AnswerUnknownTool(r) \/ Relay(r) \/ QueryKeys(r) \/ Unauthorized(r)
        \/ Authenticated(r) \/ AnswerList(r) \/ ListFails(r) \/ Authorize(r)
        \/ \E k \in Kinds : CheckRate(r, k) \/ RateError(r, k) \/ LoseRateReply(r, k)
        \/ Forward(r) \/ Execute(r) \/ UpstreamAnswers(r) \/ UpstreamFails(r)
        \/ LogEvent(r) \/ Answer(r) \/ AnswerRelayed(r)
    BY DEF RequestStep, OwnStep, UpstreamStep
  <2> QED
    BY <2>1, StaysSoundBeforeRate, StaysSoundFromRate
<1>2. ASSUME NEW q \in Requests \ {r}
      PROVE  Sound(q)'
  BY OthersUntouched, AdmissionsStay, UntouchedStaysSound
<1> QED
  BY <1>1, <1>2

LEMMA ReceiveStaysSound ==
  ASSUME TypeOK, \A q \in Requests : Sound(q),
         NEW r \in Requests, NEW g \in Gateways, NEW m \in Methods,
         NEW k \in Keys \cup {NoKey}, NEW t \in Tools, Receive(r, g, m, k, t)
  PROVE  \A q \in Requests : Sound(q)'
PROOF
<1>1. Sound(r)'
  <2>1. /\ stage[r] = "unsent" /\ upstream[r] = "unsent" /\ shown[r] = {}
        /\ caller[r] = NoKey
    BY DEF Receive, Sound, IsEarned, IsGenuine
  <2>2. /\ stage'[r] = "received" /\ input'[r].host = g /\ g \in running
        /\ input'[r].policy = policy[g]
        /\ input'[r].revoked = {j \in Keys : keys[j] = "revoked"}
        /\ UNCHANGED <<running, policy, keys, caller, upstream, shown>>
    BY DEF Receive, MoveTo, TypeOK
  <2> QED
    BY <2>1, <2>2 DEF Sound, IsEarned, Checking, InFlight, IsCall, ShowsCallable
<1>2. ASSUME NEW q \in Requests \ {r}
      PROVE  Sound(q)'
  <2>1. /\ input'[q] = input[q] /\ stage'[q] = stage[q]
        /\ UNCHANGED <<running, policy, keys, caller, upstream, shown, admitted>>
    BY DEF Receive, MoveTo, TypeOK, counters
  <2> QED
    BY <2>1, UntouchedStaysSound
<1> QED
  BY <1>1, <1>2

LEMMA ProcessesStaySound ==
  ASSUME TypeOK, NEW q \in Requests, Sound(q), NEW g \in Gateways,
         Crash(g) \/ \E p \in Policies : Start(g, p)
  PROVE  Sound(q)'
PROOF
<1>1. UNCHANGED <<keys, input, caller, upstream, shown, admitted>>
  BY DEF Crash, Start, counters
<1>2. CASE Crash(g)
  <2>1. CASE InFlight(q) /\ input[q].host = g
    <3>1. stage'[q] = "lost"
      BY <1>2, <2>1 DEF Crash
    <3> QED
      BY <1>1, <2>1, <3>1 DEF Sound, InFlight, IsGenuine, IsEarned, Checking, IsCall,
           ShowsCallable, WasEntitled, ScopeOf
  <2>2. CASE ~(InFlight(q) /\ input[q].host = g)
    <3>1. /\ stage'[q] = stage[q] /\ policy' = policy
          /\ InFlight(q) => input[q].host \in running'
      BY <1>2, <2>2 DEF Crash, Sound
    <3> QED
      BY <1>1, <3>1 DEF Sound, InFlight, IsGenuine, IsEarned, Checking, IsCall,
           ShowsCallable, WasEntitled, ScopeOf, MayUse, AdmittedBy
  <2> QED
    BY <2>1, <2>2
<1>3. ASSUME NEW p \in Policies, Start(g, p)
      PROVE  Sound(q)'
  <2>1. /\ stage' = stage
        /\ InFlight(q) => /\ input[q].host \in running'
                          /\ policy'[input[q].host] = policy[input[q].host]
    BY <1>3 DEF Start, Sound, TypeOK
  <2> QED
    BY <1>1, <2>1 DEF Sound, InFlight, IsGenuine, IsEarned, Checking, IsCall,
         ShowsCallable, WasEntitled, ScopeOf, MayUse, AdmittedBy
<1> QED
  BY <1>2, <1>3

LEMMA KeysStaySound ==
  ASSUME TypeOK, NEW q \in Requests, Sound(q), NEW k \in Keys,
         CreateAPIKey(k) \/ RevokeAPIKey(k)
  PROVE  Sound(q)'
PROOF
<1>1. UNCHANGED <<running, policy, input, stage, caller, upstream, shown, admitted>>
  BY DEF CreateAPIKey, RevokeAPIKey, counters
<1>2. \A j \in Keys : /\ keys[j] = "revoked" => keys'[j] = "revoked"
                      /\ keys[j] # "absent" => keys'[j] # "absent"
  BY DEF CreateAPIKey, RevokeAPIKey, TypeOK
<1>3. stage[q] # "unsent" => input[q].revoked \subseteq Keys
  BY InputTyped DEF Input
<1> QED
  BY <1>1, <1>2, <1>3 DEF Sound, InFlight, IsGenuine, IsEarned, Checking, IsCall,
       ShowsCallable, WasEntitled, ScopeOf, MayUse, AdmittedBy

LEMMA StepKeepsMediation == MediationInv /\ [Next]_vars => MediationInv'
PROOF
<1> SUFFICES ASSUME TypeOK, \A q \in Requests : Sound(q), [Next]_vars
             PROVE  TypeOK' /\ \A q \in Requests : Sound(q)'
  <2>1. MediationInv' <=> TypeOK' /\ \A q \in Requests : Sound(q)'
    BY DEF MediationInv, Sound, RevokedStays, PolicyStays, CallersAreGenuine,
           StagesAreEarned, ForwardedWasEntitled, ShownIsCallable
  <2> QED
    BY <2>1, MediationIsSoundness
<1>1. TypeOK'
  BY StepKeepsTypes
<1>2. ASSUME NEW q \in Requests
      PROVE  Sound(q)'
  <2>1. CASE UNCHANGED vars
    BY <2>1, UntouchedStaysSound DEF vars
  <2>2. CASE \E g \in Gateways : Crash(g) \/ \E p \in Policies : Start(g, p)
    BY <2>2, ProcessesStaySound
  <2>3. CASE \E k \in Keys : CreateAPIKey(k) \/ RevokeAPIKey(k)
    BY <2>3, KeysStaySound
  <2>4. CASE \E r \in Requests, g \in Gateways, m \in Methods,
                k \in Keys \cup {NoKey}, t \in Tools : Receive(r, g, m, k, t)
    BY <2>4, ReceiveStaysSound
  <2>5. CASE \E r \in Requests : RequestStep(r)
    BY <2>5, RequestsStaySound
  <2> QED
    BY <2>1, <2>2, <2>3, <2>4, <2>5 DEF Next, RequestStep
<1> QED
  BY <1>1, <1>2

(***************************************************************************)
(* Whatever the interleaving of requests, keys, crashes, restarts and      *)
(* failing stores: a stage is only reached through the ones before it.     *)
(***************************************************************************)
THEOREM MediationInvariant == Spec => []MediationInv
BY InitSound, StepKeepsMediation, PTL DEF Spec

(***************************************************************************)
(* No tool call reaches the upstream that its key was not entitled to.     *)
(***************************************************************************)
THEOREM ForwardedWasEntitledHolds == Spec => []ForwardedWasEntitled
PROOF
<1>1. MediationInv => ForwardedWasEntitled
  BY DEF MediationInv
<1> QED
  BY <1>1, MediationInvariant, PTL

(***************************************************************************)
(* No client is shown a tool that its key may not call.                    *)
(***************************************************************************)
THEOREM ShownIsCallableHolds == Spec => []ShownIsCallable
PROOF
<1>1. MediationInv => ShownIsCallable
  BY DEF MediationInv
<1> QED
  BY <1>1, MediationInvariant, PTL
-----------------------------------------------------------------------------
(***************************************************************************)
(* The quota, end to end.  Every counter stays within its limit, and every *)
(* forwarded call stands in its counters as itself.                        *)
(***************************************************************************)
LimitOf(x) == IF x[1][2] = AllTools THEN KeyLimit ELSE ToolLimit

IsWithin(x) ==
  /\ IsFiniteSet(admitted[x])
  /\ Cardinality(admitted[x]) <= used[x]
  /\ Cardinality(admitted[x]) <= LimitOf(x)

WithinLimits == \A x \in Cells : IsWithin(x)

LEMMA CellTyped ==
  ASSUME TypeOK, NEW x \in Cells
  PROVE  used[x] \in Nat /\ LimitOf(x) \in Nat
BY CellsTyped, LimitsAssumption DEF TypeOK, LimitOf

LEMMA OneMoreFits ==
  ASSUME NEW S, NEW c, NEW n \in Nat, NEW limit \in Nat,
         IsFiniteSet(S), Cardinality(S) <= n, n < limit
  PROVE  /\ IsFiniteSet(S \cup {c})
         /\ Cardinality(S \cup {c}) <= n + 1
         /\ Cardinality(S \cup {c}) <= limit
PROOF
<1>1. Cardinality(S) \in Nat
  BY FS_CardinalityType
<1>2. /\ IsFiniteSet(S \cup {c})
      /\ Cardinality(S \cup {c}) = IF c \in S THEN Cardinality(S) ELSE Cardinality(S) + 1
  BY FS_AddElement
<1> QED
  BY <1>1, <1>2

LEMMA TaggedFits ==
  ASSUME NEW S, NEW T, NEW tag, IsFiniteSet(T), \A r \in S : <<r, tag>> \in T
  PROVE  Cardinality(S) \in Nat /\ Cardinality(S) <= Cardinality(T)
PROOF
<1> DEFINE f == [r \in S |-> <<r, tag>>]
<1>1. f \in Injection(S, T)
  BY DEF Injection, IsInjective
<1> QED
  BY <1>1, FS_Injection, FS_CardinalityType

LEMMA InitWithin == Init => WithinLimits
BY InitTyped, CellTyped, FS_EmptySet
   DEF Init, WithinLimits, IsWithin, Cells, Counters!Init, Counters!Counters

LEMMA ChargesStayWithin ==
  ASSUME TypeOK, WithinLimits, NEW r \in Requests, NEW k \in Kinds, Sound(r),
         CheckRate(r, k) \/ LoseRateReply(r, k)
  PROVE  WithinLimits'
PROOF
<1> DEFINE x0 == <<ScopeOf(r, k), "now">>
<1>1. x0 \in Cells
  <2>1. stage[r] \in {"key_rate", "tool_rate"}
    BY DEF CheckRate, LoseRateReply, RateStage
  <2> QED
    BY <2>1, GenuineScopes DEF Sound, IsEarned, Checking
<1>2. /\ used \in [Cells -> Nat]
      /\ admitted \in [Cells -> SUBSET (Requests \X Kinds)]
  BY CellsTyped DEF TypeOK
<1>3. /\ used' = [used EXCEPT ![x0] = used[x0] + 1]
      /\ \/ admitted' = admitted
         \/ admitted' = [admitted EXCEPT ![x0] = admitted[x0]]
         \/ /\ admitted' = [admitted EXCEPT ![x0] = admitted[x0] \cup {<<r, k>>}]
            /\ used[x0] < LimitOf(x0)
  <2>1. CASE LoseRateReply(r, k)
    BY <2>1 DEF LoseRateReply, Counters!ChargeUnseen
  <2>2. CASE CheckRate(r, k)
    <3>1. Counters!HasRoom(ScopeOf(r, k), "now") => used[x0] < LimitOf(x0)
      BY <1>1 DEF Counters!HasRoom, LimitOf, Cells
    <3> QED
      BY <2>2, <3>1 DEF CheckRate, Counters!Charge
  <2> QED
    BY <2>1, <2>2
<1> HIDE DEF x0
<1> SUFFICES ASSUME NEW x \in Cells
             PROVE  IsWithin(x)'
  BY DEF WithinLimits, Cells, Scopes
<1>4. IsWithin(x) /\ used[x] \in Nat /\ LimitOf(x) \in Nat /\ LimitOf(x)' = LimitOf(x)
  BY CellTyped DEF WithinLimits, LimitOf
<1>5. Cardinality(admitted[x]) \in Nat
  BY <1>4, FS_CardinalityType DEF IsWithin
<1>6. CASE admitted'[x] = admitted[x]
  <2>1. used[x] <= used'[x] /\ used'[x] \in Nat
    BY <1>2, <1>3, <1>4
  <2> QED
    BY <1>4, <1>5, <1>6, <2>1 DEF IsWithin
<1>7. CASE admitted'[x] # admitted[x]
  <2>1. /\ used'[x] = used[x] + 1 /\ used[x] < LimitOf(x)
        /\ admitted'[x] = admitted[x] \cup {<<r, k>>}
    BY <1>1, <1>2, <1>3, <1>7
  <2> QED
    BY <1>4, <2>1, OneMoreFits DEF IsWithin
<1> QED
  BY <1>6, <1>7

LEMMA StepStaysWithin ==
  MediationInv /\ WithinLimits /\ [Next]_vars => WithinLimits'
PROOF
<1> SUFFICES ASSUME MediationInv, WithinLimits, [Next]_vars
             PROVE  WithinLimits'
  OBVIOUS
<1>1. CASE UNCHANGED <<used, admitted>>
  BY <1>1 DEF WithinLimits, IsWithin, Cells, Scopes, LimitOf
<1>2. CASE \E r \in Requests, k \in Kinds : CheckRate(r, k) \/ LoseRateReply(r, k)
  BY <1>2, MediationIsSoundness, ChargesStayWithin
<1> QED
  BY <1>1, <1>2
     DEF Next, vars, counters, Crash, Start, CreateAPIKey, RevokeAPIKey, Receive,
         OwnStep, UpstreamStep, AnswerUnknownTool, Relay, QueryKeys, Unauthorized,
         Authenticated, AnswerList, ListFails, Authorize, RateError, Forward, Execute,
         UpstreamAnswers, UpstreamFails, LogEvent, Answer, AnswerRelayed

LEMMA QuotaFromCounters ==
  ASSUME MediationInv, WithinLimits
  PROVE  UpstreamWithinQuota
PROOF
<1> SUFFICES ASSUME NEW k \in Keys
             PROVE  /\ Cardinality(Forwarded(k)) <= KeyLimit
                    /\ \A t \in Tools :
                         Cardinality({r \in Forwarded(k) : input[r].tool = t})
                           <= ToolLimit
  BY DEF UpstreamWithinQuota
<1>1. \A r \in Forwarded(k) : r \in Requests /\ WasEntitled(r) /\ caller[r] = k
  BY DEF Forwarded, MediationInv, ForwardedWasEntitled
<1>2. Cardinality(Forwarded(k)) <= KeyLimit
  <2> DEFINE x == <<<<k, AllTools>>, "now">>
  <2>1. x \in Cells /\ LimitOf(x) = KeyLimit
    BY DEF Cells, Scopes, LimitOf
  <2>2. \A r \in Forwarded(k) : <<r, "key">> \in admitted[x]
    BY <1>1 DEF WasEntitled, Kinds, ScopeOf
  <2> HIDE DEF x
  <2>3. /\ IsFiniteSet(admitted[x])
        /\ Cardinality(admitted[x]) \in Nat
        /\ Cardinality(admitted[x]) <= KeyLimit
    BY <2>1, FS_CardinalityType DEF WithinLimits, IsWithin
  <2>4. /\ Cardinality(Forwarded(k)) \in Nat
        /\ Cardinality(Forwarded(k)) <= Cardinality(admitted[x])
    BY <2>2, <2>3, TaggedFits, Zenon
  <2> QED
    BY <2>3, <2>4, LimitsAssumption
<1>3. ASSUME NEW t \in Tools
      PROVE  Cardinality({r \in Forwarded(k) : input[r].tool = t}) <= ToolLimit
  <2> DEFINE x == <<<<k, t>>, "now">>
             S == {r \in Forwarded(k) : input[r].tool = t}
  <2>1. x \in Cells /\ LimitOf(x) = ToolLimit
    BY ToolsAssumption DEF Cells, Scopes, LimitOf
  <2>2. \A r \in S : <<r, "tool">> \in admitted[x]
    BY <1>1 DEF WasEntitled, Kinds, ScopeOf
  <2> HIDE DEF x, S
  <2>3. /\ IsFiniteSet(admitted[x])
        /\ Cardinality(admitted[x]) \in Nat
        /\ Cardinality(admitted[x]) <= ToolLimit
    BY <2>1, FS_CardinalityType DEF WithinLimits, IsWithin
  <2>4. Cardinality(S) \in Nat /\ Cardinality(S) <= Cardinality(admitted[x])
    BY <2>2, <2>3, TaggedFits, Zenon
  <2>5. Cardinality(S) <= ToolLimit
    BY <2>3, <2>4, LimitsAssumption
  <2> QED
    BY <2>5 DEF S
<1> QED
  BY <1>2, <1>3

(***************************************************************************)
(* However many processes forward at once, and however many calls fail     *)
(* half way: in one window the upstream is sent no more tool calls of a    *)
(* key, or of a key for a tool, than the policy allows.                    *)
(***************************************************************************)
THEOREM UpstreamWithinQuotaHolds == Spec => []UpstreamWithinQuota
PROOF
<1>1. Init => MediationInv /\ WithinLimits
  BY InitSound, InitWithin
<1>2. (MediationInv /\ WithinLimits) /\ [Next]_vars => (MediationInv /\ WithinLimits)'
  BY StepKeepsMediation, StepStaysWithin
<1>3. MediationInv /\ WithinLimits => UpstreamWithinQuota
  BY QuotaFromCounters
<1> QED
  BY <1>1, <1>2, <1>3, PTL DEF Spec

-----------------------------------------------------------------------------
\* A check of a limit charges a counter that there is.
LEMMA ChecksAreCharges ==
  ASSUME TypeOK, NEW r \in Requests, NEW k \in Kinds, Sound(r),
         CheckRate(r, k) \/ LoseRateReply(r, k)
  PROVE  Counters!Next
PROOF
<1> DEFINE s == ScopeOf(r, k)
<1>1. s \in Scopes
  <2>1. stage[r] \in {"key_rate", "tool_rate"}
    BY DEF CheckRate, LoseRateReply, RateStage
  <2>2. <<s, "now">> \in Cells
    BY <2>1, GenuineScopes DEF Sound, IsEarned, Checking
  <2> QED
    BY <2>2 DEF Cells
<1>2. Counters!Charge(<<r, k>>, s, "now") \/ Counters!ChargeUnseen(s, "now")
  BY DEF CheckRate, LoseRateReply
<1> HIDE DEF s
<1> QED
  BY <1>1, <1>2 DEF Counters!Next

(***************************************************************************)
(* The counters of the pipeline are WindowCounters: it charges them only   *)
(* for requests that carry a key, and never in another way, whichever      *)
(* process does it and whatever becomes of the reply.  RateLimiter         *)
(* implements the same specification, so it may stand behind them.         *)
(***************************************************************************)
THEOREM CountersAreWindowCounters == Spec => Counters!Spec
PROOF
<1>1. Init => Counters!Init
  BY DEF Init
<1>2. MediationInv /\ [Next]_vars => [Counters!Next]_(Counters!vars)
  <2> SUFFICES ASSUME MediationInv, [Next]_vars
               PROVE  Counters!Next \/ UNCHANGED <<used, admitted>>
    BY DEF Counters!vars
  <2>1. CASE \E r \in Requests, k \in Kinds : CheckRate(r, k) \/ LoseRateReply(r, k)
    BY <2>1, MediationIsSoundness, ChecksAreCharges
  <2>2. \/ UNCHANGED <<used, admitted>>
        \/ \E r \in Requests, k \in Kinds : CheckRate(r, k) \/ LoseRateReply(r, k)
    BY DEF Next, vars, counters, Crash, Start, CreateAPIKey, RevokeAPIKey, Receive,
           OwnStep, UpstreamStep, AnswerUnknownTool, Relay, QueryKeys, Unauthorized,
           Authenticated, AnswerList, ListFails, Authorize, RateError, Forward, Execute,
           UpstreamAnswers, UpstreamFails, LogEvent, Answer, AnswerRelayed
  <2> QED
    BY <2>1, <2>2
<1> QED
  BY <1>1, <1>2, MediationInvariant, PTL DEF Spec, Counters!Spec

(***************************************************************************)
(* Whatever may happen to the table of keys may happen at any moment of    *)
(* Gateway: its theorems hold beside any commands that leave of the keys   *)
(* what KeyTable says, and those of Console do.                            *)
(***************************************************************************)
LEMMA EveryKeyStepIsCovered ==
  KeyRows!Next /\ UNCHANGED <<running, policy, input, stage, caller, status, decision,
                              counters, upstream, rows, reported, shown>>
    => Next
BY DEF KeyRows!Next, KeyRows!CreateAPIKey, KeyRows!RevokeAPIKey,
       Next, CreateAPIKey, RevokeAPIKey

-----------------------------------------------------------------------------
(***************************************************************************)
(* What Gateway promises to those who look at it from the outside: to the  *)
(* operator who reads the audit, and to the upstream.                      *)
(***************************************************************************)
\* What AuditInv says of one request.
Audited(r) == DecisionFits(r) /\ MethodFits(r) /\ RowsFit(r)

LEMMA InitAudited == Init => AuditInv
BY DEF Init, AuditInv, DecisionFits, MethodFits, RowsFit, HasRow

-----------------------------------------------------------------------------
(***************************************************************************)
(* Steps that leave a request alone, as far as its event is concerned.     *)
(***************************************************************************)
UnchangedEvent(q) ==
  /\ input'[q] = input[q] /\ caller'[q] = caller[q]
  /\ status'[q] = status[q] /\ decision'[q] = decision[q]

\* Rows are added for others only, and no report is taken back.
NoNewRow(q) ==
  /\ rows \subseteq rows'
  /\ \A row \in rows' \ rows : row.request # q
  /\ reported \subseteq reported'

KeysStay == \A k \in Keys : keys[k] # "absent" => keys'[k] # "absent"

\* The upstream may run what it was sent.
UpstreamGoesOn(q) ==
  upstream'[q] = upstream[q] \/ (upstream[q] = "sent" /\ upstream'[q] = "done")

LEMMA RowsStayTrue ==
  ASSUME NEW row, IsTrue(row), NEW q, row.request = q, input'[q] = input[q],
         UpstreamGoesOn(q), KeysStay
  PROVE  IsTrue(row)'
BY DEF IsTrue, RefusedAt, UpstreamGoesOn, KeysStay

\* A request that others overtake, or that is lost with its process.
LEMMA BystanderStaysAudited ==
  ASSUME NEW q \in Requests, Audited(q), UnchangedEvent(q), NoNewRow(q),
         KeysStay, UpstreamGoesOn(q),
         stage'[q] = stage[q] \/ (InFlight(q) /\ stage'[q] = "lost")
  PROVE  Audited(q)'
PROOF
<1>1. Event(q)' = Event(q) /\ Event(q).request = q
  BY DEF UnchangedEvent, Event
<1>2. DecisionFits(q)'
  BY DEF Audited, DecisionFits, UnchangedEvent
<1>3. MethodFits(q)'
  <2>1. IsTrue(Event(q)) => IsTrue(Event(q))'
    <3> SUFFICES ASSUME IsTrue(Event(q)) PROVE IsTrue(Event(q))'
      OBVIOUS
    <3> DEFINE e == Event(q)
    <3>1. e' = e /\ e.request = q
      BY <1>1
    <3> QED
      BY <3>1 DEF IsTrue, RefusedAt, UpstreamGoesOn, KeysStay, UnchangedEvent
  <2> QED
    BY <2>1 DEF Audited, MethodFits, UnchangedEvent, IsCall, InFlight
<1>4. RowsFit(q)'
  <2>1. \A row \in rows' : row.request = q => row \in rows
    BY DEF NoNewRow
  <2>2. HasRow(q)' <=> HasRow(q)
    BY <2>1 DEF HasRow, NoNewRow
  <2>3. \A row \in rows' : row.request = q => (row = Event(q))' /\ IsTrue(row)'
    BY <1>1, <2>1, RowsStayTrue DEF Audited, RowsFit, UnchangedEvent
  <2>4. HasRow(q)' => stage'[q] \in {"answering", "answered", "lost"}
    BY <2>2 DEF Audited, RowsFit, InFlight
  <2>5. \/ stage'[q] = "answering"
        \/ stage'[q] = "answered" /\ IsCall(q)' /\ input'[q].tool \in UpstreamTools
        => HasRow(q)' \/ q \in reported'
    BY <2>2 DEF Audited, RowsFit, NoNewRow, UnchangedEvent, IsCall
  <2> QED
    BY <2>3, <2>4, <2>5 DEF RowsFit
<1> QED
  BY <1>2, <1>3, <1>4 DEF Audited

-----------------------------------------------------------------------------
(***************************************************************************)
(* The steps of the request itself.                                        *)
(***************************************************************************)
\* A request that has no row yet and is not answered for has no duty either.
LEMMA NoRowYet ==
  ASSUME NEW r \in Requests, RowsFit(r), rows' = rows,
         stage[r] \notin {"answering", "answered", "lost"},
         stage'[r] # "answering",
         stage'[r] = "answered" =>
           ~ (IsCall(r)' /\ input'[r].tool \in UpstreamTools)
  PROVE  RowsFit(r)'
BY DEF RowsFit, HasRow

\* A step into "auditing", with what its event says.
LEMMA ConclusionIsAudited ==
  ASSUME NEW r \in Requests, RowsFit(r), rows' = rows,
         stage[r] \notin {"answering", "answered", "lost"},
         stage'[r] = "auditing", IsCall(r)', IsTrue(Event(r))'
  PROVE  Audited(r)'
BY NoRowYet DEF Audited, DecisionFits, MethodFits

LEMMA UnauthorizedIsAudited ==
  ASSUME TypeOK, NEW r \in Requests, Sound(r), Audited(r), Unauthorized(r)
  PROVE  Audited(r)'
PROOF
<1>1. /\ stage[r] \in {"received", "verifying"}
      /\ UNCHANGED <<input, upstream, rows>>
      /\ caller'[r] = NoKey
  BY DEF Unauthorized, NeedsKey, TypeOK
<1>2. RowsFit(r) /\ decision[r] = NothingDecided /\ upstream[r] = "unsent"
  BY <1>1 DEF Audited, DecisionFits, Sound, IsEarned
<1>3. CASE input[r].method = "tools/list"
  <2>1. stage'[r] = "answered" /\ ~ IsCall(r)'
    BY <1>1, <1>3 DEF Unauthorized, MoveTo, TypeOK, IsCall
  <2> QED
    BY <1>1, <1>2, <2>1, NoRowYet DEF Audited, DecisionFits, MethodFits
<1>4. CASE input[r].method # "tools/list"
  <2>1. /\ stage'[r] = "auditing" /\ status'[r] = 401
        /\ decision'[r] = [decision[r] EXCEPT !["auth"] = "denied"]
    BY <1>4 DEF Unauthorized, Conclude, MoveTo, Decide, TypeOK
  <2>2. IsCall(r)'
    <3>1. input[r].method \in Methods /\ input[r].method # "relayed"
      BY <1>1, InputTyped DEF Unauthorized, NeedsKey, Input, Sound, IsEarned
    <3> QED
      BY <1>1, <1>4, <2>1, <3>1 DEF IsCall, Methods
  <2>3. IsTrue(Event(r))'
    BY <1>1, <1>2, <2>1 DEF IsTrue, Event, RefusedAt, NothingDecided
  <2> QED
    BY <1>1, <1>2, <2>1, <2>2, <2>3, ConclusionIsAudited
<1> QED
  BY <1>3, <1>4

LEMMA BeforeRateIsAudited ==
  ASSUME TypeOK, NEW r \in Requests, Sound(r), Audited(r),
         \/ AnswerUnknownTool(r) \/ Relay(r) \/ QueryKeys(r) \/ Unauthorized(r)
         \/ Authenticated(r) \/ AnswerList(r) \/ ListFails(r) \/ Authorize(r)
  PROVE  Audited(r)'
PROOF
<1> USE DEF TypeOK, MoveTo
<1>0. /\ rows' = rows /\ input' = input
      /\ stage[r] \notin {"answering", "answered", "lost"}
      /\ RowsFit(r) /\ MethodFits(r) /\ DecisionFits(r)
  BY DEF AnswerUnknownTool, Relay, QueryKeys, Unauthorized, Authenticated, AnswerList,
         ListFails, Authorize, NeedsKey, Audited
<1>1. CASE AnswerUnknownTool(r)
  BY <1>0, <1>1, NoRowYet DEF AnswerUnknownTool, Audited, DecisionFits, MethodFits
<1>2. CASE Relay(r)
  BY <1>0, <1>2, NoRowYet DEF Relay, Audited, DecisionFits, MethodFits
<1>3. CASE QueryKeys(r)
  BY <1>0, <1>3, NoRowYet DEF QueryKeys, NeedsKey, Audited, DecisionFits, MethodFits
<1>4. CASE Unauthorized(r)
  BY <1>4, UnauthorizedIsAudited
<1>5. CASE Authenticated(r)
  <2>1. RowsFit(r)'
    BY <1>0, <1>5, NoRowYet DEF Authenticated
  <2>2. DecisionFits(r)'
    BY <1>0, <1>5 DEF Authenticated, Decide, DecisionFits, NothingDecided
  <2>3. MethodFits(r)'
    BY <1>0, <1>5 DEF Authenticated, MethodFits
  <2> QED
    BY <2>1, <2>2, <2>3 DEF Audited
<1>6. CASE AnswerList(r) \/ ListFails(r)
  <2>1. stage'[r] = "answered" /\ ~ IsCall(r)'
    BY <1>0, <1>6 DEF AnswerList, ListFails, MethodFits, IsCall
  <2> QED
    BY <1>0, <2>1, NoRowYet DEF Audited, DecisionFits, MethodFits
<1>7. CASE Authorize(r)
  <2>1. decision[r] = [auth |-> "allowed", authz |-> "not_evaluated", rate |-> "not_evaluated"]
    BY <1>0, <1>7 DEF Authorize, DecisionFits, NothingDecided
  <2>2. CASE MayCall(r, input[r].tool)
    <3>1. /\ stage'[r] = "key_rate"
          /\ decision'[r] = [decision[r] EXCEPT !["authz"] = "allowed"]
      BY <1>7, <2>2 DEF Authorize, Decide
    <3> QED
      BY <1>0, <2>1, <3>1, NoRowYet DEF Audited, DecisionFits, MethodFits
  <2>3. CASE ~ MayCall(r, input[r].tool)
    <3>1. /\ stage'[r] = "auditing" /\ status'[r] = 403
          /\ decision'[r] = [decision[r] EXCEPT !["authz"] = "denied"]
          /\ UNCHANGED <<caller, upstream, keys>>
      BY <1>7, <2>3 DEF Authorize, Decide, Conclude
    <3>2. /\ caller[r] \in Keys /\ caller[r] = input[r].key
          /\ keys[caller[r]] # "absent" /\ upstream[r] = "unsent"
          /\ IsCall(r)
      BY <1>7 DEF Authorize, Sound, IsEarned, IsGenuine, Checking, IsCall
    <3>3. IsTrue(Event(r))'
      BY <1>0, <2>1, <3>1, <3>2 DEF IsTrue, Event, RefusedAt
    <3> QED
      BY <1>0, <3>1, <3>2, <3>3, ConclusionIsAudited DEF IsCall
  <2> QED
    BY <2>2, <2>3
<1> QED
  BY <1>1, <1>2, <1>3, <1>4, <1>5, <1>6, <1>7

\* A call that was authenticated and has not been answered.
LEMMA CallerOfCall ==
  ASSUME NEW r \in Requests, Sound(r),
         stage[r] \in {"key_rate", "tool_rate", "forwarding", "calling"}
  PROVE  /\ IsCall(r)
         /\ caller[r] \in Keys /\ caller[r] = input[r].key
         /\ keys[caller[r]] # "absent"
         /\ stage[r] # "calling" => upstream[r] = "unsent"
BY DEF Sound, IsEarned, IsGenuine, Checking, IsCall

LEMMA RateIsAudited ==
  ASSUME TypeOK, NEW r \in Requests, NEW k \in Kinds, Sound(r), Audited(r),
         CheckRate(r, k) \/ RateError(r, k)
  PROVE  Audited(r)'
PROOF
<1> USE DEF TypeOK, MoveTo
<1>1. /\ stage[r] = RateStage(k) /\ stage[r] \in {"key_rate", "tool_rate"}
      /\ UNCHANGED <<input, caller, upstream, keys, rows>>
      /\ decision[r] =
           [auth |-> "allowed", authz |-> "allowed", rate |-> "not_evaluated"]
      /\ RowsFit(r)
  BY DEF CheckRate, RateError, RateStage, Audited, DecisionFits
<1>2. CASE stage'[r] = "auditing"
  <2>1. status'[r] = 429 /\ decision'[r] = [decision[r] EXCEPT !["rate"] = "denied"]
    <3>1. CASE RateError(r, k)
      BY <3>1 DEF RateError, Conclude, Decide
    <3>2. CASE CheckRate(r, k)
      <4>1. ~ Counters!HasRoom(ScopeOf(r, k), "now")
        BY <1>1, <1>2, <3>2 DEF CheckRate, RateStage
      <4> QED
        BY <3>2, <4>1 DEF CheckRate, Conclude, Decide
    <3> QED
      BY <3>1, <3>2
  <2>2. IsTrue(Event(r))' /\ IsCall(r)'
    BY <1>1, <1>2, <2>1, CallerOfCall DEF IsTrue, Event, RefusedAt, IsCall
  <2> QED
    BY <1>1, <1>2, <2>2, ConclusionIsAudited
<1>3. CASE stage'[r] # "auditing"
  <2>1. /\ CheckRate(r, k) /\ Counters!HasRoom(ScopeOf(r, k), "now")
        /\ stage'[r] = IF k = "key" THEN "tool_rate" ELSE "forwarding"
    BY <1>3 DEF CheckRate, RateError, Conclude
  <2>2. CASE k = "key"
    BY <1>1, <2>1, <2>2, NoRowYet DEF CheckRate, Audited, DecisionFits, MethodFits
  <2>3. CASE k = "tool"
    <3>1. decision'[r] = [decision[r] EXCEPT !["rate"] = "allowed"]
      BY <2>1, <2>3 DEF CheckRate, Decide
    <3> QED
      BY <1>1, <2>1, <2>3, <3>1, NoRowYet DEF Audited, DecisionFits, MethodFits
  <2> QED
    BY <2>2, <2>3 DEF Kinds
<1> QED
  BY <1>2, <1>3

LEMMA LogIsAudited ==
  ASSUME TypeOK, NEW r \in Requests, Audited(r), LogEvent(r)
  PROVE  Audited(r)'
PROOF
<1> DEFINE e == Event(r)
<1>1. /\ stage[r] = "auditing" /\ stage'[r] = "answering"
      /\ UNCHANGED <<input, caller, upstream, keys, status, decision>>
      /\ e' = e /\ e.request = r
  BY DEF LogEvent, MoveTo, TypeOK, Event
<1>2. IsCall(r) /\ IsTrue(e) /\ ~ HasRow(r)
  BY <1>1 DEF Audited, MethodFits, RowsFit
<1>3. \/ rows' = rows \cup {e}
      \/ rows' = rows /\ reported' = reported \cup {r}
  BY DEF LogEvent
<1>4. IsTrue(e)'
  BY <1>1, <1>2 DEF IsTrue, RefusedAt
<1>5. RowsFit(r)'
  <2>1. \A row \in rows' : row.request = r => row = e
    BY <1>2, <1>3 DEF HasRow
  <2>2. \A row \in rows' : row.request = r => (row = Event(r))' /\ IsTrue(row)'
    BY <1>1, <1>4, <2>1
  <2>3. HasRow(r)' \/ r \in reported'
    BY <1>1, <1>3 DEF HasRow
  <2> QED
    BY <1>1, <2>2, <2>3 DEF RowsFit
<1> QED
  BY <1>1, <1>2, <1>4, <1>5 DEF Audited, DecisionFits, MethodFits, IsCall

LEMMA FromForwardIsAudited ==
  ASSUME TypeOK, NEW r \in Requests, Sound(r), Audited(r),
         \/ Forward(r) \/ Execute(r) \/ UpstreamAnswers(r) \/ UpstreamFails(r)
         \/ LogEvent(r) \/ Answer(r) \/ AnswerRelayed(r)
  PROVE  Audited(r)'
PROOF
<1> USE DEF TypeOK, MoveTo
<1>1. RowsFit(r) /\ DecisionFits(r) /\ MethodFits(r)
  BY DEF Audited
<1>2. CASE Forward(r)
  BY <1>1, <1>2, NoRowYet DEF Forward, Audited, DecisionFits, MethodFits
<1>3. CASE Execute(r)
  BY <1>3, BystanderStaysAudited
     DEF Execute, UnchangedEvent, NoNewRow, KeysStay, UpstreamGoesOn
<1>4. CASE UpstreamAnswers(r) \/ UpstreamFails(r)
  <2>1. /\ stage[r] \in {"forwarding", "calling"} /\ stage'[r] = "auditing"
        /\ UNCHANGED <<input, caller, upstream, keys, decision, rows>>
        /\ status'[r] = 502 \/ (status'[r] = 200 /\ upstream[r] = "done")
    BY <1>4 DEF UpstreamAnswers, UpstreamFails, Conclude
  <2>2. decision[r] = [auth |-> "allowed", authz |-> "allowed", rate |-> "allowed"]
    BY <1>1, <2>1 DEF DecisionFits
  <2>3. IsTrue(Event(r))' /\ IsCall(r)'
    BY <2>1, <2>2, CallerOfCall DEF IsTrue, Event, RefusedAt, IsCall
  <2> QED
    BY <1>1, <2>1, <2>3, ConclusionIsAudited
<1>5. CASE LogEvent(r)
  BY <1>5, LogIsAudited
<1>6. CASE Answer(r)
  <2>1. /\ stage[r] = "answering" /\ stage'[r] = "answered"
        /\ UNCHANGED <<input, caller, upstream, keys, status, decision, rows, reported>>
    BY <1>6 DEF Answer
  <2> QED
    BY <1>1, <2>1 DEF Audited, DecisionFits, MethodFits, RowsFit, HasRow, Event, IsTrue,
                      RefusedAt
<1>7. CASE AnswerRelayed(r)
  <2>1. stage'[r] = "answered" /\ ~ IsCall(r)'
    BY <1>1, <1>7 DEF AnswerRelayed, MethodFits, IsCall
  <2> QED
    BY <1>1, <1>7, <2>1, NoRowYet DEF AnswerRelayed, Audited, DecisionFits, MethodFits
<1> QED
  BY <1>2, <1>3, <1>4, <1>5, <1>6, <1>7

-----------------------------------------------------------------------------
(***************************************************************************)
(* Every step keeps the audit.                                             *)
(***************************************************************************)
LEMMA OthersKeepEvents ==
  ASSUME TypeOK, NEW r \in Requests, RequestStep(r), NEW q \in Requests \ {r}
  PROVE  UnchangedEvent(q) /\ NoNewRow(q) /\ KeysStay /\ UpstreamGoesOn(q)
PROOF
<1>1. UpstreamGoesOn(q) /\ KeysStay
  BY OthersUntouched DEF UpstreamGoesOn, KeysStay
<1>2. UnchangedEvent(q)
  <2>1. \/ status' = status
        \/ \E code : Conclude(r, code)
    BY ZenonT(60) DEF RequestStep, OwnStep, UpstreamStep, AnswerUnknownTool,
           Relay, QueryKeys, Unauthorized, Authenticated, AnswerList, ListFails,
           Authorize, CheckRate, RateError, Forward, Execute, UpstreamAnswers,
           UpstreamFails, LogEvent, Answer, AnswerRelayed, LoseRateReply
  <2>2. \/ decision' = decision
        \/ \E which, outcome : Decide(r, which, outcome)
    BY ZenonT(60) DEF RequestStep, OwnStep, UpstreamStep, AnswerUnknownTool,
           Relay, QueryKeys, Unauthorized, Authenticated, AnswerList, ListFails,
           Authorize, CheckRate, RateError, Forward, Execute, UpstreamAnswers,
           UpstreamFails, LogEvent, Answer, AnswerRelayed, LoseRateReply
  <2>3. status'[q] = status[q] /\ decision'[q] = decision[q]
    BY <2>1, <2>2 DEF Conclude, Decide, TypeOK
  <2> QED
    BY <2>3, OthersUntouched DEF UnchangedEvent
<1>3. NoNewRow(q)
  <2>1. Event(r).request # q
    BY DEF Event
  <2>2. \/ UNCHANGED <<rows, reported>>
        \/ /\ rows' = rows \/ rows' = rows \cup {Event(r)}
           /\ reported \subseteq reported'
    BY ZenonT(60) DEF RequestStep, OwnStep, UpstreamStep, AnswerUnknownTool,
           Relay, QueryKeys, Unauthorized, Authenticated, AnswerList, ListFails,
           Authorize, CheckRate, RateError, Forward, Execute, UpstreamAnswers,
           UpstreamFails, LogEvent, Answer, AnswerRelayed, LoseRateReply
  <2> QED
    BY <2>1, <2>2 DEF NoNewRow
<1> QED
  BY <1>1, <1>2, <1>3

LEMMA RequestsStayAudited ==
  ASSUME TypeOK, NEW r \in Requests, RequestStep(r), NEW q \in Requests,
         Sound(q), Audited(q)
  PROVE  Audited(q)'
PROOF
<1>1. CASE q = r
  <2>1. CASE \E k \in Kinds : LoseRateReply(r, k)
    <3>1. UnchangedEvent(r) /\ NoNewRow(r) /\ KeysStay /\ UpstreamGoesOn(r)
          /\ stage'[r] = stage[r]
      BY <2>1 DEF LoseRateReply, UnchangedEvent, NoNewRow, KeysStay, UpstreamGoesOn
    <3> QED
      BY <1>1, <3>1, BystanderStaysAudited
  <2>2. CASE \/ AnswerUnknownTool(r) \/ Relay(r) \/ QueryKeys(r) \/ Unauthorized(r)
             \/ Authenticated(r) \/ AnswerList(r) \/ ListFails(r) \/ Authorize(r)
    BY <1>1, <2>2, BeforeRateIsAudited
  <2>3. CASE \E k \in Kinds : CheckRate(r, k) \/ RateError(r, k)
    BY <1>1, <2>3, RateIsAudited
  <2>4. CASE \/ Forward(r) \/ Execute(r) \/ UpstreamAnswers(r) \/ UpstreamFails(r)
             \/ LogEvent(r) \/ Answer(r) \/ AnswerRelayed(r)
    BY <1>1, <2>4, FromForwardIsAudited
  <2> QED
    BY <2>1, <2>2, <2>3, <2>4 DEF RequestStep, OwnStep, UpstreamStep
<1>2. CASE q # r
  BY <1>2, OthersKeepEvents, OthersUntouched, BystanderStaysAudited
<1> QED
  BY <1>1, <1>2

LEMMA ReceiveStaysAudited ==
  ASSUME TypeOK, NEW r \in Requests, NEW g \in Gateways, NEW m \in Methods,
         NEW k \in Keys \cup {NoKey}, NEW t \in Tools, Receive(r, g, m, k, t),
         NEW q \in Requests, Audited(q)
  PROVE  Audited(q)'
PROOF
<1>1. CASE q = r
  <2>1. stage[r] = "unsent" /\ stage'[r] = "received" /\ UNCHANGED <<rows, decision>>
    BY DEF Receive, MoveTo, TypeOK
  <2> QED
    BY <1>1, <2>1, NoRowYet DEF Audited, DecisionFits, MethodFits
<1>2. CASE q # r
  <2>1. UnchangedEvent(q) /\ NoNewRow(q) /\ KeysStay /\ UpstreamGoesOn(q)
        /\ stage'[q] = stage[q]
    BY <1>2 DEF Receive, MoveTo, TypeOK, UnchangedEvent, NoNewRow, KeysStay,
                UpstreamGoesOn
  <2> QED
    BY <2>1, BystanderStaysAudited
<1> QED
  BY <1>1, <1>2

LEMMA SurroundingsStayAudited ==
  ASSUME TypeOK, NEW q \in Requests, Audited(q),
         \/ \E g \in Gateways : Crash(g) \/ \E p \in Policies : Start(g, p)
         \/ \E k \in Keys : CreateAPIKey(k) \/ RevokeAPIKey(k)
         \/ UNCHANGED vars
  PROVE  Audited(q)'
PROOF
<1>1. UnchangedEvent(q) /\ NoNewRow(q) /\ UpstreamGoesOn(q)
  BY DEF Crash, Start, CreateAPIKey, RevokeAPIKey, vars, UnchangedEvent, NoNewRow,
         UpstreamGoesOn
<1>2. KeysStay
  BY DEF Crash, Start, CreateAPIKey, RevokeAPIKey, vars, KeysStay, TypeOK
<1>3. stage'[q] = stage[q] \/ (InFlight(q) /\ stage'[q] = "lost")
  BY DEF Crash, Start, CreateAPIKey, RevokeAPIKey, vars, TypeOK
<1> QED
  BY <1>1, <1>2, <1>3, BystanderStaysAudited

LEMMA StepKeepsAudit == MediationInv /\ AuditInv /\ [Next]_vars => AuditInv'
PROOF
<1> SUFFICES ASSUME MediationInv, AuditInv, [Next]_vars
             PROVE  AuditInv'
  OBVIOUS
<1>1. TypeOK /\ \A q \in Requests : Sound(q)
  BY MediationIsSoundness
<1>2. \A q \in Requests : Audited(q)
  BY DEF AuditInv, Audited
<1>3. ASSUME NEW q \in Requests
      PROVE  Audited(q)'
  <2>1. CASE \E r \in Requests, g \in Gateways, m \in Methods,
                k \in Keys \cup {NoKey}, t \in Tools : Receive(r, g, m, k, t)
    BY <1>1, <1>2, <2>1, ReceiveStaysAudited
  <2>2. CASE \E r \in Requests : RequestStep(r)
    BY <1>1, <1>2, <2>2, RequestsStayAudited
  <2> QED
    BY <1>1, <1>2, <2>1, <2>2, SurroundingsStayAudited DEF Next, RequestStep
<1> QED
  BY <1>3 DEF AuditInv, Audited

LEMMA AlwaysMediatedAndAudited == Spec => [](MediationInv /\ AuditInv)
PROOF
<1>1. Init => MediationInv /\ AuditInv
  BY InitSound, InitAudited
<1>2. (MediationInv /\ AuditInv) /\ [Next]_vars => (MediationInv /\ AuditInv)'
  BY StepKeepsMediation, StepKeepsAudit
<1> QED
  BY <1>1, <1>2, PTL DEF Spec

(***************************************************************************)
(* Whatever fails and whoever else is served meanwhile: what a request     *)
(* will be reported as is what happened to it.                             *)
(***************************************************************************)
THEOREM AuditInvariant == Spec => []AuditInv
BY AlwaysMediatedAndAudited, PTL

(***************************************************************************)
(* No row of the audit table says anything that did not happen, or that    *)
(* is undone by what happens later.                                        *)
(***************************************************************************)
THEOREM AuditIsTruthfulHolds == Spec => []AuditIsTruthful
PROOF
<1>1. MediationInv /\ AuditInv => AuditIsTruthful
  <2> SUFFICES ASSUME TypeOK, AuditInv, NEW row \in rows
               PROVE  IsTrue(row)
    BY DEF MediationInv, AuditIsTruthful
  <2>1. row.request \in Requests
    BY DEF TypeOK, Events
  <2> QED
    BY <2>1 DEF AuditInv, RowsFit
<1> QED
  BY <1>1, AlwaysMediatedAndAudited, PTL

(***************************************************************************)
(* Every answered call has its one row, with the status the client was     *)
(* told, or a report on stderr.                                            *)
(***************************************************************************)
THEOREM AnsweredIsAuditedOrReportedHolds == Spec => []AnsweredIsAuditedOrReported
PROOF
<1>1. AuditInv => AnsweredIsAuditedOrReported
  <2> SUFFICES ASSUME AuditInv, NEW r \in Requests, IsCall(r),
                      input[r].tool \in UpstreamTools, stage[r] = "answered"
               PROVE  LET mine == {row \in rows : row.request = r}
                      IN  /\ mine = {} => r \in reported
                          /\ \A row \in mine : mine = {row} /\ row.status = status[r]
    BY DEF AnsweredIsAuditedOrReported
  <2> DEFINE mine == {row \in rows : row.request = r}
  <2>1. HasRow(r) \/ r \in reported
    BY DEF AuditInv, RowsFit
  <2>2. \A row \in mine : row = Event(r)
    BY DEF AuditInv, RowsFit
  <2>3. mine = {} => r \in reported
    BY <2>1 DEF HasRow
  <2>4. \A row \in mine : mine = {row} /\ row.status = status[r]
    BY <2>2 DEF Event
  <2> QED
    BY <2>3, <2>4
<1> QED
  BY <1>1, AlwaysMediatedAndAudited, PTL

-----------------------------------------------------------------------------
(***************************************************************************)
(* A process that died does nothing more for its requests.                 *)
(***************************************************************************)
LEMMA StepLeavesLost ==
  ASSUME TypeOK, [Next]_vars, NEW q \in Requests, stage[q] = "lost"
  PROVE  /\ stage'[q] = "lost"
         /\ upstream[q] = "unsent" => upstream'[q] = "unsent"
         /\ \A row \in rows' \ rows : row.request # q
PROOF
<1>1. CASE \E r \in Requests, g \in Gateways, m \in Methods,
              k \in Keys \cup {NoKey}, t \in Tools : Receive(r, g, m, k, t)
  BY <1>1 DEF Receive, MoveTo, TypeOK
<1>2. CASE \E g \in Gateways : Crash(g) \/ \E p \in Policies : Start(g, p)
  BY <1>2 DEF Crash, Start, InFlight
<1>3. CASE UNCHANGED vars \/ \E k \in Keys : CreateAPIKey(k) \/ RevokeAPIKey(k)
  BY <1>3 DEF vars, CreateAPIKey, RevokeAPIKey
<1>4. ASSUME NEW r \in Requests, RequestStep(r)
      PROVE  /\ stage'[q] = "lost"
             /\ upstream[q] = "unsent" => upstream'[q] = "unsent"
             /\ \A row \in rows' \ rows : row.request # q
  <2>1. CASE q # r
    BY <1>4, <2>1, OthersUntouched, OthersKeepEvents DEF NoNewRow
  <2>2. CASE q = r
    <3>1. Execute(r)
      BY <1>4, <2>2
         DEF RequestStep, OwnStep, UpstreamStep, AnswerUnknownTool, Relay, QueryKeys,
             Unauthorized, Authenticated, AnswerList, ListFails, Authorize, CheckRate,
             RateError, Forward, Execute, UpstreamAnswers, UpstreamFails, LogEvent,
             Answer, AnswerRelayed, LoseRateReply, NeedsKey, RateStage
    <3> QED
      BY <2>2, <3>1 DEF Execute
  <2> QED
    BY <2>1, <2>2
<1> QED
  BY <1>1, <1>2, <1>3, <1>4 DEF Next, RequestStep

(***************************************************************************)
(* Nothing new is sent or written for a request whose process died, and no *)
(* later start of a process picks it up.                                   *)
(***************************************************************************)
THEOREM LostStaysLostHolds == Spec => LostStaysLost
PROOF
<1>1. TypeOK /\ [Next]_vars =>
        [\A r \in Requests :
           stage[r] = "lost" =>
             /\ stage'[r] = "lost"
             /\ upstream[r] = "unsent" => upstream'[r] = "unsent"
             /\ \A row \in rows' \ rows : row.request # r]_vars
  BY StepLeavesLost
<1> QED
  BY <1>1, TypeCorrect, PTL DEF Spec, LostStaysLost

-----------------------------------------------------------------------------
(***************************************************************************)
(* The refinement.  Most steps change nothing that MediatedUpstream sees.  *)
(***************************************************************************)
Asked == CallsWith({"unsent", "sent", "done"})
Sent == CallsWith({"sent", "done"})
Done == CallsWith({"done"})

\* Calls are told apart by their request.
LEMMA CallsAreDistinct ==
  ASSUME NEW states, NEW a
  PROVE  /\ a \in CallsWith(states)
              <=> \E q \in Requests : /\ a = CallOf(q) /\ a.request = q
                                      /\ IsCall(q) /\ upstream[q] \in states
BY DEF CallsWith, CallOf

LEMMA Unseen ==
  ASSUME \A q \in Requests : /\ IsCall(q)' <=> IsCall(q)
                             /\ IsCall(q) => /\ input'[q] = input[q]
                                             /\ upstream'[q] = upstream[q]
  PROVE  UNCHANGED <<Asked, Sent, Done>>
PROOF
<1>1. ASSUME NEW states
      PROVE  CallsWith(states)' = CallsWith(states)
  BY DEF CallsWith, CallOf
<1> QED
  BY <1>1 DEF Asked, Sent, Done

\* The upstream of one request goes on: its call moves from set to set.
LEMMA Seen ==
  ASSUME TypeOK, NEW r \in Requests, IsCall(r), input' = input,
         \A q \in Requests : stage'[q] = "unsent" <=> stage[q] = "unsent",
         NEW u \in {"sent", "done"}, upstream' = [upstream EXCEPT ![r] = u],
         upstream[r] = IF u = "sent" THEN "unsent" ELSE "sent"
  PROVE  /\ CallOf(r) \in Asked /\ Asked' = Asked
         /\ u = "sent" => /\ CallOf(r) \notin Sent /\ Sent' = Sent \cup {CallOf(r)}
                          /\ Done' = Done
         /\ u = "done" => /\ CallOf(r) \in Sent /\ Sent' = Sent
                          /\ CallOf(r) \notin Done /\ Done' = Done \cup {CallOf(r)}
PROOF
<1> DEFINE c == CallOf(r)
<1>1. /\ \A q \in Requests : /\ IsCall(q)' <=> IsCall(q)
                             /\ CallOf(q)' = CallOf(q)
      /\ \A q \in Requests : upstream'[q] = IF q = r THEN u ELSE upstream[q]
      /\ \A q \in Requests : upstream[q] \in {"unsent", "sent", "done"}
  BY DEF IsCall, CallOf, TypeOK
<1>2. ASSUME NEW states, u \in states
      PROVE  CallsWith(states)' = CallsWith(states) \cup {c}
  BY <1>1, <1>2 DEF CallsWith
<1>3. ASSUME NEW states, u \notin states, upstream[r] \notin states
      PROVE  CallsWith(states)' = CallsWith(states)
  BY <1>1, <1>3 DEF CallsWith
<1>4. ASSUME NEW states
      PROVE  c \in CallsWith(states) <=> upstream[r] \in states
  BY CallsAreDistinct DEF CallOf
<1>5. c \in Asked /\ Asked' = Asked
  <2>1. upstream[r] \in {"unsent", "sent", "done"} /\ u \in {"unsent", "sent", "done"}
    BY <1>1
  <2>2. c \in Asked
    BY <1>4, <2>1 DEF Asked
  <2>3. Asked' = Asked \cup {c}
    BY <1>2, <2>1 DEF Asked
  <2> QED
    BY <2>2, <2>3
<1>6. CASE u = "sent"
  BY <1>2, <1>3, <1>4, <1>5, <1>6 DEF Sent, Done
<1>7. CASE u = "done"
  <2>1. c \in Sent /\ c \notin Done
    BY <1>4, <1>7 DEF Sent, Done
  <2>2. Sent' = Sent \cup {c}
    BY <1>2, <1>7 DEF Sent
  <2>3. Done' = Done \cup {c}
    BY <1>2, <1>7 DEF Done
  <2> QED
    BY <1>5, <1>7, <2>1, <2>2, <2>3
<1> QED
  BY <1>5, <1>6, <1>7

LEMMA FewerThan ==
  ASSUME NEW S, NEW T, NEW tag, NEW r, NEW limit \in Nat, IsFiniteSet(T),
         Cardinality(T) <= limit, <<r, tag>> \in T,
         \A a \in S : <<a.request, tag>> \in T /\ a.request # r,
         \A a, b \in S : a.request = b.request => a = b
  PROVE  Cardinality(S) < limit
PROOF
<1> DEFINE U == T \ {<<r, tag>>}
           f == [a \in S |-> <<a.request, tag>>]
<1>1. f \in Injection(S, U)
  BY DEF Injection, IsInjective
<1>2. /\ IsFiniteSet(U) /\ Cardinality(U) = Cardinality(T) - 1
      /\ Cardinality(T) \in Nat
  BY FS_RemoveElement, FS_CardinalityType
<1>3. Cardinality(S) <= Cardinality(U) /\ Cardinality(S) \in Nat
  BY <1>1, <1>2, FS_Injection, FS_CardinalityType
<1> QED
  BY <1>2, <1>3

LEMMA SameCardinality == \A S : Promise!Cardinality(S) = Cardinality(S)
BY DEF Promise!Cardinality, Cardinality

\* A counter that admitted every call in S, and one more, was within limits.
LEMMA ForwardIsSend ==
  ASSUME MediationInv, WithinLimits, NEW r \in Requests, Forward(r)
  PROVE  Promise!Send(CallOf(r))
PROOF
<1> DEFINE c == CallOf(r)
           Like == {a \in Sent : a.key = c.key}
<1>1. TypeOK /\ Sound(r) /\ IsCall(r)
  BY MediationIsSoundness DEF Forward, Sound, IsEarned, Checking, IsGenuine, IsCall
<1>2. /\ c \in Asked \ Sent /\ Sent' = Sent \cup {c}
      /\ UNCHANGED <<keys, Asked, Done>>
  <2>1. /\ upstream[r] = "unsent"
        /\ \A q \in Requests : stage'[q] = "unsent" <=> stage[q] = "unsent"
    BY <1>1 DEF Forward, MoveTo, TypeOK, Sound, IsEarned, Checking
  <2> QED
    BY <1>1, <2>1, Seen DEF Forward
<1>3. /\ caller[r] \in Keys /\ caller[r] = c.key /\ caller[r] \notin c.revoked
      /\ keys[c.key] # "absent" /\ <<RoleOf[c.key], c.tool>> \in c.policy
      /\ c.tool \in Tools /\ c.tool # AllTools
      /\ \A k \in Kinds : AdmittedBy(r, k)
  <2>1. input[r].tool \in Tools
    BY <1>1, InputTyped DEF Forward, Input
  <2> QED
    BY <1>1, <2>1, ToolsAssumption
       DEF Forward, Sound, IsEarned, IsGenuine, Checking, MayUse, CallOf, Kinds
<1>4. /\ \A a \in Like : a.request # r
      /\ \A a, b \in Like : a.request = b.request => a = b
  BY <1>2, CallsAreDistinct DEF Sent
<1> DEFINE x == <<<<c.key, AllTools>>, "now">>
           y == <<<<c.key, c.tool>>, "now">>
           LikeTool == {a \in Like : a.tool = c.tool}
<1>5. ASSUME NEW a \in Like
      PROVE  /\ <<a.request, "key">> \in admitted[x]
             /\ a.tool = c.tool => <<a.request, "tool">> \in admitted[y]
  <2> PICK q \in Requests : /\ a = CallOf(q) /\ a.request = q /\ IsCall(q)
                            /\ upstream[q] \in {"sent", "done"}
    BY CallsAreDistinct DEF Sent
  <2>1. /\ caller[q] = c.key /\ a.tool = input[q].tool
        /\ \A k \in Kinds : AdmittedBy(q, k)
    BY DEF MediationInv, ForwardedWasEntitled, WasEntitled, AdmittedBy, CallOf
  <2> QED
    BY <2>1 DEF AdmittedBy, ScopeOf, Kinds
<1>6. /\ <<r, "key">> \in admitted[x] /\ <<r, "tool">> \in admitted[y]
      /\ x \in Cells /\ y \in Cells /\ LimitOf(x) = KeyLimit /\ LimitOf(y) = ToolLimit
  BY <1>3 DEF AdmittedBy, ScopeOf, Kinds, CallOf, Cells, Scopes, LimitOf
<1>7. IsWithin(x) /\ IsWithin(y)
  BY <1>6 DEF WithinLimits
<1>8. Cardinality(Like) < KeyLimit
  <2> HIDE DEF x, y, Like, c
  <2> QED
    BY <1>4, <1>5, <1>6, <1>7, FewerThan, LimitsAssumption, Zenon DEF IsWithin
<1>9. Cardinality(LikeTool) < ToolLimit
  <2>1. \A a \in LikeTool : <<a.request, "tool">> \in admitted[y] /\ a.request # r
    BY <1>4, <1>5
  <2>2. \A a, b \in LikeTool : a.request = b.request => a = b
    BY <1>4
  <2> HIDE DEF x, y, LikeTool
  <2> QED
    BY <1>6, <1>7, <2>1, <2>2, FewerThan, LimitsAssumption, Zenon DEF IsWithin
<1> QED
  BY <1>2, <1>3, <1>8, <1>9, SameCardinality
     DEF Promise!Send, Promise!Entitled, Promise!SentLike, Asked, Sent, Done

LEMMA ReceiveIsAsk ==
  ASSUME MediationInv, NEW r \in Requests, NEW g \in Gateways,
         NEW k \in Keys \cup {NoKey}, NEW t \in Tools,
         Receive(r, g, "tools/call", k, t)
  PROVE  Promise!Ask(r, k, t, policy[g]) /\ policy[g] \in Policies
PROOF
<1> DEFINE c == [request |-> r, key |-> k, tool |-> t, policy |-> policy[g],
                 revoked |-> {j \in Keys : keys[j] = "revoked"}]
<1>1. TypeOK /\ Sound(r)
  BY MediationIsSoundness
<1>2. /\ ~ IsCall(r) /\ IsCall(r)' /\ CallOf(r)' = c
      /\ upstream' = upstream /\ upstream[r] = "unsent" /\ keys' = keys
      /\ policy[g] \in Policies
  BY <1>1 DEF Receive, MoveTo, TypeOK, IsCall, CallOf, Sound, IsEarned
<1>3. \A q \in Requests \ {r} : /\ IsCall(q)' <=> IsCall(q)
                                /\ CallOf(q)' = CallOf(q)
  BY <1>1 DEF Receive, MoveTo, TypeOK, IsCall, CallOf
<1>4. ASSUME NEW states, "unsent" \in states
      PROVE  CallsWith(states)' = CallsWith(states) \cup {c}
  BY <1>2, <1>3, <1>4 DEF CallsWith
<1>5. ASSUME NEW states, "unsent" \notin states
      PROVE  CallsWith(states)' = CallsWith(states)
  BY <1>2, <1>3, <1>5 DEF CallsWith
<1>6. \A a \in Asked : a.request # r
  BY <1>2, CallsAreDistinct DEF Asked
<1>7. Asked' = Asked \cup {c} /\ Sent' = Sent /\ Done' = Done
  BY <1>4, <1>5 DEF Asked, Sent, Done
<1> QED
  BY <1>2, <1>6, <1>7 DEF Promise!Ask, Asked, Sent, Done

LEMMA ExecuteIsExecute ==
  ASSUME TypeOK, NEW r \in Requests, IsCall(r), Execute(r)
  PROVE  CallOf(r) \in Asked /\ Promise!Execute(CallOf(r))
PROOF
<1>1. /\ CallOf(r) \in Sent \ Done /\ CallOf(r) \in Asked
      /\ Done' = Done \cup {CallOf(r)}
      /\ UNCHANGED <<keys, Asked, Sent>>
  BY Seen DEF Execute
<1> QED
  BY <1>1 DEF Promise!Execute, Asked, Sent, Done

\* The steps of a request that the upstream does not see.
LEMMA OtherStepsUnseen ==
  ASSUME TypeOK, NEW r \in Requests, RequestStep(r), ~ Forward(r),
         ~ (IsCall(r) /\ Execute(r))
  PROVE  UNCHANGED <<keys, Asked, Sent, Done>>
PROOF
<1>1. \A q \in Requests : input'[q] = input[q]
  BY OthersUntouched
<1>2. stage'[r] = "unsent" <=> stage[r] = "unsent"
  BY DEF TypeOK, RequestStep, OwnStep, UpstreamStep, AnswerUnknownTool, Relay, QueryKeys,
         Unauthorized, Authenticated, AnswerList, ListFails, Authorize, CheckRate,
         RateError, Execute, UpstreamAnswers, UpstreamFails, LogEvent, Answer,
         AnswerRelayed, LoseRateReply, Conclude, MoveTo, NeedsKey, RateStage
<1>3. IsCall(r) => upstream'[r] = upstream[r]
  BY DEF TypeOK, RequestStep, OwnStep, UpstreamStep, AnswerUnknownTool, Relay, QueryKeys,
         Unauthorized, Authenticated, AnswerList, ListFails, Authorize, CheckRate,
         RateError, UpstreamAnswers, UpstreamFails, LogEvent, Answer,
         AnswerRelayed, LoseRateReply, IsCall
<1>4. \A q \in Requests : /\ IsCall(q)' <=> IsCall(q)
                          /\ IsCall(q) => upstream'[q] = upstream[q]
  BY <1>1, <1>2, <1>3, OthersUntouched DEF IsCall
<1>5. keys' = keys
  BY OthersUntouched
<1> QED
  BY <1>1, <1>4, <1>5, Unseen

LEMMA SurroundingsUnseen ==
  ASSUME TypeOK,
         \/ UNCHANGED vars
         \/ \E g \in Gateways : Crash(g) \/ \E p \in Policies : Start(g, p)
         \/ \E k \in Keys : CreateAPIKey(k) \/ RevokeAPIKey(k)
         \/ \E r \in Requests, g \in Gateways, m \in Methods \ {"tools/call"},
               k \in Keys \cup {NoKey}, t \in Tools : Receive(r, g, m, k, t)
  PROVE  UNCHANGED <<Asked, Sent, Done>>
PROOF
<1>1. CASE \/ UNCHANGED vars
           \/ \E k \in Keys : CreateAPIKey(k) \/ RevokeAPIKey(k)
  BY <1>1, Unseen DEF vars, CreateAPIKey, RevokeAPIKey, IsCall
<1>2. CASE \E g \in Gateways : Crash(g) \/ \E p \in Policies : Start(g, p)
  <2>1. /\ \A q \in Requests : stage'[q] = "unsent" <=> stage[q] = "unsent"
        /\ UNCHANGED <<input, upstream>>
    BY <1>2 DEF Crash, Start, InFlight
  <2> QED
    BY <2>1, Unseen DEF IsCall
<1>3. ASSUME NEW r \in Requests, NEW g \in Gateways, NEW m \in Methods \ {"tools/call"},
             NEW k \in Keys \cup {NoKey}, NEW t \in Tools, Receive(r, g, m, k, t)
      PROVE  UNCHANGED <<Asked, Sent, Done>>
  <2>1. \A q \in Requests : /\ IsCall(q)' <=> IsCall(q)
                            /\ IsCall(q) => /\ input'[q] = input[q]
                                            /\ upstream'[q] = upstream[q]
    BY <1>3 DEF Receive, MoveTo, TypeOK, IsCall
  <2> QED
    BY <2>1, Unseen
<1> QED
  BY <1>1, <1>2, <1>3

LEMMA StepIsPromised ==
  MediationInv /\ WithinLimits /\ [Next]_vars => [Promise!Next]_(Promise!vars)
PROOF
<1> SUFFICES ASSUME MediationInv, WithinLimits, [Next]_vars
             PROVE  Promise!Next \/ UNCHANGED Promise!vars
  OBVIOUS
<1>1. TypeOK
  BY DEF MediationInv
<1>2. UNCHANGED <<keys, Asked, Sent, Done>> => UNCHANGED Promise!vars
  BY DEF Promise!vars, Asked, Sent, Done
<1>3. CASE \/ UNCHANGED vars
           \/ \E g \in Gateways : Crash(g) \/ \E p \in Policies : Start(g, p)
  <2>1. keys' = keys
    BY <1>3 DEF vars, Crash, Start
  <2> QED
    BY <1>1, <1>2, <1>3, <2>1, SurroundingsUnseen
<1>4. ASSUME NEW k \in Keys, CreateAPIKey(k) \/ RevokeAPIKey(k)
      PROVE  Promise!Next
  <2>1. UNCHANGED <<Asked, Sent, Done>>
    BY <1>1, <1>4, SurroundingsUnseen
  <2>2. Promise!CreateAPIKey(k) \/ Promise!RevokeAPIKey(k)
    BY <1>4, <2>1 DEF CreateAPIKey, RevokeAPIKey, Promise!CreateAPIKey,
         Promise!RevokeAPIKey, Asked, Sent, Done
  <2> QED
    BY <2>2 DEF Promise!Next
<1>5. ASSUME NEW r \in Requests, NEW g \in Gateways, NEW m \in Methods,
             NEW k \in Keys \cup {NoKey}, NEW t \in Tools, Receive(r, g, m, k, t)
      PROVE  Promise!Next \/ UNCHANGED Promise!vars
  <2>1. CASE m = "tools/call"
    BY <1>5, <2>1, ReceiveIsAsk DEF Promise!Next
  <2>2. CASE m # "tools/call"
    <3>1. keys' = keys
      BY <1>5 DEF Receive
    <3> QED
      BY <1>1, <1>2, <1>5, <2>2, <3>1, SurroundingsUnseen
  <2> QED
    BY <2>1, <2>2
<1>6. ASSUME NEW r \in Requests, RequestStep(r)
      PROVE  Promise!Next \/ UNCHANGED Promise!vars
  <2>1. CASE Forward(r)
    <3>1. Promise!Send(CallOf(r))
      BY <2>1, ForwardIsSend
    <3>2. CallOf(r) \in CallsWith({"unsent", "sent", "done"})
      BY <3>1 DEF Promise!Send
    <3> QED
      BY <3>1, <3>2 DEF Promise!Next
  <2>2. CASE IsCall(r) /\ Execute(r)
    <3>1. CallOf(r) \in Asked /\ Promise!Execute(CallOf(r))
      BY <1>1, <2>2, ExecuteIsExecute
    <3> QED
      BY <3>1 DEF Promise!Next, Asked
  <2>3. CASE ~ Forward(r) /\ ~ (IsCall(r) /\ Execute(r))
    BY <1>1, <1>2, <1>6, <2>3, OtherStepsUnseen
  <2> QED
    BY <2>1, <2>2, <2>3
<1> QED
  BY <1>3, <1>4, <1>5, <1>6 DEF Next, RequestStep

(***************************************************************************)
(* The gateway is a MediatedUpstream: whatever it does with stages,        *)
(* processes and counters, the upstream only ever sees calls sent once     *)
(* that their keys were entitled to, within both limits.                   *)
(***************************************************************************)
THEOREM ImplementsPromiseHolds == Spec => ImplementsPromise
PROOF
<1>1. Init => Promise!Init
  BY DEF Init, Promise!Init, CallsWith, IsCall
<1>2. Init => MediationInv /\ WithinLimits
  BY InitSound, InitWithin
<1>3. (MediationInv /\ WithinLimits) /\ [Next]_vars => (MediationInv /\ WithinLimits)'
  BY StepKeepsMediation, StepStaysWithin
<1>4. (MediationInv /\ WithinLimits) /\ [Next]_vars => [Promise!Next]_(Promise!vars)
  BY StepIsPromised
<1> QED
  BY <1>1, <1>2, <1>3, <1>4, PTL DEF Spec, ImplementsPromise, Promise!Spec
=============================================================================
