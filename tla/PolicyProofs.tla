---------------------------- MODULE PolicyProofs ----------------------------
(***************************************************************************)
(* Proofs about Policy, for any set of documents in which a role has no    *)
(* list or a list of texts.  Only GrantsAreThoseWrittenHolds needs even    *)
(* that.                                                                   *)
(***************************************************************************)
EXTENDS Policy, NumberLemmas

\* The windows of the policy, before ForTool chooses one of them.
WindowsAreValid ==
  InForce =>
    /\ IsValid(policy.perKey)
    /\ IsValid(policy.perTool)
    /\ \A n \in DOMAIN policy.overrides : IsValid(policy.overrides[n])

LEMMA LoadKeeps ==
  ASSUME Load
  PROVE  WindowsAreValid'
PROOF
<1>1. PICK overrides \in NormalizedOverrides(document) :
        policy' = [roles |-> NormalizedRoles(document),
                   perKey |-> PerAPIKey(document),
                   perTool |-> PerToolDefault(document),
                   overrides |-> overrides]
  BY DEF Load
<1>2. LimitsAreValid(document)
  BY DEF Load, IsAccepted
<1>3. IsValid(policy'.perKey) /\ IsValid(policy'.perTool)
  BY <1>1, <1>2 DEF LimitsAreValid
<1>4. ASSUME NEW n \in DOMAIN overrides PROVE IsValid(overrides[n])
  <2>1. \E t \in DOMAIN document.overrides : overrides[n] = Override(document, t)
    BY DEF NormalizedOverrides
  <2> QED
    BY <1>2, <2>1 DEF LimitsAreValid
<1> QED
  BY <1>1, <1>3, <1>4 DEF WindowsAreValid, IsValid

(***************************************************************************)
(* Policy.Normalize lets no zero or negative limit into force, whether it  *)
(* was written, defaulted, or inherited by an override.                    *)
(***************************************************************************)
THEOREM LimitsArePositiveHolds == Spec => []LimitsArePositive
PROOF
<1>1. Init => WindowsAreValid
  BY DEF Init, WindowsAreValid, InForce
<1>2. WindowsAreValid /\ [Next]_vars => WindowsAreValid'
  <2>1. WindowsAreValid /\ Reject => WindowsAreValid'
    BY DEF WindowsAreValid, InForce, Reject
  <2>2. WindowsAreValid /\ UNCHANGED vars => WindowsAreValid'
    BY DEF WindowsAreValid, InForce, IsValid, vars
  <2> QED
    BY <2>1, <2>2, LoadKeeps DEF Next
<1>3. WindowsAreValid => LimitsArePositive
  BY DEF WindowsAreValid, LimitsArePositive, ForTool
<1> QED
  BY <1>1, <1>2, <1>3, PTL DEF Spec

-----------------------------------------------------------------------------
(***************************************************************************)
(* What is in force is what Normalize makes of the document, and the       *)
(* document passed validation.  Everything else said of a policy in force  *)
(* follows from this.                                                      *)
(***************************************************************************)
PolicyInv ==
  /\ document \in Documents
  /\ InForce =>
       /\ IsAccepted(document)
       /\ policy.roles = NormalizedRoles(document)
       /\ policy.perKey = PerAPIKey(document)
       /\ policy.perTool = PerToolDefault(document)
       /\ policy.overrides \in NormalizedOverrides(document)

THEOREM PolicyInvariant == Spec => []PolicyInv
PROOF
<1>1. Init => PolicyInv
  BY DEF Init, PolicyInv, InForce
<1>2. PolicyInv /\ [Next]_vars => PolicyInv'
  <2> SUFFICES ASSUME PolicyInv, [Next]_vars PROVE PolicyInv'
    OBVIOUS
  <2>1. CASE Load
    BY <2>1 DEF Load, PolicyInv, InForce
  <2>2. CASE Reject
    BY <2>2 DEF Reject, PolicyInv, InForce
  <2>3. CASE UNCHANGED vars
    BY <2>3 DEF PolicyInv, InForce, vars
  <2> QED
    BY <2>1, <2>2, <2>3 DEF Next
<1> QED
  BY <1>1, <1>2, PTL DEF Spec

-----------------------------------------------------------------------------
(***************************************************************************)
(* The tools/list filter and authorize agree.                              *)
(***************************************************************************)
LEMMA AuthorizedIsAllowed ==
  ASSUME NEW pol, NEW known, NEW roleText, NEW toolText
  PROVE  Authorize(pol, known, roleText, toolText) = "allowed"
           <=> IsToolAllowed(pol, roleText, toolText)
BY DEF Authorize, IsToolAllowed, ForRole, Allows, ToLowerTrim, TrimSpace

\* tools/list shows a role exactly the tools that authorize lets it call.
THEOREM ListingMatchesCallingHolds == Spec => []ListingMatchesCalling
PROOF
<1>1. ListingMatchesCalling
  BY AuthorizedIsAllowed DEF ListingMatchesCalling, IsListed
<1> QED
  BY <1>1, PTL

-----------------------------------------------------------------------------
(***************************************************************************)
(* What Normalize makes of one list.                                       *)
(***************************************************************************)
\* The loop ends at the first stop, which in a valid list is a wildcard.
LEMMA ValidStopIsWildcard ==
  ASSUME NEW list \in Seq(ToolText), AllowIsValid(list), Stops(list) # {}
  PROVE  \E i \in DOMAIN list : TrimSpace(list[i]) = Wildcard
PROOF
<1>1. Stops(list) \subseteq Nat
  BY DEF Stops
<1>2. Min(Stops(list)) \in Stops(list)
  BY <1>1, MinIsLeast
<1> QED
  BY <1>2 DEF AllowIsValid, Stops

\* An entry permits a name by being it or by being the wildcard.
LEMMA AllowedIsWritten ==
  ASSUME NEW list \in Seq(ToolText), AllowIsValid(list),
         NEW toolText \in ToolText
  PROVE  Allows(NormalizedAllow(list), toolText)
           <=> /\ toolText.name # Blank
               /\ \E i \in DOMAIN list :
                    TrimSpace(list[i]) \in {Wildcard, toolText.name}
PROOF
<1>1. CASE Stops(list) # {}
  <2>1. \E i \in DOMAIN list : TrimSpace(list[i]) = Wildcard
    BY <1>1, ValidStopIsWildcard
  <2> QED
    BY <1>1, <2>1 DEF Allows, NormalizedAllow, TrimSpace
<1>2. CASE Stops(list) = {}
  <2>1. \A i \in DOMAIN list : TrimSpace(list[i]) \notin {Blank, Wildcard}
    BY <1>2 DEF Stops
  <2>2. NormalizedAllow(list) = {TrimSpace(t) : t \in Range(list)}
    BY <1>2 DEF NormalizedAllow
  <2>3. \A n : n \in NormalizedAllow(list)
                 <=> \E i \in DOMAIN list : TrimSpace(list[i]) = n
    BY <2>2 DEF Range
  <2>4. Wildcard \notin NormalizedAllow(list)
    BY <2>1, <2>3
  <2>5. TrimSpace(toolText) = toolText.name
    BY DEF TrimSpace
  <2> QED
    BY <2>1, <2>3, <2>4, <2>5 DEF Allows
<1> QED
  BY <1>1, <1>2

LEMMA AllowIsNoNil ==
  ASSUME NEW list \in Seq(ToolText)
  PROVE  NormalizedAllow(list) # Nil
PROOF
<1>1. \A i \in DOMAIN list : list[i].name \in ToolNames \cup {Wildcard, Blank}
  <2>1. \A i \in DOMAIN list : list[i] \in ToolText
    OBVIOUS
  <2> QED
    BY <2>1 DEF ToolText
<1>2. NormalizedAllow(list) \in SUBSET (ToolNames \cup {Wildcard, Blank})
  BY <1>1 DEF NormalizedAllow, Range, TrimSpace
<1> QED
  BY <1>2, DocumentsAssumption

(***************************************************************************)
(* One role of an accepted document: the list in force lets a text through *)
(* exactly where the document grants its name.                             *)
(***************************************************************************)
LEMMA AllowedIsGranted ==
  ASSUME NEW doc \in Documents, IsAccepted(doc),
         NEW role \in RoleNames, NEW toolText \in ToolText
  PROVE  /\ NormalizedRoles(doc)[role] # Nil
         /\ Allows(NormalizedRoles(doc)[role], toolText)
              <=> toolText.name # Blank /\ Grants(doc, role, toolText.name)
PROOF
<1> DEFINE list == RoleAllow(doc, role)
<1>1. NormalizedRoles(doc)[role] = NormalizedAllow(list)
  BY DEF NormalizedRoles
<1>2. AllowIsValid(list)
  BY DEF IsAccepted, RolesAreValid
<1>3. role # "admin" => Wildcard \notin NormalizedAllow(list)
  BY DEF IsAccepted, RolesAreValid, RoleNames
<1>4. doc.roles[role] = Nil \/ doc.roles[role] \in Seq(ToolText)
  BY DocumentsAssumption DEF IsAccepted
<1>5. CASE doc.roles[role] # Nil
  <2>0. list = doc.roles[role]
    BY <1>5 DEF RoleAllow, WithRoleDefaults
  <2>1. list = doc.roles[role] /\ list \in Seq(ToolText)
    BY <1>4, <1>5, <2>0
  <2>2. NormalizedAllow(list) # Nil
    BY <2>1, AllowIsNoNil
  <2>3. Allows(NormalizedAllow(list), toolText)
          <=> /\ toolText.name # Blank
              /\ \E i \in DOMAIN list :
                   TrimSpace(list[i]) \in {Wildcard, toolText.name}
    BY <1>2, <2>1, AllowedIsWritten
  <2>4. ASSUME role # "admin"
        PROVE  \A i \in DOMAIN list : TrimSpace(list[i]) # Wildcard
    <3>1. Stops(list) = {}
      BY <1>3, <2>4 DEF NormalizedAllow
    <3> QED
      BY <3>1 DEF Stops
  <2>5. Grants(doc, role, toolText.name)
          <=> \E i \in DOMAIN list :
                \/ TrimSpace(list[i]) = toolText.name
                \/ TrimSpace(list[i]) = Wildcard /\ role = "admin"
    BY <1>5, <2>1 DEF Grants
  <2> HIDE DEF list
  <2> QED
    BY <1>1, <2>2, <2>3, <2>4, <2>5
<1>6. CASE doc.roles[role] = Nil /\ role = "admin"
  <2> DEFINE any == [name |-> Wildcard, plain |-> TRUE]
  <2>1. list = <<any>>
    BY <1>6 DEF RoleAllow, WithRoleDefaults
  <2>2. Stops(list) # {}
    BY <2>1 DEF Stops, TrimSpace
  <2>3. NormalizedAllow(list) = {Wildcard}
    BY <2>2 DEF NormalizedAllow
  <2>4. {Wildcard} # Nil
    BY DocumentsAssumption
  <2> QED
    BY <1>1, <1>6, <2>3, <2>4 DEF Allows, Grants, TrimSpace
<1>7. CASE doc.roles[role] = Nil /\ role # "admin"
  <2>1. list = <<>>
    BY <1>7 DEF RoleAllow, WithRoleDefaults
  <2>2. Stops(list) = {} /\ Range(list) = {}
    BY <2>1 DEF Stops, Range
  <2>3. NormalizedAllow(list) = {}
    BY <2>2 DEF NormalizedAllow
  <2>4. {} # Nil
    BY DocumentsAssumption
  <2> QED
    BY <1>1, <1>7, <2>3, <2>4 DEF Allows, Grants
<1> QED
  BY <1>5, <1>6, <1>7

(***************************************************************************)
(* Whatever else its lists have, a document that is accepted has no        *)
(* wildcard for user or readonly.                                          *)
(***************************************************************************)
LEMMA NoWildcardButForAdmin ==
  ASSUME NEW doc \in Documents, IsAccepted(doc), NEW role \in {"user", "readonly"}
  PROVE  ~ HasWildcard(doc.roles[role])
PROOF
<1> DEFINE list == RoleAllow(doc, role)
<1>1. CASE doc.roles[role] = Nil
  BY <1>1 DEF HasWildcard
<1>2. CASE doc.roles[role] # Nil
  <2>1. list = doc.roles[role]
    BY <1>2 DEF RoleAllow, WithRoleDefaults
  <2>2. Wildcard \notin NormalizedAllow(list)
    BY DEF IsAccepted, RolesAreValid
  <2>3. Stops(list) = {}
    BY <2>2 DEF NormalizedAllow
  <2> QED
    BY <2>1, <2>3 DEF HasWildcard, Stops
<1> QED
  BY <1>1, <1>2

(***************************************************************************)
(* A policy in force lets an admin, user or readonly key call exactly the  *)
(* tools its document grants the role: trimming, the early stop and the    *)
(* defaults add nothing and drop nothing.  A key of any other role may     *)
(* call nothing, also when the document lists that role.                   *)
(***************************************************************************)
THEOREM GrantsAreThoseWrittenHolds == Spec => []GrantsAreThoseWritten
PROOF
<1>1. PolicyInv => GrantsAreThoseWritten
  <2>0. PolicyInv /\ InForce =>
          \A role \in {"user", "readonly"} : ~ HasWildcard(document.roles[role])
    BY NoWildcardButForAdmin DEF PolicyInv
  <2> SUFFICES ASSUME PolicyInv, InForce,
                      NEW roleText \in RoleText, NEW toolText \in ToolText
               PROVE  IsToolAllowed(policy, roleText, toolText)
                        <=> /\ roleText.role \in RoleNames
                            /\ toolText.name # Blank
                            /\ Grants(document, roleText.role, toolText.name)
    BY <2>0, AuthorizedIsAllowed DEF GrantsAreThoseWritten
  <2>1. /\ document \in Documents
        /\ IsAccepted(document)
        /\ policy.roles = NormalizedRoles(document)
    BY DEF PolicyInv
  <2>2. CASE roleText.role \in RoleNames
    BY <2>1, <2>2, AllowedIsGranted DEF IsToolAllowed, ForRole, ToLowerTrim
  <2>3. CASE roleText.role \notin RoleNames
    BY <2>3 DEF IsToolAllowed, ForRole, ToLowerTrim
  <2> QED
    BY <2>2, <2>3
<1> QED
  BY <1>1, PolicyInvariant, PTL

-----------------------------------------------------------------------------
(***************************************************************************)
(* Limits.                                                                 *)
(***************************************************************************)
LEMMA DefaultsAreWrittenOr ==
  ASSUME NEW window, NEW default
  PROVE  WithDefaults(window, default)
           = [requests |-> WrittenOr(window.requests, default.requests),
              seconds |-> WrittenOr(window.seconds, default.seconds)]
BY DEF WithDefaults, WrittenOr

(***************************************************************************)
(* A limit written for a tool is the one in force, whatever else the       *)
(* document overrides; what is left out comes from per_tool.default and    *)
(* then from the built-in values.  The limit of a key is written or 120 in *)
(* 60 seconds.                                                             *)
(***************************************************************************)
THEOREM LimitsAreThoseWrittenHolds == Spec => []LimitsAreThoseWritten
PROOF
<1>1. PolicyInv => LimitsAreThoseWritten
  <2>0. PolicyInv /\ InForce =>
          policy.perKey = [requests |-> WrittenOr(document.perKey.requests, 120),
                           seconds |-> WrittenOr(document.perKey.seconds, 60)]
    BY DefaultsAreWrittenOr DEF PolicyInv, PerAPIKey
  <2> SUFFICES ASSUME PolicyInv, InForce, NEW toolText \in ToolText
               PROVE  LET written == {document.overrides[t] : t \in
                            {t \in DOMAIN document.overrides : t.name = toolText.name}}
                          base == [requests |-> WrittenOr(document.perTool.requests, 30),
                                   seconds |-> WrittenOr(document.perTool.seconds, 60)]
                          limit == ForTool(policy, toolText)
                      IN  IF written = {} THEN limit = base
                          ELSE \E w \in written :
                                 /\ limit.requests = WrittenOr(w.requests, base.requests)
                                 /\ limit.seconds = WrittenOr(w.seconds, base.seconds)
    BY <2>0 DEF LimitsAreThoseWritten
  <2> DEFINE texts == {t \in DOMAIN document.overrides : t.name = toolText.name}
             base == [requests |-> WrittenOr(document.perTool.requests, 30),
                      seconds |-> WrittenOr(document.perTool.seconds, 60)]
             limit == ForTool(policy, toolText)
  <2>1. PerToolDefault(document) = base
    BY DefaultsAreWrittenOr DEF PerToolDefault
  <2>2. \A t \in DOMAIN document.overrides : TrimSpace(t) # Blank
    BY DEF PolicyInv, IsAccepted, LimitsAreValid
  <2>3. policy.perTool = base
    BY <2>1 DEF PolicyInv
  <2>4. /\ DOMAIN policy.overrides = {TrimSpace(t) : t \in DOMAIN document.overrides}
        /\ \A n \in DOMAIN policy.overrides :
             \E t \in DOMAIN document.overrides :
               TrimSpace(t) = n /\ policy.overrides[n] = Override(document, t)
    BY DEF PolicyInv, NormalizedOverrides
  <2>5. CASE texts = {}
    <3>1. TrimSpace(toolText) \notin DOMAIN policy.overrides
      BY <2>4, <2>5 DEF TrimSpace
    <3>2. limit = base
      BY <2>3, <3>1 DEF ForTool
    <3> QED
      BY <2>5, <3>2
  <2>6. CASE texts # {}
    <3>1. /\ TrimSpace(toolText) \in DOMAIN policy.overrides
          /\ TrimSpace(toolText) # Blank
      BY <2>2, <2>4, <2>6 DEF TrimSpace
    <3>2. PICK t \in texts : limit = Override(document, t)
      BY <2>4, <3>1 DEF ForTool, TrimSpace
    <3>3. limit = [requests |-> WrittenOr(document.overrides[t].requests, base.requests),
                   seconds |-> WrittenOr(document.overrides[t].seconds, base.seconds)]
      BY <2>1, <3>2, DefaultsAreWrittenOr DEF Override
    <3> QED
      BY <2>6, <3>3
  <2> QED
    BY <2>5, <2>6
<1> QED
  BY <1>1, PolicyInvariant, PTL
=============================================================================
