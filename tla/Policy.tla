------------------------------- MODULE Policy -------------------------------
(***************************************************************************)
(* The policy of internal/policy: what LoadPolicy makes of a YAML document *)
(* and how authorize (internal/proxy/server.go) and the tools/list filter  *)
(* decide by it.                                                           *)
(*                                                                         *)
(* Spelling is abstracted to what the code tells apart.  The text of a     *)
(* tool name is what strings.TrimSpace leaves of it and whether it had     *)
(* blanks around it; the text of a role is its lower-case trimmed form and *)
(* whether it was written that way.  Every role but the three that the     *)
(* program knows is "other"; a file may list tools for it as well.         *)
(***************************************************************************)
EXTENDS Integers, Sequences, FiniteSetsExt, Functions

CONSTANTS
  ToolNames,   \* trimmed names of tools
  Wildcard,    \* "*"
  Blank,       \* what is left of a text of blanks only
  Nil,         \* a key absent from the document
  Unreadable,  \* a file that is missing or is not YAML of the right shape
  Documents    \* the files the gateway may find at startup

ASSUME NamesAssumption ==
  Wildcard \notin ToolNames /\ Blank \notin ToolNames \cup {Wildcard}

VARIABLES
  document,    \* the file
  loading,     \* "reading", "loaded" or "failed"
  policy       \* the policy in force, once loaded

vars == <<document, loading, policy>>

RoleNames == {"admin", "user", "readonly"}
RoleText == [role : RoleNames \cup {"other"}, plain : BOOLEAN]
ToolText == [name : ToolNames \cup {Wildcard, Blank}, plain : BOOLEAN]

\* Where a role has a list, it is one of texts.  Of the list of another role
\* nothing is assumed: yaml.Unmarshal finds no field for it and drops it.
ASSUME DocumentsAssumption ==
  /\ \A doc \in Documents \ {Unreadable}, role \in RoleNames :
       doc.roles[role] = Nil \/ doc.roles[role] \in Seq(ToolText)
  /\ \A allow \in SUBSET (ToolNames \cup {Wildcard, Blank}) : allow # Nil

TrimSpace(text) == text.name
ToLowerTrim(text) == [role |-> text.role, plain |-> TRUE]

-----------------------------------------------------------------------------
(***************************************************************************)
(* RoleToolPolicy and RolesPolicy.  A normalised allow list is a set: its  *)
(* order and its duplicates are gone.                                      *)
(***************************************************************************)
WithRoleDefaults(role, list) ==
  CASE list # Nil -> list
    [] list = Nil /\ role = "admin" -> <<[name |-> Wildcard, plain |-> TRUE]>>
    [] OTHER -> <<>>

\* The loop stops at the first entry that is blank (an error) or a wildcard
\* (which then stands for the whole list, whatever follows).
Stops(list) == {i \in DOMAIN list : TrimSpace(list[i]) \in {Blank, Wildcard}}

AllowIsValid(list) ==
  Stops(list) # {} => TrimSpace(list[Min(Stops(list))]) # Blank

\* Mutant of NormalizedAllow: entries are looked up as they are written.
NormalizedAllowAsWritten(list) ==
  IF Stops(list) # {} THEN {Wildcard}
  ELSE {t.name : t \in {u \in Range(list) : u.plain}}

NormalizedAllow(list) ==
  IF Stops(list) # {} THEN {Wildcard} ELSE {TrimSpace(t) : t \in Range(list)}

RoleAllow(doc, role) == WithRoleDefaults(role, doc.roles[role])

\* The wildcard check of Policy.Normalize is made on the normalised lists.
RolesAreValid(doc) ==
  /\ \A role \in RoleNames : AllowIsValid(RoleAllow(doc, role))
  /\ \A role \in {"user", "readonly"} :
       Wildcard \notin NormalizedAllow(RoleAllow(doc, role))

NormalizedRoles(doc) ==
  [role \in RoleNames |-> NormalizedAllow(RoleAllow(doc, role))]

Allows(allow, toolText) ==
  /\ TrimSpace(toolText) # Blank
  /\ allow \cap {Wildcard, TrimSpace(toolText)} # {}

-----------------------------------------------------------------------------
(***************************************************************************)
(* RateLimitWindow, ToolRateLimitPolicy and RateLimitsPolicy.              *)
(***************************************************************************)
WithDefaults(window, default) ==
  [field \in {"requests", "seconds"} |->
     IF window[field] = 0 THEN default[field] ELSE window[field]]

IsValid(window) == window.requests > 0 /\ window.seconds > 0

PerAPIKey(doc) == WithDefaults(doc.perKey, [requests |-> 120, seconds |-> 60])
PerToolDefault(doc) == WithDefaults(doc.perTool, [requests |-> 30, seconds |-> 60])

\* doc.overrides maps the texts of tool names to windows.
\* Mutant of Override: what is left out comes from the built-in default.
OverrideOfBuiltIn(doc, text) ==
  WithDefaults(doc.overrides[text], [requests |-> 30, seconds |-> 60])

Override(doc, text) == WithDefaults(doc.overrides[text], PerToolDefault(doc))

\* Mutant of LimitsAreValid: overrides are not validated.
LimitsAreValidButOverrides(doc) ==
  IsValid(PerAPIKey(doc)) /\ IsValid(PerToolDefault(doc))

LimitsAreValid(doc) ==
  /\ IsValid(PerAPIKey(doc))
  /\ IsValid(PerToolDefault(doc))
  /\ \A text \in DOMAIN doc.overrides :
       TrimSpace(text) # Blank /\ IsValid(Override(doc, text))

\* Two texts that trim to one name: the last in Go's order of the map, which
\* is any order, stays.
NormalizedOverrides(doc) ==
  LET texts(n) == {t \in DOMAIN doc.overrides : TrimSpace(t) = n}
      names == {TrimSpace(t) : t \in DOMAIN doc.overrides}
      windows == {Override(doc, t) : t \in DOMAIN doc.overrides}
  IN  {f \in [names -> windows] :
         \A n \in names : \E t \in texts(n) : f[n] = Override(doc, t)}

ForTool(limits, toolText) ==
  LET n == TrimSpace(toolText)
  IN  IF n # Blank /\ n \in DOMAIN limits.overrides
      THEN limits.overrides[n] ELSE limits.perTool

-----------------------------------------------------------------------------
(***************************************************************************)
(* Decisions.                                                              *)
(***************************************************************************)
ForRole(pol, roleText) ==
  LET role == ToLowerTrim(roleText).role
  IN  IF role \in RoleNames THEN pol.roles[role] ELSE Nil

IsToolAllowed(pol, roleText, toolText) ==
  LET allow == ForRole(pol, roleText)
  IN  allow # Nil /\ Allows(allow, toolText)

\* The reason that authorize gives; the call may go on if it is "allowed".
Authorize(pol, knownTools, roleText, toolText) ==
  LET role == ToLowerTrim(roleText)
      tool == [name |-> TrimSpace(toolText), plain |-> TRUE]
  IN  CASE tool.name = Blank -> "empty_tool_name"
        [] tool.name # Blank /\ ForRole(pol, role) = Nil -> "unknown_role"
        [] IsToolAllowed(pol, role, tool) -> "allowed"
        [] OTHER -> IF tool.name \notin knownTools THEN "unknown_tool"
                    ELSE "tool_not_allowed_for_role"

\* Mutant of IsListed: the role of the key's row is looked up as it is.
IsListedByRawRole(pol, roleText, toolText) ==
  roleText.plain /\ IsToolAllowed(pol, roleText, toolText)

\* tools/list keeps the upstream's tools that pass this.
IsListed(pol, roleText, toolText) == IsToolAllowed(pol, roleText, toolText)

-----------------------------------------------------------------------------
IsAccepted(doc) ==
  doc # Unreadable /\ RolesAreValid(doc) /\ LimitsAreValid(doc)

Load ==
  /\ loading = "reading"
  /\ IsAccepted(document)
  /\ \E overrides \in NormalizedOverrides(document) :
       policy' = [roles |-> NormalizedRoles(document),
                  perKey |-> PerAPIKey(document),
                  perTool |-> PerToolDefault(document),
                  overrides |-> overrides]
  /\ loading' = "loaded"
  /\ UNCHANGED document

\* A LoadError: the gateway does not start.
Reject ==
  /\ loading = "reading"
  /\ ~ IsAccepted(document)
  /\ loading' = "failed"
  /\ UNCHANGED <<document, policy>>

Init ==
  /\ document \in Documents
  /\ loading = "reading"
  /\ policy = Nil

Next == Load \/ Reject

Spec == Init /\ [][Next]_vars

-----------------------------------------------------------------------------
InForce == loading = "loaded"

\* The document lets role call the tool: by name, by a wildcard, or because
\* admin was left out.
Grants(doc, role, name) ==
  \/ /\ doc.roles[role] = Nil
     /\ role = "admin"
  \/ /\ doc.roles[role] # Nil
     /\ \E i \in DOMAIN doc.roles[role] :
          LET entry == TrimSpace(doc.roles[role][i])
          IN  entry = name \/ (entry = Wildcard /\ role = "admin")

HasWildcard(list) ==
  list # Nil /\ \E i \in DOMAIN list : TrimSpace(list[i]) = Wildcard

(***************************************************************************)
(* Of every policy that loads, the tools that an admin, a user or a        *)
(* readonly key may call are those its list names, and all of them for an  *)
(* admin with a wildcard or no list: trimming, the early stop at a         *)
(* wildcard and the defaults together add nothing and drop nothing.  No    *)
(* file with a wildcard in the list of user or readonly is in force, and a *)
(* key of a role of another name may call nothing, whatever the file lists *)
(* for that role.                                                          *)
(***************************************************************************)
GrantsAreThoseWritten ==
  InForce =>
    /\ \A role \in {"user", "readonly"} : ~ HasWildcard(document.roles[role])
    /\ \A roleText \in RoleText, toolText \in ToolText :
         Authorize(policy, ToolNames, roleText, toolText) = "allowed"
           <=> /\ roleText.role \in RoleNames
               /\ toolText.name # Blank
               /\ Grants(document, roleText.role, toolText.name)

(***************************************************************************)
(* tools/list shows a role exactly the tools it could call: the filter and *)
(* authorize normalise roles and names in different places and must agree. *)
(***************************************************************************)
ListingMatchesCalling ==
  InForce =>
    \A roleText \in RoleText, toolText \in ToolText :
      IsListed(policy, roleText, toolText)
        <=> Authorize(policy, ToolNames, roleText, toolText) = "allowed"

(***************************************************************************)
(* Every limit of a policy that loads is positive.  The limiter divides by *)
(* it, and an error there would answer 429 to every call.                  *)
(***************************************************************************)
LimitsArePositive ==
  InForce =>
    /\ IsValid(policy.perKey)
    /\ \A toolText \in ToolText : IsValid(ForTool(policy, toolText))

(***************************************************************************)
(* README.md:213 gives a key "any role in your policy"; README.md:312 and  *)
(* docs/policies.md:42 say that allow: ["*"] "grants wildcard access" for  *)
(* the role that has it.  So, of a file in which everything else is valid, *)
(* a key may call what the list of its role names, or everything if that   *)
(* is the wildcard.  The code drops the list of a role it does not know    *)
(* and refuses a file with a wildcard for user or readonly.                *)
(***************************************************************************)
ListedIsGranted ==
  /\ loading # "reading"
  /\ document # Unreadable
  /\ \A role \in RoleNames : AllowIsValid(RoleAllow(document, role))
  /\ LimitsAreValid(document)
  => \A role \in DOMAIN document.roles, n \in ToolNames :
       LET list == document.roles[role]
       IN  /\ list # Nil
           /\ \E i \in DOMAIN list : TrimSpace(list[i]) \in {n, Wildcard}
           => /\ InForce
              /\ IsToolAllowed(policy, [role |-> role, plain |-> TRUE],
                                       [name |-> n, plain |-> TRUE])

WrittenOr(written, otherwise) == IF written # 0 THEN written ELSE otherwise

(***************************************************************************)
(* A number written in the document for a tool is the number in force; one *)
(* left out (or zero) comes from per_tool.default, or else from the        *)
(* built-in 30 in 60 seconds, and never from another tool's override.  The *)
(* limit of a key is the number written or else 120 in 60 seconds.         *)
(***************************************************************************)
LimitsAreThoseWritten ==
  InForce =>
    /\ policy.perKey = [requests |-> WrittenOr(document.perKey.requests, 120),
                        seconds |-> WrittenOr(document.perKey.seconds, 60)]
    /\ \A toolText \in ToolText :
         LET written == {document.overrides[t] : t \in
                           {t \in DOMAIN document.overrides : t.name = toolText.name}}
             base == [requests |-> WrittenOr(document.perTool.requests, 30),
                      seconds |-> WrittenOr(document.perTool.seconds, 60)]
             limit == ForTool(policy, toolText)
         IN  IF written = {} THEN limit = base
             ELSE \E w \in written :
                    /\ limit.requests = WrittenOr(w.requests, base.requests)
                    /\ limit.seconds = WrittenOr(w.seconds, base.seconds)
=============================================================================
