--------------------------- MODULE ConsoleProofs ---------------------------
(***************************************************************************)
(* Proofs about Console, for any commands, keys, visits, requests and      *)
(* events.  TypeOK, CommandInv and VisitInv are inductive together: what   *)
(* the operator's commands do to the table of keys is all that visits know *)
(* of them, and that is that keys are added and revoked and nothing else.  *)
(***************************************************************************)
EXTENDS Console, FiniteSetTheorems, TLAPS

ShellType ==
  /\ keys \in [Keys -> {"absent", "active", "revoked"}]
  /\ role \in [Keys -> Roles \cup {"", Shell!DefaultAPIKeyRole} \cup Range(Existing)]
  /\ todo \in [Commands -> [do : {"nothing", "create", "list", "revoke"},
                            key : Keys \cup {NoKey}, role : Roles \cup {""}]]
  /\ stage \in [Commands -> {"off", "ready", "ended"}]
  /\ report \in
       [Commands -> [says : {"nothing", "created", "listed", "revoked", "not found", "failed"},
                     rows : SUBSET (Keys \X {"active", "revoked"})]]
  /\ found \in [Commands -> [Keys -> {"absent", "active", "revoked"}]]

LEMMA ShellCardinality == \A S : Shell!Cardinality(S) = Cardinality(S)
BY DEF Shell!Cardinality, Cardinality

LEMMA ShellTypeOfType == TypeOK => ShellType
BY DEF TypeOK, ShellType

-----------------------------------------------------------------------------
(***************************************************************************)
(* What CommandInv says of one command.                                    *)
(***************************************************************************)
Creating(c) ==
  stage[c] = "ready" /\ todo[c].do = "create" =>
    /\ todo[c].key \in Keys
    /\ keys[todo[c].key] = "absent"
    /\ \A d \in Commands \ {c} : todo[d].key # todo[c].key

Revoking(c) ==
  todo[c].do = "revoke" /\ todo[c].key # NoKey => keys[todo[c].key] # "absent"

Listing(c) ==
  stage[c] = "ready" /\ todo[c].do = "list" =>
    \A k \in Keys : /\ found[c][k] # "absent" => keys[k] # "absent"
                    /\ found[c][k] = "revoked" => keys[k] = "revoked"

Shown(c, k) ==
  LET shown == {s \in {"active", "revoked"} : <<k, s>> \in report[c].rows}
  IN  /\ Shell!Cardinality(shown) <= 1
      /\ found[c][k] # "absent" => shown # {}
      /\ found[c][k] = "revoked" => shown = {"revoked"}
      /\ shown = {"revoked"} => keys[k] = "revoked"

ToldTruth(c) ==
  stage[c] = "ended" =>
    /\ report[c].says = "created" =>
         todo[c].key \in Keys /\ keys[todo[c].key] # "absent"
    /\ report[c].says \in {"revoked", "not found"} /\ todo[c].key # NoKey =>
         keys[todo[c].key] = "revoked"
    /\ report[c].says = "listed" => \A k \in Keys : Shown(c, k)

CommandOf(c) == Creating(c) /\ Revoking(c) /\ Listing(c) /\ ToldTruth(c)

LEMMA CommandInvOfEach ==
  CommandInv <=> (\A c \in Commands : CommandOf(c)) /\ OneRevocationReported
PROOF
<1>1. Shell!ReportsAreTrue <=>
        \A c \in Commands : stage[c] = "ended" =>
          /\ report[c].says = "created" => keys[todo[c].key] # "absent"
          /\ report[c].says \in {"revoked", "not found"} /\ todo[c].key # NoKey =>
               keys[todo[c].key] = "revoked"
          /\ report[c].says = "listed" => \A k \in Keys : Shown(c, k)
  BY DEF Shell!ReportsAreTrue, Shell!Reported, Shown
<1>2. (\A c \in Commands : ToldTruth(c)) <=>
        /\ \A c \in Shell!Reported("created") : todo[c].key \in Keys
        /\ Shell!ReportsAreTrue
  BY <1>1 DEF ToldTruth, Shell!Reported
<1> QED
  BY <1>2 DEF CommandInv, Shell!CommandInv, OneRevocationReported,
              CommandOf, Creating, Revoking, Listing

LEMMA CommandInvOfEachNext ==
  CommandInv' <=> (\A c \in Commands : CommandOf(c)') /\ OneRevocationReported'
PROOF
<1>1. Shell!ReportsAreTrue' <=>
        \A c \in Commands : stage'[c] = "ended" =>
          /\ report'[c].says = "created" => keys'[todo'[c].key] # "absent"
          /\ report'[c].says \in {"revoked", "not found"} /\ todo'[c].key # NoKey =>
               keys'[todo'[c].key] = "revoked"
          /\ report'[c].says = "listed" => \A k \in Keys : Shown(c, k)'
  BY DEF Shell!ReportsAreTrue, Shell!Reported, Shown
<1>2. (\A c \in Commands : ToldTruth(c)') <=>
        /\ \A c \in Shell!Reported("created")' : todo'[c].key \in Keys
        /\ Shell!ReportsAreTrue'
  BY <1>1 DEF ToldTruth, Shell!Reported
<1> QED
  BY <1>2 DEF CommandInv, Shell!CommandInv, OneRevocationReported,
              CommandOf, Creating, Revoking, Listing

-----------------------------------------------------------------------------
(***************************************************************************)
(* Steps of the commands.                                                  *)
(***************************************************************************)
\* Keys are added and revoked, and nothing else; a key keeps its role.
TableGrows ==
  \A k \in Keys :
    /\ keys[k] # "absent" => keys'[k] # "absent" /\ role'[k] = role[k]
    /\ keys[k] = "revoked" => keys'[k] = "revoked"

\* What is said of a command that does nothing stays so as the table grows.
LEMMA OthersKeepTruth ==
  ASSUME ShellType, TableGrows, NEW d \in Commands, CommandOf(d),
         stage'[d] = stage[d], todo'[d] = todo[d],
         report'[d] = report[d], found'[d] = found[d]
  PROVE  Revoking(d)' /\ Listing(d)' /\ ToldTruth(d)'
PROOF
<1>1. todo[d].key \in Keys \cup {NoKey}
  BY DEF ShellType
<1>2. Revoking(d)'
  BY <1>1 DEF CommandOf, Revoking, TableGrows
<1>3. Listing(d)'
  BY DEF CommandOf, Listing, TableGrows
<1>4. ASSUME NEW k \in Keys, Shown(d, k) PROVE Shown(d, k)'
  BY <1>4 DEF Shown, TableGrows
<1>5. ToldTruth(d)'
  <2>1. stage[d] = "ended" /\ report[d].says = "listed" => \A k \in Keys : Shown(d, k)'
    BY <1>4 DEF CommandOf, ToldTruth
  <2> QED
    BY <1>1, <2>1 DEF CommandOf, ToldTruth, TableGrows
<1> QED
  BY <1>2, <1>3, <1>5

\* A command that starts says nothing yet and takes no other's new key.
LEMMA StartKeepsCommandInv ==
  ASSUME ShellType, CommandInv, NEW c \in Commands, NEW what, Shell!Start(c, what),
         what.do = "create" =>
           what.key \in Keys /\ keys[what.key] = "absent",
         what.do = "revoke" /\ what.key # NoKey => keys[what.key] # "absent",
         what.do = "list" => found'[c] = keys,
         \A d \in Commands \ {c} : todo[d].key = what.key =>
           what.do # "create" /\ ~ (stage[d] = "ready" /\ todo[d].do = "create"),
         \A d \in Commands \ {c} : found'[d] = found[d]
  PROVE  CommandInv'
PROOF
<1>1. /\ stage[c] = "off" /\ stage'[c] = "ready" /\ todo'[c] = what
      /\ UNCHANGED <<keys, role, report>>
      /\ \A d \in Commands \ {c} : stage'[d] = stage[d] /\ todo'[d] = todo[d]
  BY DEF ShellType, Shell!Start, Shell!table
<1>2. TableGrows
  BY <1>1 DEF TableGrows
<1>3. CommandOf(c)'
  <2>1. Creating(c)'
    BY <1>1 DEF Creating
  <2>2. Revoking(c)'
    BY <1>1 DEF Revoking
  <2>3. Listing(c)'
    BY <1>1 DEF Listing
  <2>4. ToldTruth(c)'
    BY <1>1 DEF ToldTruth
  <2> QED
    BY <2>1, <2>2, <2>3, <2>4 DEF CommandOf
<1>4. ASSUME NEW d \in Commands, d # c PROVE CommandOf(d)'
  <2>1. CommandOf(d)
    BY CommandInvOfEach
  <2>2. Creating(d)'
    BY <1>1, <1>4, <2>1 DEF CommandOf, Creating
  <2>3. Revoking(d)' /\ Listing(d)' /\ ToldTruth(d)'
    BY <1>1, <1>2, <1>4, <2>1, OthersKeepTruth
  <2> QED
    BY <2>2, <2>3 DEF CommandOf
<1>5. OneRevocationReported'
  <2>1. OneRevocationReported
    BY CommandInvOfEach
  <2> QED
    BY <1>1, <2>1 DEF OneRevocationReported, Shell!OneRevocationReported, Shell!Reported
<1> QED
  BY <1>3, <1>4, <1>5, CommandInvOfEachNext

(***************************************************************************)
(* A command that ends with a true report, of a revocation only if the key *)
(* was active, and adds no key that another is to create.                  *)
(***************************************************************************)
LEMMA EndKeepsCommandInv ==
  ASSUME ShellType, CommandInv, TableGrows, NEW c \in Commands, NEW what,
         Shell!End(c, what), ToldTruth(c)', Revoking(c)',
         what.says = "revoked" =>
           todo[c].key \in Keys /\ keys[todo[c].key] = "active",
         \A d \in Commands \ {c} :
           stage[d] = "ready" /\ todo[d].do = "create" => keys'[todo[d].key] = "absent"
  PROVE  CommandInv'
PROOF
<1>1. /\ stage'[c] = "ended" /\ report'[c] = what
      /\ UNCHANGED <<todo, found>>
      /\ \A d \in Commands \ {c} : stage'[d] = stage[d] /\ report'[d] = report[d]
  BY DEF ShellType, Shell!End
<1>2. CommandOf(c)'
  BY <1>1 DEF CommandOf, Creating, Listing
<1>3. ASSUME NEW d \in Commands, d # c PROVE CommandOf(d)'
  <2>1. CommandOf(d)
    BY CommandInvOfEach
  <2>2. Creating(d)'
    BY <1>1, <1>3, <2>1 DEF CommandOf, Creating
  <2>3. Revoking(d)' /\ Listing(d)' /\ ToldTruth(d)'
    BY <1>1, <1>3, <2>1, OthersKeepTruth
  <2> QED
    BY <2>2, <2>3 DEF CommandOf
<1>4. OneRevocationReported'
  <2> SUFFICES ASSUME NEW a \in Shell!Reported("revoked")',
                      NEW b \in Shell!Reported("revoked")',
                      todo'[a].key = todo'[b].key
               PROVE  a = b
    BY DEF OneRevocationReported, Shell!OneRevocationReported
  <2>1. a \in Commands /\ b \in Commands
    BY DEF Shell!Reported
  <2>2. \A d \in Commands \ {c} :
          d \in Shell!Reported("revoked")' => d \in Shell!Reported("revoked")
    BY <1>1 DEF Shell!Reported
  <2>3. \A d \in Commands \ {c} : d \in Shell!Reported("revoked") =>
          (todo[d].key # NoKey => keys[todo[d].key] = "revoked")
    BY CommandInvOfEach DEF CommandOf, ToldTruth, Shell!Reported
  <2>4. c \in Shell!Reported("revoked")' =>
          todo[c].key \in Keys /\ keys[todo[c].key] = "active"
    BY <1>1 DEF Shell!Reported
  <2>5. CASE a # c /\ b # c
    BY <1>1, <2>1, <2>2, <2>5, CommandInvOfEach
    DEF OneRevocationReported, Shell!OneRevocationReported
  <2>6. CASE a = c \/ b = c
    BY <1>1, <2>1, <2>2, <2>3, <2>4, <2>6, KeyAssumption
  <2> QED
    BY <2>5, <2>6
<1> QED
  BY <1>2, <1>3, <1>4, CommandInvOfEachNext

LEMMA StartsKeepCommandInv ==
  ASSUME ShellType, CommandInv, NEW c \in Commands,
         Shell!StartCreate(c) \/ Shell!StartList(c) \/ Shell!StartRevoke(c)
  PROVE  CommandInv'
PROOF
<1>0. \A d \in Commands : CommandOf(d)
  BY CommandInvOfEach
<1>1. CASE Shell!StartCreate(c)
  <2>1. PICK k \in Keys, r \in Roles :
          /\ keys[k] = "absent"
          /\ \A d \in Commands : todo[d].key # k
          /\ Shell!Start(c, [do |-> "create", key |-> k, role |-> r])
          /\ UNCHANGED found
    BY <1>1 DEF Shell!StartCreate
  <2> QED
    BY <2>1, StartKeepsCommandInv
<1>2. CASE Shell!StartList(c)
  <2>1. /\ Shell!Start(c, [do |-> "list", key |-> NoKey, role |-> ""])
        /\ found'[c] = keys
        /\ \A d \in Commands \ {c} : found'[d] = found[d]
    BY <1>2 DEF Shell!StartList, ShellType
  <2>2. \A d \in Commands : stage[d] = "ready" /\ todo[d].do = "create" =>
          todo[d].key # NoKey
    BY <1>0, KeyAssumption DEF CommandOf, Creating
  <2> QED
    BY <2>1, <2>2, StartKeepsCommandInv
<1>3. CASE Shell!StartRevoke(c)
  <2>1. PICK k \in {q \in Keys : keys[q] # "absent"} \cup {NoKey} :
          /\ Shell!Start(c, [do |-> "revoke", key |-> k, role |-> ""])
          /\ UNCHANGED found
    BY <1>3 DEF Shell!StartRevoke
  <2>2. \A d \in Commands : stage[d] = "ready" /\ todo[d].do = "create" =>
          todo[d].key # k
    BY <1>0, <2>1, KeyAssumption DEF CommandOf, Creating
  <2> QED
    BY <2>1, <2>2, StartKeepsCommandInv
<1> QED
  BY <1>1, <1>2, <1>3

LEMMA SaysWhat == \A text : Shell!Says(text).says = text
BY DEF Shell!Says

\* A failure is reported as nothing but that.
LEMMA FailureIsTrue ==
  ASSUME NEW c \in Commands, report'[c] = Shell!Says("failed")
  PROVE  ToldTruth(c)'
PROOF
<1>1. report'[c].says = "failed"
  BY SaysWhat
<1> QED
  BY <1>1 DEF ToldTruth

LEMMA CreateKeeps ==
  ASSUME ShellType, CommandInv, NEW c \in Commands, Shell!CreateAPIKey(c)
  PROVE  CommandInv' /\ TableGrows
PROOF
<1>1. PICK text \in {"created", "failed"} : Shell!End(c, Shell!Says(text))
  BY DEF Shell!CreateAPIKey, Shell!Executed
<1>2. /\ stage[c] = "ready" /\ todo[c].do = "create"
      /\ report'[c].says = text /\ UNCHANGED todo
  BY <1>1, SaysWhat DEF Shell!CreateAPIKey, Shell!End, ShellType
<1>3. /\ todo[c].key \in Keys /\ keys[todo[c].key] = "absent"
      /\ \A d \in Commands \ {c} : todo[d].key # todo[c].key
  BY <1>2, CommandInvOfEach DEF CommandOf, Creating
<1>4. /\ keys'[todo[c].key] = "active"
      /\ \A k \in Keys \ {todo[c].key} : keys'[k] = keys[k] /\ role'[k] = role[k]
  BY <1>3 DEF ShellType, Shell!CreateAPIKey
<1>5. TableGrows
  BY <1>3, <1>4 DEF TableGrows
<1>6. ToldTruth(c)'
  BY <1>2, <1>3, <1>4 DEF ToldTruth
<1>7. Revoking(c)'
  BY <1>2 DEF Revoking
<1>8. \A d \in Commands \ {c} :
        stage[d] = "ready" /\ todo[d].do = "create" => keys'[todo[d].key] = "absent"
  BY <1>3, <1>4, CommandInvOfEach DEF CommandOf, Creating
<1>9. Shell!Says(text).says # "revoked"
  BY SaysWhat
<1> QED
  BY <1>1, <1>5, <1>6, <1>7, <1>8, <1>9, EndKeepsCommandInv

LEMMA ListKeeps ==
  ASSUME ShellType, CommandInv, NEW c \in Commands, Shell!ListAPIKeys(c)
  PROVE  CommandInv' /\ TableGrows
PROOF
<1> DEFINE listed == [says |-> "listed",
                      rows |-> {<<k, keys[k]>> : k \in {q \in Keys : keys[q] # "absent"}}]
<1>1. PICK what \in {listed, Shell!Says("failed")} : Shell!End(c, what)
  BY DEF Shell!ListAPIKeys, Shell!Executed
<1>2. /\ stage[c] = "ready" /\ todo[c].do = "list"
      /\ report'[c] = what /\ UNCHANGED <<todo, found, keys, role>>
  BY <1>1 DEF Shell!ListAPIKeys, Shell!End, Shell!table, ShellType
<1>3. TableGrows
  BY <1>2 DEF TableGrows
<1>4. ASSUME what = listed, NEW k \in Keys PROVE Shown(c, k)'
  <2> DEFINE shown == {s \in {"active", "revoked"} : <<k, s>> \in listed.rows}
  <2>1. shown = IF keys[k] = "absent" THEN {} ELSE {keys[k]}
    BY DEF ShellType
  <2>2. Shell!Cardinality(shown) <= 1
    <3>1. Cardinality({}) = 0 /\ Cardinality({keys[k]}) = 1
      BY FS_EmptySet, FS_Singleton
    <3> QED
      BY <2>1, <3>1, ShellCardinality
  <2>3. /\ found[c][k] # "absent" => keys[k] # "absent"
        /\ found[c][k] = "revoked" => keys[k] = "revoked"
    BY <1>2, CommandInvOfEach DEF CommandOf, Listing
  <2>4. shown = {s \in {"active", "revoked"} : <<k, s>> \in report'[c].rows}
    BY <1>2, <1>4
  <2> HIDE DEF shown
  <2> QED
    BY <1>2, <2>1, <2>2, <2>3, <2>4 DEF Shown
<1>5. ToldTruth(c)'
  <2>1. CASE what = listed
    <3>1. report'[c].says = "listed"
      BY <1>2, <2>1
    <3>2. \A k \in Keys : Shown(c, k)'
      BY <1>4, <2>1
    <3> QED
      BY <3>1, <3>2 DEF ToldTruth
  <2>2. CASE what = Shell!Says("failed")
    BY <1>2, <2>2, FailureIsTrue
  <2> QED
    BY <1>1, <2>1, <2>2
<1>6. Revoking(c)'
  BY <1>2 DEF Revoking
<1>7. \A d \in Commands \ {c} :
        stage[d] = "ready" /\ todo[d].do = "create" => keys'[todo[d].key] = "absent"
  BY <1>2, CommandInvOfEach DEF CommandOf, Creating
<1>8. what.says # "revoked"
  BY <1>1, SaysWhat
<1> QED
  BY <1>1, <1>3, <1>5, <1>6, <1>7, <1>8, EndKeepsCommandInv

LEMMA RevokeKeeps ==
  ASSUME ShellType, CommandInv, NEW c \in Commands, Shell!RevokeAPIKey(c)
  PROVE  CommandInv' /\ TableGrows
PROOF
<1> DEFINE rows == {k \in Keys : k = todo[c].key /\ keys[k] = "active"}
<1>1. /\ todo[c].do = "revoke"
      /\ Shell!Executed(c, Shell!Says(IF rows # {} THEN "revoked" ELSE "not found"))
      /\ keys' = [k \in Keys |-> IF k \in rows THEN "revoked" ELSE keys[k]]
      /\ UNCHANGED role
  BY DEF Shell!RevokeAPIKey
<1>2. PICK text \in {IF rows # {} THEN "revoked" ELSE "not found", "failed"} :
        Shell!End(c, Shell!Says(text))
  BY <1>1 DEF Shell!Executed
<1>3. report'[c].says = text /\ UNCHANGED todo
  BY <1>2, SaysWhat DEF Shell!End, ShellType
<1>4. TableGrows
  BY <1>1 DEF TableGrows, ShellType
<1>5. todo[c].key # NoKey => todo[c].key \in Keys /\ keys[todo[c].key] \in {"active", "revoked"}
  BY <1>1, CommandInvOfEach DEF CommandOf, Revoking, ShellType
<1>6. todo[c].key # NoKey => keys'[todo[c].key] = "revoked"
  BY <1>1, <1>5
<1>7. text \in {"revoked", "not found", "failed"}
  BY <1>2
<1>8. ToldTruth(c)' /\ Revoking(c)'
  BY <1>3, <1>6, <1>7 DEF ToldTruth, Revoking
<1>9. Shell!Says(text).says = "revoked" =>
        todo[c].key \in Keys /\ keys[todo[c].key] = "active"
  BY <1>2, SaysWhat
<1>10. \A d \in Commands \ {c} :
         stage[d] = "ready" /\ todo[d].do = "create" => keys'[todo[d].key] = "absent"
  BY <1>1, CommandInvOfEach DEF CommandOf, Creating
<1> QED
  BY <1>2, <1>4, <1>8, <1>9, <1>10, EndKeepsCommandInv

LEMMA FailKeeps ==
  ASSUME ShellType, CommandInv, NEW c \in Commands, Shell!Fail(c)
  PROVE  CommandInv' /\ TableGrows
PROOF
<1>1. /\ Shell!End(c, Shell!Says("failed"))
      /\ UNCHANGED <<keys, role>>
  BY DEF Shell!Fail, Shell!table
<1>2. report'[c] = Shell!Says("failed") /\ UNCHANGED todo
  BY <1>1 DEF Shell!End, ShellType
<1>3. TableGrows
  BY <1>1 DEF TableGrows
<1>4. ToldTruth(c)'
  BY <1>2, FailureIsTrue
<1>5. Revoking(c)'
  BY <1>1, <1>2, CommandInvOfEach DEF CommandOf, Revoking
<1>6. \A d \in Commands \ {c} :
        stage[d] = "ready" /\ todo[d].do = "create" => keys'[todo[d].key] = "absent"
  BY <1>1, CommandInvOfEach DEF CommandOf, Creating
<1>7. Shell!Says("failed").says # "revoked"
  BY DEF Shell!Says
<1> QED
  BY <1>1, <1>3, <1>4, <1>5, <1>6, <1>7, EndKeepsCommandInv

LEMMA ShellKeepsCommandInv ==
  ASSUME ShellType, CommandInv, Shell!Next
  PROVE  CommandInv' /\ TableGrows
PROOF
<1>1. PICK c \in Commands :
        \/ Shell!StartCreate(c) \/ Shell!StartList(c) \/ Shell!StartRevoke(c)
        \/ Shell!CreateAPIKey(c) \/ Shell!ListAPIKeys(c) \/ Shell!RevokeAPIKey(c)
        \/ Shell!Fail(c)
  BY DEF Shell!Next
<1>2. CASE Shell!StartCreate(c) \/ Shell!StartList(c) \/ Shell!StartRevoke(c)
  <2>1. UNCHANGED <<keys, role>>
    BY <1>2 DEF Shell!StartCreate, Shell!StartList, Shell!StartRevoke, Shell!Start, Shell!table
  <2>2. TableGrows
    BY <2>1 DEF TableGrows
  <2> QED
    BY <1>2, <2>2, StartsKeepCommandInv
<1> QED
  BY <1>1, <1>2, CreateKeeps, ListKeeps, RevokeKeeps, FailKeeps

LEMMA ShellKeepsType ==
  ASSUME ShellType, Shell!Next
  PROVE  ShellType'
PROOF
<1>1. PICK c \in Commands :
        \/ Shell!StartCreate(c) \/ Shell!StartList(c) \/ Shell!StartRevoke(c)
        \/ Shell!CreateAPIKey(c) \/ Shell!ListAPIKeys(c) \/ Shell!RevokeAPIKey(c)
        \/ Shell!Fail(c)
  BY DEF Shell!Next
<1>2. ASSUME NEW what \in [do : {"nothing", "create", "list", "revoke"},
                           key : Keys \cup {NoKey}, role : Roles \cup {""}],
             Shell!Start(c, what), found' = found \/ found' = [found EXCEPT ![c] = keys]
      PROVE  ShellType'
  <2>1. /\ stage' = [stage EXCEPT ![c] = "ready"]
        /\ todo' = [todo EXCEPT ![c] = what]
        /\ UNCHANGED <<keys, role, report>>
    BY <1>2 DEF Shell!Start, Shell!table
  <2>2. found' \in [Commands -> [Keys -> {"absent", "active", "revoked"}]]
    BY <1>2 DEF ShellType
  <2>3. todo' \in [Commands -> [do : {"nothing", "create", "list", "revoke"},
                                key : Keys \cup {NoKey}, role : Roles \cup {""}]]
    BY <2>1 DEF ShellType
  <2> QED
    BY <2>1, <2>2, <2>3 DEF ShellType
<1>3. CASE Shell!StartCreate(c)
  <2>1. PICK k \in Keys, r \in Roles :
          /\ Shell!Start(c, [do |-> "create", key |-> k, role |-> r])
          /\ UNCHANGED found
    BY <1>3 DEF Shell!StartCreate
  <2> QED
    BY <1>2, <2>1
<1>4. CASE Shell!StartList(c)
  BY <1>2, <1>4 DEF Shell!StartList
<1>5. CASE Shell!StartRevoke(c)
  <2>1. PICK k \in Keys \cup {NoKey} :
          /\ Shell!Start(c, [do |-> "revoke", key |-> k, role |-> ""])
          /\ UNCHANGED found
    BY <1>5 DEF Shell!StartRevoke
  <2> QED
    BY <1>2, <2>1
<1>6. ASSUME NEW what \in
               [says : {"nothing", "created", "listed", "revoked", "not found", "failed"},
                rows : SUBSET (Keys \X {"active", "revoked"})],
             Shell!End(c, what),
             keys' \in [Keys -> {"absent", "active", "revoked"}],
             role' \in [Keys -> Roles \cup {"", Shell!DefaultAPIKeyRole} \cup Range(Existing)]
      PROVE  ShellType'
  BY <1>6 DEF ShellType, Shell!End
<1>7. \A text \in {"created", "revoked", "not found", "failed"} :
        Shell!Says(text) \in
          [says : {"nothing", "created", "listed", "revoked", "not found", "failed"},
           rows : SUBSET (Keys \X {"active", "revoked"})]
  BY DEF Shell!Says
<1>8. CASE Shell!CreateAPIKey(c)
  <2>1. PICK text \in {"created", "failed"} : Shell!End(c, Shell!Says(text))
    BY <1>8 DEF Shell!CreateAPIKey, Shell!Executed
  <2>2. Shell!NormalizeRole(todo[c].role) \in Roles \cup {"", Shell!DefaultAPIKeyRole}
    BY DEF ShellType, Shell!NormalizeRole
  <2>3. /\ keys' \in [Keys -> {"absent", "active", "revoked"}]
        /\ role' \in [Keys -> Roles \cup {"", Shell!DefaultAPIKeyRole} \cup Range(Existing)]
    BY <1>8, <2>2 DEF ShellType, Shell!CreateAPIKey
  <2> QED
    BY <1>6, <1>7, <2>1, <2>3
<1>9. CASE Shell!ListAPIKeys(c)
  <2> DEFINE listed == [says |-> "listed",
                        rows |-> {<<k, keys[k]>> : k \in {q \in Keys : keys[q] # "absent"}}]
  <2>1. PICK what \in {listed, Shell!Says("failed")} : Shell!End(c, what)
    BY <1>9 DEF Shell!ListAPIKeys, Shell!Executed
  <2>2. listed.rows \subseteq Keys \X {"active", "revoked"}
    <3>1. \A k \in Keys : keys[k] # "absent" => keys[k] \in {"active", "revoked"}
      BY DEF ShellType
    <3> QED
      BY <3>1
  <2>3. UNCHANGED <<keys, role>>
    BY <1>9 DEF Shell!ListAPIKeys, Shell!table
  <2>4. /\ keys' \in [Keys -> {"absent", "active", "revoked"}]
        /\ role' \in [Keys -> Roles \cup {"", Shell!DefaultAPIKeyRole} \cup Range(Existing)]
    BY <2>3 DEF ShellType
  <2> QED
    BY <1>6, <1>7, <2>1, <2>2, <2>4
<1>10. CASE Shell!RevokeAPIKey(c)
  <2>1. PICK text \in {"revoked", "not found", "failed"} : Shell!End(c, Shell!Says(text))
    BY <1>10 DEF Shell!RevokeAPIKey, Shell!Executed
  <2>2. /\ keys' \in [Keys -> {"absent", "active", "revoked"}]
        /\ role' \in [Keys -> Roles \cup {"", Shell!DefaultAPIKeyRole} \cup Range(Existing)]
    BY <1>10 DEF ShellType, Shell!RevokeAPIKey
  <2> QED
    BY <1>6, <1>7, <2>1, <2>2
<1>11. CASE Shell!Fail(c)
  <2>1. Shell!End(c, Shell!Says("failed")) /\ UNCHANGED <<keys, role>>
    BY <1>11 DEF Shell!Fail, Shell!table
  <2> QED
    BY <1>6, <1>7, <2>1 DEF ShellType
<1> QED
  BY <1>1, <1>3, <1>4, <1>5, <1>8, <1>9, <1>10, <1>11

-----------------------------------------------------------------------------
(***************************************************************************)
(* Visits.                                                                 *)
(***************************************************************************)
PagesType ==
  /\ clock \in 0..MaxTime
  /\ ts \in [Events -> {Pages!NoTime} \cup 0..MaxTime]
  /\ stored \subseteq {e \in Events : ts[e] # Pages!NoTime}
  /\ request \in [Visits -> Requests \cup {NoRequest}]
  /\ progress \in [Visits -> {"none", "resolving", "fetching", "answered"}]
  /\ status \in [Visits -> {0, 200, 400, 401, 403, 404, 500}]
  /\ page \in [Visits -> SUBSET stored]
  /\ \A v \in Visits : Cardinality(page[v]) <= MaxEventLimit
  /\ fetched \in Seq(Visits) /\ IsInjective(fetched)
  /\ barred \in [Visits -> SUBSET Keys]

LEMMA TypeOfBoth == TypeOK <=> ShellType /\ PagesType
BY DEF TypeOK, ShellType, PagesType

LEMMA TypeOfBothNext == TypeOK' <=> ShellType' /\ PagesType'
BY DEF TypeOK, ShellType, PagesType

LEMMA PagesSets ==
  \A S : Pages!Cardinality(S) = Cardinality(S) /\ (Pages!IsFiniteSet(S) <=> IsFiniteSet(S))
BY DEF Pages!Cardinality, Cardinality, Pages!IsFiniteSet, IsFiniteSet

\* What VisitInv says of one visit.
Entitled(v) ==
  \E k \in Keys \ barred[v] :
    /\ Pages!ExtractPresentedAPIKey(request[v]) = Pages!Word(k)
    /\ keys[k] # "absent"
    /\ Pages!ToLower(role[k]) = "admin"

VisitOf(v) ==
  /\ progress[v] # "answered" => status[v] = 0
  /\ progress[v] = "fetching" => Pages!LimitIsValid(request[v].limit)
  /\ \A k \in barred[v] : keys[k] = "revoked"
  /\ progress[v] = "fetching" \/ status[v] \in {200, 400, 500} => Entitled(v)

\* What it says of the pages, and of two pages fetched one after the other.
LosesOldest(old, new) ==
  ( /\ request[old].keyFilter = request[new].keyFilter
    /\ request[old].toolFilter = request[new].toolFilter ) =>
    \A e \in page[old] \ page[new] :
      /\ Pages!Cardinality(page[new]) = Pages!ParsedLimit(request[new].limit)
      /\ \A f \in page[new] : ts[f] >= ts[e]

FetchedInv ==
  /\ Pages!IsFiniteSet(stored)
  /\ \A i \in DOMAIN fetched :
       /\ progress[fetched[i]] = "answered"
       /\ page[fetched[i]] \subseteq Pages!Matching(request[fetched[i]])
  /\ \A i, j \in DOMAIN fetched : i < j => LosesOldest(fetched[i], fetched[j])

LEMMA VisitInvOfEach ==
  VisitInv <=> (\A v \in Visits : VisitOf(v)) /\ FetchedInv
PROOF
<1>1. Pages!PagesOnlyLoseOldest <=>
        \A i, j \in DOMAIN fetched : i < j => LosesOldest(fetched[i], fetched[j])
  BY DEF Pages!PagesOnlyLoseOldest, LosesOldest
<1>2. Pages!OnlyAdminsGetThrough <=>
        \A v \in Visits :
          progress[v] = "fetching" \/ status[v] \in {200, 400, 500} => Entitled(v)
  BY DEF Pages!OnlyAdminsGetThrough, Entitled
<1> QED
  BY <1>1, <1>2 DEF VisitInv, Pages!VisitInv, VisitOf, FetchedInv

LEMMA VisitInvOfEachNext ==
  VisitInv' <=> (\A v \in Visits : VisitOf(v)') /\ FetchedInv'
PROOF
<1>1. Pages!PagesOnlyLoseOldest' <=>
        (\A i, j \in DOMAIN fetched : i < j => LosesOldest(fetched[i], fetched[j]))'
  BY DEF Pages!PagesOnlyLoseOldest, LosesOldest
<1>2. Pages!OnlyAdminsGetThrough' <=>
        \A v \in Visits :
          (progress[v] = "fetching" \/ status[v] \in {200, 400, 500} => Entitled(v))'
  BY DEF Pages!OnlyAdminsGetThrough, Entitled
<1> QED
  BY <1>1, <1>2 DEF VisitInv, Pages!VisitInv, VisitOf, FetchedInv

\* Whoever was entitled stays so while the table only grows.
LEMMA EntitledStays ==
  ASSUME PagesType, TableGrows, NEW v \in Visits, Entitled(v),
         request'[v] = request[v], barred'[v] = barred[v]
  PROVE  Entitled(v)'
BY DEF Entitled, TableGrows

LEMMA VisitStays ==
  ASSUME PagesType, TableGrows, NEW v \in Visits, VisitOf(v),
         progress'[v] = progress[v], status'[v] = status[v],
         request'[v] = request[v], barred'[v] = barred[v]
  PROVE  VisitOf(v)'
PROOF
<1>1. barred[v] \subseteq Keys
  BY DEF PagesType
<1> QED
  BY <1>1, EntitledStays DEF VisitOf, TableGrows

(***************************************************************************)
(* What was fetched stays as it was while events are only added and keep   *)
(* their times.                                                            *)
(***************************************************************************)
LEMMA FetchedStays ==
  ASSUME PagesType, FetchedInv, fetched' = fetched, page' = page,
         \A i \in DOMAIN fetched : /\ progress'[fetched[i]] = "answered"
                                   /\ request'[fetched[i]] = request[fetched[i]],
         stored \subseteq stored', Pages!IsFiniteSet(stored'),
         \A e \in stored : ts'[e] = ts[e]
  PROVE  FetchedInv'
PROOF
<1>1. \A i \in DOMAIN fetched :
        Pages!Matching(request[fetched[i]]) \subseteq Pages!Matching(request[fetched[i]])'
  BY DEF Pages!Matching
<1>2. \A i \in DOMAIN fetched : fetched[i] \in Visits /\ page[fetched[i]] \subseteq stored
  BY DEF PagesType
<1>3. ASSUME NEW i \in DOMAIN fetched, NEW j \in DOMAIN fetched, i < j
      PROVE  LosesOldest(fetched[i], fetched[j])'
  <2>1. LosesOldest(fetched[i], fetched[j])
    BY <1>3 DEF FetchedInv
  <2> QED
    BY <1>2, <2>1 DEF LosesOldest
<1> QED
  BY <1>1, <1>3 DEF FetchedInv

\* Nothing fetched is about a visit that is not answered yet.
LEMMA PendingIsNotFetched ==
  ASSUME FetchedInv, NEW v \in Visits, progress[v] # "answered"
  PROVE  \A i \in DOMAIN fetched : fetched[i] # v
BY DEF FetchedInv

\* Steps of gateways and of the clock.
LEMMA LogKeepsVisits ==
  ASSUME PagesType, VisitInv, UNCHANGED <<keys, role>>, UNCHANGED Pages!visits,
         stored \subseteq stored', Pages!IsFiniteSet(stored'),
         \A e \in stored : ts'[e] = ts[e]
  PROVE  VisitInv'
PROOF
<1>1. UNCHANGED <<request, progress, status, page, fetched, barred>>
  BY DEF Pages!visits
<1>2. TableGrows
  BY DEF TableGrows
<1>3. \A v \in Visits : VisitOf(v)'
  BY <1>1, <1>2, VisitInvOfEach, VisitStays
<1>4. FetchedInv'
  <2>1. FetchedInv
    BY VisitInvOfEach
  <2>2. \A i \in DOMAIN fetched : /\ progress'[fetched[i]] = "answered"
                                  /\ request'[fetched[i]] = request[fetched[i]]
    BY <1>1, <2>1 DEF FetchedInv
  <2> QED
    BY <1>1, <2>1, <2>2, FetchedStays
<1> QED
  BY <1>3, <1>4, VisitInvOfEachNext

(***************************************************************************)
(* A visit that moves without fetching: nothing but the visit changes, and *)
(* it was not answered before.                                             *)
(***************************************************************************)
LEMMA MoveKeepsVisits ==
  ASSUME PagesType, VisitInv, NEW v \in Visits,
         UNCHANGED <<keys, role, clock, ts, stored, page, fetched>>,
         progress[v] # "answered", VisitOf(v)',
         \A w \in Visits \ {v} :
           /\ progress'[w] = progress[w] /\ status'[w] = status[w]
           /\ request'[w] = request[w] /\ barred'[w] = barred[w]
  PROVE  VisitInv'
PROOF
<1>1. TableGrows
  BY DEF TableGrows
<1>2. \A w \in Visits \ {v} : VisitOf(w)'
  BY <1>1, VisitInvOfEach, VisitStays
<1>3. FetchedInv'
  <2>1. FetchedInv
    BY VisitInvOfEach
  <2>2. \A i \in DOMAIN fetched : fetched[i] \in Visits \ {v}
    BY <2>1, PendingIsNotFetched DEF PagesType
  <2>3. \A i \in DOMAIN fetched : /\ progress'[fetched[i]] = "answered"
                                  /\ request'[fetched[i]] = request[fetched[i]]
    BY <2>1, <2>2 DEF FetchedInv
  <2>4. Pages!IsFiniteSet(stored')
    BY <2>1 DEF FetchedInv
  <2> QED
    BY <2>1, <2>3, <2>4, FetchedStays
<1> QED
  BY <1>2, <1>3, VisitInvOfEachNext

\* A visit that is answered at once, or goes on to be resolved.
LEMMA ArrivalKeepsVisits ==
  ASSUME PagesType, VisitInv, NEW v \in Visits, NEW q,
         Pages!NotFound(v, q) \/ Pages!NoCredentials(v, q) \/ Pages!Receive(v, q)
  PROVE  VisitInv'
PROOF
<1>1. /\ progress[v] = "none"
      /\ request' = [request EXCEPT ![v] = q]
      /\ barred' = [barred EXCEPT ![v] = {k \in Keys : keys[k] = "revoked"}]
      /\ UNCHANGED <<keys, role, clock, ts, stored, page, fetched>>
  BY DEF Pages!NotFound, Pages!NoCredentials, Pages!Receive, Pages!Arrive,
         Pages!table, Pages!log
<1>2. barred'[v] = {k \in Keys : keys[k] = "revoked"}
  BY <1>1 DEF PagesType
<1>3. \/ /\ progress' = [progress EXCEPT ![v] = "answered"]
         /\ \E code \in {401, 404} : status' = [status EXCEPT ![v] = code]
      \/ /\ progress' = [progress EXCEPT ![v] = "resolving"]
         /\ status' = status
  BY DEF Pages!NotFound, Pages!NoCredentials, Pages!Receive, Pages!Respond
<1>4. status[v] = 0
  BY <1>1, VisitInvOfEach DEF VisitOf
<1>5. VisitOf(v)'
  BY <1>1, <1>2, <1>3, <1>4 DEF PagesType, VisitOf
<1>6. \A w \in Visits \ {v} :
        /\ progress'[w] = progress[w] /\ status'[w] = status[w]
        /\ request'[w] = request[w] /\ barred'[w] = barred[w]
  BY <1>1, <1>3 DEF PagesType
<1> QED
  BY <1>1, <1>5, <1>6, MoveKeepsVisits

\* The verdict is not 401 or 403 only for the holder of an active admin key.
LEMMA VerdictNeedsAdmin ==
  ASSUME PagesType, VisitInv, NEW v \in Visits,
         Pages!Verdict(request[v]) \notin {401, 403}
  PROVE  Entitled(v)
PROOF
<1>1. PICK k \in Pages!ResolveAPIKey(Pages!ExtractPresentedAPIKey(request[v])) :
        Pages!ToLower(role[k]) = "admin"
  BY DEF Pages!Verdict
<1>2. /\ k \in Keys /\ keys[k] = "active"
      /\ Pages!ExtractPresentedAPIKey(request[v]) = Pages!Word(k)
  BY DEF Pages!ResolveAPIKey
<1>3. k \notin barred[v]
  BY <1>2, VisitInvOfEach DEF VisitOf
<1> QED
  BY <1>1, <1>2, <1>3 DEF Entitled

LEMMA VerdictIsCode ==
  \A q : /\ Pages!Verdict(q) \in {200, 400, 401, 403}
         /\ Pages!Verdict(q) = 200 => Pages!LimitIsValid(q.limit)
BY DEF Pages!Verdict

LEMMA AnswerKeepsVisits ==
  ASSUME PagesType, VisitInv, NEW v \in Visits,
         Pages!TurnAway(v) \/ Pages!Admit(v) \/ Pages!ResolveFails(v) \/ Pages!FetchFails(v)
  PROVE  VisitInv'
PROOF
<1>1. UNCHANGED <<keys, role, clock, ts, stored, request, page, fetched, barred>>
  BY DEF Pages!TurnAway, Pages!Admit, Pages!ResolveFails, Pages!FetchFails,
         Pages!table, Pages!log
<1>2. VisitOf(v)
  BY VisitInvOfEach
<1>3. Entitled(v) => Entitled(v)'
  BY <1>1 DEF Entitled
<1>4. progress[v] \in {"resolving", "fetching"}
  BY DEF Pages!TurnAway, Pages!Admit, Pages!ResolveFails, Pages!FetchFails
<1>5. \/ /\ progress' = [progress EXCEPT ![v] = "fetching"]
         /\ status' = status
         /\ Pages!Verdict(request[v]) = 200
      \/ /\ progress' = [progress EXCEPT ![v] = "answered"]
         /\ \E code : /\ status' = [status EXCEPT ![v] = code]
                      /\ \/ code = 401
                         \/ code = Pages!Verdict(request[v])
                         \/ code = 500 /\ progress[v] = "fetching"
  BY DEF Pages!TurnAway, Pages!Admit, Pages!ResolveFails, Pages!FetchFails, Pages!Respond
<1>6. VisitOf(v)'
  <2>1. \A k \in barred'[v] : keys'[k] = "revoked"
    BY <1>1, <1>2 DEF VisitOf
  <2>2. CASE progress' = [progress EXCEPT ![v] = "fetching"] /\ status' = status
               /\ Pages!Verdict(request[v]) = 200
    <3>1. Entitled(v)'
      BY <1>3, <2>2, VerdictNeedsAdmin
    <3>2. progress'[v] = "fetching" /\ status'[v] = 0
      BY <1>2, <1>4, <2>2 DEF PagesType, VisitOf
    <3>3. Pages!LimitIsValid(request'[v].limit)
      BY <1>1, <2>2, VerdictIsCode
    <3> QED
      BY <2>1, <3>1, <3>2, <3>3 DEF VisitOf
  <2>3. ASSUME progress' = [progress EXCEPT ![v] = "answered"], NEW code,
               status' = [status EXCEPT ![v] = code],
               \/ code = 401
               \/ code = Pages!Verdict(request[v])
               \/ code = 500 /\ progress[v] = "fetching"
        PROVE  VisitOf(v)'
    <3>1. progress'[v] = "answered" /\ status'[v] = code
      BY <2>3 DEF PagesType
    <3>2. code \in {200, 400, 500} => Entitled(v)'
      BY <1>2, <1>3, <2>3, VerdictNeedsAdmin DEF VisitOf
    <3> QED
      BY <2>1, <3>1, <3>2 DEF VisitOf
  <2> QED
    BY <1>5, <2>2, <2>3
<1>7. \A w \in Visits \ {v} :
        /\ progress'[w] = progress[w] /\ status'[w] = status[w]
        /\ request'[w] = request[w] /\ barred'[w] = barred[w]
  BY <1>1, <1>5 DEF PagesType
<1> QED
  BY <1>1, <1>4, <1>6, <1>7, MoveKeepsVisits

-----------------------------------------------------------------------------
(***************************************************************************)
(* Pages.                                                                  *)
(***************************************************************************)
\* The dashboard's own bound leaves FetchRecentEvents nothing to correct.
LEMMA ValidLimitIsUsed ==
  ASSUME NEW limit, Pages!LimitIsValid(limit)
  PROVE  /\ Pages!ParsedLimit(limit) \in 1..MaxEventLimit
         /\ Pages!QueryLimit(Pages!ParsedLimit(limit)) = Pages!ParsedLimit(limit)
PROOF
<1>1. Pages!ParsedLimit(limit) \in 1..MaxEventLimit
  BY LimitAssumption DEF Pages!LimitIsValid, Pages!ParsedLimit
<1> QED
  BY <1>1, LimitAssumption DEF Pages!QueryLimit

\* A page is full, or it is all there is.
LEMMA NewestIsFullOrAll ==
  ASSUME NEW rows, IsFiniteSet(rows), NEW n \in Nat, NEW p \in Pages!Newest(rows, n)
  PROVE  /\ p \subseteq rows
         /\ Cardinality(p) <= n
         /\ p # rows => Cardinality(p) = n
         /\ \A e \in rows \ p, f \in p : ts[f] >= ts[e]
PROOF
<1>1. /\ p \subseteq rows
      /\ Cardinality(p) = IF Cardinality(rows) <= n THEN Cardinality(rows) ELSE n
      /\ \A f \in p, e \in rows \ p : ts[f] >= ts[e]
  BY PagesSets DEF Pages!Newest
<1>2. p # rows => Cardinality(p) # Cardinality(rows)
  BY <1>1, FS_Subset
<1>3. Cardinality(rows) \in Nat
  BY FS_CardinalityType
<1> QED
  BY <1>1, <1>2, <1>3

LEMMA FetchKeepsVisits ==
  ASSUME PagesType, VisitInv, NEW v \in Visits, Pages!Fetch(v)
  PROVE  /\ VisitInv'
         /\ PagesType'
PROOF
<1> DEFINE rows == Pages!Matching(request[v])
           limit == Pages!ParsedLimit(request[v].limit)
<1>1. /\ progress[v] = "fetching"
      /\ progress' = [progress EXCEPT ![v] = "answered"]
      /\ status' = [status EXCEPT ![v] = 200]
      /\ fetched' = Append(fetched, v)
      /\ UNCHANGED <<keys, role, clock, ts, stored, request, barred>>
  BY DEF Pages!Fetch, Pages!Respond, Pages!table, Pages!log
<1>2. /\ VisitOf(v) /\ FetchedInv
      /\ Pages!LimitIsValid(request[v].limit)
  BY <1>1, VisitInvOfEach DEF VisitOf
<1>3. limit \in 1..MaxEventLimit /\ Pages!QueryLimit(limit) = limit
  BY <1>2, ValidLimitIsUsed
<1>4. PICK p \in Pages!Newest(rows, limit) : page' = [page EXCEPT ![v] = p]
  BY <1>3 DEF Pages!Fetch
<1>5. rows \subseteq stored /\ IsFiniteSet(rows)
  <2>1. rows \subseteq stored
    BY DEF Pages!Matching
  <2>2. IsFiniteSet(stored)
    BY <1>2, PagesSets DEF FetchedInv
  <2> QED
    BY <2>1, <2>2, FS_Subset
<1>6. /\ p \subseteq rows
      /\ Cardinality(p) <= limit
      /\ p # rows => Cardinality(p) = limit
      /\ \A e \in rows \ p, f \in p : ts[f] >= ts[e]
  BY <1>3, <1>5, NewestIsFullOrAll, LimitAssumption
<1>7. page'[v] = p /\ \A w \in Visits \ {v} : page'[w] = page[w]
  BY <1>4 DEF PagesType
<1>8. /\ fetched \in Seq(Visits)
      /\ DOMAIN fetched' = 1..(Len(fetched) + 1)
      /\ DOMAIN fetched = 1..Len(fetched)
      /\ fetched'[Len(fetched) + 1] = v
      /\ \A i \in DOMAIN fetched :
           fetched'[i] = fetched[i] /\ fetched[i] \in Visits \ {v}
  <2>1. fetched \in Seq(Visits)
    BY DEF PagesType
  <2>2. \A i \in DOMAIN fetched : fetched[i] # v
    BY <1>1, <1>2, PendingIsNotFetched
  <2> QED
    BY <1>1, <2>1, <2>2
<1>9. \A w \in Visits : VisitOf(w)'
  <2>1. TableGrows
    BY <1>1 DEF TableGrows
  <2>2. Entitled(v)'
    BY <1>1, <1>2, <2>1, EntitledStays DEF VisitOf
  <2>3. progress'[v] = "answered" /\ \A k \in barred'[v] : keys'[k] = "revoked"
    BY <1>1, <1>2 DEF PagesType, VisitOf
  <2>4. VisitOf(v)'
    BY <2>2, <2>3 DEF VisitOf
  <2>5. \A w \in Visits \ {v} : VisitOf(w)'
    BY <1>1, <2>1, VisitInvOfEach, VisitStays DEF PagesType
  <2> QED
    BY <2>4, <2>5
<1>10. FetchedInv'
  <2>1. \A w \in Visits : Pages!Matching(request[w])' = Pages!Matching(request[w])
    BY <1>1 DEF Pages!Matching
  <2>2. ASSUME NEW w \in Visits, w = v \/ \E i \in DOMAIN fetched : w = fetched[i]
        PROVE  progress'[w] = "answered" /\ page'[w] \subseteq Pages!Matching(request[w])
    <3>1. CASE w = v
      BY <1>1, <1>6, <1>7, <3>1 DEF PagesType
    <3>2. CASE w # v
      BY <1>1, <1>2, <1>7, <2>2, <3>2 DEF PagesType, FetchedInv
    <3> QED
      BY <3>1, <3>2
  <2>3. ASSUME NEW u \in Visits, \E i \in DOMAIN fetched : u = fetched[i]
        PROVE  LosesOldest(u, v)'
    <3>1. u # v /\ page[u] \subseteq Pages!Matching(request[u])
      BY <1>2, <1>8, <2>3 DEF FetchedInv
    <3> SUFFICES ASSUME request[u].keyFilter = request[v].keyFilter,
                        request[u].toolFilter = request[v].toolFilter,
                        NEW e \in page[u] \ p
                 PROVE  Pages!Cardinality(p) = limit /\ \A f \in p : ts[f] >= ts[e]
      BY <1>1, <1>7, <3>1 DEF LosesOldest
    <3>2. Pages!Matching(request[u]) = rows
      BY DEF Pages!Matching
    <3>3. e \in rows \ p
      BY <3>1, <3>2
    <3> QED
      BY <1>6, <3>3, PagesSets
  <2>4. ASSUME NEW u \in Visits \ {v}, NEW w \in Visits \ {v}, LosesOldest(u, w)
        PROVE  LosesOldest(u, w)'
    BY <1>1, <1>7, <2>4 DEF LosesOldest
  <2>5. ASSUME NEW i \in DOMAIN fetched', NEW j \in DOMAIN fetched', i < j,
               NEW u \in Visits, u = fetched'[i], NEW w \in Visits, w = fetched'[j]
        PROVE  LosesOldest(u, w)'
    <3>1. i \in DOMAIN fetched /\ u = fetched[i] /\ u # v
      BY <1>8, <2>5
    <3>2. CASE j = Len(fetched) + 1
      BY <1>8, <2>3, <2>5, <3>1, <3>2
    <3>3. CASE j \in DOMAIN fetched
      <4>1. w = fetched[j] /\ w # v
        BY <1>8, <2>5, <3>3
      <4>2. LosesOldest(u, w)
        BY <1>2, <2>5, <3>1, <3>3, <4>1 DEF FetchedInv
      <4> QED
        BY <2>4, <3>1, <4>1, <4>2
    <3> QED
      BY <1>8, <3>2, <3>3
  <2>6. \A i \in DOMAIN fetched' :
          /\ fetched'[i] \in Visits
          /\ fetched'[i] = v \/ \E k \in DOMAIN fetched : fetched'[i] = fetched[k]
    BY <1>8
  <2>7. Pages!IsFiniteSet(stored')
    BY <1>1, <1>2 DEF FetchedInv
  <2>8. (\A i \in DOMAIN fetched :
          /\ progress[fetched[i]] = "answered"
          /\ page[fetched[i]] \subseteq Pages!Matching(request[fetched[i]]))'
    <3> SUFFICES ASSUME NEW i \in DOMAIN fetched', NEW w \in Visits, w = fetched'[i]
                 PROVE  /\ progress'[w] = "answered"
                        /\ page'[w] \subseteq Pages!Matching(request[w])'
      BY <2>6
    <3> QED
      BY <2>1, <2>2, <2>6
  <2>9. (\A i, j \in DOMAIN fetched : i < j => LosesOldest(fetched[i], fetched[j]))'
    BY <2>5, <2>6
  <2> QED
    BY <2>7, <2>8, <2>9 DEF FetchedInv
<1>11. VisitInv'
  BY <1>9, <1>10, VisitInvOfEachNext
<1>12. PagesType'
  <2>1. p \subseteq stored /\ Cardinality(p) <= MaxEventLimit
    <3>1. Cardinality(p) \in Nat
      BY <1>5, <1>6, FS_Subset, FS_CardinalityType
    <3> QED
      BY <1>3, <1>5, <1>6, <3>1, LimitAssumption
  <2>2. /\ page' \in [Visits -> SUBSET stored]
        /\ \A w \in Visits : Cardinality(page'[w]) <= MaxEventLimit
    BY <1>4, <1>7, <2>1 DEF PagesType
  <2>3. fetched' \in Seq(Visits) /\ IsInjective(fetched')
    <3>1. IsInjective(fetched)
      BY DEF PagesType
    <3> QED
      BY <1>1, <1>8, <3>1 DEF IsInjective
  <2>4. /\ progress' \in [Visits -> {"none", "resolving", "fetching", "answered"}]
        /\ status' \in [Visits -> {0, 200, 400, 401, 403, 404, 500}]
    BY <1>1 DEF PagesType
  <2> QED
    BY <1>1, <2>2, <2>3, <2>4 DEF PagesType
<1> QED
  BY <1>11, <1>12

-----------------------------------------------------------------------------
(***************************************************************************)
(* Steps of the dashboard and of the gateways that write events.           *)
(***************************************************************************)
LEMMA LogStepKeeps ==
  ASSUME PagesType, VisitInv,
         Pages!Tick \/ \E e \in Events : Pages!Stamp(e) \/ Pages!LogEvent(e)
  PROVE  PagesType' /\ VisitInv'
PROOF
<1>1. UNCHANGED <<keys, role>> /\ UNCHANGED Pages!visits
  BY DEF Pages!Tick, Pages!Stamp, Pages!LogEvent, Pages!table
<1>2. UNCHANGED <<request, progress, status, page, fetched, barred>>
  BY <1>1 DEF Pages!visits
<1>3. IsFiniteSet(stored)
  BY VisitInvOfEach, PagesSets DEF FetchedInv
<1>4. \A e \in stored : ts[e] # Pages!NoTime
  BY DEF PagesType
<1>5. /\ clock' \in 0..MaxTime
      /\ ts' \in [Events -> {Pages!NoTime} \cup 0..MaxTime]
      /\ stored' \subseteq {e \in Events : ts'[e] # Pages!NoTime}
      /\ stored \subseteq stored'
      /\ IsFiniteSet(stored')
      /\ \A e \in stored : ts'[e] = ts[e]
  <2>1. CASE Pages!Tick
    BY <1>3, <2>1, LimitAssumption DEF PagesType, Pages!Tick
  <2>2. ASSUME NEW e \in Events, Pages!Stamp(e)
        PROVE  <1>5!:
    BY <1>3, <1>4, <2>2 DEF PagesType, Pages!Stamp, Pages!NoTime
  <2>3. ASSUME NEW e \in Events, Pages!LogEvent(e)
        PROVE  <1>5!:
    <3>1. IsFiniteSet(stored \cup {e})
      BY <1>3, FS_AddElement
    <3> QED
      BY <1>4, <2>3, <3>1 DEF PagesType, Pages!LogEvent
  <2> QED
    BY <2>1, <2>2, <2>3
<1>6. page' \in [Visits -> SUBSET stored']
  BY <1>2, <1>5 DEF PagesType
<1>7. PagesType'
  BY <1>2, <1>5, <1>6 DEF PagesType
<1>8. VisitInv'
  BY <1>1, <1>5, LogKeepsVisits, PagesSets
<1> QED
  BY <1>7, <1>8

LEMMA VisitStepKeeps ==
  ASSUME PagesType, VisitInv, NEW v \in Visits,
         \/ \E q \in Requests :
              Pages!NotFound(v, q) \/ Pages!NoCredentials(v, q) \/ Pages!Receive(v, q)
         \/ Pages!TurnAway(v) \/ Pages!Admit(v) \/ Pages!ResolveFails(v)
         \/ Pages!Fetch(v) \/ Pages!FetchFails(v)
  PROVE  PagesType' /\ VisitInv'
PROOF
<1>1. ASSUME UNCHANGED <<clock, ts, stored, page, fetched>>,
             request' \in [Visits -> Requests \cup {NoRequest}],
             barred' \in [Visits -> SUBSET Keys],
             progress' \in [Visits -> {"none", "resolving", "fetching", "answered"}],
             status' \in [Visits -> {0, 200, 400, 401, 403, 404, 500}]
      PROVE  PagesType'
  BY <1>1 DEF PagesType
<1>2. ASSUME NEW q \in Requests,
             Pages!NotFound(v, q) \/ Pages!NoCredentials(v, q) \/ Pages!Receive(v, q)
      PROVE  PagesType' /\ VisitInv'
  <2>1. /\ UNCHANGED <<clock, ts, stored, page, fetched>>
        /\ request' = [request EXCEPT ![v] = q]
        /\ barred' = [barred EXCEPT ![v] = {k \in Keys : keys[k] = "revoked"}]
    BY <1>2 DEF Pages!NotFound, Pages!NoCredentials, Pages!Receive, Pages!Arrive, Pages!log
  <2>2. /\ request' \in [Visits -> Requests \cup {NoRequest}]
        /\ barred' \in [Visits -> SUBSET Keys]
    BY <2>1 DEF PagesType
  <2>3. ASSUME Pages!Receive(v, q) PROVE PagesType'
    <3>1. /\ progress' \in [Visits -> {"none", "resolving", "fetching", "answered"}]
          /\ status' \in [Visits -> {0, 200, 400, 401, 403, 404, 500}]
      BY <2>3 DEF PagesType, Pages!Receive
    <3> QED
      BY <1>1, <2>1, <2>2, <3>1
  <2>4. ASSUME Pages!NotFound(v, q) \/ Pages!NoCredentials(v, q) PROVE PagesType'
    <3>1. PICK code \in {401, 404} : Pages!Respond(v, code)
      BY <2>4 DEF Pages!NotFound, Pages!NoCredentials
    <3>2. /\ progress' \in [Visits -> {"none", "resolving", "fetching", "answered"}]
          /\ status' \in [Visits -> {0, 200, 400, 401, 403, 404, 500}]
      BY <3>1 DEF PagesType, Pages!Respond
    <3> QED
      BY <1>1, <2>1, <2>2, <3>2
  <2> QED
    BY <1>2, <2>3, <2>4, ArrivalKeepsVisits
<1>3. CASE Pages!TurnAway(v) \/ Pages!Admit(v) \/ Pages!ResolveFails(v) \/ Pages!FetchFails(v)
  <2>1. UNCHANGED <<clock, ts, stored, request, page, fetched, barred>>
    BY <1>3 DEF Pages!TurnAway, Pages!Admit, Pages!ResolveFails, Pages!FetchFails, Pages!log
  <2>2. /\ request' \in [Visits -> Requests \cup {NoRequest}]
        /\ barred' \in [Visits -> SUBSET Keys]
    BY <2>1 DEF PagesType
  <2>3. ASSUME Pages!Admit(v) PROVE PagesType'
    <3>1. /\ progress' \in [Visits -> {"none", "resolving", "fetching", "answered"}]
          /\ status' \in [Visits -> {0, 200, 400, 401, 403, 404, 500}]
      BY <2>3 DEF PagesType, Pages!Admit
    <3> QED
      BY <1>1, <2>1, <2>2, <3>1
  <2>4. ASSUME ~ Pages!Admit(v) PROVE PagesType'
    <3>1. PICK code \in {200, 400, 401, 403, 500} : Pages!Respond(v, code)
      BY <1>3, <2>4, VerdictIsCode
      DEF Pages!TurnAway, Pages!ResolveFails, Pages!FetchFails
    <3>2. /\ progress' \in [Visits -> {"none", "resolving", "fetching", "answered"}]
          /\ status' \in [Visits -> {0, 200, 400, 401, 403, 404, 500}]
      BY <3>1 DEF PagesType, Pages!Respond
    <3> QED
      BY <1>1, <2>1, <2>2, <3>2
  <2> QED
    BY <1>3, <2>3, <2>4, AnswerKeepsVisits
<1> QED
  BY <1>2, <1>3, FetchKeepsVisits

LEMMA PagesKeep ==
  ASSUME PagesType, VisitInv, Pages!Next
  PROVE  PagesType' /\ VisitInv' /\ UNCHANGED table
PROOF
<1>1. PagesType' /\ VisitInv'
  BY LogStepKeeps, VisitStepKeeps DEF Pages!Next
<1>2. UNCHANGED Pages!table
  BY DEF Pages!Next, Pages!Tick, Pages!Stamp, Pages!LogEvent,
         Pages!NotFound, Pages!NoCredentials, Pages!Receive, Pages!TurnAway,
         Pages!Admit, Pages!ResolveFails, Pages!Fetch, Pages!FetchFails
<1> QED
  BY <1>1, <1>2 DEF table, Pages!table

\* Commands leave visits as they are, and their keys revoked or entitled.
LEMMA ShellKeepsVisits ==
  ASSUME PagesType, VisitInv, TableGrows, UNCHANGED pages
  PROVE  PagesType' /\ VisitInv'
PROOF
<1>1. UNCHANGED <<clock, ts, stored, request, progress, status, page, fetched, barred>>
  BY DEF pages
<1>2. \A v \in Visits : VisitOf(v)'
  BY <1>1, VisitInvOfEach, VisitStays
<1>3. FetchedInv'
  <2>1. FetchedInv
    BY VisitInvOfEach
  <2>2. /\ \A i \in DOMAIN fetched : /\ progress'[fetched[i]] = "answered"
                                     /\ request'[fetched[i]] = request[fetched[i]]
        /\ Pages!IsFiniteSet(stored')
    BY <1>1, <2>1 DEF FetchedInv
  <2> QED
    BY <1>1, <2>1, <2>2, FetchedStays
<1>4. PagesType'
  BY <1>1 DEF PagesType
<1> QED
  BY <1>2, <1>3, <1>4, VisitInvOfEachNext

-----------------------------------------------------------------------------
LEMMA InitConsole == Init => ConsoleInv
PROOF
<1> SUFFICES ASSUME Init PROVE ConsoleInv
  OBVIOUS
<1>1. ShellType
  BY DEF Init, Shell!Init, ShellType, Shell!NoRow, Shell!Says, Range
<1>2. PagesType
  <2>1. Cardinality({}) = 0
    BY FS_EmptySet
  <2>2. fetched = <<>> /\ fetched \in Seq(Visits) /\ IsInjective(fetched)
    BY DEF Init, Pages!Init, IsInjective
  <2> QED
    BY <2>1, <2>2, LimitAssumption DEF Init, Pages!Init, PagesType
<1>3. CommandInv
  <2>1. \A c \in Commands : stage[c] = "off" /\ todo[c].do = "nothing"
    BY DEF Init, Shell!Init, Shell!NoRow
  <2>2. \A c \in Commands : CommandOf(c)
    BY <2>1 DEF CommandOf, Creating, Revoking, Listing, ToldTruth
  <2>3. OneRevocationReported
    BY <2>1 DEF OneRevocationReported, Shell!OneRevocationReported, Shell!Reported
  <2> QED
    BY <2>2, <2>3, CommandInvOfEach
<1>4. VisitInv
  <2>1. \A v \in Visits : progress[v] = "none" /\ status[v] = 0 /\ barred[v] = {}
    BY DEF Init, Pages!Init
  <2>2. \A v \in Visits : VisitOf(v)
    BY <2>1 DEF VisitOf
  <2>3. fetched = <<>> /\ Pages!IsFiniteSet(stored)
    BY FS_EmptySet, PagesSets DEF Init, Pages!Init
  <2>4. FetchedInv
    BY <2>3 DEF FetchedInv
  <2> QED
    BY <2>2, <2>4, VisitInvOfEach
<1> QED
  BY <1>1, <1>2, <1>3, <1>4, TypeOfBoth DEF ConsoleInv

LEMMA NextKeepsConsole == ConsoleInv /\ [Next]_vars => ConsoleInv'
PROOF
<1> SUFFICES ASSUME ConsoleInv, [Next]_vars PROVE ConsoleInv'
  OBVIOUS
<1>1. ShellType /\ PagesType /\ CommandInv /\ VisitInv
  BY TypeOfBoth DEF ConsoleInv
<1>2. CASE Shell!Next /\ UNCHANGED pages
  <2>1. ShellType' /\ CommandInv' /\ TableGrows
    BY <1>1, <1>2, ShellKeepsType, ShellKeepsCommandInv
  <2>2. PagesType' /\ VisitInv'
    BY <1>1, <1>2, <2>1, ShellKeepsVisits
  <2> QED
    BY <2>1, <2>2, TypeOfBothNext DEF ConsoleInv
<1>3. ASSUME UNCHANGED <<table, commands>>
      PROVE  ShellType' /\ CommandInv'
  <2>1. UNCHANGED <<keys, role, todo, stage, report, found>>
    BY <1>3 DEF table, commands
  <2>2. ShellType'
    BY <1>1, <2>1 DEF ShellType
  <2>3. CommandInv'
    <3>1. TableGrows
      BY <2>1 DEF TableGrows
    <3>2. ASSUME NEW c \in Commands PROVE CommandOf(c)'
      <4>1. CommandOf(c)
        BY <1>1, CommandInvOfEach
      <4>2. Creating(c)'
        BY <2>1, <4>1 DEF CommandOf, Creating
      <4> QED
        BY <1>1, <2>1, <3>1, <4>1, <4>2, OthersKeepTruth DEF CommandOf
    <3>3. OneRevocationReported'
      <4>1. OneRevocationReported
        BY <1>1, CommandInvOfEach
      <4> QED
        BY <2>1, <4>1 DEF OneRevocationReported, Shell!OneRevocationReported, Shell!Reported
    <3> QED
      BY <3>2, <3>3, CommandInvOfEachNext
  <2> QED
    BY <2>2, <2>3
<1>4. CASE Pages!Next /\ UNCHANGED commands
  <2>1. PagesType' /\ VisitInv' /\ UNCHANGED table
    BY <1>1, <1>4, PagesKeep
  <2> QED
    BY <1>3, <1>4, <2>1, TypeOfBothNext DEF ConsoleInv
<1>5. CASE UNCHANGED vars
  <2>1. UNCHANGED <<table, commands>> /\ UNCHANGED pages
    BY <1>5 DEF vars
  <2>2. TableGrows
    BY <2>1 DEF TableGrows, table
  <2>3. PagesType' /\ VisitInv'
    BY <1>1, <2>1, <2>2, ShellKeepsVisits
  <2> QED
    BY <1>3, <2>1, <2>3, TypeOfBothNext DEF ConsoleInv
<1> QED
  BY <1>2, <1>4, <1>5 DEF Next

(***************************************************************************)
(* For any commands, visits, keys, events and bounds, every step keeps the *)
(* invariant of the operator's side.                                       *)
(***************************************************************************)
THEOREM ConsoleInvariant == Spec => []ConsoleInv
BY InitConsole, NextKeepsConsole, PTL DEF Spec

-----------------------------------------------------------------------------
\* A statement that is committed changes the table as it may be changed.
LEMMA CreateIsPromised ==
  ASSUME ShellType, CommandInv, NEW c \in Commands, Shell!CreateAPIKey(c)
  PROVE  KeyRows!Next
PROOF
<1>1. stage[c] = "ready" /\ todo[c].do = "create"
  BY DEF Shell!CreateAPIKey, Shell!Executed, Shell!End
<1>2. todo[c].key \in Keys /\ keys[todo[c].key] = "absent"
  BY <1>1, CommandInvOfEach DEF CommandOf, Creating
<1>3. KeyRows!CreateAPIKey(todo[c].key)
  BY <1>2 DEF KeyRows!CreateAPIKey, Shell!CreateAPIKey
<1> QED
  BY <1>2, <1>3 DEF KeyRows!Next

LEMMA RevokeIsPromised ==
  ASSUME ShellType, NEW c \in Commands, Shell!RevokeAPIKey(c)
  PROVE  KeyRows!Next \/ UNCHANGED keys
PROOF
<1> DEFINE rows == {k \in Keys : k = todo[c].key /\ keys[k] = "active"}
<1>1. keys' = [k \in Keys |-> IF k \in rows THEN "revoked" ELSE keys[k]]
  BY DEF Shell!RevokeAPIKey
<1>2. keys \in [Keys -> {"absent", "active", "revoked"}]
  BY DEF ShellType
<1>3. CASE rows = {}
  <2>1. \A k \in Keys : keys'[k] = keys[k]
    BY <1>1, <1>3
  <2>2. keys' = [k \in Keys |-> keys'[k]] /\ keys = [k \in Keys |-> keys[k]]
    BY <1>1, <1>2
  <2> QED
    BY <2>1, <2>2
<1>4. CASE rows # {}
  <2> DEFINE q == todo[c].key
  <2>1. q \in Keys /\ keys[q] = "active" /\ rows = {q}
    BY <1>4
  <2> HIDE DEF q
  <2>2. keys' = [keys EXCEPT ![q] = "revoked"]
    BY <1>1, <1>2, <2>1
  <2> QED
    BY <2>1, <2>2 DEF KeyRows!Next, KeyRows!RevokeAPIKey
<1> QED
  BY <1>3, <1>4

LEMMA KeysAreThoseOfTable ==
  ASSUME ConsoleInv, [Next]_vars
  PROVE  KeyRows!Next \/ UNCHANGED keys
PROOF
<1>1. ShellType /\ CommandInv
  BY TypeOfBoth DEF ConsoleInv
<1>2. CASE Shell!Next
  <2>1. PICK c \in Commands :
          \/ Shell!StartCreate(c) \/ Shell!StartList(c) \/ Shell!StartRevoke(c)
          \/ Shell!CreateAPIKey(c) \/ Shell!ListAPIKeys(c) \/ Shell!RevokeAPIKey(c)
          \/ Shell!Fail(c)
    BY <1>2 DEF Shell!Next
  <2>2. CASE \/ Shell!StartCreate(c) \/ Shell!StartList(c) \/ Shell!StartRevoke(c)
             \/ Shell!ListAPIKeys(c) \/ Shell!Fail(c)
    BY <2>2 DEF Shell!StartCreate, Shell!StartList, Shell!StartRevoke, Shell!Start,
                Shell!ListAPIKeys, Shell!Fail, Shell!table
  <2> QED
    BY <1>1, <2>1, <2>2, CreateIsPromised, RevokeIsPromised
<1>3. CASE Pages!Next /\ UNCHANGED commands
  <2>1. PagesType /\ VisitInv
    BY TypeOfBoth DEF ConsoleInv
  <2>2. UNCHANGED table
    BY <1>1, <1>3, <2>1, PagesKeep
  <2> QED
    BY <2>2 DEF table
<1>4. CASE UNCHANGED vars
  BY <1>4 DEF vars, table
<1> QED
  BY <1>2, <1>3, <1>4 DEF Next

(***************************************************************************)
(* Whatever commands run at once, fail, and lose their results: they use   *)
(* the id of a key once and revoke a key once, for ever.  Gateway assumes  *)
(* no more of the keys.                                                    *)
(***************************************************************************)
THEOREM KeyTableIsImplemented == Spec => ImplementsKeyTable
PROOF
<1>1. Init => KeyRows!Init
  BY DEF Init, Shell!Init, KeyRows!Init
<1>2. ConsoleInv /\ [Next]_vars => [KeyRows!Next]_keys
  BY KeysAreThoseOfTable
<1> QED
  BY <1>1, <1>2, ConsoleInvariant, PTL DEF Spec, ImplementsKeyTable, KeyRows!Spec

\* Its parts hold by themselves.
LEMMA PartsHold == Spec => []TypeOK /\ []CommandInv /\ []VisitInv
PROOF
<1>1. ConsoleInv => TypeOK /\ CommandInv /\ VisitInv
  BY DEF ConsoleInv
<1> QED
  BY <1>1, ConsoleInvariant, PTL

(***************************************************************************)
(* What bansho keys printed is so and stays so, for any number of commands *)
(* that run at once, fail, and lose their results.                         *)
(***************************************************************************)
THEOREM ReportsAreTrueHolds == Spec => []ReportsAreTrue
PROOF
<1>1. CommandInv => ReportsAreTrue
  BY DEF CommandInv, Shell!CommandInv, ReportsAreTrue
<1> QED
  BY <1>1, PartsHold, PTL

\* Of several revocations of one key at most one is reported.
THEOREM OneRevocationReportedHolds == Spec => []OneRevocationReported
PROOF
<1>1. CommandInv => OneRevocationReported
  BY DEF CommandInv, Shell!CommandInv, OneRevocationReported
<1> QED
  BY <1>1, PartsHold, PTL

(***************************************************************************)
(* The dashboard tells only the holder of an admin key that was not        *)
(* revoked before the visit more than that the key will not do, whatever   *)
(* the operator does to the keys between the visit's two queries.          *)
(***************************************************************************)
THEOREM OnlyAdminsGetThroughHolds == Spec => []OnlyAdminsGetThrough
PROOF
<1>1. VisitInv => OnlyAdminsGetThrough
  BY DEF VisitInv, Pages!VisitInv, OnlyAdminsGetThrough
<1> QED
  BY <1>1, PartsHold, PTL

\* A later page with the same filters misses only events that are too old for it.
THEOREM PagesOnlyLoseOldestHolds == Spec => []PagesOnlyLoseOldest
PROOF
<1>1. VisitInv => PagesOnlyLoseOldest
  BY DEF VisitInv, Pages!VisitInv, PagesOnlyLoseOldest
<1> QED
  BY <1>1, PartsHold, PTL

-----------------------------------------------------------------------------
(***************************************************************************)
(* The counts at the top of a page.                                        *)
(***************************************************************************)
(***************************************************************************)
(* Whatever page is shown, of statuses that gateways record, its events    *)
(* are counted once each and as they are marked.                           *)
(***************************************************************************)
THEOREM EveryEventIsCountedHolds == Spec => []EveryEventIsCounted
PROOF
<1>1. TypeOK => EveryEventIsCounted
  <2> SUFFICES ASSUME TypeOK, NEW v \in Visits
               PROVE  LET marked(classes) == Pages!Cardinality(
                            {e \in page[v] : Pages!RowClass(ContentOf[e].status) \in classes})
                      IN  /\ Pages!OkCount(page[v]) = marked({"row-ok"})
                          /\ Pages!ErrCount(page[v]) = marked({"row-auth", "row-err"})
                          /\ Pages!RateCount(page[v]) = marked({"row-rate"})
                          /\ marked({""}) = 0
    BY DEF EveryEventIsCounted, Pages!EveryEventIsCounted
  <2>1. \A e \in page[v] : ContentOf[e].status \in {200, 401, 403, 429, 500, 502}
    <3>1. page[v] \subseteq Events
      BY TypeOfBoth DEF PagesType
    <3> QED
      BY <3>1, StatusAssumption
  <2> DEFINE code(e) == ContentOf[e].status
             class(e) == Pages!RowClass(ContentOf[e].status)
             rows(classes) == {e \in page[v] : class(e) \in classes}
  <2>2. rows({"row-ok"}) = {e \in page[v] : code(e) \in 200..299}
    <3>1. \A e \in page[v] : class(e) \in {"row-ok"} <=> (code(e) \in 200..299)
      BY <2>1 DEF Pages!RowClass
    <3> DEFINE marked == rows({"row-ok"})
               counted == {e \in page[v] : code(e) \in 200..299}
    <3>2. \A e : e \in marked <=> e \in counted
      BY <3>1
    <3>3. marked = counted
      <4> HIDE DEF marked, counted
      <4> QED
        BY <3>2
    <3> QED
      BY <3>3
  <2>3. rows({"row-auth", "row-err"}) =
          {e \in page[v] : code(e) \in {401, 403} \/ code(e) >= 500}
    <3>1. \A e \in page[v] : class(e) \in {"row-auth", "row-err"} <=>
            (code(e) \in {401, 403} \/ code(e) >= 500)
      BY <2>1 DEF Pages!RowClass
    <3> DEFINE marked == rows({"row-auth", "row-err"})
               counted == {e \in page[v] : code(e) \in {401, 403} \/ code(e) >= 500}
    <3>2. \A e : e \in marked <=> e \in counted
      BY <3>1
    <3>3. marked = counted
      <4> HIDE DEF marked, counted
      <4> QED
        BY <3>2
    <3> QED
      BY <3>3
  <2>4. rows({"row-rate"}) = {e \in page[v] : code(e) = 429}
    <3>1. \A e \in page[v] : class(e) \in {"row-rate"} <=> (code(e) = 429)
      BY <2>1 DEF Pages!RowClass
    <3> DEFINE marked == rows({"row-rate"})
               counted == {e \in page[v] : code(e) = 429}
    <3>2. \A e : e \in marked <=> e \in counted
      BY <3>1
    <3>3. marked = counted
      <4> HIDE DEF marked, counted
      <4> QED
        BY <3>2
    <3> QED
      BY <3>3
  <2>5. rows({""}) = {}
    <3>1. \A e \in page[v] : class(e) # ""
      BY <2>1 DEF Pages!RowClass
    <3>2. \A e : e \notin rows({""})
      BY <3>1
    <3> HIDE DEF rows
    <3> QED
      BY <3>2
  <2>6. Pages!Cardinality({}) = 0
    BY FS_EmptySet, PagesSets
  <2> HIDE DEF rows
  <2>7. /\ Pages!OkCount(page[v]) = Pages!Cardinality(rows({"row-ok"}))
        /\ Pages!ErrCount(page[v]) = Pages!Cardinality(rows({"row-auth", "row-err"}))
        /\ Pages!RateCount(page[v]) = Pages!Cardinality(rows({"row-rate"}))
        /\ Pages!Cardinality(rows({""})) = 0
    BY <2>2, <2>3, <2>4, <2>5, <2>6 DEF Pages!OkCount, Pages!ErrCount, Pages!RateCount
  <2> QED
    BY <2>7 DEF rows
<1> QED
  BY <1>1, PartsHold, PTL

-----------------------------------------------------------------------------
(***************************************************************************)
(* Credentials: what merging makes of one map, and of two.                 *)
(***************************************************************************)
LEMMA TextsAreNoNotText == NotText \notin Texts /\ Blank \in Texts
BY DEF NotText, Texts, Blank

LEMMA PresentedIsFirst ==
  ASSUME NEW http \in Presented
  PROVE  ExtractPresentedAPIKey(http) =
           FirstOf(ExtractBearer(http.authorization), http.apiKey, http.query)
PROOF
<1>1. \A w : Word(w) # Blank
  BY DEF Word, Blank
<1> QED
  BY <1>1 DEF ExtractPresentedAPIKey, FirstOf, ExtractBearer

\* k is read from some text of A, X and Q.
IsFirst(k, A, X, Q) ==
  \E a \in A, x \in X, q \in Q : k = FirstOf(ExtractBearer(a), x, q)

\* Merging the maps of meta leaves the texts A, X and Q.
MergedTo(meta, A, X, Q) ==
  LET headers == MergeStringMapping(
        MergeStringMapping(Nothing, meta.headers), meta.header)
      query == MergeStringMapping(
        MergeStringMapping(Nothing, meta.query), meta.query_params)
  IN  /\ headers["authorization"] = A
      /\ headers["x-api-key"] = X
      /\ query["api_key"] = Q

\* The keys found when each place may hold one of several texts.
LEMMA KeysOfEach ==
  ASSUME NEW A \in SUBSET Texts, NEW X \in SUBSET Texts, NEW Q \in SUBSET Texts,
         NEW k
  PROVE  k \in KeysOf([authorization : A, apiKey : X, query : Q]) <=> IsFirst(k, A, X, Q)
PROOF
<1> DEFINE all == [authorization : A, apiKey : X, query : Q]
           of(a, x, q) == [authorization |-> a, apiKey |-> x, query |-> q]
<1>1. \A http \in all : http \in Presented
  BY DEF Presented
<1>2. \A a \in A, x \in X, q \in Q :
        of(a, x, q) \in all
        /\ ExtractPresentedAPIKey(of(a, x, q)) = FirstOf(ExtractBearer(a), x, q)
  BY <1>1, PresentedIsFirst
<1>3. \A http \in all :
        /\ http.authorization \in A /\ http.apiKey \in X /\ http.query \in Q
        /\ ExtractPresentedAPIKey(http) =
             FirstOf(ExtractBearer(http.authorization), http.apiKey, http.query)
  BY <1>1, PresentedIsFirst
<1>4. KeysOf(all) = {ExtractPresentedAPIKey(http) : http \in all}
  BY DEF KeysOf
<1> HIDE DEF of
<1>5. ASSUME k \in KeysOf(all)
      PROVE  \E a \in A, x \in X, q \in Q : k = FirstOf(ExtractBearer(a), x, q)
  BY <1>3, <1>4, <1>5
<1>6. \A a \in A, x \in X, q \in Q : FirstOf(ExtractBearer(a), x, q) \in KeysOf(all)
  BY <1>2, <1>4
<1> QED
  BY <1>5, <1>6 DEF IsFirst

\* The fields of a request, whatever it is.
LEMMA FieldsOfRequest ==
  ASSUME NEW http
  PROVE  /\ \A f \in Headers(http) :
              \/ f.name = "authorization" /\ f.text = http.authorization
              \/ f.name = "x-api-key" /\ f.text = http.apiKey
         /\ \E f \in Headers(http) : f.name = "authorization" /\ f.text = http.authorization
         /\ \E f \in Headers(http) : f.name = "x-api-key" /\ f.text = http.apiKey
         /\ \A f \in Query(http) : f.name = "api_key" /\ f.text = http.query
         /\ \E f \in Query(http) : TRUE
PROOF
<1>1. \A n, t : Field(n, t).name = n /\ Field(n, t).text = t
  BY DEF Field
<1> QED
  BY <1>1 DEF Headers, Query

\* The keys found in the metadata, when merging leaves A, X and Q.
LEMMA FoundInMeta ==
  ASSUME NEW A \in SUBSET Texts, NEW X \in SUBSET Texts, NEW Q \in SUBSET Texts,
         NEW meta, MergedTo(meta, A, X, Q)
  PROVE  ExtractAPIKey(meta) = KeysOf([authorization : A, apiKey : X, query : Q])
PROOF
<1> DEFINE inMeta == ExtractAPIKey(meta)
           presented == KeysOf([authorization : A, apiKey : X, query : Q])
<1>1. \A k : k \in inMeta <=> IsFirst(k, A, X, Q)
  BY DEF ExtractAPIKey, MergedTo, IsFirst
<1>2. \A k : k \in presented <=> IsFirst(k, A, X, Q)
  BY KeysOfEach
<1> HIDE DEF inMeta, presented
<1>3. inMeta = presented
  BY <1>1, <1>2
<1> QED
  BY <1>3 DEF inMeta, presented

\* What the merged maps leave under each name, when h comes before g.
LEMMA MergedTwo ==
  ASSUME NEW h \in Presented, NEW g \in Presented
  PROVE  LET headers == MergeStringMapping(
               MergeStringMapping(Nothing, Headers(h)), Headers(g))
             query == MergeStringMapping(
               MergeStringMapping(Nothing, Query(h)), Query(g))
         IN  /\ headers["authorization"] = Replaced(h.authorization, g.authorization)
             /\ headers["x-api-key"] = Replaced(h.apiKey, g.apiKey)
             /\ query["api_key"] = Replaced(h.query, g.query)
PROOF
<1> DEFINE given(source, n) ==
             {f.text : f \in {e \in source : e.name = n}} \ {Blank, NotText}
<1>1. \A target, source :
        MergeStringMapping(target, source) =
          [n \in DOMAIN target |-> IF given(source, n) = {} THEN target[n]
                                                         ELSE given(source, n)]
  BY DEF MergeStringMapping
<1>0. \A source, n, t : t \in given(source, n) <=>
        t \notin {Blank, NotText} /\ \E f \in source : f.name = n /\ t = f.text
  OBVIOUS
<1>2. ASSUME NEW http \in Presented
      PROVE  /\ given(Headers(http), "authorization") = {http.authorization} \ {Blank}
             /\ given(Headers(http), "x-api-key") = {http.apiKey} \ {Blank}
             /\ given(Query(http), "api_key") = {http.query} \ {Blank}
  <2>1. /\ http.authorization # NotText
        /\ http.apiKey # NotText
        /\ http.query # NotText
    BY TextsAreNoNotText DEF Presented
  <2>2. ASSUME NEW t
        PROVE  /\ t \in given(Headers(http), "authorization") <=>
                    t = http.authorization /\ t # Blank
               /\ t \in given(Headers(http), "x-api-key") <=>
                    t = http.apiKey /\ t # Blank
               /\ t \in given(Query(http), "api_key") <=> t = http.query /\ t # Blank
    <3>1. /\ t \in given(Headers(http), "authorization") <=>
               t \notin {Blank, NotText}
               /\ \E f \in Headers(http) : f.name = "authorization" /\ t = f.text
          /\ t \in given(Headers(http), "x-api-key") <=>
               t \notin {Blank, NotText}
               /\ \E f \in Headers(http) : f.name = "x-api-key" /\ t = f.text
          /\ t \in given(Query(http), "api_key") <=>
               t \notin {Blank, NotText}
               /\ \E f \in Query(http) : f.name = "api_key" /\ t = f.text
      BY <1>0
    <3>2. (\E f \in Headers(http) : f.name = "authorization" /\ t = f.text)
            <=> t = http.authorization
      BY FieldsOfRequest
    <3>3. (\E f \in Headers(http) : f.name = "x-api-key" /\ t = f.text)
            <=> t = http.apiKey
      BY FieldsOfRequest
    <3>4. (\E f \in Query(http) : f.name = "api_key" /\ t = f.text)
            <=> t = http.query
      BY FieldsOfRequest
    <3> QED
      BY <2>1, <3>1, <3>2, <3>3, <3>4
  <2> HIDE DEF given
  <2> QED
    BY <2>2
<1> HIDE DEF given
<1>3. /\ DOMAIN Nothing = {"authorization", "x-api-key", "api_key"}
      /\ \A n \in DOMAIN Nothing : Nothing[n] = {Blank}
  BY DEF Nothing
<1>4. ASSUME NEW a, NEW b, NEW n \in DOMAIN Nothing, NEW first, NEW second,
             given(first, n) = {a} \ {Blank}, given(second, n) = {b} \ {Blank}
      PROVE  MergeStringMapping(MergeStringMapping(Nothing, first), second)[n]
               = Replaced(a, b)
  <2>1. /\ DOMAIN MergeStringMapping(Nothing, first) = DOMAIN Nothing
        /\ MergeStringMapping(Nothing, first)[n] = {a}
    BY <1>1, <1>3, <1>4
  <2>2. MergeStringMapping(MergeStringMapping(Nothing, first), second)[n] =
          IF given(second, n) = {} THEN {a} ELSE given(second, n)
    BY <1>1, <2>1
  <2> QED
    BY <1>4, <2>2 DEF Replaced
<1> QED
  BY <1>2, <1>3, <1>4

\* And when one map carries both.
LEMMA MergedOne ==
  ASSUME NEW h \in Presented, NEW g \in Presented
  PROVE  LET headers == MergeStringMapping(MergeStringMapping(Nothing,
               Headers(h) \cup Headers(g) \cup {Field("x-api-key", NotText)}), {})
             query == MergeStringMapping(MergeStringMapping(Nothing, {}),
               Query(h) \cup Query(g))
         IN  /\ headers["authorization"] = Either(h.authorization, g.authorization)
             /\ headers["x-api-key"] = Either(h.apiKey, g.apiKey)
             /\ query["api_key"] = Either(h.query, g.query)
PROOF
<1> DEFINE given(source, n) ==
             {f.text : f \in {e \in source : e.name = n}} \ {Blank, NotText}
           headers == Headers(h) \cup Headers(g) \cup {Field("x-api-key", NotText)}
           query == Query(h) \cup Query(g)
<1>1. \A target, source :
        MergeStringMapping(target, source) =
          [n \in DOMAIN target |-> IF given(source, n) = {} THEN target[n]
                                                         ELSE given(source, n)]
  BY DEF MergeStringMapping
<1>0. \A source, n, t : t \in given(source, n) <=>
        t \notin {Blank, NotText} /\ \E f \in source : f.name = n /\ t = f.text
  OBVIOUS
<1>2. /\ given(headers, "authorization") = {h.authorization, g.authorization} \ {Blank}
      /\ given(headers, "x-api-key") = {h.apiKey, g.apiKey} \ {Blank}
      /\ given(query, "api_key") = {h.query, g.query} \ {Blank}
  <2>1. \A http \in {h, g} : /\ http.authorization # NotText
                             /\ http.apiKey # NotText
                             /\ http.query # NotText
    BY TextsAreNoNotText DEF Presented
  <2>2. ASSUME NEW t
        PROVE  /\ t \in given(headers, "authorization") <=>
                    t \in {h.authorization, g.authorization} /\ t # Blank
               /\ t \in given(headers, "x-api-key") <=>
                    t \in {h.apiKey, g.apiKey} /\ t # Blank
               /\ t \in given(query, "api_key") <=> t \in {h.query, g.query} /\ t # Blank
    <3>1. /\ t \in given(headers, "authorization") <=>
               t \notin {Blank, NotText}
               /\ \E f \in headers : f.name = "authorization" /\ t = f.text
          /\ t \in given(headers, "x-api-key") <=>
               t \notin {Blank, NotText}
               /\ \E f \in headers : f.name = "x-api-key" /\ t = f.text
          /\ t \in given(query, "api_key") <=>
               t \notin {Blank, NotText}
               /\ \E f \in query : f.name = "api_key" /\ t = f.text
      BY <1>0
    <3>2. \A f \in headers : \/ f \in Headers(h)
                             \/ f \in Headers(g)
                             \/ f.name = "x-api-key" /\ f.text = NotText
      BY DEF Field
    <3>3. Headers(h) \subseteq headers /\ Headers(g) \subseteq headers
      OBVIOUS
    <3> HIDE DEF headers
    <3>4. (\E f \in headers : f.name = "authorization" /\ t = f.text)
            <=> t \in {h.authorization, g.authorization}
      BY <3>2, <3>3, FieldsOfRequest
    <3>5. t # NotText => ((\E f \in headers : f.name = "x-api-key" /\ t = f.text)
                            <=> t \in {h.apiKey, g.apiKey})
      <4>1. ASSUME NEW f \in headers, f.name = "x-api-key", f.text # NotText
            PROVE  f.text \in {h.apiKey, g.apiKey}
        <5>1. CASE f \in Headers(h)
          BY <4>1, <5>1, FieldsOfRequest
        <5>2. CASE f \in Headers(g)
          BY <4>1, <5>2, FieldsOfRequest
        <5> QED
          BY <3>2, <4>1, <5>1, <5>2
      <4>2. \E f \in headers : f.name = "x-api-key" /\ f.text = h.apiKey
        BY <3>3, FieldsOfRequest
      <4>3. \E f \in headers : f.name = "x-api-key" /\ f.text = g.apiKey
        BY <3>3, FieldsOfRequest
      <4> QED
        BY <4>1, <4>2, <4>3
    <3>6. (\E f \in query : f.name = "api_key" /\ t = f.text)
            <=> t \in {h.query, g.query}
      BY FieldsOfRequest
    <3> HIDE DEF given
    <3> QED
      BY <2>1, <3>1, <3>4, <3>5, <3>6
  <2> HIDE DEF given, headers, query
  <2> QED
    BY <2>2
<1>3. \A n : given({}, n) = {}
  OBVIOUS
<1> HIDE DEF given, headers, query
<1>4. /\ DOMAIN Nothing = {"authorization", "x-api-key", "api_key"}
      /\ \A n \in DOMAIN Nothing : Nothing[n] = {Blank}
  BY DEF Nothing
<1>5. ASSUME NEW a, NEW b, NEW n \in DOMAIN Nothing, NEW source,
             given(source, n) = {a, b} \ {Blank}
      PROVE  /\ MergeStringMapping(MergeStringMapping(Nothing, source), {})[n]
                  = Either(a, b)
             /\ MergeStringMapping(MergeStringMapping(Nothing, {}), source)[n]
                  = Either(a, b)
  <2>1. \A s : DOMAIN MergeStringMapping(Nothing, s) = DOMAIN Nothing
    BY <1>1
  <2>2. /\ MergeStringMapping(MergeStringMapping(Nothing, source), {})[n] =
             IF given(source, n) = {} THEN {Blank} ELSE given(source, n)
        /\ MergeStringMapping(MergeStringMapping(Nothing, {}), source)[n] =
             IF given(source, n) = {} THEN {Blank} ELSE given(source, n)
    BY <1>1, <1>3, <1>4, <2>1
  <2>3. given(source, n) = {} <=> {a, b} = {Blank}
    BY <1>5
  <2> QED
    BY <1>5, <2>2, <2>3 DEF Either
<1>6. /\ MergeStringMapping(MergeStringMapping(Nothing, headers), {})["authorization"]
           = Either(h.authorization, g.authorization)
      /\ MergeStringMapping(MergeStringMapping(Nothing, headers), {})["x-api-key"]
           = Either(h.apiKey, g.apiKey)
      /\ MergeStringMapping(MergeStringMapping(Nothing, {}), query)["api_key"]
           = Either(h.query, g.query)
  BY <1>2, <1>4, <1>5
<1> QED
  BY <1>6 DEF headers, query

(***************************************************************************)
(* A request h of the dashboard, given to the gateway with any other       *)
(* request g, brings up the keys that one of the two presents.             *)
(***************************************************************************)
LEMMA NothingDiffers ==
  ASSUME NEW h \in Presented, NEW g \in Presented
  PROVE  ~Differ(h, g)
PROOF
<1>1. \A a \in Texts, b \in Texts :
        Replaced(a, b) \in SUBSET Texts /\ Either(a, b) \in SUBSET Texts
  BY TextsAreNoNotText DEF Replaced, Either
<1>2. /\ h.authorization \in Texts /\ g.authorization \in Texts
      /\ h.apiKey \in Texts /\ g.apiKey \in Texts
      /\ h.query \in Texts /\ g.query \in Texts
  BY DEF Presented
<1>3. ExtractAPIKey(TwoMaps(h, g)) = KeysOf(Combined(Replaced, h, g))
  <2>1. MergedTo(TwoMaps(h, g), Replaced(h.authorization, g.authorization),
                 Replaced(h.apiKey, g.apiKey), Replaced(h.query, g.query))
    BY MergedTwo DEF MergedTo, TwoMaps
  <2>2. /\ Replaced(h.authorization, g.authorization) \in SUBSET Texts
        /\ Replaced(h.apiKey, g.apiKey) \in SUBSET Texts
        /\ Replaced(h.query, g.query) \in SUBSET Texts
    BY <1>1, <1>2
  <2>3. ExtractAPIKey(TwoMaps(h, g)) =
          KeysOf([authorization : Replaced(h.authorization, g.authorization),
                  apiKey : Replaced(h.apiKey, g.apiKey), query : Replaced(h.query, g.query)])
    BY <2>1, <2>2, FoundInMeta
  <2> QED
    BY <2>3 DEF Combined
<1>4. ExtractAPIKey(OneMap(h, g)) = KeysOf(Combined(Either, h, g))
  <2>1. MergedTo(OneMap(h, g), Either(h.authorization, g.authorization),
                 Either(h.apiKey, g.apiKey), Either(h.query, g.query))
    BY MergedOne DEF MergedTo, OneMap
  <2>2. /\ Either(h.authorization, g.authorization) \in SUBSET Texts
        /\ Either(h.apiKey, g.apiKey) \in SUBSET Texts
        /\ Either(h.query, g.query) \in SUBSET Texts
    BY <1>1, <1>2
  <2>3. ExtractAPIKey(OneMap(h, g)) =
          KeysOf([authorization : Either(h.authorization, g.authorization),
                  apiKey : Either(h.apiKey, g.apiKey), query : Either(h.query, g.query)])
    BY <2>1, <2>2, FoundInMeta
  <2> QED
    BY <2>3 DEF Combined
<1> QED
  BY <1>3, <1>4 DEF Differ

(***************************************************************************)
(* A client that gives the gateway what it gave the dashboard is known by  *)
(* the same key, alone or mixed with any other credentials.                *)
(***************************************************************************)
THEOREM SameKeyForBothHolds == Spec => []SameKeyForBoth
PROOF
<1>1. Misread = {}
  BY NothingDiffers DEF Misread
<1>2. SameKeyForBoth
  BY <1>1 DEF SameKeyForBoth
<1> QED
  BY <1>2, PTL
=============================================================================
