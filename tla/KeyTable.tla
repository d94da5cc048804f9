------------------------------ MODULE KeyTable ------------------------------
(***************************************************************************)
(* What the rows of api_keys promise to everybody who reads them: the id   *)
(* of a key is used once, a key is revoked once, and a revoked key never   *)
(* comes back.  This is all that Gateway assumes of the operator, and what *)
(* the operator's commands of Console do, whatever becomes of them.        *)
(***************************************************************************)
CONSTANT Keys

VARIABLE keys \* keys[k]: "absent", "active" or "revoked"

Init == keys \in [Keys -> {"absent", "active"}]

CreateAPIKey(k) ==
  /\ keys[k] = "absent"
  /\ keys' = [keys EXCEPT ![k] = "active"]

RevokeAPIKey(k) ==
  /\ keys[k] = "active"
  /\ keys' = [keys EXCEPT ![k] = "revoked"]

Next == \E k \in Keys : CreateAPIKey(k) \/ RevokeAPIKey(k)

Spec == Init /\ [][Next]_keys
=============================================================================
