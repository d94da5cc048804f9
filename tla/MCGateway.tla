----------------------------- MODULE MCGateway -----------------------------
(***************************************************************************)
(* Constants for model-checking Gateway: quotas of one, two tools at the   *)
(* upstream and one name it does not have, and policies that allow both    *)
(* tools, a single one, or none.                                           *)
(***************************************************************************)
EXTENDS Gateway, TLC

CONSTANTS ada, eve, search, fetch, ghost

MCRoleOf == [k \in Keys |-> IF k = eve THEN "readonly" ELSE "user"]
MCPolicies == {{<<"user", search>>, <<"user", fetch>>}, {<<"user", search>>}}
UsersSearch == {{<<"user", search>>}}
SearchOrNothing == {{<<"user", search>>}, {}}
RequestSymmetry == Permutations(Requests)
ProcessSymmetry == Permutations(Requests) \cup Permutations(Gateways)
=============================================================================
