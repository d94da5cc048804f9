--------------------------- MODULE MCRateLimiter ---------------------------
(***************************************************************************)
(* Constants for model-checking RateLimiter: windows of different lengths, *)
(* so that the two checks of one call fall in different windows, and       *)
(* limits small enough for the calls to go beyond.                         *)
(***************************************************************************)
EXTENDS RateLimiter, TLC

MCPerKey == [requests |-> 1, seconds |-> 2]
MCPerTool == [t \in Tools |-> [requests |-> 1, seconds |-> 1]]

CallSymmetry == Permutations(Calls)
=============================================================================
