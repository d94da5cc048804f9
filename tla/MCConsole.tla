----------------------------- MODULE MCConsole -----------------------------
(***************************************************************************)
(* Constants for model-checking Console: two keys of which one is there at *)
(* first, two events, pages of one event by default and two at most, and   *)
(* requests that present either key in each of the three places.           *)
(***************************************************************************)
EXTENDS Console, TLC

CONSTANTS root, guest, search, e1, e2

Ask(method, authorization, apiKey, query, keyFilter, toolFilter, limit) ==
  [method |-> method, authorization |-> authorization, apiKey |-> apiKey, query |-> query,
   keyFilter |-> keyFilter, toolFilter |-> toolFilter, limit |-> limit]
NoLimit == [kind |-> "blank", n |-> 0]
Limit(k) == [kind |-> "number", n |-> k]
Bearer(k) == [scheme |-> "bearer", word |-> k]

MCRequests ==
  { Ask("GET", Bearer(root), Word(guest), Blank, AnyText, AnyText, NoLimit),
    Ask("GET", Blank, Word(root), Word(guest), guest, search, Limit(2)),
    Ask("GET", Word(guest), Blank, Word(root), AnyText, AnyText, Limit(3)),
    Ask("GET", Blank, Word(guest), Word(root), AnyText, AnyText, NoLimit),
    Ask("GET", Word(root), Blank, Blank, AnyText, AnyText, NoLimit),
    Ask("POST", Bearer(root), Blank, Blank, AnyText, AnyText, NoLimit) }

MCExisting == [k \in {root} |-> "Admin"]

MCContentOf ==
  (e1 :> [key |-> guest, tool |-> search, status |-> 429]) @@
  (e2 :> [key |-> NoKey, tool |-> search, status |-> 401])

OperatorSymmetry == Permutations(Commands) \cup Permutations(Visits)
=============================================================================
