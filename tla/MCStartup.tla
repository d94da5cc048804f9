----------------------------- MODULE MCStartup -----------------------------
(***************************************************************************)
(* Constants for model-checking Startup: settings that are good, or fail   *)
(* at one of the two places where they are looked at.                      *)
(***************************************************************************)
EXTENDS Startup

MCSettings ==
  { [ports |-> "integers", transport |-> "stdio", target |-> "usable"],
    [ports |-> "text", transport |-> "stdio", target |-> "usable"],
    [ports |-> "integers", transport |-> "other", target |-> "usable"],
    [ports |-> "integers", transport |-> "http", target |-> "blank"] }
=============================================================================
