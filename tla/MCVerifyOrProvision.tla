--------------------------- MODULE MCVerifyOrProvision ---------------------------
(* Three verticals, each with an answer that is usable, one that is broken *)
(* and, where the emulator knows one, one that passes.  "" is an answer    *)
(* that names no state.                                                    *)
EXTENDS VerifyOrProvision

MCStatesOf ==
  [lambda |-> {"Active", "Pending", "Failed", "UpdateFailed"},
   dynamodb |-> {"", "CREATING", "DELETING"},
   s3 |-> {"2xx", "5xx"}]
================================================================================
