------------------------------ MODULE MCPinFanOut ------------------------------
(* Small instances of PinFanOut for TLC.                                   *)
EXTENDS PinFanOut
================================================================================
