----------------------------- MODULE MCCanTxStack -----------------------------
(* Small instances of the CAN transmit ring for TLC. *)
EXTENDS CanTxStack

MCParts == {"data", "id"}
=============================================================================
