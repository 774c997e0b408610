----------------------------- MODULE MCPioFifo -----------------------------
(* Instances of PioFifo for TLC.                                             *)
EXTENDS PioFifo

Disciplined == AllRules
Retargets == AllRules \ {"target"}
=============================================================================
