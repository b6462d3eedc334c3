-------------------------- MODULE MCChainMaintenance --------------------------
(***************************************************************************)
(* The chains of MCChainSync, with an operator who drops blocks.           *)
(***************************************************************************)
EXTENDS ChainMaintenance, MCChainSync
=============================================================================
