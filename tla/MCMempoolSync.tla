----------------------------- MODULE MCMempoolSync -----------------------------
(***************************************************************************)
(* A small instance of MempoolSync: one transaction moves the runes of     *)
(* the other, which moves runes that are in the ledger; a third etches.    *)
(***************************************************************************)
EXTENDS MempoolSync, TLC

CONSTANTS parent, child, cenotaph

MCTxs == {parent, child, cenotaph}
MCParent == parent :> None @@ child :> parent @@ cenotaph :> None
MCKind == parent :> "moves" @@ child :> "moves" @@ cenotaph :> "etches"
=============================================================================
