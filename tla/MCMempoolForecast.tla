-------------------------- MODULE MCMempoolForecast --------------------------
(***************************************************************************)
(* A small instance of MempoolForecast, and so of TransactionIndexer: the  *)
(* transaction of MCTransactionIndexer mined and pending, with a layout of *)
(* inputs in which a sender comes back after another one.                  *)
(***************************************************************************)
EXTENDS MempoolForecast, MCTransactionIndexer

ForecastInputChoices ==
    MCInputChoices \union {Holding(<<Balance(A, 1), Balance(B, 2), Balance(A, 4)>>)}

ForecastPointerChoices == MCPointerChoices \union {2}
=============================================================================
