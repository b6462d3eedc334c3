-------------------------- MODULE MCIndexCacheLedger --------------------------
(***************************************************************************)
(* The transactions of MCIndexCache mixed, so that a premine and mints of  *)
(* one rune meet in the same outputs, with a cenotaph's mint among them.   *)
(***************************************************************************)
EXTENDS MCIndexCache, IndexCacheLedger

LedgerTerms == [NoTerms EXCEPT !.amount = 2, !.cap = 2]

LedgerTxs == {etch, mint1, mint2, split, join, burn, free}
LedgerTxData == [t \in LedgerTxs |->
    CASE t = etch -> Transaction(<<>>, 0 :> A @@ 1 :> B, 3,
             Runestone(1, Etched("x", 3, LedgerTerms), None, <<To(SelfId, 1, 0)>>))
      [] t = mint1 -> Transaction(<<<<etch, 0>>>>, 0 :> A, 2,
             Runestone(None, None, First, <<>>))
      [] t = mint2 -> Transaction(<<>>, 0 :> B, 2,
             Runestone(None, None, First, <<>>))
      [] t = split -> Transaction(<<<<mint1, 0>>>>, 0 :> B @@ 1 :> A, 3,
             Runestone(1, Etched("w", 1, None), First, <<To(First, 1, 0), To(First, 0, 2)>>))
      [] t = join -> Transaction(<<<<etch, 1>>, <<mint2, 0>>>>, 0 :> A, 1, Plain)
      [] t = burn -> Transaction(<<<<etch, 1>>>>, 0 :> A, 2, Cenotaph("y", First))
      [] t = free -> Transaction(<<<<mint2, 0>>>>, 0 :> A, 2, Cenotaph(None, First))]
=============================================================================
