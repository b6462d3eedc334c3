----------------------------- MODULE MCIndexCache -----------------------------
(***************************************************************************)
(* Small instances of IndexCache. Blocks start at height 2, above the row  *)
(* of the first migration. First is the id of a rune etched by the first   *)
(* transaction of the first block.                                         *)
(***************************************************************************)
EXTENDS IndexCache

CONSTANTS A, B,                 \* addresses
          etch, split, join, burn,
          mint1, mint2, mint3, free, other

First == <<2, 1>>

MCStartHeight == 2

MCGenesisRune ==
    [id |-> <<1, 0>>, number |-> 0, name |-> "UNCOMMONGOODS", height |-> 1,
     premine |-> 0, terms |-> [NoTerms EXCEPT !.amount = 1, !.cap = 9],
     cenotaph |-> FALSE]

MCRuneIds == ((2..4) \X (1..3)) \cup {<<1, 0>>}

MCNames == {"UNCOMMONGOODS", "w", "x", "y", "z"}

Etched(name, premine, terms) == [name |-> name, premine |-> premine, terms |-> terms]

Runestone(pointer, etching, mint, edicts) ==
    [kind |-> "runestone", pointer |-> pointer, etching |-> etching, mint |-> mint,
     edicts |-> edicts]

Cenotaph(name, mint) == [kind |-> "cenotaph", etching |-> name, mint |-> mint]

Plain == [kind |-> "none"]

Transaction(in, out, total, artifact) ==
    [inputs |-> in, outputs |-> out, total |-> total, artifact |-> artifact]

To(id, amount, output) == [id |-> id, amount |-> amount, output |-> output]

\* A rune that may be minted twice.
MintTerms == [NoTerms EXCEPT !.amount = 1, !.cap = 2]
Minting(id) == Transaction(<<>>, 0 :> A, 2, Runestone(None, None, id, <<>>))

\* Reorganisations: the same transactions in other blocks or another order.
ReorgTxs == {etch, split, other, mint1}
ReorgTxData == [t \in ReorgTxs |->
    CASE t = etch -> Transaction(<<>>, 0 :> A, 2,
             Runestone(None, Etched("x", 2, MintTerms), SelfId, <<>>))
      [] t = split -> Transaction(<<<<etch, 0>>>>, 0 :> B @@ 1 :> A, 3,
             Runestone(None, None, None, <<To(First, 1, 1)>>))
      [] t = other -> Transaction(<<>>, 0 :> A, 2,
             Runestone(None, Etched("x", None, None), None, <<>>))
      [] t = mint1 -> Minting(First)]
=============================================================================
