------------------------- MODULE MCTransactionIndexer -------------------------
(***************************************************************************)
(* Small instances of TransactionIndexer. The transaction is <<3, 1>>, so  *)
(* Own is the rune it may etch; Old was etched in an earlier block.        *)
(***************************************************************************)
EXTENDS TransactionIndexer

CONSTANTS A, B      \* addresses

Own == <<3, 1>>
Old == <<2, 1>>

MCRuneIds == {Own, Old}
MCLocation == [height |-> 3, index |-> 1, tx |-> "t"]

Balance(a, n) == [address |-> a, amount |-> n]

Holding(balances) == [r \in RuneKeys |-> IF r = Old THEN balances ELSE <<>>]

MCInputChoices ==
    {Holding(b) : b \in {<<>>, <<Balance(A, 1)>>, <<Balance(A, 3)>>,
                         <<Balance(A, 1), Balance(B, 2)>>,
                         <<Balance(B, 2), Balance(A, 2)>>,
                         <<Balance(A, 2), Balance(B, 1), Balance(A, 2)>>}}

\* Output 1 may be the OP_RETURN, all outputs may be eligible, one may have a
\* script without an address, and there may be no eligible output at all.
MCOutputChoices ==
    {[outputs |-> 0 :> A @@ 2 :> B, total |-> 3],
     [outputs |-> 0 :> B @@ 1 :> A @@ 2 :> A, total |-> 3],
     [outputs |-> 0 :> None @@ 1 :> B, total |-> 3],
     [outputs |-> <<>>, total |-> 1]}

MCPointerChoices == {None, 0, 1}

Terms(amount, cap) == [NoTerms EXCEPT !.amount = amount, !.cap = cap]

Etched(premine, terms) == [name |-> "n", premine |-> premine, terms |-> terms]

MCEtchingChoices ==
    {None, Etched(None, Terms(2, None)), Etched(4, None), Etched(0, Terms(2, None))}

MCMintChoices == {SelfId, Own, Old}

\* Mintable from height 2, the etching's block, to its last offset.
OldRune == [id |-> Old, number |-> 1, name |-> "o", height |-> 2, premine |-> 0,
            terms |-> [Terms(3, 2) EXCEPT !.offset_start = 1, !.offset_end = 1],
            cenotaph |-> FALSE]

MCKnownRunes == Old :> OldRune

MCEdictChoices ==
    {[id |-> r, amount |-> n, output |-> o] :
        r \in {SelfId, Old}, n \in {0, 1, 3}, o \in {0, 1, 3, 4}}

NoInputs == {Holding(<<>>)}
NoPointer == {None}
Unaddressed == {[outputs |-> <<>>, total |-> 1]}
=============================================================================
