--------------------------- MODULE IndexCacheLedger ---------------------------
(***************************************************************************)
(* The block indexer implements Ledger: with its LRU caches, pending rows, *)
(* flushes inside a block and stops of the process at any step, what it    *)
(* commits is what a reader of the tables alone would write.               *)
(***************************************************************************)
EXTENDS IndexCache

\* Where the indexer does otherwise: a mint of 0:0 is counted under two ids, and
\* the second etching of a name has a ledger entry and no row.
ASSUME LedgerAssumption ==
    /\ \A t \in Txs :
        TxData[t].artifact.kind # "none" => TxData[t].artifact.mint # SelfId
    /\ \A t, u \in Txs :
        LET Name(x) == LET a == TxData[x].artifact
                       IN  IF a.kind = "cenotaph" THEN a.etching ELSE a.etching.name
        IN  t # u /\ Etches(t) /\ Etches(u) => Name(t) # Name(u)

\* The committed rows are the abstract tables; the caches and the open
\* transaction have no counterpart.
L == INSTANCE Ledger WITH runes <- db.runes, ledger <- db.ledger

\* Each commit is one step of the cacheless indexer, each other step, a stop
\* included, leaves its tables alone.
ImplementsLedger == L!Spec
=============================================================================
