------------------------- MODULE IndexCacheTableProofs -------------------------
(***************************************************************************)
(* Theorems about the tables of the block indexer as wholes: what is       *)
(* committed of a block and how a block is undone, that the running totals *)
(* of supply_changes and balance_changes are the sums of the ledger, and   *)
(* that an input is found to hold what the ledger says.                    *)
(*                                                                         *)
(* A row of running totals is a sum over the entries of its key up to its  *)
(* height, so the second part sums weights over sets of entries (SumOver), *)
(* one field at a time: what an operation logs adds its weight to what is  *)
(* pending, a flush adds what is pending to the latest row, and entries    *)
(* are never counted twice because a transaction is mined once and numbers *)
(* its entries.                                                            *)
(*                                                                         *)
(* The last part follows the receipts of an output through the outputs of  *)
(* the block, the LRU cache and the table: the list of an output grows by  *)
(* entries that come later in it, so appending what is received gives the  *)
(* list the ledger would give.                                             *)
(***************************************************************************)
EXTENDS IndexCacheProofs

-----------------------------------------------------------------------------
(* Blocks as wholes: the inductive invariant *)

\* An entry of the block being indexed.
InThisBlock(e) == e.height = Height /\ e.tx \in ToSet(block.txs)

\* Away from the height h, the tables d hold the rows of the tables old.
SameRows(d, h, old) ==
    /\ {r \in d.runes : r.height # h} = old.runes
    /\ {e \in d.ledger : e.height # h} = old.ledger
    /\ WithoutHeight(d.supply, h) = old.supply
    /\ WithoutHeight(d.balances, h) = old.balances

\* A table whose rows lie at heights up to top.
UpTo(rows, top) ==
    /\ rows = [x \in DOMAIN rows |-> rows[x]]
    /\ \A x \in DOMAIN rows : x[2] \in Int /\ x[2] <= top

\* The tables d of the open transaction and the pending rows c add rows of this
\* block alone to the committed tables.
Open(d, c) ==
    /\ IsFiniteSet(d.ledger)
    /\ SameRows(d, Height, db)
    /\ \A e \in d.ledger : e \in db.ledger \/ InThisBlock(e)
    /\ UpTo(d.supply, Height) /\ UpTo(d.balances, Height)
    /\ IsList(c.ledger)
    /\ \A e \in ToSet(c.ledger) : InThisBlock(e)
    /\ \A i \in DOMAIN c.runes : Cleared(c.runes[i]).height = Height

BlockOpen == InBlock => Open(db_tx, db_cache)

\* The ledger rows hold the etching of the transaction t at the height h.
Recorded(rows, t, h) ==
    \E e \in rows : e.op = "etching" /\ e.tx = t /\ e.height = h

OpenLedger(d, c) == d.ledger \cup ToSet(c.ledger)

EtchedSoFar ==
    InBlock => \A i \in 1..LastEtched : Etches(block.txs[i]) =>
                   Recorded(OpenLedger(db_tx, db_cache), block.txs[i], Height)

Finished == stage = "commit" => pos = Len(block.txs)

\* The transaction cache is that of the transaction being indexed.
TransactionOpen ==
    InTransaction =>
        /\ Holds(tx_cache)
        /\ tx_cache.location.tx = block.txs[pos]
        /\ tx_cache.eligible_outputs = Tx.outputs
        /\ tx_cache.etching # None => tx_cache.etching.id \in RuneKeys
        /\ stage \in {"runestone", "etching", "mint", "edicts"} =>
               Artifact.kind = "runestone"

Lists(cache) == \A o \in DOMAIN cache : IsList(cache[o])

OutputLists == Lists(block_output_cache) /\ Lists(output_cache)

Bounded ==
    /\ next_edict \in Nat \ {0}
    /\ InBlock => Len(chain) < MaxBlocks /\ Len(block.txs) <= MaxBlockTxs

\* The committed ledger: entries of the chain's transactions at the heights of
\* their blocks, every etching among them.
LedgerOfChain ==
    /\ IsFiniteSet(db.ledger)
    /\ \A e \in db.ledger : \E b \in DOMAIN chain :
           e.height = StartHeight + b - 1 /\ e.tx \in ToSet(chain[b])
    /\ \A b \in DOMAIN chain : \A t \in ToSet(chain[b]) :
           Etches(t) => Recorded(db.ledger, t, StartHeight + b - 1)
    /\ UpTo(db.supply, Height - 1) /\ UpTo(db.balances, Height - 1)

\* Each block of the chain can be undone.
Undoable ==
    /\ IsList(undo)
    /\ Len(undo) = Len(chain)
    /\ \A i \in DOMAIN undo : IsTables(undo[i])
    /\ chain # <<>> => SameRows(db, Height - 1, undo[Len(chain)])
    /\ \A i \in 1..(Len(chain) - 1) : SameRows(undo[i + 1], StartHeight + i - 1, undo[i])

BInv ==
    /\ BlockOpen
    /\ EtchedSoFar
    /\ Finished
    /\ TransactionOpen
    /\ OutputLists
    /\ Bounded
    /\ LedgerOfChain
    /\ Undoable

-----------------------------------------------------------------------------
(* Rows of one height *)

\* A list holds finitely many things.
LEMMA ListFinite ==
    ASSUME NEW s, IsList(s)
    PROVE  IsFiniteSet(ToSet(s))
<1> DEFINE n == Len(s)
           f == [i \in 1..n |-> s[i]]
<1>1. n \in Nat /\ DOMAIN s = 1..n
  BY ListLength
<1> HIDE DEF n
<1>2. f \in Surjection(1..n, ToSet(s))
  BY <1>1 DEF Surjection, ToSet
<1> QED BY <1>1, <1>2, FS_NatSurjection DEF ExistsSurjection

\* Rows added at the height h leave those of other heights alone.
LEMMA InsertedAt ==
    ASSUME NEW rows, NEW new, NEW h \in Int, DOMAIN rows \subseteq DOMAIN new,
           \A x \in DOMAIN new : x \in DOMAIN rows \/ x[2] = h,
           \A x \in DOMAIN rows : x[2] # h => new[x] = rows[x],
           new = [x \in DOMAIN new |-> new[x]]
    PROVE  /\ WithoutHeight(new, h) = WithoutHeight(rows, h)
           /\ UpTo(rows, h) => UpTo(new, h)
<1>2. {x \in DOMAIN new : x[2] # h} = {x \in DOMAIN rows : x[2] # h}
  OBVIOUS
<1>3. WithoutHeight(new, h) = WithoutHeight(rows, h)
  <2>1. WithoutHeight(new, h) = [x \in {y \in DOMAIN rows : y[2] # h} |-> new[x]]
    BY <1>2 DEF WithoutHeight, Only
  <2>2. WithoutHeight(rows, h) = [x \in {y \in DOMAIN rows : y[2] # h} |-> rows[x]]
    BY DEF WithoutHeight, Only
  <2> QED BY <2>1, <2>2
<1>4. UpTo(rows, h) => UpTo(new, h)
  BY DEF UpTo
<1> QED BY <1>3, <1>4

\* So an insert into supply_changes leaves the rows of other heights alone.
LEMMA SupplyInsertedAt ==
    ASSUME NEW rows, NEW changes, NEW h \in Int
    PROVE  /\ WithoutHeight(InsertSupplyChanges(rows, changes, h), h)
                  = WithoutHeight(rows, h)
           /\ UpTo(rows, h) => UpTo(InsertSupplyChanges(rows, changes, h), h)
<1> DEFINE new == InsertSupplyChanges(rows, changes, h)
<1>1. /\ DOMAIN rows \subseteq DOMAIN new
      /\ \A x \in DOMAIN new : x \in DOMAIN rows \/ x[2] = h
  BY DEF InsertSupplyChanges
<1>2. /\ \A x \in DOMAIN rows : x[2] # h => new[x] = rows[x]
      /\ new = [x \in DOMAIN new |-> new[x]]
  BY DEF InsertSupplyChanges
<1> HIDE DEF new
<1>3. WithoutHeight(new, h) = WithoutHeight(rows, h) /\ (UpTo(rows, h) => UpTo(new, h))
  BY <1>1, <1>2, InsertedAt
<1> QED BY <1>3 DEF new

\* The same for balance_changes.
LEMMA BalancesInsertedAt ==
    ASSUME NEW rows, NEW changes, NEW h \in Int, NEW sign
    PROVE  /\ WithoutHeight(InsertBalanceChanges(rows, changes, h, sign), h)
                  = WithoutHeight(rows, h)
           /\ UpTo(rows, h) => UpTo(InsertBalanceChanges(rows, changes, h, sign), h)
<1> DEFINE new == InsertBalanceChanges(rows, changes, h, sign)
<1>1. /\ DOMAIN rows \subseteq DOMAIN new
      /\ \A x \in DOMAIN new : x \in DOMAIN rows \/ x[2] = h
  BY DEF InsertBalanceChanges
<1>2. /\ \A x \in DOMAIN rows : x[2] # h => new[x] = rows[x]
      /\ new = [x \in DOMAIN new |-> new[x]]
  BY DEF InsertBalanceChanges
<1> HIDE DEF new
<1>3. WithoutHeight(new, h) = WithoutHeight(rows, h) /\ (UpTo(rows, h) => UpTo(new, h))
  BY <1>1, <1>2, InsertedAt
<1> QED BY <1>3 DEF new

\* A flush adds rows of the block's height alone.
LEMMA FlushedAt ==
    ASSUME NEW d, NEW c, NEW h \in Int, NEW old, SameRows(d, h, old),
           UpTo(d.supply, h), UpTo(d.balances, h),
           \A i \in DOMAIN c.runes : Cleared(c.runes[i]).height = h,
           \A e \in ToSet(c.ledger) : e.height = h
    PROVE  /\ SameRows(Flush(d, c, h), h, old)
           /\ UpTo(Flush(d, c, h).supply, h) /\ UpTo(Flush(d, c, h).balances, h)
           /\ Flush(d, c, h).ledger = d.ledger \cup ToSet(c.ledger)
<1> DEFINE up   == InsertBalanceChanges(d.balances, c.increases, h, 1)
           down == InsertBalanceChanges(up, c.deductions, h, -1)
           new  == Flush(d, c, h)
<1>1. /\ new.runes = InsertRunes(d.runes, c.runes)
      /\ new.supply = InsertSupplyChanges(d.supply, c.supply, h)
      /\ new.ledger = d.ledger \cup ToSet(c.ledger)
      /\ new.balances = down
  BY DEF Flush
<1>2. WithoutHeight(down, h) = WithoutHeight(d.balances, h) /\ UpTo(down, h)
  <2>1. WithoutHeight(up, h) = WithoutHeight(d.balances, h) /\ UpTo(up, h)
    BY BalancesInsertedAt
  <2> HIDE DEF up
  <2> QED BY <2>1, BalancesInsertedAt
<1> HIDE DEF up, down, new
<1>3. {r \in new.runes : r.height # h} = {r \in d.runes : r.height # h}
  BY <1>1, InsertedRunes
<1>4. {e \in new.ledger : e.height # h} = {e \in d.ledger : e.height # h}
  BY <1>1
<1>5. WithoutHeight(new.supply, h) = WithoutHeight(d.supply, h) /\ UpTo(new.supply, h)
  BY <1>1, SupplyInsertedAt
<1>6. SameRows(new, h, old)
  BY <1>1, <1>2, <1>3, <1>4, <1>5 DEF SameRows
<1> QED BY <1>1, <1>2, <1>5, <1>6 DEF new

\* Blocks are counted.
LEMMA HeightNat == ASSUME Structure PROVE Height \in Nat /\ Len(chain) \in Nat
<1>1. chain \in Seq(Seq(Txs))
  BY DEF Structure
<1> QED BY <1>1, SizesAssumption DEF Height

\* A lookup leaves the open tables those of this block, and the ledger whole.
LEMMA OpenLookup ==
    ASSUME Structure, InBlock, Open(db_tx, db_cache), NEW f \in BOOLEAN
    PROVE  /\ Open(TablesAfter(f), RowsAfter(f))
           /\ OpenLedger(TablesAfter(f), RowsAfter(f)) = OpenLedger(db_tx, db_cache)
<1>1. CASE f = FALSE
  BY <1>1 DEF TablesAfter, RowsAfter
<1>2. CASE f = TRUE
  <2> DEFINE new == Flush(db_tx, db_cache, Height)
  <2>1. TablesAfter(f) = new /\ RowsAfter(f) = NoRows
    BY <1>2 DEF TablesAfter, RowsAfter, Structure
  <2>2. /\ SameRows(new, Height, db)
        /\ UpTo(new.supply, Height) /\ UpTo(new.balances, Height)
        /\ new.ledger = db_tx.ledger \cup ToSet(db_cache.ledger)
    BY FlushedAt, HeightNat DEF Open, InThisBlock
  <2>3. NoRows.runes = <<>> /\ NoRows.ledger = <<>>
    BY DEF NoRows
  <2> HIDE DEF new
  <2>4. IsFiniteSet(ToSet(db_cache.ledger))
    BY ListFinite DEF Open
  <2>5. IsFiniteSet(new.ledger)
    BY <2>2, <2>4, FS_Union DEF Open
  <2>6. Open(new, NoRows)
    <3>1. \A e \in new.ledger : e \in db.ledger \/ InThisBlock(e)
      BY <2>2 DEF Open
    <3> QED BY <2>2, <2>3, <2>5, <3>1, ListsOfNone DEF Open
  <2>7. OpenLedger(new, NoRows) = OpenLedger(db_tx, db_cache)
    BY <2>2, <2>3, ListsOfNone DEF OpenLedger
  <2> QED BY <2>1, <2>6, <2>7
<1> QED BY <1>1, <1>2

\* Entries that move on to the pending rows of this block.
LEMMA OpenLogged ==
    ASSUME NEW d, NEW c, Open(d, c), NEW cc, NEW l, IsList(l),
           \A e \in ToSet(l) : InThisBlock(e),
           cc.ledger = c.ledger \o l \/ (cc.ledger = c.ledger /\ l = <<>>),
           \A i \in DOMAIN cc.runes : Cleared(cc.runes[i]).height = Height
    PROVE  /\ Open(d, cc)
           /\ OpenLedger(d, cc) = OpenLedger(d, c) \cup ToSet(l)
<1>1. IsList(c.ledger)
  BY DEF Open
<1>2. IsList(cc.ledger) /\ ToSet(cc.ledger) = ToSet(c.ledger) \cup ToSet(l)
  <2>1. CASE cc.ledger = c.ledger \o l
    BY <1>1, <2>1, ListConcat
  <2>2. CASE cc.ledger = c.ledger /\ l = <<>>
    <3>1. ToSet(l) = {}
      BY <2>2, ListsOfNone
    <3> QED BY <1>1, <2>2, <3>1
  <2> QED BY <2>1, <2>2
<1>3. \A e \in ToSet(cc.ledger) : InThisBlock(e)
  BY <1>2 DEF Open
<1> QED BY <1>2, <1>3 DEF Open, OpenLedger

\* A step that inserts what is pending if f, and adds the entries l.
Writing(f, l) ==
    /\ InBlock /\ InBlock'
    /\ UNCHANGED <<block, db, chain, undo>>
    /\ db_tx'.runes = TablesAfter(f).runes
    /\ db_tx'.ledger = TablesAfter(f).ledger
    /\ db_tx'.supply = TablesAfter(f).supply
    /\ db_tx'.balances = TablesAfter(f).balances
    /\ \/ db_cache'.ledger = RowsAfter(f).ledger \o l
       \/ db_cache'.ledger = RowsAfter(f).ledger /\ l = <<>>
    /\ \/ db_cache'.runes = RowsAfter(f).runes
       \/ \E rune : /\ db_cache'.runes = Append(RowsAfter(f).runes, rune)
                    /\ Cleared(rune).height = Height

\* Such a step keeps what is open that of this block.
LEMMA WritingKeeps ==
    ASSUME Structure, BlockOpen, NEW f \in BOOLEAN, NEW l, Writing(f, l),
           IsList(l), \A e \in ToSet(l) : InThisBlock(e)
    PROVE  /\ BlockOpen'
           /\ OpenLedger(db_tx, db_cache)' = OpenLedger(db_tx, db_cache) \cup ToSet(l)
<1>1. /\ Open(TablesAfter(f), RowsAfter(f))
      /\ OpenLedger(TablesAfter(f), RowsAfter(f)) = OpenLedger(db_tx, db_cache)
  BY OpenLookup DEF BlockOpen, Writing
<1>2. RowsAfter(f).runes \in Seq(ToSet(RowsAfter(f).runes))
  BY AfterLookup
<1> DEFINE d == TablesAfter(f)
           c == RowsAfter(f)
<1>3. \A i \in DOMAIN db_cache'.runes : Cleared(db_cache'.runes[i]).height = Height
  <2>1. \A i \in DOMAIN c.runes : Cleared(c.runes[i]).height = Height
    BY <1>1 DEF Open
  <2>2. CASE db_cache'.runes = c.runes
    BY <2>1, <2>2
  <2>3. ASSUME NEW rune, db_cache'.runes = Append(c.runes, rune),
               Cleared(rune).height = Height
        PROVE  \A i \in DOMAIN db_cache'.runes : Cleared(db_cache'.runes[i]).height = Height
    BY <1>2, <2>1, <2>3, AppendRow
  <2> QED BY <2>2, <2>3 DEF Writing
<1>9. Open(d, c)
  BY <1>1
<1> HIDE DEF d, c
<1>4. db_cache'.ledger = c.ledger \o l \/ (db_cache'.ledger = c.ledger /\ l = <<>>)
  BY DEF Writing, c
<1>5. /\ Open(d, db_cache')
      /\ OpenLedger(d, db_cache') = OpenLedger(d, c) \cup ToSet(l)
  <2> SUFFICES ASSUME NEW cc, cc = db_cache'
               PROVE  Open(d, cc) /\ OpenLedger(d, cc) = OpenLedger(d, c) \cup ToSet(l)
    OBVIOUS
  <2>1. /\ \A i \in DOMAIN cc.runes : Cleared(cc.runes[i]).height = Height
        /\ cc.ledger = c.ledger \o l \/ (cc.ledger = c.ledger /\ l = <<>>)
    BY <1>3, <1>4
  <2>2. IsList(l) /\ \A e \in ToSet(l) : InThisBlock(e)
    OBVIOUS
  <2> QED BY <1>9, <2>1, <2>2, OpenLogged, SMTT(30)
<1>6. /\ d.runes = db_tx'.runes /\ d.ledger = db_tx'.ledger
      /\ d.supply = db_tx'.supply /\ d.balances = db_tx'.balances
  BY DEF Writing, d
<1>7. Height' = Height /\ db' = db /\ block' = block
  BY DEF Writing, Height
<1>8. Open(db_tx', db_cache')
  BY <1>5, <1>6 DEF Open, SameRows
<1>11. Open(db_tx, db_cache)'
  BY <1>7, <1>8 DEF Open, InThisBlock
<1>10. OpenLedger(db_tx, db_cache)' = OpenLedger(d, db_cache')
  BY <1>6 DEF OpenLedger
<1> QED BY <1>1, <1>5, <1>10, <1>11 DEF BlockOpen, c, d

\* What is committed stays as it is inside a block.
LEMMA CommittedKept ==
    ASSUME LedgerOfChain, Undoable, UNCHANGED <<db, chain, undo>>
    PROVE  LedgerOfChain' /\ Undoable'
BY DEF LedgerOfChain, Undoable, Height, Recorded, UpTo, SameRows

\* The etchings of the transactions that were passed stay recorded.
LEMMA EtchedKept ==
    ASSUME EtchedSoFar, NEW f, NEW l, Writing(f, l), LastEtched \in Int, LastEtched' \in Int,
           OpenLedger(db_tx, db_cache)' = OpenLedger(db_tx, db_cache) \cup ToSet(l),
           \A i \in 1..LastEtched' : i > LastEtched /\ Etches(block.txs[i]) =>
               Recorded(ToSet(l), block.txs[i], Height)
    PROVE  EtchedSoFar'
<1>1. Height' = Height /\ block' = block /\ InBlock
  BY DEF Writing, Height
<1>2. \A i \in 1..LastEtched' : Etches(block.txs[i]) =>
          Recorded(OpenLedger(db_tx, db_cache) \cup ToSet(l), block.txs[i], Height)
  <2> SUFFICES ASSUME NEW i \in 1..LastEtched', Etches(block.txs[i])
               PROVE  Recorded(OpenLedger(db_tx, db_cache) \cup ToSet(l), block.txs[i], Height)
    OBVIOUS
  <2>1. CASE i > LastEtched
    BY <2>1 DEF Recorded
  <2>2. CASE i \in 1..LastEtched
    <3>1. Recorded(OpenLedger(db_tx, db_cache), block.txs[i], Height)
      BY <1>1, <2>2 DEF EtchedSoFar
    <3> QED BY <3>1 DEF Recorded
  <2> QED BY <2>1, <2>2
<1> QED BY <1>1, <1>2 DEF EtchedSoFar, Recorded, Etches

-----------------------------------------------------------------------------
(* The handlers inside a transaction *)

\* A transaction that goes on is still that one.
KeptTransaction ==
    InTransaction' =>
        /\ Holds(tx_cache')
        /\ tx_cache'.location = tx_cache.location
        /\ tx_cache'.eligible_outputs = tx_cache.eligible_outputs
        /\ tx_cache'.etching = tx_cache.etching \/ tx_cache'.etching.id \in RuneKeys
        /\ stage' \in {"runestone", "etching", "mint", "edicts"} =>
               stage \in {"runestone", "etching", "mint", "edicts"}

\* The entries l record an etching at loc.
RecordedIn(l, loc) ==
    \E e \in ToSet(l) : e.op = "etching" /\ e.height = loc.height /\ e.tx = loc.tx

\* A handler that inserts what is pending if f, and adds the entries l.
Handling(f, l) ==
    /\ InTransaction
    /\ stage' \in Stages \ {"idle", "commit"}
    /\ Writing(f, l)
    /\ LogOf(tx_cache.location, l)
    /\ UNCHANGED <<pos, output_cache>>
    /\ Lists(block_output_cache')
    /\ next_edict' \in Nat \ {0}
    /\ KeptTransaction
    /\ \/ LastEtched' = LastEtched
       \/ Etches(block.txs[pos]) => RecordedIn(l, tx_cache.location)

\* The place of the transaction being indexed.
LEMMA PlaceOf ==
    ASSUME Structure, TransactionOpen, InTransaction
    PROVE  /\ tx_cache.location.height = Height
           /\ tx_cache.location.tx = block.txs[pos]
           /\ pos \in 1..Len(block.txs)
           /\ block.txs[pos] \in ToSet(block.txs) \cap Txs
           /\ InBlock
<1>1. pos \in 1..Len(block.txs) /\ block.txs \in Seq(Txs)
  <2>1. block.txs \in Seq(Txs) /\ pos \in 0..Len(block.txs) /\ pos # 0
    BY DEF Structure
  <2> QED BY <2>1
<1>2. block.txs[pos] \in ToSet(block.txs) /\ block.txs[pos] \in Txs
  BY <1>1 DEF ToSet
<1> QED BY <1>1, <1>2 DEF Structure, TransactionOpen, InTransaction, InBlock

\* Every handler keeps the invariant.
LEMMA HandlingKeeps ==
    ASSUME Structure, BInv, NEW f \in BOOLEAN, NEW l, Handling(f, l)
    PROVE  BInv'
<1>1. /\ BlockOpen /\ EtchedSoFar /\ TransactionOpen /\ OutputLists /\ Bounded
      /\ LedgerOfChain /\ Undoable /\ InTransaction
  BY DEF BInv, Handling
<1>2. /\ tx_cache.location.height = Height /\ tx_cache.location.tx = block.txs[pos]
      /\ pos \in 1..Len(block.txs) /\ block.txs[pos] \in ToSet(block.txs)
  BY <1>1, PlaceOf
<1>3. Writing(f, l) /\ IsList(l) /\ \A e \in ToSet(l) : InThisBlock(e)
  BY <1>2 DEF Handling, LogOf, InThisBlock
<1>4. /\ BlockOpen'
      /\ OpenLedger(db_tx, db_cache)' = OpenLedger(db_tx, db_cache) \cup ToSet(l)
  BY <1>1, <1>3, WritingKeeps
<1>5. EtchedSoFar'
  <2>1. pos \in Nat /\ pos' = pos
    BY <1>2, PosNat DEF Handling
  <2>2. /\ LastEtched \in {pos, pos - 1}
        /\ LastEtched' \in {pos, pos - 1}
    BY <2>1 DEF LastEtched
  <2>3. LastEtched \in Int /\ LastEtched' \in Int
    BY <2>1, <2>2
  <2>4. \A i \in 1..LastEtched' : i > LastEtched /\ Etches(block.txs[i]) =>
               Recorded(ToSet(l), block.txs[i], Height)
    <3> SUFFICES ASSUME NEW i \in 1..LastEtched', i > LastEtched, Etches(block.txs[i])
                 PROVE  Recorded(ToSet(l), block.txs[i], Height)
      OBVIOUS
    <3>1. i = pos /\ LastEtched' # LastEtched
      BY <2>1, <2>2
    <3>2. RecordedIn(l, tx_cache.location)
      BY <3>1 DEF Handling
    <3> QED BY <1>2, <3>1, <3>2 DEF Recorded, RecordedIn
  <2> QED BY <1>1, <1>3, <1>4, <2>3, <2>4, EtchedKept
<1>6. Finished'
  BY DEF Finished, Handling
<1>7. TransactionOpen'
  <2>1. /\ tx_cache.eligible_outputs = Tx.outputs
        /\ tx_cache.etching # None => tx_cache.etching.id \in RuneKeys
        /\ stage \in {"runestone", "etching", "mint", "edicts"} =>
               Artifact.kind = "runestone"
    BY <1>1 DEF TransactionOpen
  <2>2. Tx' = Tx /\ Artifact' = Artifact /\ block' = block /\ pos' = pos
    BY <1>3 DEF Tx, Artifact, Handling, Writing
  <2> SUFFICES ASSUME InTransaction'
               PROVE  /\ Holds(tx_cache')
                      /\ tx_cache'.location.tx = block'.txs[pos']
                      /\ tx_cache'.eligible_outputs = Tx'.outputs
                      /\ tx_cache'.etching # None => tx_cache'.etching.id \in RuneKeys
                      /\ stage' \in {"runestone", "etching", "mint", "edicts"} =>
                             Artifact'.kind = "runestone"
    BY DEF TransactionOpen, Holds, IsTransaction
  <2>3. KeptTransaction
    BY DEF Handling
  <2> QED BY <1>2, <2>1, <2>2, <2>3 DEF KeptTransaction
<1>8. OutputLists'
  BY <1>1 DEF OutputLists, Handling, Lists
<1>9. Bounded'
  BY <1>1 DEF Bounded, Handling, Writing
<1>10. LedgerOfChain' /\ Undoable'
  BY <1>1, <1>3, CommittedKept DEF Writing
<1> QED BY <1>4, <1>5, <1>6, <1>7, <1>8, <1>9, <1>10 DEF BInv

\* Writing a field of the pending rows leaves their ledger alone, or is it.
LEMMA LedgerFields ==
    ASSUME NEW c, IsRows(c), NEW v
    PROVE  /\ IsRows([c EXCEPT !.ledger = v]) /\ [c EXCEPT !.ledger = v].ledger = v
           /\ IsRows([c EXCEPT !.supply = v]) /\ [c EXCEPT !.supply = v].ledger = c.ledger
           /\ IsRows([c EXCEPT !.increases = v])
           /\ [c EXCEPT !.increases = v].ledger = c.ledger
           /\ IsRows([c EXCEPT !.deductions = v])
           /\ [c EXCEPT !.deductions = v].ledger = c.ledger
           /\ IsRows([c EXCEPT !.runes = v]) /\ [c EXCEPT !.runes = v].ledger = c.ledger
  BY DEF IsRows

\* Every kind of entry is appended to the ledger.
LEMMA AddedLedger ==
    ASSUME NEW rows, IsRows(rows), NEW entries, NEW rune
    PROVE  /\ AddMint(rows, entries).ledger = rows.ledger \o entries
           /\ AddMoves(rows, entries).ledger = rows.ledger \o entries
           /\ AddEtching(rows, entries, rune).ledger = rows.ledger \o entries
<1> DEFINE l  == rows.ledger \o entries
           r1 == [rows EXCEPT !.ledger = l]
<1>1. IsRows(r1) /\ r1.ledger = l
  BY LedgerFields
<1>2. AddMint(rows, entries).ledger = l
  <2> DEFINE supply == CountMint(rows.supply, entries[1].rune, entries[1].amount)
             r2     == [r1 EXCEPT !.supply = supply]
  <2>1. AddMint(rows, entries) = r2
    BY Zenon DEF AddMint
  <2> HIDE DEF r1, supply, l
  <2>2. r2.ledger = r1.ledger
    BY <1>1, LedgerFields
  <2> HIDE DEF r2
  <2> QED BY <1>1, <2>1, <2>2
<1>3. AddMoves(rows, entries).ledger = l
  <2> DEFINE supply     == CountMoves(rows.supply, entries)
             increases  == ChangeBalances(rows.increases, entries, "receive")
             deductions == ChangeBalances(rows.deductions, entries, "send")
             r2         == [r1 EXCEPT !.supply = supply]
             r3         == [r2 EXCEPT !.increases = increases]
             r4         == [r3 EXCEPT !.deductions = deductions]
  <2>1. AddMoves(rows, entries) = r4
    BY Zenon DEF AddMoves
  <2> HIDE DEF r1, supply, increases, deductions, l
  <2>2. IsRows(r2) /\ r2.ledger = r1.ledger
    BY <1>1, LedgerFields
  <2> HIDE DEF r2
  <2>3. IsRows(r3) /\ r3.ledger = r2.ledger
    BY <2>2, LedgerFields
  <2> HIDE DEF r3
  <2>4. r4.ledger = r3.ledger
    BY <2>3, LedgerFields
  <2> HIDE DEF r4
  <2> QED BY <1>1, <2>1, <2>2, <2>3, <2>4
<1>4. AddEtching(rows, entries, rune).ledger = l
  <2> DEFINE runes  == Append(rows.runes, rune)
             q1     == [rows EXCEPT !.runes = runes]
             q2     == [q1 EXCEPT !.ledger = l]
             supply == CountOperation(rows.supply, entries[1].rune)
             q3     == [q2 EXCEPT !.supply = supply]
  <2>1. AddEtching(rows, entries, rune) = q3
    <3>1. q1.ledger = rows.ledger /\ q1.supply = rows.supply
      BY DEF IsRows
    <3> QED BY <3>1, Zenon DEF AddEtching
  <2> HIDE DEF l, runes, supply
  <2>2. IsRows(q1)
    BY LedgerFields
  <2> HIDE DEF q1
  <2>3. IsRows(q2) /\ q2.ledger = l
    BY <2>2, LedgerFields
  <2> HIDE DEF q2
  <2>4. q3.ledger = q2.ledger
    BY <2>3, LedgerFields
  <2> HIDE DEF q3
  <2> QED BY <2>1, <2>3, <2>4
<1> QED BY <1>2, <1>3, <1>4 DEF l

\* What an output received is a list.
LEMMA OutputListed ==
    ASSUME NEW entries, IsFiniteSet(entries), NEW o
    PROVE  IsList(LedgerOutput(entries, o))
<1> DEFINE S == {e \in entries : e.op = "receive" /\ e.tx = o[1] /\ e.output = o[2]}
           n == Cardinality(S)
           f == BalancesOf(S)
<1>1. IsFiniteSet(S)
  BY FS_Subset
<1>2. n \in Nat
  <2> HIDE DEF S
  <2> QED BY <1>1, FS_CardinalityType
<1>3. f = [i \in 1..n |-> BalanceOf(InOrder(S, [e \in S |-> e.event])[i])]
  BY Zenon DEF BalancesOf
<1>4. LedgerOutput(entries, o) = f
  BY Zenon DEF LedgerOutput
<1> HIDE DEF n, S, f
<1>5. f = [i \in 1..n |-> f[i]]
  BY <1>3
<1> QED BY <1>2, <1>4, <1>5, ListOf

\* The outputs of the block are lists of what they received.
LEMMA ReceivedLists ==
    ASSUME NEW outputs, Lists(outputs), NEW entries, IsList(entries)
    PROVE  Lists(ReceiveOutputs(outputs, entries))
<1> DEFINE received == {e \in ToSet(entries) : e.op = "receive"}
           all == DOMAIN outputs \cup {<<e.tx, e.output>> : e \in received}
           new == ReceiveOutputs(outputs, entries)
<1>1. IsFiniteSet(received)
  <2>1. IsFiniteSet(ToSet(entries))
    BY ListFinite
  <2> QED BY <2>1, FS_Subset
<1>2. new = [k \in all |-> (IF k \in DOMAIN outputs THEN outputs[k] ELSE <<>>)
                               \o LedgerOutput(received, k)]
  BY Zenon DEF ReceiveOutputs
<1> HIDE DEF received, all, new
<1>3. ASSUME NEW k \in DOMAIN new
      PROVE  IsList(new[k])
  <2> DEFINE was == IF k \in DOMAIN outputs THEN outputs[k] ELSE <<>>
  <2>1. new[k] = was \o LedgerOutput(received, k)
    BY <1>2, <1>3
  <2>2. IsList(was)
    BY ListsOfNone DEF Lists
  <2>3. IsList(LedgerOutput(received, k))
    BY <1>1, OutputListed
  <2> HIDE DEF was
  <2> QED BY <2>1, <2>2, <2>3, ListConcat
<1> QED BY <1>3 DEF Lists, new

\* What moving runes writes.
LEMMA MovesLogged ==
    ASSUME NEW rows, NEW result, IsRows(rows), Holds(tx_cache), Lists(block_output_cache),
           LoggedBy(tx_cache, result), RecordMoves(rows, result)
    PROVE  /\ db_cache'.ledger = rows.ledger \o result.entries
           /\ db_cache'.runes = rows.runes
           /\ LogOf(tx_cache.location, result.entries)
           /\ Holds(tx_cache') /\ SameTransaction(tx_cache, tx_cache')
           /\ Lists(block_output_cache')
<1>1. /\ db_cache' = AddMoves(rows, result.entries)
      /\ block_output_cache' = ReceiveOutputs(block_output_cache, result.entries)
  BY DEF RecordMoves
<1>2. IsTransaction(tx_cache) /\ Holds(result.tc) /\ LogOf(tx_cache.location, result.entries)
  BY DEF Holds, LoggedBy
<1>3. db_cache'.ledger = rows.ledger \o result.entries /\ db_cache'.runes = rows.runes
  BY <1>1, AddedLedger, AddedRows
<1>4. Holds(tx_cache') /\ SameTransaction(tx_cache, tx_cache')
  <2> DEFINE moved == [tx_cache EXCEPT !.input_runes = result.tc.input_runes]
             event == result.tc.next_event_index
             new == [moved EXCEPT !.next_event_index = event]
  <2>1. /\ IsTransaction(moved) /\ SameTransaction(tx_cache, moved)
        /\ moved.input_runes = result.tc.input_runes
    BY <1>2, InputRunesField
  <2>2. tx_cache' = new
    BY Zenon DEF RecordMoves
  <2> HIDE DEF moved, event
  <2>3. /\ IsTransaction(new) /\ SameTransaction(moved, new)
        /\ new.input_runes = moved.input_runes
    BY <2>1, EventField
  <2> HIDE DEF new
  <2>4. SameTransaction(tx_cache, new)
    BY <2>1, <2>3 DEF SameTransaction
  <2>5. Holds(new)
    BY <1>2, <2>1, <2>3 DEF Holds
  <2> QED BY <2>2, <2>4, <2>5
<1>5. Lists(block_output_cache')
  BY <1>1, <1>2, ReceivedLists DEF LogOf
<1> QED BY <1>2, <1>3, <1>4, <1>5

\* No entry is of another transaction.
LEMMA NothingLogged == ASSUME NEW loc PROVE LogOf(loc, <<>>)
  BY ListsOfNone DEF LogOf

\* A transaction that goes on with the etching it had.
LEMMA SameKept ==
    ASSUME Holds(tx_cache'), SameTransaction(tx_cache, tx_cache'),
           stage' \in {"runestone", "etching", "mint", "edicts"} =>
               stage \in {"runestone", "etching", "mint", "edicts"}
    PROVE  KeptTransaction
BY DEF KeptTransaction, SameTransaction

\* The pointer of a runestone writes no entry.
LEMMA ApplyRunestoneWhole == Structure /\ BInv /\ ApplyRunestone => BInv'
<1> SUFFICES ASSUME Structure, BInv, ApplyRunestone
             PROVE  BInv'
  OBVIOUS
<1>1. /\ TransactionOpen /\ OutputLists /\ Bounded /\ InTransaction
  BY DEF BInv, ApplyRunestone, InTransaction
<1>2. Holds(tx_cache)
  BY <1>1 DEF TransactionOpen
<1>3. /\ Holds(tx_cache')
      /\ tx_cache'.location = tx_cache.location
      /\ tx_cache'.eligible_outputs = tx_cache.eligible_outputs
      /\ tx_cache'.etching = tx_cache.etching
  <2> DEFINE pointer == Artifact.pointer
             new == [tx_cache EXCEPT !.output_pointer = pointer]
  <2>1. CASE tx_cache' = tx_cache
    BY <1>2, <2>1
  <2>2. CASE tx_cache' = new
    <3> HIDE DEF pointer
    <3>1. /\ IsTransaction(new) /\ new.input_runes = tx_cache.input_runes
          /\ new.location = tx_cache.location
          /\ new.eligible_outputs = tx_cache.eligible_outputs
          /\ new.etching = tx_cache.etching
      BY <1>2 DEF Holds, IsTransaction
    <3> HIDE DEF new
    <3> QED BY <1>2, <2>2, <3>1 DEF Holds
  <2> QED BY <2>1, <2>2 DEF ApplyRunestone
<1>4. Writing(FALSE, <<>>)
  BY DEF Writing, ApplyRunestone, InBlock, TablesAfter, RowsAfter, history
<1>5. KeptTransaction
  BY <1>3 DEF KeptTransaction, ApplyRunestone
<1>6. LastEtched' = LastEtched
  BY DEF LastEtched, ApplyRunestone
<1>7. Handling(FALSE, <<>>)
  BY <1>1, <1>4, <1>5, <1>6, NothingLogged
     DEF Handling, ApplyRunestone, Stages, OutputLists, Lists, Bounded, caches
<1> QED BY <1>7, HandlingKeeps

\* The burn of a cenotaph's inputs writes entries of its transaction.
LEMMA ApplyCenotaphWhole == Structure /\ BInv /\ ApplyCenotaph => BInv'
<1> SUFFICES ASSUME Structure, BInv, ApplyCenotaph
             PROVE  BInv'
  OBVIOUS
<1>1. /\ TransactionOpen /\ OutputLists /\ Bounded /\ InTransaction
  BY DEF BInv, ApplyCenotaph, InTransaction
<1>2. Holds(tx_cache) /\ IsRows(db_cache)
  BY <1>1 DEF TransactionOpen, Structure
<1> DEFINE result == ApplyCenotaphInputBurn(tx_cache)
<1>3. LoggedBy(tx_cache, result)
  BY <1>2, BurnsListed
<1>4. RecordMoves(db_cache, result)
  BY DEF ApplyCenotaph
<1> HIDE DEF result
<1>5. /\ db_cache'.ledger = db_cache.ledger \o result.entries
      /\ db_cache'.runes = db_cache.runes
      /\ LogOf(tx_cache.location, result.entries)
      /\ Holds(tx_cache') /\ SameTransaction(tx_cache, tx_cache')
      /\ Lists(block_output_cache')
  BY <1>1, <1>2, <1>3, <1>4, MovesLogged DEF OutputLists
<1>6. Writing(FALSE, result.entries)
  BY <1>5 DEF Writing, ApplyCenotaph, InBlock, TablesAfter, RowsAfter, history
<1>7. KeptTransaction
  BY <1>5, SameKept DEF ApplyCenotaph
<1>8. LastEtched' = LastEtched
  BY DEF LastEtched, ApplyCenotaph
<1>9. Handling(FALSE, result.entries)
  BY <1>1, <1>5, <1>6, <1>7, <1>8
     DEF Handling, ApplyCenotaph, Stages, Bounded, caches
<1> QED BY <1>9, HandlingKeeps

\* So does allocating what is left over.
LEMMA EndTransactionWhole == Structure /\ BInv /\ EndTransaction => BInv'
<1> SUFFICES ASSUME Structure, BInv, EndTransaction
             PROVE  BInv'
  OBVIOUS
<1>1. /\ TransactionOpen /\ OutputLists /\ Bounded /\ InTransaction
  BY DEF BInv, EndTransaction, EdictsDone, InTransaction
<1>2. Holds(tx_cache) /\ IsRows(db_cache)
  BY <1>1 DEF TransactionOpen, Structure
<1> DEFINE result == AllocateRemainingBalances(tx_cache)
<1>3. LoggedBy(tx_cache, result)
  BY <1>2, RemainingListed DEF AllocateRemainingBalances
<1>4. RecordMoves(db_cache, result)
  BY DEF EndTransaction
<1> HIDE DEF result
<1>5. /\ db_cache'.ledger = db_cache.ledger \o result.entries
      /\ db_cache'.runes = db_cache.runes
      /\ LogOf(tx_cache.location, result.entries)
      /\ Holds(tx_cache') /\ SameTransaction(tx_cache, tx_cache')
      /\ Lists(block_output_cache')
  BY <1>1, <1>2, <1>3, <1>4, MovesLogged DEF OutputLists
<1>6. Writing(FALSE, result.entries)
  BY <1>1, <1>5 DEF Writing, EndTransaction, InBlock, InTransaction, TablesAfter, RowsAfter,
                    history
<1>7. KeptTransaction
  BY DEF KeptTransaction, InTransaction, EndTransaction
<1>8. LastEtched' = LastEtched
  BY DEF LastEtched, EndTransaction, EdictsDone
<1>9. Handling(FALSE, result.entries)
  BY <1>1, <1>5, <1>6, <1>7, <1>8
     DEF Handling, EndTransaction, Stages, Bounded, caches
<1> QED BY <1>9, HandlingKeeps

\* An edict may flush, and writes entries of its transaction.
LEMMA EdictWhole == IInv /\ BInv /\ Edict => BInv'
<1> SUFFICES ASSUME IInv, BInv, Edict
             PROVE  BInv'
  OBVIOUS
<1>1. /\ TransactionOpen /\ OutputLists /\ Bounded /\ InTransaction /\ Structure
  BY DEF BInv, Edict, InTransaction, IInv
<1>2. /\ Holds(tx_cache)
      /\ tx_cache.eligible_outputs = Tx.outputs
      /\ tx_cache.etching # None => tx_cache.etching.id \in RuneKeys
      /\ Artifact.kind = "runestone"
  BY <1>1 DEF TransactionOpen, Edict
<1> DEFINE edict == Artifact.edicts[next_edict]
           result == ApplyEdict(tx_cache, edict)
<1>3. block.txs[pos] \in Txs
  BY <1>1, PlaceOf
<1>4. edict.id \in RuneKeys
  <2>1. Artifact.edicts \in Seq([id : RuneKeys, amount : Nat, output : Nat])
    BY <1>2, <1>3, ArtifactAssumption DEF Artifact, Tx
  <2>2. next_edict \in 1..Len(Artifact.edicts)
    BY <1>1, <2>1 DEF Bounded, Edict
  <2>3. ASSUME NEW S, NEW s \in Seq(S), NEW i \in 1..Len(s)
        PROVE  s[i] \in S
    BY <2>3
  <2>4. Artifact.edicts[next_edict] \in [id : RuneKeys, amount : Nat, output : Nat]
    BY <2>1, <2>2, <2>3
  <2> QED BY <2>4
<1>5. IsFiniteSet(DOMAIN tx_cache.eligible_outputs)
  BY <1>2, <1>3, OutputsAssumption DEF Tx
<1>6. MovesHeld(tx_cache, edict)
  BY <1>2, <1>4 DEF MovesHeld
<1>7. LoggedBy(tx_cache, result)
  <2> HIDE DEF edict
  <2> QED BY <1>2, <1>5, <1>6, EdictListed
<1>8. PICK found \in FindRune(edict.id) :
          /\ db_tx' = TablesAfter(found.flushed)
          /\ \/ /\ db_cache' = RowsAfter(found.flushed)
                /\ UNCHANGED <<tx_cache, block_output_cache>>
             \/ RecordMoves(RowsAfter(found.flushed), result)
  BY Zenon DEF Edict
<1> HIDE DEF edict, result
<1>9. found.flushed \in BOOLEAN
  BY FoundRune
<1> DEFINE f == found.flushed
<1>10. IsRows(RowsAfter(f))
  BY <1>1, <1>9, AfterLookup
<1> HIDE DEF f
<1>11. \E l : /\ \/ db_cache'.ledger = RowsAfter(f).ledger \o l
                 \/ db_cache'.ledger = RowsAfter(f).ledger /\ l = <<>>
              /\ db_cache'.runes = RowsAfter(f).runes
              /\ LogOf(tx_cache.location, l)
              /\ Holds(tx_cache') /\ SameTransaction(tx_cache, tx_cache')
              /\ Lists(block_output_cache')
  <2>1. CASE db_cache' = RowsAfter(f) /\ UNCHANGED <<tx_cache, block_output_cache>>
    BY <1>1, <1>2, <2>1, NothingLogged DEF SameTransaction, OutputLists
  <2>2. CASE RecordMoves(RowsAfter(f), result)
    BY <1>1, <1>2, <1>7, <1>10, <2>2, MovesLogged DEF OutputLists
  <2> QED BY <1>8, <2>1, <2>2 DEF f
<1>12. PICK l : /\ \/ db_cache'.ledger = RowsAfter(f).ledger \o l
                   \/ db_cache'.ledger = RowsAfter(f).ledger /\ l = <<>>
                /\ db_cache'.runes = RowsAfter(f).runes
                /\ LogOf(tx_cache.location, l)
                /\ Holds(tx_cache') /\ SameTransaction(tx_cache, tx_cache')
                /\ Lists(block_output_cache')
  BY <1>11
<1>13. Writing(f, l)
  <2>1. /\ db_tx' = TablesAfter(f) /\ UNCHANGED <<block, db, chain, undo>>
        /\ InBlock /\ InBlock'
    BY <1>8 DEF Edict, InBlock, f, history
  <2> QED BY <1>12, <2>1 DEF Writing
<1>14. KeptTransaction
  BY <1>12, SameKept DEF Edict
<1>15. LastEtched' = LastEtched
  BY DEF LastEtched, Edict
<1>16. next_edict' \in Nat \ {0}
  BY <1>1 DEF Edict, Bounded
<1>17. Handling(f, l)
  BY <1>1, <1>12, <1>13, <1>14, <1>15, <1>16 DEF Handling, Edict, Stages
<1> QED BY <1>1, <1>9, <1>17, HandlingKeeps DEF f

\* What a mint of either kind logs.
MintLogged ==
    \E f \in BOOLEAN : \E l :
        /\ db_tx' = TablesAfter(f)
        /\ \/ db_cache'.ledger = RowsAfter(f).ledger \o l
           \/ db_cache'.ledger = RowsAfter(f).ledger /\ l = <<>>
        /\ db_cache'.runes = RowsAfter(f).runes
        /\ LogOf(tx_cache.location, l)
        /\ Holds(tx_cache') /\ SameTransaction(tx_cache, tx_cache')

\* What is written of a mint once its rune and its count were found.
LEMMA MintAdds ==
    ASSUME IInv, Holds(tx_cache), NEW f \in BOOLEAN, NEW result,
           LoggedBy(tx_cache, result), db_tx' = TablesAfter(f), tx_cache' = result.tc,
           db_cache' = AddMint(RowsAfter(f), result.entries)
               \/ db_cache' = AddMoves(RowsAfter(f), result.entries)
    PROVE  MintLogged
<1>1. IsRows(RowsAfter(f))
  BY AfterLookup DEF IInv
<1>2. /\ db_cache'.ledger = RowsAfter(f).ledger \o result.entries
      /\ db_cache'.runes = RowsAfter(f).runes
  <2> DEFINE rows == RowsAfter(f)
             es   == result.entries
  <2>1. db_cache' = AddMint(rows, es) \/ db_cache' = AddMoves(rows, es)
    OBVIOUS
  <2>2. IsRows(rows)
    BY <1>1
  <2> HIDE DEF rows, es
  <2>3. AddMint(rows, es).ledger = rows.ledger \o es /\ AddMoves(rows, es).ledger = rows.ledger \o es
    BY <2>2, AddedLedger
  <2>4. AddMint(rows, es).runes = rows.runes /\ AddMoves(rows, es).runes = rows.runes
    BY <2>2, AddedRows
  <2>5. db_cache'.ledger = rows.ledger \o es /\ db_cache'.runes = rows.runes
    BY <2>1, <2>3, <2>4
  <2> QED
    BY <2>5 DEF rows, es
<1>3. /\ LogOf(tx_cache.location, result.entries)
      /\ Holds(tx_cache') /\ SameTransaction(tx_cache, tx_cache')
  BY DEF LoggedBy
<1> QED BY <1>2, <1>3 DEF MintLogged

\* A mint that writes nothing may still have flushed.
LEMMA MintSkips ==
    ASSUME Holds(tx_cache), NEW f \in BOOLEAN, db_tx' = TablesAfter(f),
           db_cache' = RowsAfter(f), tx_cache' = tx_cache
    PROVE  MintLogged
BY NothingLogged DEF MintLogged, SameTransaction

\* Both mint handlers log their entry or nothing.
LEMMA MintLogs ==
    ASSUME IInv, Holds(tx_cache), Mint \/ CenotaphMint
    PROVE  MintLogged
<1>1. CASE NothingMinted
  <2>1. db_tx' = TablesAfter(FALSE) /\ db_cache' = RowsAfter(FALSE) /\ tx_cache' = tx_cache
    BY <1>1 DEF NothingMinted, TablesAfter, RowsAfter
  <2> QED BY <2>1, MintSkips
<1>2. CASE MintWith(ApplyMint, AddMint)
  <2>1. PICK found \in FindRune(Artifact.mint) :
          \/ /\ db_tx' = TablesAfter(found.flushed)
             /\ db_cache' = RowsAfter(found.flushed)
             /\ tx_cache' = tx_cache
          \/ \E counted \in FindTotalMints(Artifact.mint) :
             /\ db_tx' = TablesAfter(found.flushed \/ counted.flushed)
             /\ \/ /\ tx_cache' = ApplyMint(tx_cache, Artifact.mint, found.rune).tc
                   /\ db_cache' = AddMint(RowsAfter(found.flushed \/ counted.flushed),
                              ApplyMint(tx_cache, Artifact.mint, found.rune).entries)
                \/ /\ db_cache' = RowsAfter(found.flushed \/ counted.flushed)
                   /\ tx_cache' = tx_cache
    BY <1>2, Zenon DEF MintWith
  <2>2. found.flushed \in BOOLEAN
    BY FoundRune
  <2>3. CASE /\ db_tx' = TablesAfter(found.flushed)
             /\ db_cache' = RowsAfter(found.flushed)
             /\ tx_cache' = tx_cache
    BY <2>2, <2>3, MintSkips
  <2>4. ASSUME NEW counted \in FindTotalMints(Artifact.mint),
               db_tx' = TablesAfter(found.flushed \/ counted.flushed),
               \/ /\ tx_cache' = ApplyMint(tx_cache, Artifact.mint, found.rune).tc
                  /\ db_cache' = AddMint(RowsAfter(found.flushed \/ counted.flushed),
                             ApplyMint(tx_cache, Artifact.mint, found.rune).entries)
               \/ /\ db_cache' = RowsAfter(found.flushed \/ counted.flushed)
                  /\ tx_cache' = tx_cache
        PROVE  MintLogged
    <3> DEFINE f == found.flushed \/ counted.flushed
               result == ApplyMint(tx_cache, Artifact.mint, found.rune)
    <3>1. f \in BOOLEAN
      OBVIOUS
    <3>2. LoggedBy(tx_cache, result)
      BY MintListed
    <3>3. \/ db_tx' = TablesAfter(f) /\ db_cache' = RowsAfter(f) /\ tx_cache' = tx_cache
          \/ /\ db_tx' = TablesAfter(f) /\ tx_cache' = result.tc
             /\ db_cache' = AddMint(RowsAfter(f), result.entries)
      BY <2>4
    <3> HIDE DEF f, result
    <3> QED BY <3>1, <3>2, <3>3, MintAdds, MintSkips
  <2> QED BY <2>1, <2>3, <2>4
<1>3. CASE MintWith(ApplyCenotaphMint, AddMoves)
  <2>1. PICK found \in FindRune(Artifact.mint) :
          \/ /\ db_tx' = TablesAfter(found.flushed)
             /\ db_cache' = RowsAfter(found.flushed)
             /\ tx_cache' = tx_cache
          \/ \E counted \in FindTotalMints(Artifact.mint) :
             /\ db_tx' = TablesAfter(found.flushed \/ counted.flushed)
             /\ \/ /\ tx_cache' = ApplyCenotaphMint(tx_cache, Artifact.mint, found.rune).tc
                   /\ db_cache' = AddMoves(RowsAfter(found.flushed \/ counted.flushed),
                              ApplyCenotaphMint(tx_cache, Artifact.mint, found.rune).entries)
                \/ /\ db_cache' = RowsAfter(found.flushed \/ counted.flushed)
                   /\ tx_cache' = tx_cache
    BY <1>3, Zenon DEF MintWith
  <2>2. found.flushed \in BOOLEAN
    BY FoundRune
  <2>3. CASE /\ db_tx' = TablesAfter(found.flushed)
             /\ db_cache' = RowsAfter(found.flushed)
             /\ tx_cache' = tx_cache
    BY <2>2, <2>3, MintSkips
  <2>4. ASSUME NEW counted \in FindTotalMints(Artifact.mint),
               db_tx' = TablesAfter(found.flushed \/ counted.flushed),
               \/ /\ tx_cache' = ApplyCenotaphMint(tx_cache, Artifact.mint, found.rune).tc
                  /\ db_cache' = AddMoves(RowsAfter(found.flushed \/ counted.flushed),
                             ApplyCenotaphMint(tx_cache, Artifact.mint, found.rune).entries)
               \/ /\ db_cache' = RowsAfter(found.flushed \/ counted.flushed)
                  /\ tx_cache' = tx_cache
        PROVE  MintLogged
    <3> DEFINE f == found.flushed \/ counted.flushed
               result == ApplyCenotaphMint(tx_cache, Artifact.mint, found.rune)
    <3>1. f \in BOOLEAN
      OBVIOUS
    <3>2. LoggedBy(tx_cache, result)
      BY CenotaphMintListed
    <3>3. \/ db_tx' = TablesAfter(f) /\ db_cache' = RowsAfter(f) /\ tx_cache' = tx_cache
          \/ /\ db_tx' = TablesAfter(f) /\ tx_cache' = result.tc
             /\ db_cache' = AddMoves(RowsAfter(f), result.entries)
      BY <2>4
    <3> HIDE DEF f, result
    <3> QED BY <3>1, <3>2, <3>3, MintAdds, MintSkips
  <2> QED BY <2>1, <2>3, <2>4
<1> QED BY <1>1, <1>2, <1>3 DEF Mint, CenotaphMint

\* A mint of either kind logs its entry.
LEMMA MintWhole == IInv /\ BInv /\ (Mint \/ CenotaphMint) => BInv'
<1> SUFFICES ASSUME IInv, BInv, Mint \/ CenotaphMint
             PROVE  BInv'
  OBVIOUS
<1>1. /\ TransactionOpen /\ OutputLists /\ Bounded /\ InTransaction /\ Structure
  BY DEF BInv, Mint, CenotaphMint, InTransaction, IInv
<1>2. Holds(tx_cache)
  BY <1>1 DEF TransactionOpen
<1>2a. PICK f \in BOOLEAN : \E l :
        /\ db_tx' = TablesAfter(f)
        /\ \/ db_cache'.ledger = RowsAfter(f).ledger \o l
           \/ db_cache'.ledger = RowsAfter(f).ledger /\ l = <<>>
        /\ db_cache'.runes = RowsAfter(f).runes
        /\ LogOf(tx_cache.location, l)
        /\ Holds(tx_cache') /\ SameTransaction(tx_cache, tx_cache')
  BY <1>2, MintLogs DEF MintLogged
<1>3. PICK l :
        /\ db_tx' = TablesAfter(f)
        /\ \/ db_cache'.ledger = RowsAfter(f).ledger \o l
           \/ db_cache'.ledger = RowsAfter(f).ledger /\ l = <<>>
        /\ db_cache'.runes = RowsAfter(f).runes
        /\ LogOf(tx_cache.location, l)
        /\ Holds(tx_cache') /\ SameTransaction(tx_cache, tx_cache')
  BY <1>2a
<1>4. /\ UNCHANGED <<block, db, chain, undo, pos, output_cache, block_output_cache>>
      /\ next_edict' = next_edict \/ next_edict' = 1
      /\ \/ stage = "mint" /\ stage' = "edicts"
         \/ stage = "cenotaph mint" /\ stage' = "end"
  BY DEF Mint, CenotaphMint, history
<1>5. Writing(f, l)
  BY <1>3, <1>4 DEF Writing, InBlock
<1>6. KeptTransaction
  BY <1>3, <1>4, SameKept
<1>7. LastEtched' = LastEtched
  BY <1>4 DEF LastEtched
<1>8. Lists(block_output_cache') /\ next_edict' \in Nat \ {0}
  <2>1. Lists(block_output_cache)
    BY <1>1 DEF OutputLists
  <2>2. next_edict \in Nat \ {0}
    BY <1>1 DEF Bounded
  <2>3. Lists(block_output_cache')
    BY <1>4, <2>1
  <2>4. next_edict' \in Nat \ {0}
    <3>1. next_edict' = next_edict \/ next_edict' = 1
      BY <1>4
    <3> QED BY <2>2, <3>1
  <2> QED BY <2>3, <2>4
<1>9. stage' \in Stages \ {"idle", "commit"}
  BY <1>4 DEF Stages
<1>10. Handling(f, l)
  BY <1>1, <1>3, <1>4, <1>5, <1>6, <1>7, <1>8, <1>9 DEF Handling
<1> QED BY <1>1, <1>10, HandlingKeeps

\* The id of a rune is the place of its etching.
LEMMA EtchedId ==
    ASSUME Structure, BInv, InTransaction
    PROVE  RuneIdOf(tx_cache.location) \in RuneKeys
<1>1. /\ TransactionOpen /\ Bounded
  BY DEF BInv
<1>2. /\ tx_cache.location.height = Height /\ tx_cache.location.index = pos
      /\ pos \in 1..Len(block.txs) /\ InBlock
  BY <1>1, PlaceOf DEF Structure
<1>3. Len(chain) < MaxBlocks /\ Len(block.txs) <= MaxBlockTxs
  BY <1>1, <1>2 DEF Bounded
<1>4. Len(block.txs) \in Nat /\ Len(chain) \in Nat
  BY HeightNat DEF Structure
<1>5. pos \in 1..MaxBlockTxs
  BY <1>2, <1>3, <1>4, PlacesAssumption
<1>6. Height \in StartHeight..(StartHeight + MaxBlocks - 1)
  BY <1>3, <1>4, PlacesAssumption, SizesAssumption DEF Height
<1>7. <<Height, pos>> \in RuneIds
  BY <1>5, <1>6, PlacesAssumption
<1> QED BY <1>2, <1>7 DEF RuneIdOf, RuneKeys

\* An etching of either kind writes its entry.
LEMMA RecordedEtching ==
    ASSUME Structure, BInv, InTransaction, NEW res, EtchesAt(tx_cache, res),
           Cleared(res.tc.etching).height = tx_cache.location.height, RecordEtching(res),
           stage' \in {"mint", "cenotaph mint"}, stage' = "mint" => stage = "etching",
           UNCHANGED <<output_cache, block_output_cache, db_tx, db, block, pos, next_edict,
                       history>>
    PROVE  BInv'
<1>1. /\ TransactionOpen /\ OutputLists /\ Bounded
  BY DEF BInv
<1> DEFINE rune == res.tc.etching
<1>2. /\ tx_cache' = res.tc
      /\ db_cache' = AddEtching(db_cache, res.entries, rune)
  BY DEF RecordEtching
<1>3. /\ Holds(res.tc)
      /\ LogOf(tx_cache.location, res.entries)
      /\ RecordedIn(res.entries, tx_cache.location)
      /\ res.tc.location = tx_cache.location
      /\ res.tc.eligible_outputs = tx_cache.eligible_outputs
      /\ rune.id = RuneIdOf(tx_cache.location)
  BY DEF EtchesAt, Writes, RecordedIn
<1>4. tx_cache'.etching.id \in RuneKeys
  BY <1>2, <1>3, EtchedId
<1>5. Cleared(rune).height = Height
  BY <1>1, PlaceOf
<1>6. Writing(FALSE, res.entries)
  <2>1. TablesAfter(FALSE) = db_tx /\ RowsAfter(FALSE) = db_cache
    BY DEF TablesAfter, RowsAfter
  <2>2. /\ db_cache'.ledger = db_cache.ledger \o res.entries
        /\ db_cache'.runes = Append(db_cache.runes, rune)
    <3> HIDE DEF rune
    <3>1. IsRows(db_cache)
      BY DEF Structure
    <3> QED BY <1>2, <3>1, AddedLedger, AddedEtching
  <2>3. InBlock /\ InBlock' /\ UNCHANGED <<block, db, chain, undo, db_tx>>
    BY DEF InBlock, InTransaction, history
  <2> HIDE DEF rune
  <2> QED BY <1>5, <2>1, <2>2, <2>3 DEF Writing
<1>7. KeptTransaction
  BY <1>2, <1>3, <1>4 DEF KeptTransaction
<1>8. next_edict' \in Nat \ {0} /\ Lists(block_output_cache')
  BY <1>1 DEF OutputLists, Bounded, Lists
<1>9. Handling(FALSE, res.entries)
  BY <1>1, <1>3, <1>6, <1>7, <1>8 DEF Handling, Stages
<1> QED BY <1>9, HandlingKeeps

\* A transaction that etches nothing goes on.
LEMMA UnetchedWhole ==
    ASSUME Structure, BInv, InTransaction, NothingEtched,
           stage' \in {"mint", "cenotaph mint"}, stage' = "mint" => stage = "etching",
           UNCHANGED <<output_cache, block_output_cache, db_tx, db, block, pos, next_edict,
                       history>>
    PROVE  BInv'
<1>1. /\ TransactionOpen /\ OutputLists /\ Bounded
  BY DEF BInv
<1>2. tx_cache' = tx_cache /\ db_cache' = db_cache /\ Holds(tx_cache)
  BY <1>1 DEF NothingEtched, TransactionOpen
<1>3. Writing(FALSE, <<>>)
  <2>1. TablesAfter(FALSE) = db_tx /\ RowsAfter(FALSE) = db_cache
    BY DEF TablesAfter, RowsAfter
  <2>2. InBlock /\ InBlock' /\ UNCHANGED <<block, db, chain, undo, db_tx>>
    BY DEF InBlock, InTransaction, history
  <2> QED BY <1>2, <2>1, <2>2 DEF Writing
<1>4. KeptTransaction
  BY <1>2 DEF KeptTransaction
<1>5. next_edict' \in Nat \ {0} /\ Lists(block_output_cache')
  BY <1>1 DEF OutputLists, Bounded, Lists
<1>6. ~Etches(block.txs[pos])
  BY DEF NothingEtched, Etches, Artifact, Tx
<1>7. stage' \in Stages \ {"idle", "commit"}
  BY DEF Stages
<1>8. Handling(FALSE, <<>>)
  BY <1>3, <1>4, <1>5, <1>6, <1>7, NothingLogged DEF Handling
<1> QED BY <1>8, HandlingKeeps

\* A runestone's etching is recorded.
LEMMA EtchingWhole == Structure /\ BInv /\ Etching => BInv'
<1> SUFFICES ASSUME Structure, BInv, Etching
             PROVE  BInv'
  OBVIOUS
<1>1. /\ stage = "etching" /\ stage' = "mint" /\ InTransaction
      /\ UNCHANGED <<output_cache, block_output_cache, db_tx, db, block, pos, next_edict,
                     history>>
  BY DEF Etching, InTransaction
<1>2. CASE NothingEtched
  BY <1>1, <1>2, UnetchedWhole
<1>3. CASE RecordEtching(ApplyEtching(tx_cache, Artifact.etching, next_rune_number))
  <2> DEFINE res == ApplyEtching(tx_cache, Artifact.etching, next_rune_number)
  <2>1. Holds(tx_cache) /\ IsTransaction(tx_cache)
    BY <1>1 DEF BInv, TransactionOpen, Holds
  <2>2. EtchesAt(tx_cache, res)
    BY <2>1, EtchingListed
  <2>3. Cleared(res.tc.etching).height = tx_cache.location.height
    BY <2>1, EtchingKeeps, EtchedRow
  <2> HIDE DEF res
  <2> QED BY <1>1, <1>3, <2>2, <2>3, RecordedEtching DEF res
<1> QED BY <1>2, <1>3 DEF Etching

\* So is a cenotaph's.
LEMMA CenotaphEtchingWhole == Structure /\ BInv /\ CenotaphEtching => BInv'
<1> SUFFICES ASSUME Structure, BInv, CenotaphEtching
             PROVE  BInv'
  OBVIOUS
<1>1. /\ stage = "cenotaph etching" /\ stage' = "cenotaph mint" /\ InTransaction
      /\ UNCHANGED <<output_cache, block_output_cache, db_tx, db, block, pos, next_edict,
                     history>>
  BY DEF CenotaphEtching, InTransaction
<1>2. CASE NothingEtched
  BY <1>1, <1>2, UnetchedWhole
<1>3. CASE RecordEtching(ApplyCenotaphEtching(tx_cache, Artifact.etching,
                                              next_rune_number))
  <2> DEFINE res == ApplyCenotaphEtching(tx_cache, Artifact.etching, next_rune_number)
  <2>1. Holds(tx_cache) /\ IsTransaction(tx_cache)
    BY <1>1 DEF BInv, TransactionOpen, Holds
  <2>2. EtchesAt(tx_cache, res)
    BY <2>1, CenotaphEtchingListed
  <2>3. Cleared(res.tc.etching).height = tx_cache.location.height
    BY <2>1, EtchingKeeps, EtchedRow
  <2> HIDE DEF res
  <2> QED BY <1>1, <1>3, <2>2, <2>3, RecordedEtching DEF res
<1> QED BY <1>2, <1>3 DEF CenotaphEtching

-----------------------------------------------------------------------------
(* What a transaction starts with *)

\* The rounds of Found.
Finds(b, n, h) ==
    /\ h[0] = <<>>
    /\ \A k \in 1..n : h[k] = h[k - 1] \o FindOutput(b[k])

\* Found runs through its rounds.
LEMMA FoundTrace ==
    ASSUME NEW b, NEW n \in Nat, DOMAIN b = 1..n
    PROVE  \E h : Finds(b, n, h) /\ Found(b) = h[n]
<1> DEFINE S == (1..n)
           base == <<>>
           Op(x, y) == y \o FindOutput(b[x])
           Ch(s) == Max(s)
           iter == CHOOSE g : g = [s \in SUBSET S |->
                      IF s = {} THEN base ELSE Op(Ch(s), g[s \ {Ch(s)}])]
<1>1. Found(b) = iter[S]
  BY Zenon DEF Found, FoldLeft, MapThenFoldSet
<1> HIDE DEF base, Op
<1>2. \A s \in SUBSET S : IsFiniteSet(s) /\ Cardinality(s) \in Nat
  <2>1. IsFiniteSet(S)
    BY FS_Interval
  <2> QED
    BY <2>1, FS_Subset, FS_CardinalityType
<1>3. ASSUME NEW s \in SUBSET S, s # {}
      PROVE  Ch(s) \in s
  <2>1. s \subseteq Nat /\ \A i \in s : i <= n
    OBVIOUS
  <2>2. n \in Int
    OBVIOUS
  <2> QED
    BY <1>3, <2>1, <2>2, MaxNatural
<1> HIDE DEF Ch, S
<1>4. \A s \in SUBSET S : s # {} => Cardinality(s \ {Ch(s)}) = Cardinality(s) - 1
  BY <1>2, <1>3, FS_RemoveElement
<1>5. \A s \in SUBSET S : Cardinality(s) = 0 <=> s = {}
  BY <1>2, FS_EmptySet
<1> DEFINE Eq(g, s) == g[s] = IF s = {} THEN base ELSE Op(Ch(s), g[s \ {Ch(s)}])
           Solved(k) == \E g : \A s \in SUBSET S : Cardinality(s) <= k => Eq(g, s)
           good == {k \in Nat : Solved(k)}
<1>6. 0 \in good
  <2> DEFINE h == [s \in SUBSET S |-> base]
  <2>1. \A s \in SUBSET S : Cardinality(s) <= 0 => Eq(h, s)
    BY <1>2, <1>5
  <2> HIDE DEF h
  <2> QED
    BY <2>1
<1>7. ASSUME NEW k \in Nat, k \in good
      PROVE  k + 1 \in good
  <2>1. PICK g : \A s \in SUBSET S : Cardinality(s) <= k => Eq(g, s)
    BY <1>7
  <2> DEFINE h == [s \in SUBSET S |-> IF Cardinality(s) <= k THEN g[s]
                                      ELSE Op(Ch(s), g[s \ {Ch(s)}])]
  <2>2. ASSUME NEW s \in SUBSET S, Cardinality(s) <= k + 1
        PROVE  Eq(h, s)
    <3>1. CASE s = {}
      <4>1. Cardinality(s) <= k /\ h[s] = g[s]
        BY <1>5, <3>1
      <4> QED
        BY <2>1, <3>1, <4>1
    <3>2. CASE s # {}
      <4>1. s \ {Ch(s)} \in SUBSET S /\ Cardinality(s \ {Ch(s)}) <= k
        BY <1>2, <1>4, <2>2, <3>2
      <4>2. h[s \ {Ch(s)}] = g[s \ {Ch(s)}]
        BY <4>1
      <4>3. h[s] = Op(Ch(s), g[s \ {Ch(s)}])
        BY <2>1, <3>2
      <4> QED
        BY <3>2, <4>2, <4>3
    <3> QED
      BY <3>1, <3>2
  <2> HIDE DEF h, Eq
  <2>3. Solved(k + 1)
    BY <2>2
  <2> HIDE DEF Solved
  <2> QED
    BY <2>3
<1>8. Cardinality(S) \in good
  <2> HIDE DEF good
  <2>1. Nat \subseteq good
    BY <1>6, <1>7, NatGrows
  <2>2. Cardinality(S) \in Nat
    BY <1>2
  <2> QED
    BY <2>1, <2>2
<1>9. PICK f : \A s \in SUBSET S : Eq(f, s)
  <2>1. PICK f : \A s \in SUBSET S : Cardinality(s) <= Cardinality(S) => Eq(f, s)
    BY <1>8
  <2>2. \A s \in SUBSET S : Cardinality(s) <= Cardinality(S)
    BY <1>2, FS_Subset
  <2> QED
    BY <2>1, <2>2
<1>10. iter = [s \in SUBSET S |->
                      IF s = {} THEN base ELSE Op(Ch(s), iter[s \ {Ch(s)}])]
  <2> DEFINE h == [s \in SUBSET S |-> f[s]]
  <2>1. h = [s \in SUBSET S |->
                      IF s = {} THEN base ELSE Op(Ch(s), h[s \ {Ch(s)}])]
    BY <1>9
  <2> HIDE DEF h
  <2> QED
    BY <2>1
<1> HIDE DEF iter
<1>11. iter[{}] = base
  BY <1>10
<1>12. \A s \in SUBSET S : s # {} => Ch(s) \in s /\ iter[s] = Op(Ch(s), iter[s \ {Ch(s)}])
  BY <1>3, <1>10
<1> DEFINE h == [k \in 0..n |-> iter[1..k]]
<1>13. h[0] = <<>>
  <2>1. 1..0 = {}
    OBVIOUS
  <2> QED
    BY <1>11, <2>1 DEF base
<1>14. ASSUME NEW k \in 1..n
       PROVE  h[k] = h[k - 1] \o FindOutput(b[k])
  <2>1. 1..k \in SUBSET S /\ 1..k # {}
    <3>1. k \in 1..k /\ \A i \in 1..k : i \in 1..n
      OBVIOUS
    <3> QED
      BY <3>1 DEF S
  <2>2. Ch(1..k) = k /\ (1..k) \ {k} = 1..(k - 1)
    BY MaxOfFirst DEF Ch
  <2>3. iter[1..k] = Op(k, iter[1..(k - 1)])
    BY <1>12, <2>1, <2>2
  <2>4. h[k] = iter[1..k] /\ h[k - 1] = iter[1..(k - 1)]
    OBVIOUS
  <2> QED
    BY <2>3, <2>4 DEF Op
<1>15. h[n] = iter[S]
  BY DEF S
<1> HIDE DEF h
<1> QED
  BY <1>1, <1>13, <1>14, <1>15 DEF Finds

\* An output is found to hold a list.
LEMMA OutputFound ==
    ASSUME OutputLists, IsFiniteSet(db_tx.ledger), NEW o
    PROVE  IsList(FindOutput(o))
<1>1. IsList(LedgerOutput(db_tx.ledger, o))
  BY OutputListed
<1> QED BY <1>1 DEF FindOutput, OutputLists, Lists

\* So are all the inputs of a transaction.
LEMMA InputsFound ==
    ASSUME OutputLists, IsFiniteSet(db_tx.ledger), NEW b, IsList(b)
    PROVE  IsList(Found(b))
<1> DEFINE n == Len(b)
<1>1. n \in Nat /\ DOMAIN b = 1..n
  BY ListLength
<1> HIDE DEF n
<1>2. PICK h : Finds(b, n, h) /\ Found(b) = h[n]
  BY <1>1, FoundTrace
<1> DEFINE good == {k \in Nat : k <= n => IsList(h[k])}
<1>3. 0 \in good
  BY <1>2, ListsOfNone DEF Finds
<1>4. ASSUME NEW k \in Nat, k \in good
      PROVE  k + 1 \in good
  <2>1. CASE k + 1 <= n
    <3>1. IsList(h[k]) /\ k + 1 \in 1..n /\ (k + 1) - 1 = k
      BY <1>1, <1>4, <2>1
    <3>2. h[k + 1] = h[k] \o FindOutput(b[k + 1])
      BY <1>2, <3>1 DEF Finds
    <3> HIDE DEF good
    <3>3. IsList(FindOutput(b[k + 1]))
      BY OutputFound
    <3>4. IsList(h[k + 1])
      BY <3>1, <3>2, <3>3, ListConcat
    <3> QED BY <3>4 DEF good
  <2>2. CASE ~(k + 1 <= n)
    BY <2>2
  <2> QED BY <2>1, <2>2
<1>5. Nat \subseteq good
  <2> HIDE DEF good
  <2> QED BY <1>3, <1>4, NatGrows
<1>6. n \in good
  BY <1>1, <1>5
<1>7. n <= n
  BY <1>1
<1> QED BY <1>2, <1>6, <1>7

\* The input runes of a transaction are lists.
LEMMA InputsListed ==
    ASSUME OutputLists, IsFiniteSet(db_tx.ledger), NEW b, IsList(b)
    PROVE  /\ InputRunes(b) = [r \in RuneKeys |-> InputRunes(b)[r]]
           /\ \A r \in RuneKeys : IsList(InputRunes(b)[r])
<1> DEFINE found == Found(b)
           Of(r) == {i \in DOMAIN found : found[i].rune = r}
           Held(r, i) == LET at == InOrder(Of(r), [j \in Of(r) |-> j])
                         IN  [address |-> found[at[i]].address,
                              amount |-> found[at[i]].amount]
           runes == InputRunes(b)
<1>1. runes = [r \in RuneKeys |-> [i \in 1..Cardinality(Of(r)) |-> Held(r, i)]]
  BY Zenon DEF InputRunes
<1>2. IsList(found)
  BY InputsFound
<1> HIDE DEF found, Held, runes
<1>3. \A r : Cardinality(Of(r)) \in Nat
  <2> SUFFICES ASSUME NEW r
               PROVE  Cardinality(Of(r)) \in Nat
    OBVIOUS
  <2>1. IsFiniteSet(DOMAIN found)
    BY <1>2, ListLength, FS_Interval
  <2>2. IsFiniteSet(Of(r))
    BY <2>1, FS_Subset
  <2> HIDE DEF Of
  <2> QED BY <2>2, FS_CardinalityType
<1> HIDE DEF Of
<1>4. ASSUME NEW r \in RuneKeys
      PROVE  IsList(runes[r])
  <2> DEFINE n == Cardinality(Of(r))
             f == runes[r]
  <2>1. f = [i \in 1..n |-> Held(r, i)]
    BY <1>1
  <2>2. n \in Nat
    BY <1>3
  <2> HIDE DEF n, f
  <2>3. f = [i \in 1..n |-> f[i]]
    BY <2>1
  <2>4. IsList(f)
    BY <2>2, <2>3, ListOf
  <2> QED BY <2>4 DEF f
<1>5. runes = [r \in RuneKeys |-> runes[r]]
  BY <1>1
<1> QED BY <1>4, <1>5 DEF runes

\* A transaction starts with lists, and with nothing etched.
LEMMA BeginTransactionWhole == Structure /\ BInv /\ BeginTransaction => BInv'
<1> SUFFICES ASSUME Structure, BInv, BeginTransaction
             PROVE  BInv'
  OBVIOUS
<1>1. /\ BlockOpen /\ EtchedSoFar /\ TransactionOpen /\ OutputLists /\ Bounded
      /\ LedgerOfChain /\ Undoable /\ InBlock
  BY DEF BInv, BeginTransaction, InBlock
<1> DEFINE next == block.txs[pos + 1]
           tx   == TxData[next]
<1>2. pos + 1 \in 1..Len(block.txs) /\ pos \in Nat /\ pos' = pos + 1 /\ next \in Txs
  <2>1. block.txs \in Seq(Txs) /\ pos \in 0..Len(block.txs)
    BY DEF Structure
  <2>2. pos < Len(block.txs) /\ pos' = pos + 1
    BY DEF BeginTransaction
  <2> QED BY <2>1, <2>2
<1>3. stage' = (IF tx.artifact.kind = "none" THEN "end" ELSE tx.artifact.kind)
  BY DEF BeginTransaction
<1>4. tx.artifact.kind \in {"none", "runestone", "cenotaph"}
  BY <1>2, ArtifactAssumption
<1>5. block' = block
  BY DEF BeginTransaction
<1>6. Tx' = tx
  BY <1>2, <1>5 DEF Tx
<1> HIDE DEF tx
<1>7. InTransaction' /\ InBlock' /\ stage' \in {"end", "runestone", "cenotaph"}
  BY <1>3, <1>4 DEF InTransaction, InBlock
<1>8. Writing(FALSE, <<>>)
  BY <1>1, <1>7 DEF Writing, BeginTransaction, TablesAfter, RowsAfter, history
<1>9. BlockOpen' /\ OpenLedger(db_tx, db_cache)' = OpenLedger(db_tx, db_cache) \cup ToSet(<<>>)
  BY <1>1, <1>8, ListsOfNone, WritingKeeps
<1>10. EtchedSoFar'
  <2>1. LastEtched = pos
    BY DEF LastEtched, BeginTransaction
  <2>2. LastEtched' = IF tx.artifact.kind = "none" THEN pos + 1 ELSE pos
    <3>1. stage' = "end" => LastEtched' = pos'
      BY DEF LastEtched
    <3>2. stage' \in {"runestone", "cenotaph"} => LastEtched' = pos' - 1
      BY DEF LastEtched
    <3> QED BY <1>2, <1>3, <1>4, <3>1, <3>2
  <2>3. tx.artifact.kind = "none" => ~Etches(next)
    BY DEF Etches, tx
  <2>4. \A i \in 1..LastEtched' : i > LastEtched => i = pos + 1 /\ tx.artifact.kind = "none"
    BY <1>2, <2>1, <2>2
  <2>5. \A i \in 1..LastEtched' : i > LastEtched /\ Etches(block.txs[i]) =>
             Recorded(ToSet(<<>>), block.txs[i], Height)
    BY <2>3, <2>4
  <2>6. LastEtched \in Int /\ LastEtched' \in Int
    BY <1>2, <2>1, <2>2
  <2> QED BY <1>1, <1>8, <1>9, <2>5, <2>6, EtchedKept
<1>11. Finished'
  BY <1>7 DEF Finished
<1>12. TransactionOpen'
  <2> DEFINE place == [height |-> block.height, index |-> pos + 1, tx |-> next]
             runes == InputRunes(tx.inputs)
             first == IF DOMAIN tx.outputs = {} THEN None ELSE Min(DOMAIN tx.outputs)
             new   == NewTransactionCache(place, runes, tx.outputs, first, tx.total)
  <2>1. tx_cache' = new
    BY Zenon DEF BeginTransaction, tx
  <2>2. /\ runes = [r \in RuneKeys |-> runes[r]]
        /\ \A r \in RuneKeys : IsList(runes[r])
    <3>1. IsFiniteSet(db_tx.ledger)
      BY <1>1 DEF BlockOpen, Open
    <3>2. IsList(tx.inputs)
      BY <1>2, OutputsAssumption DEF IsList, tx
    <3> QED BY <1>1, <3>1, <3>2, InputsListed
  <2>3. place.tx = next
    OBVIOUS
  <2> HIDE DEF place, runes, first
  <2>4. /\ IsTransaction(new) /\ new.location = place /\ new.input_runes = runes
        /\ new.eligible_outputs = tx.outputs /\ new.etching = None
    BY DEF NewTransactionCache, IsTransaction
  <2> HIDE DEF new
  <2>5. Holds(new)
    BY <2>2, <2>4 DEF Holds
  <2>6. Artifact' = tx.artifact
    BY <1>6 DEF Artifact
  <2>7. stage' \in {"runestone", "etching", "mint", "edicts"} => Artifact'.kind = "runestone"
    BY <1>3, <1>4, <2>6
  <2> QED BY <1>2, <1>5, <1>6, <2>1, <2>3, <2>4, <2>5, <2>7 DEF TransactionOpen
<1>13. OutputLists'
  BY <1>1 DEF OutputLists, BeginTransaction, caches, Lists
<1>14. Bounded'
  BY <1>1 DEF Bounded, BeginTransaction, history
<1>15. LedgerOfChain' /\ Undoable'
  BY <1>1, <1>8, CommittedKept DEF Writing
<1> QED BY <1>9, <1>10, <1>11, <1>12, <1>13, <1>14, <1>15 DEF BInv

-----------------------------------------------------------------------------
(* Blocks as wholes *)

\* A table has no row above its greatest height to lose.
LEMMA NothingAbove ==
    ASSUME NEW rows, NEW h \in Int, UpTo(rows, h - 1)
    PROVE  WithoutHeight(rows, h) = rows /\ UpTo(rows, h)
<1>1. {x \in DOMAIN rows : x[2] # h} = DOMAIN rows
  BY DEF UpTo
<1>2. WithoutHeight(rows, h) = [x \in DOMAIN rows |-> rows[x]]
  BY <1>1 DEF WithoutHeight, Only
<1>3. UpTo(rows, h)
  BY DEF UpTo
<1> QED BY <1>2, <1>3 DEF UpTo

\* A block starts from the committed tables.
LEMMA BeginBlockWhole == IInv /\ BInv /\ BeginBlock => BInv'
<1> SUFFICES ASSUME IInv, BInv, BeginBlock
             PROVE  BInv'
  OBVIOUS
<1>1. /\ Structure /\ OutputLists /\ Bounded /\ LedgerOfChain /\ Undoable
      /\ \A r \in db.runes : r.height < Height
  BY DEF BInv, IInv, RunesInv, RowsCommitted
<1>2. /\ UNCHANGED <<db, chain, undo, next_edict, output_cache, block_output_cache, db_cache>>
      /\ stage' = "next" /\ pos' = 0 /\ db_tx' = db /\ Len(chain) < MaxBlocks
  BY DEF BeginBlock, caches, history
<1>3. db_cache' = NoRows
  BY <1>1, <1>2 DEF Structure, BeginBlock
<1>4. PICK txs \in SeqOf(Txs, MaxBlockTxs) :
          block' = [height |-> StartHeight + Len(chain), txs |-> txs]
  BY DEF BeginBlock
<1>5. Height' = Height /\ Height \in Nat /\ Len(chain) \in Nat
  BY <1>1, <1>2, HeightNat DEF Height
<1>6. BlockOpen'
  <2>1. \A e \in db.ledger : e.height # Height
    <3> SUFFICES ASSUME NEW e \in db.ledger
                 PROVE  e.height # Height
      OBVIOUS
    <3>1. PICK b \in DOMAIN chain : e.height = StartHeight + b - 1
      BY <1>1 DEF LedgerOfChain
    <3>2. b \in 1..Len(chain)
      BY <1>1, <3>1 DEF Structure
    <3> QED BY <1>5, <3>1, <3>2, SizesAssumption DEF Height
  <2>2. /\ WithoutHeight(db.supply, Height) = db.supply /\ UpTo(db.supply, Height)
        /\ WithoutHeight(db.balances, Height) = db.balances /\ UpTo(db.balances, Height)
    BY <1>1, <1>5, NothingAbove DEF LedgerOfChain
  <2>3. {r \in db.runes : r.height # Height} = db.runes
    BY <1>1, <1>5
  <2>4. SameRows(db, Height, db)
    BY <2>1, <2>2, <2>3 DEF SameRows
  <2>5. NoRows.runes = <<>> /\ NoRows.ledger = <<>>
    BY DEF NoRows
  <2>6. IsFiniteSet(db.ledger)
    BY <1>1 DEF LedgerOfChain
  <2> QED BY <1>2, <1>3, <1>5, <2>2, <2>4, <2>5, <2>6, ListsOfNone
          DEF BlockOpen, Open, InThisBlock
<1>7. EtchedSoFar'
  BY <1>2 DEF EtchedSoFar, LastEtched
<1>8. Finished' /\ TransactionOpen'
  BY <1>2 DEF Finished, TransactionOpen, InTransaction
<1>9. OutputLists'
  BY <1>1, <1>2 DEF OutputLists
<1>10. Bounded'
  <2>1. Len(block'.txs) <= MaxBlockTxs
    <3>1. block'.txs = txs
      BY <1>4
    <3>2. Len(txs) <= MaxBlockTxs
      BY PlacesAssumption DEF SeqOf
    <3> QED BY <3>1, <3>2
  <2> QED BY <1>1, <1>2, <2>1 DEF Bounded
<1>11. LedgerOfChain' /\ Undoable'
  BY <1>1, <1>2, CommittedKept
<1> QED BY <1>6, <1>7, <1>8, <1>9, <1>10, <1>11 DEF BInv

\* The outputs of a block stay lists in the LRU output cache.
LEMMA MovedOutputsListed ==
    ASSUME NEW outputs, Lists(outputs), NEW cache, Lists(cache),
           NEW c \in MoveBlockOutputCache(outputs, cache)
    PROVE  Lists(c)
<1> DEFINE all  == DOMAIN outputs \cup DOMAIN cache
           fits == Cardinality(all) <= LruSize
           kept == IF fits THEN {all} ELSE kSubset(LruSize, all)
           Extended(k) ==
               IF k \notin DOMAIN cache THEN outputs[k]
               ELSE IF k \notin DOMAIN outputs THEN cache[k]
               ELSE cache[k] \o outputs[k]
           Replaced(k) == IF k \in DOMAIN outputs THEN outputs[k] ELSE cache[k]
<1>1. c \in {[k \in S |-> Extended(k)] : S \in kept} \cup
          (IF fits THEN {} ELSE {[k \in S |-> Replaced(k)] : S \in kept})
  BY Zenon DEF MoveBlockOutputCache
<1>2. \A S \in kept : S \subseteq all
  BY DEF kSubset
<1>3. \A k \in all : IsList(Extended(k)) /\ IsList(Replaced(k))
  <2> SUFFICES ASSUME NEW k \in all
               PROVE  IsList(Extended(k)) /\ IsList(Replaced(k))
    OBVIOUS
  <2>1. k \in DOMAIN cache => IsList(cache[k])
    BY DEF Lists
  <2>2. k \in DOMAIN outputs => IsList(outputs[k])
    BY DEF Lists
  <2>3. k \in DOMAIN cache /\ k \in DOMAIN outputs => IsList(cache[k] \o outputs[k])
    BY <2>1, <2>2, ListConcat
  <2> QED BY <2>1, <2>2, <2>3
<1> HIDE DEF Extended, Replaced, kept, fits, all
<1>4. PICK S \in kept : c = [k \in S |-> Extended(k)] \/ c = [k \in S |-> Replaced(k)]
  BY <1>1
<1> QED BY <1>2, <1>3, <1>4 DEF Lists

\* The end of a block inserts what is pending.
LEMMA EndBlockWhole == IInv /\ BInv /\ EndBlock => BInv'
<1> SUFFICES ASSUME IInv, BInv, EndBlock
             PROVE  BInv'
  OBVIOUS
<1>1. /\ BlockOpen /\ EtchedSoFar /\ OutputLists /\ Bounded
      /\ LedgerOfChain /\ Undoable /\ Structure /\ InBlock
  BY DEF BInv, EndBlock, InBlock, IInv
<1>2. /\ UNCHANGED <<block, db, chain, undo, pos, next_edict>>
      /\ stage = "next" /\ stage' = "commit" /\ pos = Len(block.txs)
      /\ block_output_cache' = <<>> /\ db_cache' = NoRows
  BY DEF EndBlock, history
<1>3. Writing(TRUE, <<>>)
  <2> DEFINE d == TablesAfter(TRUE)
             new == [d EXCEPT !.last_scanned = block.height]
  <2>1. IsTables(d)
    BY <1>1, AfterLookup
  <2>2. db_tx' = new
    BY DEF EndBlock
  <2> HIDE DEF d
  <2>3. /\ new.runes = d.runes /\ new.ledger = d.ledger
        /\ new.supply = d.supply /\ new.balances = d.balances
    BY <2>1 DEF IsTables
  <2> HIDE DEF new
  <2>4. RowsAfter(TRUE) = NoRows
    BY DEF RowsAfter
  <2>5. InBlock /\ InBlock'
    BY <1>2 DEF InBlock
  <2> QED BY <1>2, <2>2, <2>3, <2>4, <2>5 DEF Writing, d
<1>4. BlockOpen' /\ OpenLedger(db_tx, db_cache)' = OpenLedger(db_tx, db_cache) \cup ToSet(<<>>)
  BY <1>1, <1>3, ListsOfNone, WritingKeeps
<1>5. EtchedSoFar'
  <2>1. LastEtched = pos /\ LastEtched' = pos /\ pos \in Nat
    BY <1>1, <1>2, PosNat DEF LastEtched
  <2>2. LastEtched \in Int /\ LastEtched' \in Int
    BY <2>1
  <2>3. \A i \in 1..LastEtched' : i > LastEtched /\ Etches(block.txs[i]) =>
             Recorded(ToSet(<<>>), block.txs[i], Height)
    BY <2>1
  <2> QED BY <1>1, <1>3, <1>4, <2>2, <2>3, EtchedKept
<1>6. Finished' /\ TransactionOpen'
  BY <1>2 DEF Finished, TransactionOpen, InTransaction
<1>7. OutputLists'
  <2>1. Lists(output_cache')
    BY <1>1, MovedOutputsListed DEF EndBlock, OutputLists
  <2>2. Lists(<<>>)
    BY DEF Lists
  <2> QED BY <1>2, <2>1, <2>2 DEF OutputLists
<1>8. Bounded'
  BY <1>1, <1>2 DEF Bounded
<1>9. LedgerOfChain' /\ Undoable'
  BY <1>1, <1>2, CommittedKept
<1> QED BY <1>4, <1>5, <1>6, <1>7, <1>8, <1>9 DEF BInv

\* A commit makes the rows of the block those of the chain.
LEMMA CommitWhole == IInv /\ BInv /\ Commit => BInv'
<1> SUFFICES ASSUME IInv, BInv, Commit
             PROVE  BInv'
  OBVIOUS
<1>1. /\ Structure /\ OutputLists /\ Bounded /\ LedgerOfChain /\ Undoable
      /\ EtchedSoFar /\ pos = Len(block.txs) /\ InBlock /\ Open(db_tx, db_cache)
  BY DEF BInv, IInv, Finished, BlockOpen, Commit, InBlock
<1>2. /\ db' = db_tx /\ chain' = Append(chain, block.txs) /\ undo' = Append(undo, db)
      /\ stage' = "idle"
      /\ UNCHANGED <<next_edict, output_cache, block_output_cache>>
  BY DEF Commit, caches
<1>3. /\ chain \in Seq(Seq(Txs)) /\ block.txs \in Seq(Txs) /\ db_cache = NoRows
      /\ IsTables(db)
  BY <1>1 DEF Structure, Commit
<1> DEFINE n == Len(chain)
<1>4. /\ n \in Nat /\ DOMAIN chain = 1..n /\ DOMAIN chain' = 1..(n + 1)
      /\ \A b \in 1..n : chain'[b] = chain[b]
      /\ chain'[n + 1] = block.txs /\ Len(chain') = n + 1 /\ chain' # <<>>
  BY <1>2, <1>3
<1>5. Height = StartHeight + n /\ Height' = Height + 1 /\ Height \in Nat /\ StartHeight \in Nat
  BY <1>4, SizesAssumption DEF Height
<1> HIDE DEF n
<1>6. LedgerOfChain'
  <2>1. IsFiniteSet(db_tx.ledger)
    BY <1>1 DEF Open
  <2>2. ASSUME NEW e \in db_tx.ledger
        PROVE  \E b \in DOMAIN chain' :
                   e.height = StartHeight + b - 1 /\ e.tx \in ToSet(chain'[b])
    <3>1. CASE e \in db.ledger
      <4>1. PICK b \in DOMAIN chain :
                e.height = StartHeight + b - 1 /\ e.tx \in ToSet(chain[b])
        BY <1>1, <3>1 DEF LedgerOfChain
      <4>2. b \in DOMAIN chain' /\ chain'[b] = chain[b]
        BY <1>4
      <4> QED BY <4>1, <4>2
    <3>2. CASE InThisBlock(e)
      <4>1. e.height = StartHeight + (n + 1) - 1 /\ e.tx \in ToSet(chain'[n + 1])
        BY <1>4, <1>5, <3>2 DEF InThisBlock
      <4>2. n + 1 \in DOMAIN chain'
        BY <1>4
      <4> QED BY <4>1, <4>2
    <3> QED BY <1>1, <3>1, <3>2 DEF Open
  <2>3. db.ledger \subseteq db_tx.ledger
    BY <1>1 DEF Open, SameRows
  <2>4. ASSUME NEW b \in DOMAIN chain', NEW t \in ToSet(chain'[b]), Etches(t)
        PROVE  Recorded(db_tx.ledger, t, StartHeight + b - 1)
    <3>1. CASE b \in 1..n
      <4>1. Recorded(db.ledger, t, StartHeight + b - 1)
        BY <1>1, <1>4, <2>4, <3>1 DEF LedgerOfChain
      <4> QED BY <2>3, <4>1 DEF Recorded
    <3>2. CASE b = n + 1
      <4>1. PICK i \in 1..Len(block.txs) : t = block.txs[i]
        <5>1. t \in ToSet(block.txs) /\ DOMAIN block.txs = 1..Len(block.txs)
          BY <1>3, <1>4, <3>2
        <5> QED BY <5>1 DEF ToSet
      <4>2. LastEtched = Len(block.txs)
        BY <1>1 DEF LastEtched, Commit
      <4>3. Recorded(OpenLedger(db_tx, db_cache), t, Height)
        BY <1>1, <2>4, <4>1, <4>2 DEF EtchedSoFar
      <4>4. OpenLedger(db_tx, db_cache) = db_tx.ledger
        <5>1. NoRows.ledger = <<>>
          BY DEF NoRows
        <5> QED BY <1>3, <5>1, ListsOfNone DEF OpenLedger
      <4>5. StartHeight + b - 1 = Height
        BY <1>4, <1>5, <3>2
      <4> QED BY <4>3, <4>4, <4>5
    <3> QED BY <1>4, <3>1, <3>2
  <2>5. UpTo(db_tx.supply, Height' - 1) /\ UpTo(db_tx.balances, Height' - 1)
    <3>1. Height' - 1 = Height
      BY <1>5
    <3> QED BY <1>1, <3>1 DEF Open
  <2> QED BY <1>2, <2>1, <2>2, <2>4, <2>5 DEF LedgerOfChain, Etches, Recorded
<1>7. Undoable'
  <2>1. IsList(undo) /\ Len(undo) = n
    BY <1>1 DEF Undoable, n
  <2>2. DOMAIN undo = 1..n
    BY <2>1, ListLength
  <2>3. /\ IsList(undo') /\ Len(undo') = n + 1 /\ DOMAIN undo' = 1..(n + 1)
        /\ \A i \in 1..n : undo'[i] = undo[i]
        /\ undo'[n + 1] = db
    <3>1. PICK S : undo \in Seq(S)
      BY <2>1 DEF IsList
    <3>2. IsList(undo')
      BY <1>2, <2>1, ListAppend
    <3>3. undo \in Seq(S \cup {db})
      BY <3>1
    <3> QED BY <1>2, <2>1, <3>2, <3>3
  <2>4. \A i \in DOMAIN undo' : IsTables(undo'[i])
    BY <1>1, <1>3, <2>2, <2>3, <1>4 DEF Undoable
  <2>5. SameRows(db_tx, Height' - 1, undo'[Len(chain')])
    <3>1. Height' - 1 = Height
      BY <1>5
    <3> QED BY <1>1, <1>4, <2>3, <3>1 DEF Open
  <2>6. ASSUME NEW i \in 1..(Len(chain') - 1)
        PROVE  SameRows(undo'[i + 1], StartHeight + i - 1, undo'[i])
    <3>1. i \in 1..n
      BY <1>4
    <3>2. CASE i = n
      <4>1. undo'[i + 1] = db /\ undo'[i] = undo[n] /\ StartHeight + i - 1 = Height - 1
        BY <1>4, <1>5, <2>3, <3>1, <3>2
      <4>2. chain # <<>>
        BY <1>4, <3>1
      <4>3. SameRows(db, Height - 1, undo[n])
        BY <1>1, <4>2 DEF Undoable, n
      <4> QED BY <4>1, <4>3
    <3>3. CASE i # n
      <4>1. i \in 1..(n - 1) /\ i + 1 \in 1..n
        BY <1>4, <3>1, <3>3
      <4>2. undo'[i + 1] = undo[i + 1] /\ undo'[i] = undo[i]
        BY <2>3, <3>1, <4>1
      <4> QED BY <1>1, <4>1, <4>2 DEF Undoable, n
    <3> QED BY <3>2, <3>3
  <2> QED BY <1>2, <1>4, <2>3, <2>4, <2>5, <2>6 DEF Undoable
<1>8. BlockOpen' /\ EtchedSoFar' /\ Finished' /\ TransactionOpen'
  BY <1>2 DEF BlockOpen, EtchedSoFar, Finished, TransactionOpen, InBlock, InTransaction
<1>9. OutputLists' /\ Bounded'
  BY <1>1, <1>2 DEF OutputLists, Bounded, InBlock
<1> QED BY <1>6, <1>7, <1>8, <1>9 DEF BInv

\* Nothing is open where no block is indexed.
LEMMA IdleWhole ==
    ASSUME stage' = "idle", Lists(output_cache'), Lists(block_output_cache'),
           next_edict' \in Nat \ {0}, LedgerOfChain', Undoable'
    PROVE  BInv'
BY DEF BInv, BlockOpen, EtchedSoFar, Finished, TransactionOpen, InBlock, InTransaction,
       OutputLists, Bounded

\* Without the rows of one height.
LEMMA WithoutRows ==
    ASSUME NEW rows, NEW h \in Int, UpTo(rows, h)
    PROVE  UpTo(WithoutHeight(rows, h), h - 1)
<1> DEFINE new == WithoutHeight(rows, h)
<1>1. new = [x \in {y \in DOMAIN rows : y[2] # h} |-> rows[x]]
  <2>1. DOMAIN rows \cap {y \in DOMAIN rows : y[2] # h} = {y \in DOMAIN rows : y[2] # h}
    OBVIOUS
  <2> QED BY <2>1 DEF WithoutHeight, Only
<1> HIDE DEF new
<1>2. DOMAIN new = {y \in DOMAIN rows : y[2] # h}
  BY <1>1
<1>3. new = [x \in DOMAIN new |-> new[x]]
  BY <1>1
<1>4. \A x \in DOMAIN new : x[2] \in Int /\ x[2] <= h - 1
  BY <1>2 DEF UpTo
<1> QED BY <1>3, <1>4 DEF UpTo, new

\* Rolling back the tip leaves the chain before it and its tables.
LEMMA RollBackBlockWhole == IInv /\ BInv /\ RollBackBlock => BInv'
<1> SUFFICES ASSUME IInv, BInv, RollBackBlock
             PROVE  BInv'
  OBVIOUS
<1>1. /\ Structure /\ OutputLists /\ Bounded /\ LedgerOfChain /\ Undoable
  BY DEF BInv, IInv
<1>2. /\ db' = RollBack(db, StartHeight + Len(chain) - 1)
      /\ chain' = Front(chain) /\ undo' = Front(undo) /\ chain # <<>>
      /\ stage' = "idle"
      /\ UNCHANGED <<next_edict, output_cache, block_output_cache>>
  BY DEF RollBackBlock, caches
<1>3. chain \in Seq(Seq(Txs)) /\ IsTables(db)
  BY <1>1 DEF Structure
<1> DEFINE n == Len(chain)
           h == StartHeight + n - 1
<1>4. /\ n \in Nat \ {0} /\ DOMAIN chain = 1..n /\ DOMAIN chain' = 1..(n - 1)
      /\ \A b \in 1..(n - 1) : chain'[b] = chain[b]
      /\ Len(chain') = n - 1
  <2>1. n \in Nat \ {0} /\ DOMAIN chain = 1..n
    BY <1>2, <1>3
  <2>2. chain' = [b \in 1..(n - 1) |-> chain[b]]
    BY <1>2, <1>3 DEF Front
  <2> QED BY <2>1, <2>2
<1>5. /\ h \in Int /\ StartHeight \in Nat /\ Height - 1 = h /\ Height' - 1 = h - 1
  BY <1>4, SizesAssumption DEF Height
<1>6. /\ db'.runes = {r \in db.runes : r.height # h}
      /\ db'.ledger = {e \in db.ledger : e.height # h}
      /\ db'.supply = WithoutHeight(db.supply, h)
      /\ db'.balances = WithoutHeight(db.balances, h)
  BY <1>2, <1>3, RolledBack
<1> HIDE DEF n, h
<1>7. LedgerOfChain'
  <2>1. IsFiniteSet(db'.ledger)
    BY <1>1, <1>6, FS_Subset DEF LedgerOfChain
  <2>2. ASSUME NEW e \in db'.ledger
        PROVE  \E b \in DOMAIN chain' :
                   e.height = StartHeight + b - 1 /\ e.tx \in ToSet(chain'[b])
    <3>1. e \in db.ledger /\ e.height # h
      BY <1>6
    <3>2. PICK b \in DOMAIN chain :
              e.height = StartHeight + b - 1 /\ e.tx \in ToSet(chain[b])
      BY <1>1, <3>1 DEF LedgerOfChain
    <3>3. b \in 1..(n - 1)
      BY <1>4, <3>1, <3>2 DEF h
    <3> QED BY <1>4, <3>2, <3>3
  <2>3. ASSUME NEW b \in DOMAIN chain', NEW t \in ToSet(chain'[b]), Etches(t)
        PROVE  Recorded(db'.ledger, t, StartHeight + b - 1)
    <3>1. b \in 1..(n - 1) /\ b \in DOMAIN chain /\ chain'[b] = chain[b]
      BY <1>4
    <3>2. Recorded(db.ledger, t, StartHeight + b - 1)
      BY <1>1, <2>3, <3>1 DEF LedgerOfChain
    <3>3. StartHeight + b - 1 # h
      BY <1>4, <1>5, <3>1 DEF h
    <3> QED BY <1>6, <3>2, <3>3 DEF Recorded
  <2>4. UpTo(db'.supply, Height' - 1) /\ UpTo(db'.balances, Height' - 1)
    <3>1. UpTo(db.supply, h) /\ UpTo(db.balances, h)
      BY <1>1, <1>5 DEF LedgerOfChain
    <3> QED BY <1>5, <1>6, <3>1, WithoutRows
  <2> QED BY <2>1, <2>2, <2>3, <2>4 DEF LedgerOfChain, Etches, Recorded
<1>8. Undoable'
  <2>1. IsList(undo) /\ Len(undo) = n
    BY <1>1 DEF Undoable, n
  <2>2. /\ IsList(undo') /\ Len(undo') = n - 1 /\ DOMAIN undo' = 1..(n - 1)
        /\ \A i \in 1..(n - 1) : undo'[i] = undo[i]
    <3>1. PICK S : undo \in Seq(S)
      BY <2>1 DEF IsList
    <3>2. undo' = [i \in 1..(n - 1) |-> undo[i]]
      BY <1>2, <2>1, <3>1 DEF Front
    <3>3. undo' \in Seq(S) /\ Len(undo') = n - 1
      <4>1. \A i \in 1..(n - 1) : undo[i] \in S
        BY <1>4, <2>1, <3>1
      <4> QED BY <1>4, <3>2, <4>1
    <3> QED BY <3>2, <3>3 DEF IsList
  <2>3. DOMAIN undo = 1..n
    BY <2>1, ListLength
  <2>4. \A i \in DOMAIN undo' : IsTables(undo'[i])
    BY <1>1, <1>4, <2>2, <2>3 DEF Undoable
  <2>5. chain' # <<>> => SameRows(db', Height' - 1, undo'[Len(chain')])
    <3> SUFFICES ASSUME chain' # <<>>
                 PROVE  SameRows(db', Height' - 1, undo'[Len(chain')])
      OBVIOUS
    <3>1. n - 1 \in 1..(n - 1)
      <4>1. n # 1
        <5> SUFFICES ASSUME n = 1
                     PROVE  FALSE
          OBVIOUS
        <5>1. chain' \in Seq(Seq(Txs))
          BY <1>2, <1>3, FrontOfChain
        <5>2. Len(chain') = 0
          BY <1>4
        <5> QED BY <5>1, <5>2
      <4> QED BY <1>4, <4>1
    <3>2. SameRows(undo[(n - 1) + 1], StartHeight + (n - 1) - 1, undo[n - 1])
      BY <1>1, <3>1 DEF Undoable, n
    <3>3. (n - 1) + 1 = n /\ StartHeight + (n - 1) - 1 = Height' - 1
      BY <1>4, <1>5 DEF h
    <3>4. SameRows(db, h, undo[n])
      BY <1>1, <1>2, <1>5 DEF Undoable, n
    <3>5. /\ db'.runes = undo[n].runes /\ db'.ledger = undo[n].ledger
          /\ db'.supply = undo[n].supply /\ db'.balances = undo[n].balances
      BY <1>6, <3>4 DEF SameRows
    <3>6. undo'[Len(chain')] = undo[n - 1]
      BY <1>4, <2>2, <3>1
    <3>7. SameRows(undo[n], Height' - 1, undo[n - 1])
      BY <3>2, <3>3
    <3> QED BY <3>5, <3>6, <3>7 DEF SameRows
  <2>6. ASSUME NEW i \in 1..(Len(chain') - 1)
        PROVE  SameRows(undo'[i + 1], StartHeight + i - 1, undo'[i])
    <3>1. i \in 1..(n - 1) /\ i + 1 \in 1..(n - 1)
      BY <1>4
    <3> QED BY <1>1, <2>2, <3>1 DEF Undoable, n
  <2>7. Len(undo') = Len(chain')
    BY <1>4, <2>2
  <2> QED BY <2>2, <2>4, <2>5, <2>6, <2>7 DEF Undoable
<1>9. Lists(output_cache') /\ Lists(block_output_cache') /\ next_edict' \in Nat \ {0}
  BY <1>1, <1>2 DEF OutputLists, Bounded, Lists
<1> QED BY <1>2, <1>7, <1>8, <1>9, IdleWhole

\* An empty cache holds lists alone.
LEMMA NoLists == Lists(<<>>)
  BY DEF Lists

\* A restart forgets the block that was not committed.
LEMMA RestartWhole == BInv /\ Restart => BInv'
<1> SUFFICES ASSUME BInv, Restart
             PROVE  BInv'
  OBVIOUS
<1>1. /\ UNCHANGED <<db, chain, undo>>
      /\ stage' = "idle" /\ output_cache' = <<>> /\ block_output_cache' = <<>>
      /\ next_edict' = 1
  BY DEF Restart, history
<1>2. LedgerOfChain' /\ Undoable'
  BY <1>1, CommittedKept DEF BInv
<1> QED BY <1>1, <1>2, NoLists, IdleWhole

\* The first migration leaves no entry.
LEMMA InitWhole == Init => BInv
<1> SUFFICES ASSUME Init
             PROVE  BInv
  OBVIOUS
<1>1. /\ db = EmptyDb /\ chain = <<>> /\ undo = <<>> /\ stage = "idle"
      /\ output_cache = <<>> /\ block_output_cache = <<>> /\ next_edict = 1
  BY DEF Init
<1>2. db.ledger = {} /\ db.supply = <<>> /\ db.balances = <<>>
  BY <1>1 DEF EmptyDb
<1>3. LedgerOfChain
  <2>1. IsFiniteSet({})
    BY FS_EmptySet
  <2>2. \A top : UpTo(<<>>, top)
    BY DEF UpTo
  <2> QED BY <1>1, <1>2, <2>1, <2>2 DEF LedgerOfChain
<1>4. Undoable
  BY <1>1, ListsOfNone DEF Undoable
<1>5. OutputLists /\ Bounded
  BY <1>1, NoLists DEF OutputLists, Bounded, InBlock
<1> QED BY <1>1, <1>3, <1>4, <1>5
        DEF BInv, BlockOpen, EtchedSoFar, Finished, TransactionOpen, InBlock, InTransaction

\* A step that changes no variable keeps what the rows say of blocks.
LEMMA StutterWhole == BInv /\ UNCHANGED vars => BInv'
<1> SUFFICES ASSUME BInv, UNCHANGED vars
             PROVE  BInv'
  OBVIOUS
<1> USE DEF vars, caches, history
<1>1. BlockOpen'
  BY DEF BInv, BlockOpen, Open, SameRows, UpTo, InThisBlock, Height, InBlock
<1>2. EtchedSoFar' /\ Finished'
  BY DEF BInv, EtchedSoFar, Recorded, OpenLedger, Height, InBlock, LastEtched, Finished
<1>3. TransactionOpen'
  BY DEF BInv, TransactionOpen, InTransaction, Tx, Artifact
<1>4. OutputLists' /\ Bounded'
  BY DEF BInv, OutputLists, Bounded, Lists, InBlock
<1>5. LedgerOfChain' /\ Undoable'
  BY CommittedKept DEF BInv
<1> QED BY <1>1, <1>2, <1>3, <1>4, <1>5 DEF BInv

\* With the shape of the state, the invariant on blocks is inductive.
LEMMA WholeNext == IInv /\ BInv /\ [Next]_vars => BInv'
<1>1. IInv => Structure
  BY DEF IInv
<1> QED BY <1>1, BeginBlockWhole, BeginTransactionWhole, ApplyRunestoneWhole, EtchingWhole,
           MintWhole, EdictWhole, ApplyCenotaphWhole, CenotaphEtchingWhole,
           EndTransactionWhole, EndBlockWhole, CommitWhole, RollBackBlockWhole, RestartWhole,
           StutterWhole DEF Next, Forward, IndexBlock

\* It holds of every reachable state.
LEMMA WholeInvariance == Spec => []BInv
<1>1. Init => BInv
  BY InitWhole
<1>2. IInv /\ BInv /\ [Next]_vars => BInv'
  BY WholeNext
<1> QED BY <1>1, <1>2, Invariance, PTL DEF Spec

\* It implies that blocks are committed as wholes.
LEMMA InvWhole == IInv /\ BInv => AllOrNothing
<1> SUFFICES ASSUME IInv, BInv
             PROVE  AllOrNothing
  OBVIOUS
<1>1. LedgerOfChain
  BY DEF BInv
<1>2. \A e \in db.ledger : e.tx \in Mined
  BY <1>1 DEF LedgerOfChain, Mined
<1>3. ASSUME NEW t \in Mined, Etches(t)
      PROVE  \E e \in db.ledger : e.op = "etching" /\ e.tx = t
  <2>1. PICK b \in DOMAIN chain : t \in ToSet(chain[b])
    BY DEF Mined
  <2>2. Recorded(db.ledger, t, StartHeight + b - 1)
    BY <1>1, <1>3, <2>1 DEF LedgerOfChain
  <2> QED BY <2>2 DEF Recorded
<1> QED BY <1>2, <1>3 DEF AllOrNothing

\* It implies that the tip can be undone.
LEMMA InvRestores == IInv /\ BInv => RollBackRestores
<1> SUFFICES ASSUME IInv, BInv, chain # <<>>
             PROVE  RollBack(db, StartHeight + Len(chain) - 1)
                        = [Last(undo) EXCEPT !.last_scanned = db.last_scanned]
  BY DEF RollBackRestores
<1>1. Undoable /\ Structure
  BY DEF BInv, IInv
<1> DEFINE n == Len(chain)
           h == StartHeight + n - 1
           old == undo[n]
           new == RollBack(db, h)
           scanned == db.last_scanned
<1>2. n \in Nat \ {0} /\ Height - 1 = h
  BY <1>1, SizesAssumption DEF Structure, Height
<1>3. Last(undo) = old
  BY <1>1 DEF Last, Undoable
<1>4. IsTables(old)
  <2>1. n \in DOMAIN undo
    BY <1>1, <1>2, ListLength DEF Undoable
  <2> QED BY <1>1, <2>1 DEF Undoable
<1>5. /\ IsTables(new)
      /\ new.runes = {r \in db.runes : r.height # h}
      /\ new.ledger = {e \in db.ledger : e.height # h}
      /\ new.supply = WithoutHeight(db.supply, h)
      /\ new.balances = WithoutHeight(db.balances, h)
      /\ new.last_scanned = scanned
  BY <1>1, RolledBack DEF Structure
<1>6. SameRows(db, h, old)
  BY <1>1, <1>2 DEF Undoable
<1> HIDE DEF new, old, h, n
<1>7. /\ new.runes = old.runes /\ new.ledger = old.ledger
      /\ new.supply = old.supply /\ new.balances = old.balances
  BY <1>5, <1>6 DEF SameRows
<1>8. new = [runes |-> old.runes, supply |-> old.supply, ledger |-> old.ledger,
             balances |-> old.balances, last_scanned |-> scanned]
  BY <1>5, <1>7 DEF IsTables
<1> HIDE DEF scanned
<1>9. [old EXCEPT !.last_scanned = scanned]
          = [runes |-> old.runes, supply |-> old.supply, ledger |-> old.ledger,
             balances |-> old.balances, last_scanned |-> scanned]
  BY <1>4 DEF IsTables
<1> QED BY <1>3, <1>8, <1>9 DEF new, h, n, scanned

-----------------------------------------------------------------------------
(* The theorems *)

\* A block is committed in one Postgres transaction: whenever the process stops,
\* however often the block was flushed before and whichever blocks were rolled
\* back, the ledger holds entries of mined transactions alone and the etching of
\* every mined transaction that etches.
THEOREM BlocksAreAllOrNothing == Spec => []AllOrNothing
<1>1. IInv /\ BInv => AllOrNothing
  BY InvWhole
<1> QED BY <1>1, Invariance, WholeInvariance, PTL

\* pg_roll_back_block deletes by height and restores nothing, yet it leaves the
\* rows its block found: no flush of a block updates a row of an earlier height,
\* and the rows below are those the commit of the block before left.
THEOREM RollBackRestoresTables == Spec => []RollBackRestores
<1>1. IInv /\ BInv => RollBackRestores
  BY InvRestores
<1> QED BY <1>1, Invariance, WholeInvariance, PTL

-----------------------------------------------------------------------------
(* Rows of running sums *)

\* What entries with the weights w add, less what those with the weights u take.
Net(w, u, S) == SumOver(w, S) - SumOver(u, S)

\* An entry with no weight on either side.
Idle(w, u, e) == w[e] = 0 /\ u[e] = 0

\* The entries with the key k.
Keyed(S, key, k) == {e \in S : key[e] = k}

\* The entries a row x sums up.
Through(S, key, x) == {e \in S : key[e] = x[1] /\ e.height <= x[2]}

\* The rows v hold the running sums of the entries S: each row those up to its
\* height, and every entry that counts has a row of its height.
RowsSum(v, S, key, w, u) ==
    /\ \A x \in DOMAIN v : v[x] = Net(w, u, Through(S, key, x))
    /\ \A e \in S : Idle(w, u, e) \/ <<key[e], e.height>> \in DOMAIN v

\* The pending changes c hold the sums of the entries T.
ChangesSum(c, T, key, w, u) ==
    /\ \A k \in DOMAIN c : c[k] = Net(w, u, Keyed(T, key, k))
    /\ \A e \in T : Idle(w, u, e) \/ key[e] \in DOMAIN c

Paired(v, top) ==
    \A x \in DOMAIN v : x = <<x[1], x[2]>> /\ x[2] \in Nat /\ x[2] <= top

\* A finite set of entries that can be summed up, on both sides.
Ledgered(S, w, u) == IsFiniteSet(S) /\ Weighs(w, S) /\ Weighs(u, S)

\* The entries lie at heights up to top.
LowerThan(S, top) == \A e \in S : e.height \in Nat /\ e.height <= top

\* Two such sets together are one.
LEMMA LedgeredUnion ==
    ASSUME NEW S, NEW T, NEW w, NEW u, Ledgered(S, w, u), Ledgered(T, w, u)
    PROVE  Ledgered(S \cup T, w, u)
BY FS_Union DEF Ledgered, Weighs

\* So their sums add up.
AddsUp(w, u, S, T) ==
    /\ Net(w, u, S) \in Int /\ Net(w, u, T) \in Int
    /\ Net(w, u, S \cup T) = Net(w, u, S) + Net(w, u, T)

\* Weights that are natural numbers add up.
LEMMA NetAddsUp ==
    ASSUME NEW S, NEW T, NEW w, NEW u, Ledgered(S, w, u), Ledgered(T, w, u), S \cap T = {}
    PROVE  AddsUp(w, u, S, T)
<1>1. /\ IsFiniteSet(S) /\ IsFiniteSet(T)
      /\ Weighs(w, S) /\ Weighs(w, T) /\ Weighs(u, S) /\ Weighs(u, T)
  BY DEF Ledgered
<1>2. /\ IsFiniteSet(S \cup T) /\ Weighs(w, S \cup T)
      /\ SumOver(w, S \cup T) = SumOver(w, S) + SumOver(w, T)
  BY <1>1, SumUnion
<1>3. Weighs(u, S \cup T) /\ SumOver(u, S \cup T) = SumOver(u, S) + SumOver(u, T)
  BY <1>1, SumUnion
<1>4. /\ SumOver(w, S) \in Nat /\ SumOver(w, T) \in Nat
      /\ SumOver(u, S) \in Nat /\ SumOver(u, T) \in Nat
  BY <1>1, SumTakesOut
<1> QED BY <1>2, <1>3, <1>4 DEF Net, AddsUp

\* A part of such a set is one.
LEMMA LedgeredPart ==
    ASSUME NEW S, NEW w, NEW u, Ledgered(S, w, u), NEW T \in SUBSET S
    PROVE  Ledgered(T, w, u)
  BY FS_Subset DEF Ledgered, Weighs

\* Entries without weight can be left out.
LEMMA NetOfHeavy ==
    ASSUME NEW S, NEW w, NEW u, Ledgered(S, w, u), NEW T \in SUBSET S,
           \A e \in S \ T : Idle(w, u, e)
    PROVE  Net(w, u, S) = Net(w, u, T)
<1>1. IsFiniteSet(S) /\ Weighs(w, S) /\ Weighs(u, S)
  BY DEF Ledgered
<1>2. \A e \in S \ T : w[e] = 0 /\ u[e] = 0
  BY DEF Idle
<1>3. SumOver(w, S) = SumOver(w, T)
  BY <1>1, <1>2, SumOfHeavy
<1>4. SumOver(u, S) = SumOver(u, T)
  BY <1>1, <1>2, SumOfHeavy
<1> QED BY <1>3, <1>4 DEF Net

\* Entries without weight sum up to nothing.
LEMMA NetOfIdle ==
    ASSUME NEW S, NEW w, NEW u, IsFiniteSet(S), \A e \in S : Idle(w, u, e)
    PROVE  Net(w, u, S) = 0
<1>1. \A e \in S : w[e] = 0 /\ u[e] = 0
  BY DEF Idle
<1>2. SumOver(w, S) = 0
  BY <1>1, SumOfZeros
<1>3. SumOver(u, S) = 0
  BY <1>1, SumOfZeros
<1> QED BY <1>2, <1>3 DEF Net

\* What Latest finds among such rows.
LEMMA LatestPair ==
    ASSUME NEW v, NEW top, Paired(v, top), top \in Int, NEW k, NEW default
    PROVE  \/ /\ \A g : <<k, g>> \notin DOMAIN v
              /\ Latest(v, k, default) = default
           \/ \E h \in Nat :
                 /\ h <= top
                 /\ <<k, h>> \in DOMAIN v
                 /\ \A g : <<k, g>> \in DOMAIN v => g <= h
                 /\ Latest(v, k, default) = v[<<k, h>>]
<1> DEFINE heights == {h \in {x[2] : x \in DOMAIN v} : <<k, h>> \in DOMAIN v}
           last    == CHOOSE h \in heights : \A g \in heights : g <= h
<1>1. heights \subseteq Nat /\ (\A h \in heights : h <= top)
  BY DEF Paired
<1>2. \A g : <<k, g>> \in DOMAIN v => g \in heights
  <2>1. \A g : <<k, g>>[2] = g
    OBVIOUS
  <2> QED BY <2>1
<1>3. CASE heights = {}
  <2>1. \A g : <<k, g>> \notin DOMAIN v
    BY <1>2, <1>3
  <2>2. Latest(v, k, default) = default
    BY <1>3 DEF Latest
  <2> QED BY <2>1, <2>2
<1>4. CASE heights # {}
  <2>1. Latest(v, k, default) = v[<<k, last>>]
    BY <1>4 DEF Latest
  <2>2. last \in heights /\ \A g \in heights : g <= last
    <3> HIDE DEF heights
    <3> QED BY <1>1, <1>4, GreatestNatural
  <2>3. <<k, last>> \in DOMAIN v
    BY <2>2
  <2> HIDE DEF last
  <2>4. last \in Nat /\ last <= top
    BY <1>1, <2>2
  <2> HIDE DEF heights
  <2> QED BY <1>2, <2>1, <2>2, <2>3, <2>4
<1> QED BY <1>3, <1>4

\* The latest row of a key sums up all its entries.
LEMMA LatestSums ==
    ASSUME NEW v, NEW top \in Int, Paired(v, top), NEW S, NEW key, NEW w, NEW u,
           Ledgered(S, w, u), \A e \in S : e.height \in Nat,
           RowsSum(v, S, key, w, u), NEW k
    PROVE  Latest(v, k, 0) = Net(w, u, Keyed(S, key, k))
<1> DEFINE mine == Keyed(S, key, k)
<1>1. mine \in SUBSET S /\ \A e \in mine : key[e] = k
  BY DEF Keyed
<1>2. Ledgered(mine, w, u)
  BY <1>1, LedgeredPart
<1>3. \A e \in mine : Idle(w, u, e) \/ <<k, e.height>> \in DOMAIN v
  BY <1>1 DEF RowsSum
<1> HIDE DEF mine
<1>4. CASE /\ \A g : <<k, g>> \notin DOMAIN v
           /\ Latest(v, k, 0) = 0
  <2>1. \A e \in mine : Idle(w, u, e)
    BY <1>3, <1>4
  <2>2. Net(w, u, mine) = 0
    BY <1>2, <2>1, NetOfIdle DEF Ledgered
  <2> QED BY <1>4, <2>2 DEF mine
<1>5. ASSUME NEW h \in Nat, <<k, h>> \in DOMAIN v, Latest(v, k, 0) = v[<<k, h>>],
             \A g : <<k, g>> \in DOMAIN v => g <= h
      PROVE  Latest(v, k, 0) = Net(w, u, mine)
  <2> DEFINE x == <<k, h>>
             old == Through(S, key, x)
  <2>1. x[1] = k /\ x[2] = h /\ x \in DOMAIN v
    BY <1>5
  <2>2. v[x] = Net(w, u, old)
    BY <2>1 DEF RowsSum
  <2>3. old \in SUBSET mine
    BY <2>1 DEF Through, mine, Keyed
  <2>4. \A e \in mine \ old : Idle(w, u, e)
    <3> SUFFICES ASSUME NEW e \in mine, e \notin old
                 PROVE  Idle(w, u, e)
      OBVIOUS
    <3>1. e \in S /\ key[e] = k /\ e.height \in Nat
      BY <1>1
    <3>2. ~(e.height <= h)
      BY <2>1, <3>1 DEF Through
    <3>3. <<k, e.height>> \notin DOMAIN v
      BY <1>5, <3>2
    <3> QED BY <1>3, <3>3
  <2> HIDE DEF old
  <2>5. Net(w, u, mine) = Net(w, u, old)
    BY <1>2, <2>3, <2>4, NetOfHeavy
  <2> QED BY <1>5, <2>2, <2>5
<1> QED BY <1>4, <1>5, LatestPair DEF mine

\* An insert of changes into rows.
Inserted(v, c, h) ==
    [x \in DOMAIN v \cup {<<k, h>> : k \in DOMAIN c} |->
        IF x[2] = h /\ x[1] \in DOMAIN c
        THEN Latest(v, x[1], 0) + c[x[1]]
        ELSE v[x]]

\* Inserting the sums of the entries T at a height above which there is no row
\* gives the running sums of S and T.
LEMMA InsertSums ==
    ASSUME NEW v, NEW c, NEW h \in Nat, Paired(v, h), NEW S, NEW T, NEW key, NEW w, NEW u,
           Ledgered(S, w, u), Ledgered(T, w, u), S \cap T = {}, LowerThan(S, h),
           \A e \in T : e.height = h,
           RowsSum(v, S, key, w, u), ChangesSum(c, T, key, w, u)
    PROVE  Paired(Inserted(v, c, h), h) /\ RowsSum(Inserted(v, c, h), S \cup T, key, w, u)
<1> DEFINE new == Inserted(v, c, h)
           all == S \cup T
<1>1. DOMAIN new = DOMAIN v \cup {<<k, h>> : k \in DOMAIN c}
  BY DEF Inserted
<1>2. Paired(new, h)
  <2> SUFFICES ASSUME NEW x \in DOMAIN new
               PROVE  x = <<x[1], x[2]>> /\ x[2] \in Nat /\ x[2] <= h
    BY DEF Paired
  <2> HIDE DEF new
  <2> QED BY <1>1 DEF Paired
<1>3. ASSUME NEW x \in DOMAIN new
      PROVE  new[x] = Net(w, u, Through(all, key, x))
  <2>1. x = <<x[1], x[2]>> /\ x[2] \in Nat /\ x[2] <= h
    BY <1>2, <1>3 DEF Paired
  <2> DEFINE s == Through(S, key, x)
             t == Through(T, key, x)
             both == Through(all, key, x)
  <2>2. s \in SUBSET S /\ t \in SUBSET T /\ both = s \cup t /\ s \cap t = {}
    BY DEF Through
  <2>3. Ledgered(s, w, u) /\ Ledgered(t, w, u)
    BY <2>2, LedgeredPart
  <2> HIDE DEF s, t
  <2>4. /\ Net(w, u, s \cup t) = Net(w, u, s) + Net(w, u, t)
        /\ Net(w, u, s) \in Int /\ Net(w, u, t) \in Int
    <3>1. s \cap t = {}
      BY <2>2
    <3>2. AddsUp(w, u, s, t)
      BY <2>3, <3>1, NetAddsUp
    <3> QED BY <3>2 DEF AddsUp
  <2>7. Through(all, key, x) = s \cup t
    BY <2>2
  <2> HIDE DEF both, new, all
  <2>8. Net(w, u, Through(all, key, x)) = Net(w, u, s) + Net(w, u, t)
    BY <2>4, <2>7
  <2>5. CASE x[2] = h /\ x[1] \in DOMAIN c
    <3>1. new[x] = Latest(v, x[1], 0) + c[x[1]]
      BY <1>3, <2>5 DEF Inserted, new
    <3>2. s = Keyed(S, key, x[1])
      BY <2>5 DEF s, Through, Keyed, LowerThan
    <3>3. t = Keyed(T, key, x[1])
      BY <2>5 DEF t, Through, Keyed
    <3>4. Latest(v, x[1], 0) = Net(w, u, s)
      BY <3>2, LatestSums DEF LowerThan
    <3>5. c[x[1]] = Net(w, u, t)
      BY <2>5, <3>3 DEF ChangesSum
    <3> QED BY <2>8, <3>1, <3>4, <3>5
  <2>6. CASE ~(x[2] = h /\ x[1] \in DOMAIN c)
    <3>1. x \in DOMAIN v
      BY <1>1, <1>3, <2>6
    <3>2. new[x] = v[x]
      BY <1>3, <2>6 DEF Inserted, new
    <3>3. v[x] = Net(w, u, s)
      BY <3>1 DEF RowsSum, s
    <3>4. \A e \in t : Idle(w, u, e)
      <4> SUFFICES ASSUME NEW e \in t
                   PROVE  Idle(w, u, e)
        OBVIOUS
      <4>1. e \in T /\ key[e] = x[1] /\ h <= x[2]
        BY DEF t, Through
      <4>2. x[2] = h
        BY <2>1, <4>1
      <4> QED BY <2>6, <4>1, <4>2 DEF ChangesSum
    <3>5. Net(w, u, t) = 0
      BY <2>3, <3>4, NetOfIdle DEF Ledgered
    <3> QED BY <2>4, <2>8, <3>2, <3>3, <3>5
  <2> QED BY <2>5, <2>6
<1>4. ASSUME NEW e \in all
      PROVE  Idle(w, u, e) \/ <<key[e], e.height>> \in DOMAIN new
  <2> HIDE DEF new
  <2>1. CASE e \in S
    BY <1>1, <2>1 DEF RowsSum
  <2>2. CASE e \in T
    BY <1>1, <2>2 DEF ChangesSum
  <2> QED BY <2>1, <2>2
<1>5. RowsSum(new, all, key, w, u)
  <2> HIDE DEF new, all
  <2> QED BY <1>3, <1>4 DEF RowsSum
<1> QED BY <1>2, <1>5

\* Taking the rows and entries of the highest height away.
LEMMA WithoutSums ==
    ASSUME NEW v, NEW h \in Nat, Paired(v, h), NEW S, NEW key, NEW w, NEW u, LowerThan(S, h),
           RowsSum(v, S, key, w, u)
    PROVE  /\ Paired(WithoutHeight(v, h), h - 1)
           /\ LowerThan({e \in S : e.height # h}, h - 1)
           /\ RowsSum(WithoutHeight(v, h), {e \in S : e.height # h}, key, w, u)
<1> DEFINE new == WithoutHeight(v, h)
           T == {e \in S : e.height # h}
<1>1. DOMAIN new = {x \in DOMAIN v : x[2] # h} /\ \A x \in DOMAIN new : new[x] = v[x]
  BY DEF WithoutHeight, Only
<1> HIDE DEF new
<1>2. Paired(new, h - 1)
  BY <1>1 DEF Paired
<1>3. LowerThan(T, h - 1)
  BY DEF LowerThan
<1>4. ASSUME NEW x \in DOMAIN new
      PROVE  new[x] = Net(w, u, Through(T, key, x))
  <2>1. x \in DOMAIN v /\ x[2] \in Nat /\ x[2] < h /\ new[x] = v[x]
    BY <1>1, <1>4 DEF Paired
  <2>2. Through(T, key, x) = Through(S, key, x)
    BY <2>1 DEF Through, LowerThan
  <2> QED BY <2>1, <2>2 DEF RowsSum
<1>5. \A e \in T : Idle(w, u, e) \/ <<key[e], e.height>> \in DOMAIN new
  BY <1>1 DEF RowsSum
<1> HIDE DEF T
<1> QED BY <1>2, <1>3, <1>4, <1>5 DEF RowsSum, new, T

-----------------------------------------------------------------------------
(* Sets in the order of their keys *)

Keys(key, S) == \A x \in S : key[x] \in Nat

\* One element has the greatest key.
LEMMA GreatestKey ==
    ASSUME NEW S, IsFiniteSet(S), NEW key, Keys(key, S), S # {}
    PROVE  \E m \in S : \A x \in S : key[x] <= key[m]
<1> DEFINE Good == {s \in SUBSET S : s # {} => \E m \in s : \A x \in s : key[x] <= key[m]}
<1>1. {} \in Good
  OBVIOUS
<1>2. ASSUME NEW s \in SUBSET S, s # {}, \A x \in s : s \ {x} \in Good
      PROVE  s \in Good
  <2>1. PICK y \in s : TRUE
    BY <1>2
  <2>2. CASE s \ {y} = {}
    <3>1. \A x \in s : x = y
      BY <2>2
    <3>2. key[y] \in Nat
      BY <2>1 DEF Keys
    <3> QED BY <2>1, <3>1, <3>2
  <2>3. CASE s \ {y} # {}
    <3>1. PICK m \in s \ {y} : \A x \in s \ {y} : key[x] <= key[m]
      BY <1>2, <2>1, <2>3
    <3>2. key[y] \in Nat /\ key[m] \in Nat /\ \A x \in s : key[x] \in Nat
      BY <2>1, <3>1 DEF Keys
    <3>3. CASE key[y] <= key[m]
      <4>1. \A x \in s : key[x] <= key[m]
        BY <3>1, <3>3
      <4> QED BY <3>1, <4>1
    <3>4. CASE ~(key[y] <= key[m])
      <4>1. \A x \in s : key[x] <= key[y]
        BY <3>1, <3>2, <3>4
      <4> QED BY <2>1, <4>1
    <3> QED BY <3>3, <3>4
  <2> QED BY <2>2, <2>3
<1> HIDE DEF Good
<1>3. SUBSET S \subseteq Good
  BY <1>1, <1>2, SubsetsGrow
<1>4. S \in Good
  BY <1>3
<1> QED BY <1>4 DEF Good

\* s lists the elements of S, once each, in the order of their keys.
Sorts(s, n, S, key) ==
    /\ s \in Bijection(1..n, S)
    /\ \A i, j \in 1..n : i < j => key[s[i]] <= key[s[j]]

\* Such a list goes on with an element of greatest key.
LEMMA SortsOn ==
    ASSUME NEW S, NEW n \in Nat, NEW key, NEW m \in S, \A x \in S : key[x] <= key[m],
           NEW s, Sorts(s, n, S \ {m}, key)
    PROVE  \E t : Sorts(t, n + 1, S, key)
<1> DEFINE t == [i \in 1..(n + 1) |-> IF i <= n THEN s[i] ELSE m]
<1>1. /\ s \in [1..n -> S \ {m}]
      /\ \A i, j \in 1..n : s[i] = s[j] => i = j
      /\ \A x \in S \ {m} : \E i \in 1..n : s[i] = x
  BY DEF Sorts, Bijection, Injection, Surjection, IsInjective
<1>2. /\ \A i \in 1..n : i \in 1..(n + 1) /\ t[i] = s[i]
      /\ t[n + 1] = m
      /\ \A i \in 1..(n + 1) : i \in 1..n \/ i = n + 1
  OBVIOUS
<1>3. t \in [1..(n + 1) -> S]
  BY <1>1
<1> HIDE DEF t
<1>4. \A i, j \in 1..(n + 1) : t[i] = t[j] => i = j
  BY <1>1, <1>2
<1>5. \A x \in S : \E i \in 1..(n + 1) : t[i] = x
  <2> SUFFICES ASSUME NEW x \in S
               PROVE  \E i \in 1..(n + 1) : t[i] = x
    OBVIOUS
  <2>1. n + 1 \in 1..(n + 1)
    OBVIOUS
  <2>2. CASE x = m
    BY <1>2, <2>1, <2>2
  <2>3. CASE x # m
    <3>1. PICK i \in 1..n : s[i] = x
      BY <1>1, <2>3
    <3> QED BY <1>2, <3>1
  <2> QED BY <2>2, <2>3
<1>6. t \in Bijection(1..(n + 1), S)
  BY <1>3, <1>4, <1>5 DEF Bijection, Injection, Surjection, IsInjective
<1>7. \A i, j \in 1..(n + 1) : i < j => key[t[i]] <= key[t[j]]
  <2> SUFFICES ASSUME NEW i \in 1..(n + 1), NEW j \in 1..(n + 1), i < j
               PROVE  key[t[i]] <= key[t[j]]
    OBVIOUS
  <2>1. i \in 1..n /\ t[i] = s[i] /\ s[i] \in S
    BY <1>1, <1>2
  <2>2. CASE j \in 1..n
    BY <1>2, <2>1, <2>2 DEF Sorts
  <2>3. CASE j = n + 1
    BY <1>2, <2>1, <2>3
  <2> QED BY <1>2, <2>2, <2>3
<1> QED BY <1>6, <1>7 DEF Sorts

\* Every finite set can be listed in the order of its keys.
LEMMA SortedList ==
    ASSUME NEW S, IsFiniteSet(S), NEW key, Keys(key, S)
    PROVE  \E s : Sorts(s, Cardinality(S), S, key)
<1> DEFINE Good == {T \in SUBSET S : \E s : Sorts(s, Cardinality(T), T, key)}
<1>1. {} \in Good
  <2> DEFINE s == [i \in 1..0 |-> 0]
  <2>1. 1..0 = {} /\ Cardinality({}) = 0
    BY FS_EmptySet
  <2>2. s \in Bijection(1..0, {})
    BY <2>1 DEF Bijection, Injection, Surjection, IsInjective
  <2>3. Sorts(s, 0, {}, key)
    BY <2>1, <2>2 DEF Sorts
  <2> HIDE DEF s
  <2> QED BY <2>1, <2>3
<1>2. ASSUME NEW T \in SUBSET S, T # {}, \A x \in T : T \ {x} \in Good
      PROVE  T \in Good
  <2>1. IsFiniteSet(T) /\ Keys(key, T)
    BY FS_Subset DEF Keys
  <2>2. PICK m \in T : \A x \in T : key[x] <= key[m]
    BY <1>2, <2>1, GreatestKey
  <2>3. Cardinality(T) \in Nat /\ Cardinality(T \ {m}) = Cardinality(T) - 1
        /\ Cardinality(T \ {m}) \in Nat
    BY <2>1, <2>2, FS_RemoveElement, FS_CardinalityType
  <2>4. PICK s : Sorts(s, Cardinality(T \ {m}), T \ {m}, key)
    BY <1>2, <2>2
  <2>5. \E t : Sorts(t, Cardinality(T \ {m}) + 1, T, key)
    BY <2>2, <2>3, <2>4, SortsOn
  <2>6. Cardinality(T \ {m}) + 1 = Cardinality(T)
    BY <2>3
  <2> QED BY <2>5, <2>6
<1> HIDE DEF Good
<1>3. SUBSET S \subseteq Good
  BY <1>1, <1>2, SubsetsGrow
<1>4. S \in Good
  BY <1>3
<1> QED BY <1>4 DEF Good

\* So is what InOrder chooses.
LEMMA InOrderSorts ==
    ASSUME NEW S, IsFiniteSet(S), NEW key, Keys(key, S)
    PROVE  Sorts(InOrder(S, key), Cardinality(S), S, key)
<1> DEFINE n == Cardinality(S)
<1>1. PICK s : Sorts(s, n, S, key)
  BY SortedList
<1>2. /\ s \in Bijection(1..n, S)
      /\ \A i, j \in 1..n : i < j => key[s[i]] <= key[s[j]]
  BY <1>1 DEF Sorts
<1>3. /\ InOrder(S, key) \in Bijection(1..n, S)
      /\ \A i, j \in 1..n : i < j => key[InOrder(S, key)[i]] <= key[InOrder(S, key)[j]]
  BY <1>2, Zenon DEF InOrder
<1> QED BY <1>3 DEF Sorts

\* So InOrder lists elements of its set.
LEMMA InOrderElements ==
    ASSUME NEW S, IsFiniteSet(S), NEW key, Keys(key, S)
    PROVE  /\ Cardinality(S) \in Nat
           /\ \A i \in 1..Cardinality(S) : InOrder(S, key)[i] \in S
<1>1. Sorts(InOrder(S, key), Cardinality(S), S, key)
  BY InOrderSorts
<1>2. InOrder(S, key) \in [1..Cardinality(S) -> S]
  BY <1>1 DEF Sorts, Bijection, Injection
<1> QED BY <1>2, FS_CardinalityType

-----------------------------------------------------------------------------
(* What ledger entries weigh *)

\* The addresses an entry may name, and none.
Wallets == Addresses \cup {None}

\* The outputs an entry may name.
Slots ==
    Nat \cup {None}
        \cup (UNION {{SetToSortSeq(DOMAIN TxData[t].outputs, <)[k] : k \in Nat} : t \in Txs})
        \cup {TxData[t].artifact.pointer : t \in Txs}
        \cup {Min(DOMAIN TxData[t].outputs) : t \in Txs}

\* The entries of all transactions.
Facts ==
    {e \in [rune : RuneKeys, height : Nat, tx : Txs, event : Nat, output : Slots,
            address : Wallets, receiver : Wallets, amount : Nat \cup {None},
            op : {"etching", "mint", "burn", "send", "receive"}] :
        /\ e.op # "etching" => e.amount \in Nat
        /\ e.op = "receive" => e.amount > 0 /\ e.address # None}

\* What a transaction logs is an entry of the ledger, at its place.
LEMMA LogsAreFacts ==
    ASSUME NEW loc, loc.height \in Nat, loc.tx \in Txs,
           NEW e \in Logs(loc, Wallets, Slots)
    PROVE  e \in Facts /\ e.height = loc.height /\ e.tx = loc.tx
BY DEF Logs, Facts

\* The columns of supply_changes that are sums.
Fields == {"minted", "total_mints", "burned", "total_burns", "total_operations"}

\* The column f of a row s.
Field(s, f) ==
    IF f = "minted" THEN s.minted
    ELSE IF f = "total_mints" THEN s.total_mints
    ELSE IF f = "burned" THEN s.burned
    ELSE IF f = "total_burns" THEN s.total_burns
    ELSE s.total_operations

\* What an entry adds to a field of its rune's supply.
Weight(f) ==
    [e \in Facts |->
        IF f = "minted" THEN IF e.op = "mint" THEN e.amount ELSE 0
        ELSE IF f = "total_mints" THEN IF e.op = "mint" THEN 1 ELSE 0
        ELSE IF f = "burned" THEN IF e.op = "burn" THEN e.amount ELSE 0
        ELSE IF f = "total_burns" THEN IF e.op = "burn" THEN 1 ELSE 0
        ELSE 1]

\* What counts for nothing.
ZeroOf == [e \in Facts |-> 0]

\* What an entry adds to a balance, and what it takes.
ReceivedOf ==
    [e \in Facts |-> IF e.op = "receive" /\ e.address # None THEN e.amount ELSE 0]
SentOf ==
    [e \in Facts |-> IF e.op = "send" /\ e.address # None THEN e.amount ELSE 0]

\* What supply_changes and balance_changes are keyed by.
RuneOf == [e \in Facts |-> e.rune]
HolderOf == [e \in Facts |-> <<e.rune, e.address>>]

\* The fields of an entry.
LEMMA FactFields ==
    ASSUME NEW e \in Facts
    PROVE  /\ e.rune \in RuneKeys /\ e.height \in Nat /\ e.tx \in Txs /\ e.event \in Nat
           /\ e.output \in Slots /\ e.address \in Wallets
           /\ e.op \in {"etching", "mint", "burn", "send", "receive"}
           /\ e.op # "etching" => e.amount \in Nat
           /\ e.op = "receive" => e.amount > 0 /\ e.address # None
           /\ RuneOf[e] = e.rune /\ HolderOf[e] = <<e.rune, e.address>>
BY DEF Facts, RuneOf, HolderOf

\* What an entry adds to a field is a natural number.
LEMMA WeightIsNat ==
    ASSUME NEW f \in Fields, NEW e \in Facts
    PROVE  Weight(f)[e] \in Nat
<1>1. e.op # "etching" => e.amount \in Nat
  BY FactFields
<1> QED BY <1>1 DEF Weight, Fields

\* So finite sets of entries can be summed up.
LEMMA FactsWeigh ==
    ASSUME NEW S, IsFiniteSet(S), S \subseteq Facts
    PROVE  /\ \A f \in Fields : Ledgered(S, Weight(f), ZeroOf)
           /\ Ledgered(S, ReceivedOf, SentOf)
<1>1. \A f \in Fields : Weighs(Weight(f), S)
  BY WeightIsNat DEF Weighs
<1>2. Weighs(ZeroOf, S)
  BY DEF Weighs, ZeroOf
<1>3. \A e \in S : e.op # "etching" => e.amount \in Nat
  BY FactFields
<1>4. Weighs(ReceivedOf, S) /\ Weighs(SentOf, S)
  BY <1>3 DEF Weighs, ReceivedOf, SentOf
<1> QED BY <1>1, <1>2, <1>4 DEF Ledgered

-----------------------------------------------------------------------------
(* Columns of the tables *)

\* The column f of the rows, their balances, and their balances taken away.
Column(rows, f) == [x \in DOMAIN rows |-> Field(rows[x], f)]
Balances(rows) == [x \in DOMAIN rows |-> rows[x].balance]
Less(rows) == [x \in DOMAIN rows |-> 0 - rows[x].balance]

\* Among rows at the places D a search for key k returns the default, or the row
\* of one place.
Picks(D, k) ==
    \/ \A v, a : DOMAIN v = D => Latest(v, k, a) = a
    \/ \E x \in D : \A v, a : DOMAIN v = D => Latest(v, k, a) = v[x]

\* What a search for the latest row returns, whatever the table and the default.
LEMMA LatestFinds ==
    ASSUME NEW D, NEW top \in Int, \A x \in D : x[2] \in Nat /\ x[2] <= top, NEW k
    PROVE  Picks(D, k)
<1> DEFINE heights == {h \in {x[2] : x \in D} : <<k, h>> \in D}
           last    == CHOOSE h \in heights : \A g \in heights : g <= h
<1>1. \A v, a : DOMAIN v = D =>
          Latest(v, k, a) = IF heights = {} THEN a ELSE v[<<k, last>>]
  BY DEF Latest
<1>2. CASE heights = {}
  <2> HIDE DEF heights, last
  <2> QED BY <1>1, <1>2 DEF Picks
<1>3. CASE heights # {}
  <2>1. heights \subseteq Nat /\ \A h \in heights : h <= top
    OBVIOUS
  <2>2. last \in heights
    <3> HIDE DEF heights
    <3> QED BY <1>3, <2>1, GreatestNatural
  <2>3. <<k, last>> \in D
    BY <2>2
  <2>4. \A v, a : DOMAIN v = D => Latest(v, k, a) = v[<<k, last>>]
    <3> HIDE DEF heights, last
    <3> QED BY <1>1, <1>3
  <2> HIDE DEF heights, last
  <2> QED BY <2>3, <2>4 DEF Picks
<1> QED BY <1>2, <1>3

\* SupplyPlus adds field by field.
LEMMA FieldsAdd ==
    ASSUME NEW f \in Fields, NEW a, NEW b
    PROVE  Field(SupplyPlus(a, b), f) = Field(a, f) + Field(b, f)
BY DEF Fields, Field, SupplyPlus

\* The supply of a rune without a row.
LEMMA NoField == ASSUME NEW f \in Fields PROVE Field(NoSupply, f) = 0
BY DEF Fields, Field, NoSupply

\* A field of the latest row is the latest of its column.
LEMMA LatestField ==
    ASSUME NEW rows, NEW h \in Nat, Paired(rows, h), NEW k, NEW f \in Fields
    PROVE  Field(Latest(rows, k, NoSupply), f) = Latest(Column(rows, f), k, 0)
<1> DEFINE D == DOMAIN rows
           col == Column(rows, f)
<1>1. DOMAIN rows = D /\ DOMAIN col = D /\ \A x \in D : col[x] = Field(rows[x], f)
  BY DEF Column
<1>2. \A x \in D : x[2] \in Nat /\ x[2] <= h
  BY DEF Paired
<1> HIDE DEF D, col
<1>3. \/ \A v, a : DOMAIN v = D => Latest(v, k, a) = a
      \/ \E x \in D : \A v, a : DOMAIN v = D => Latest(v, k, a) = v[x]
  <2>1. h \in Int
    OBVIOUS
  <2>2. Picks(D, k)
    BY <1>2, <2>1, LatestFinds
  <2> QED BY <2>2 DEF Picks
<1>4. CASE \A v, a : DOMAIN v = D => Latest(v, k, a) = a
  <2>1. Latest(rows, k, NoSupply) = NoSupply /\ Latest(col, k, 0) = 0
    BY <1>1, <1>4
  <2> QED BY <2>1, NoField DEF col
<1>5. ASSUME NEW x \in D, \A v, a : DOMAIN v = D => Latest(v, k, a) = v[x]
      PROVE  Field(Latest(rows, k, NoSupply), f) = Latest(col, k, 0)
  <2>1. Latest(rows, k, NoSupply) = rows[x] /\ Latest(col, k, 0) = col[x]
    BY <1>1, <1>5
  <2> QED BY <1>1, <2>1
<1> QED BY <1>3, <1>4, <1>5 DEF col

\* The balance of the latest row is the latest of the balances.
LEMMA LatestBalance ==
    ASSUME NEW rows, NEW h \in Nat, Paired(rows, h), NEW k
    PROVE  Latest(rows, k, NoBalance).balance = Latest(Balances(rows), k, 0)
<1> DEFINE D == DOMAIN rows
           col == Balances(rows)
<1>1. DOMAIN rows = D /\ DOMAIN col = D /\ \A x \in D : col[x] = rows[x].balance
  BY DEF Balances
<1>2. \A x \in D : x[2] \in Nat /\ x[2] <= h
  BY DEF Paired
<1> HIDE DEF D, col
<1>3. \/ \A v, a : DOMAIN v = D => Latest(v, k, a) = a
      \/ \E x \in D : \A v, a : DOMAIN v = D => Latest(v, k, a) = v[x]
  <2>1. h \in Int
    OBVIOUS
  <2>2. Picks(D, k)
    BY <1>2, <2>1, LatestFinds
  <2> QED BY <2>2 DEF Picks
<1>4. CASE \A v, a : DOMAIN v = D => Latest(v, k, a) = a
  <2>1. Latest(rows, k, NoBalance) = NoBalance /\ Latest(col, k, 0) = 0
    BY <1>1, <1>4
  <2> QED BY <2>1 DEF col, NoBalance
<1>5. ASSUME NEW x \in D, \A v, a : DOMAIN v = D => Latest(v, k, a) = v[x]
      PROVE  Latest(rows, k, NoBalance).balance = Latest(col, k, 0)
  <2>1. Latest(rows, k, NoBalance) = rows[x] /\ Latest(col, k, 0) = col[x]
    BY <1>1, <1>5
  <2> QED BY <1>1, <2>1
<1> QED BY <1>3, <1>4, <1>5 DEF col

\* An insert of supply changes is an insert into each column.
LEMMA ColumnInserted ==
    ASSUME NEW rows, NEW h \in Nat, Paired(rows, h), NEW changes, NEW f \in Fields
    PROVE  Column(InsertSupplyChanges(rows, changes, h), f)
               = Inserted(Column(rows, f), Column(changes, f), h)
<1> DEFINE new == InsertSupplyChanges(rows, changes, h)
           col == Column(rows, f)
           add == Column(changes, f)
           D == DOMAIN rows \cup {<<k, h>> : k \in DOMAIN changes}
<1>1. /\ DOMAIN col = DOMAIN rows /\ \A x \in DOMAIN rows : col[x] = Field(rows[x], f)
      /\ DOMAIN add = DOMAIN changes
      /\ \A k \in DOMAIN changes : add[k] = Field(changes[k], f)
  BY DEF Column
<1>2. new = [x \in D |-> IF x[2] = h /\ x[1] \in DOMAIN changes
                         THEN SupplyPlus(Latest(rows, x[1], NoSupply), changes[x[1]])
                         ELSE rows[x]]
  BY DEF InsertSupplyChanges
<1>3. Inserted(col, add, h)
          = [x \in D |-> IF x[2] = h /\ x[1] \in DOMAIN changes
                         THEN Latest(col, x[1], 0) + add[x[1]]
                         ELSE col[x]]
  BY <1>1 DEF Inserted
<1>4. ASSUME NEW x \in D
      PROVE  Field(new[x], f) = Inserted(col, add, h)[x]
  <2>1. CASE x[2] = h /\ x[1] \in DOMAIN changes
    <3>1. new[x] = SupplyPlus(Latest(rows, x[1], NoSupply), changes[x[1]])
      BY <1>2, <1>4, <2>1
    <3>2. Inserted(col, add, h)[x] = Latest(col, x[1], 0) + add[x[1]]
      BY <1>3, <1>4, <2>1
    <3>3. Field(Latest(rows, x[1], NoSupply), f) = Latest(col, x[1], 0)
      BY LatestField
    <3> HIDE DEF new, col, add
    <3>4. Field(new[x], f) = Field(Latest(rows, x[1], NoSupply), f) + Field(changes[x[1]], f)
      BY <3>1, FieldsAdd
    <3>5. add[x[1]] = Field(changes[x[1]], f)
      BY <1>1, <2>1
    <3> QED BY <3>2, <3>3, <3>4, <3>5
  <2>2. CASE ~(x[2] = h /\ x[1] \in DOMAIN changes)
    <3>1. new[x] = rows[x] /\ Inserted(col, add, h)[x] = col[x]
      BY <1>2, <1>3, <1>4, <2>2
    <3>2. x \in DOMAIN rows
      BY <2>2
    <3> QED BY <1>1, <3>1, <3>2
  <2> QED BY <2>1, <2>2
<1>5. DOMAIN new = D
  BY <1>2
<1> HIDE DEF new, col, add
<1>6. Column(new, f) = [x \in D |-> Field(new[x], f)]
  BY <1>5 DEF Column
<1>7. Inserted(col, add, h) = [x \in D |-> Inserted(col, add, h)[x]]
  BY <1>3
<1> HIDE DEF D
<1> QED BY <1>4, <1>6, <1>7 DEF new, col, add

\* So is an insert of increases, and one of deductions.
LEMMA BalancesInserted ==
    ASSUME NEW rows, NEW h \in Nat, Paired(rows, h), NEW changes,
           \A k \in DOMAIN changes : changes[k].balance \in Int, NEW sign \in {1, -1}
    PROVE  Balances(InsertBalanceChanges(rows, changes, h, sign))
               = Inserted(Balances(rows), IF sign = 1 THEN Balances(changes) ELSE Less(changes),
                          h)
<1> DEFINE new == InsertBalanceChanges(rows, changes, h, sign)
           col == Balances(rows)
           add == IF sign = 1 THEN Balances(changes) ELSE Less(changes)
           D == DOMAIN rows \cup {<<k, h>> : k \in DOMAIN changes}
           Sum(k) == Latest(rows, k, NoBalance).balance + sign * changes[k].balance
<1>1. DOMAIN col = DOMAIN rows /\ \A x \in DOMAIN rows : col[x] = rows[x].balance
  BY DEF Balances
<1>2. /\ DOMAIN add = DOMAIN changes
      /\ \A k \in DOMAIN changes : add[k] = sign * changes[k].balance
  BY DEF Balances, Less
<1>3. /\ DOMAIN new = D
      /\ \A x \in D : new[x].balance = IF x[2] = h /\ x[1] \in DOMAIN changes
                                        THEN Sum(x[1]) ELSE rows[x].balance
  BY DEF InsertBalanceChanges
<1>4. Inserted(col, add, h)
          = [x \in D |-> IF x[2] = h /\ x[1] \in DOMAIN changes
                         THEN Latest(col, x[1], 0) + add[x[1]]
                         ELSE col[x]]
  BY <1>1, <1>2 DEF Inserted
<1>5. ASSUME NEW x \in D
      PROVE  new[x].balance = Inserted(col, add, h)[x]
  <2>1. CASE x[2] = h /\ x[1] \in DOMAIN changes
    <3>1. new[x].balance = Sum(x[1])
      BY <1>3, <1>5, <2>1
    <3>2. Inserted(col, add, h)[x] = Latest(col, x[1], 0) + add[x[1]]
      BY <1>4, <1>5, <2>1
    <3>3. Latest(rows, x[1], NoBalance).balance = Latest(col, x[1], 0)
      BY LatestBalance
    <3>4. add[x[1]] = sign * changes[x[1]].balance
      BY <1>2, <2>1
    <3> HIDE DEF new, col, add
    <3> QED BY <3>1, <3>2, <3>3, <3>4
  <2>2. CASE ~(x[2] = h /\ x[1] \in DOMAIN changes)
    <3>1. new[x].balance = rows[x].balance /\ Inserted(col, add, h)[x] = col[x]
      BY <1>3, <1>4, <1>5, <2>2
    <3>2. x \in DOMAIN rows
      BY <2>2
    <3> QED BY <1>1, <3>1, <3>2
  <2> QED BY <2>1, <2>2
<1> HIDE DEF new, col, add, Sum
<1>6. Balances(new) = [x \in D |-> new[x].balance]
  BY <1>3 DEF Balances
<1>7. Inserted(col, add, h) = [x \in D |-> Inserted(col, add, h)[x]]
  BY <1>4
<1> HIDE DEF D
<1> QED BY <1>5, <1>6, <1>7 DEF new, col, add

-----------------------------------------------------------------------------
(* Tables that sum up their ledger *)

\* Supply rows, and balance rows, that hold the running sums of S.
SupplySums(v, S) == \A f \in Fields : RowsSum(Column(v, f), S, RuneOf, Weight(f), ZeroOf)

BalanceSums(v, S) == RowsSum(Balances(v), S, HolderOf, ReceivedOf, SentOf)

\* The entries that increase a balance, or the others.
Side(S, op) == {e \in S : (e.op = "receive") <=> (op = "receive")}

\* The rows of the tables d, up to the height top, are the sums of the ledger.
Summed(d, top) ==
    /\ IsFiniteSet(d.ledger)
    /\ d.ledger \subseteq Facts
    /\ LowerThan(d.ledger, top)
    /\ Paired(d.supply, top) /\ Paired(d.balances, top)
    /\ SupplySums(d.supply, d.ledger)
    /\ BalanceSums(d.balances, d.ledger)

\* The pending changes are the sums of the entries T.
SupplyPends(c, T) ==
    \A f \in Fields : ChangesSum(Column(c, f), T, RuneOf, Weight(f), ZeroOf)

IncreasesPend(c, T) ==
    /\ ChangesSum(Balances(c), Side(T, "receive"), HolderOf, ReceivedOf, SentOf)
    /\ \A k \in DOMAIN c : k[2] # None

DeductionsPend(c, T) ==
    /\ ChangesSum(Balances(c), Side(T, "send"), HolderOf, SentOf, ReceivedOf)
    /\ \A k \in DOMAIN c : k[2] # None

\* The pending rows c of the block at the height h are the sums of its entries.
Awaits(c, h) ==
    /\ IsList(c.ledger)
    /\ ToSet(c.ledger) \subseteq Facts
    /\ \A e \in ToSet(c.ledger) : e.height = h
    /\ SupplyPends(c.supply, ToSet(c.ledger))
    /\ IncreasesPend(c.increases, ToSet(c.ledger))
    /\ DeductionsPend(c.deductions, ToSet(c.ledger))

\* Where rows lie depends on their keys alone.
LEMMA PairedFits ==
    ASSUME NEW v, NEW u, DOMAIN v = DOMAIN u, NEW top
    PROVE  Paired(v, top) <=> Paired(u, top)
BY DEF Paired

\* Entries of a block lie at its height.
LEMMA FactHeights ==
    ASSUME NEW S, S \subseteq Facts, NEW h \in Nat, \A e \in S : e.height = h
    PROVE  LowerThan(S, h)
BY DEF LowerThan

\* Inserting the pending supply.
LEMMA FlushedSupply ==
    ASSUME NEW v, NEW h \in Nat, Paired(v, h), NEW S, NEW T,
           IsFiniteSet(S), IsFiniteSet(T), S \subseteq Facts, T \subseteq Facts, S \cap T = {},
           LowerThan(S, h), \A e \in T : e.height = h,
           SupplySums(v, S), NEW c, SupplyPends(c, T)
    PROVE  LET new == InsertSupplyChanges(v, c, h)
           IN  Paired(new, h) /\ SupplySums(new, S \cup T)
<1> DEFINE new == InsertSupplyChanges(v, c, h)
<1>1. ASSUME NEW f \in Fields
      PROVE  /\ Paired(Column(new, f), h)
             /\ RowsSum(Column(new, f), S \cup T, RuneOf, Weight(f), ZeroOf)
  <2>1. Ledgered(S, Weight(f), ZeroOf) /\ Ledgered(T, Weight(f), ZeroOf)
    BY FactsWeigh
  <2>2. DOMAIN Column(v, f) = DOMAIN v
    BY DEF Column
  <2>3. Paired(Column(v, f), h)
    BY <2>2, PairedFits
  <2>4. /\ RowsSum(Column(v, f), S, RuneOf, Weight(f), ZeroOf)
        /\ ChangesSum(Column(c, f), T, RuneOf, Weight(f), ZeroOf)
    BY DEF SupplySums, SupplyPends
  <2>5. /\ Paired(Inserted(Column(v, f), Column(c, f), h), h)
        /\ RowsSum(Inserted(Column(v, f), Column(c, f), h), S \cup T, RuneOf, Weight(f), ZeroOf)
    BY <2>1, <2>3, <2>4, InsertSums
  <2>6. Column(new, f) = Inserted(Column(v, f), Column(c, f), h)
    BY ColumnInserted
  <2> QED BY <2>5, <2>6
<1>2. \A f : DOMAIN Column(new, f) = DOMAIN new
  BY DEF Column
<1> HIDE DEF new
<1>3. "minted" \in Fields
  BY DEF Fields
<1>4. Paired(new, h)
  BY <1>1, <1>2, <1>3, PairedFits
<1>5. SupplySums(new, S \cup T)
  BY <1>1 DEF SupplySums
<1> QED BY <1>4, <1>5 DEF new

\* Inserting the sums of T into the balances, with either sign.
LEMMA FlushedSide ==
    ASSUME NEW v, NEW h \in Nat, Paired(v, h), NEW S, NEW T,
           IsFiniteSet(S), IsFiniteSet(T), S \subseteq Facts, T \subseteq Facts, S \cap T = {},
           LowerThan(S, h), \A e \in T : e.height = h,
           BalanceSums(v, S), NEW c, NEW sign,
           \/ sign = 1 /\ ChangesSum(Balances(c), T, HolderOf, ReceivedOf, SentOf)
           \/ sign = -1 /\ ChangesSum(Balances(c), T, HolderOf, SentOf, ReceivedOf)
    PROVE  LET new == InsertBalanceChanges(v, c, h, sign)
           IN  Paired(new, h) /\ BalanceSums(new, S \cup T)
<1> DEFINE new == InsertBalanceChanges(v, c, h, sign)
           add == IF sign = 1 THEN Balances(c) ELSE Less(c)
<1>1. Ledgered(S, ReceivedOf, SentOf) /\ Ledgered(T, ReceivedOf, SentOf)
  BY FactsWeigh
<1>2. DOMAIN Balances(v) = DOMAIN v /\ Paired(Balances(v), h)
  BY PairedFits DEF Balances
<1>3. ASSUME NEW k
      PROVE  /\ SumOver(ReceivedOf, Keyed(T, HolderOf, k)) \in Nat
             /\ SumOver(SentOf, Keyed(T, HolderOf, k)) \in Nat
  <2>1. Keyed(T, HolderOf, k) \in SUBSET T
    BY DEF Keyed
  <2>2. Ledgered(Keyed(T, HolderOf, k), ReceivedOf, SentOf)
    BY <1>1, <2>1, LedgeredPart
  <2> QED BY <2>2, SumTakesOut DEF Ledgered
<1>4. \A k \in DOMAIN c : c[k].balance = Balances(c)[k]
  BY DEF Balances
<1>5. DOMAIN Balances(c) = DOMAIN c /\ DOMAIN Less(c) = DOMAIN c
      /\ \A k \in DOMAIN c : Less(c)[k] = 0 - c[k].balance
  BY DEF Balances, Less
<1>6. /\ sign \in {1, -1}
      /\ \A k \in DOMAIN c : c[k].balance \in Int
      /\ ChangesSum(add, T, HolderOf, ReceivedOf, SentOf)
  <2>1. CASE sign = 1 /\ ChangesSum(Balances(c), T, HolderOf, ReceivedOf, SentOf)
    <3>1. \A k \in DOMAIN c : c[k].balance \in Int
      BY <1>3, <1>4, <1>5, <2>1 DEF ChangesSum, Net
    <3> QED BY <2>1, <3>1
  <2>2. CASE sign = -1 /\ ChangesSum(Balances(c), T, HolderOf, SentOf, ReceivedOf)
    <3>1. \A k \in DOMAIN c :
              c[k].balance = SumOver(SentOf, Keyed(T, HolderOf, k))
                                 - SumOver(ReceivedOf, Keyed(T, HolderOf, k))
      BY <1>4, <1>5, <2>2 DEF ChangesSum, Net
    <3>2. \A k \in DOMAIN c :
              /\ c[k].balance \in Int
              /\ 0 - c[k].balance = SumOver(ReceivedOf, Keyed(T, HolderOf, k))
                                        - SumOver(SentOf, Keyed(T, HolderOf, k))
      BY <1>3, <3>1
    <3>3. add = Less(c)
      BY <2>2
    <3>4. \A k \in DOMAIN c : Less(c)[k] = Net(ReceivedOf, SentOf, Keyed(T, HolderOf, k))
      BY <1>5, <3>2 DEF Net
    <3>5. \A e \in T : Idle(ReceivedOf, SentOf, e) \/ HolderOf[e] \in DOMAIN c
      BY <1>5, <2>2 DEF ChangesSum, Idle
    <3> HIDE DEF add
    <3>6. ChangesSum(add, T, HolderOf, ReceivedOf, SentOf)
      BY <1>5, <3>3, <3>4, <3>5 DEF ChangesSum
    <3> QED BY <2>2, <3>2, <3>6
  <2> QED BY <2>1, <2>2
<1>7. Balances(new) = Inserted(Balances(v), add, h)
  BY <1>6, BalancesInserted
<1>8. /\ Paired(Inserted(Balances(v), add, h), h)
      /\ RowsSum(Inserted(Balances(v), add, h), S \cup T, HolderOf, ReceivedOf, SentOf)
  <2> HIDE DEF add, new
  <2>1. RowsSum(Balances(v), S, HolderOf, ReceivedOf, SentOf)
    BY DEF BalanceSums
  <2> QED BY <1>1, <1>2, <1>6, <2>1, InsertSums
<1>9. DOMAIN Balances(new) = DOMAIN new
  BY DEF Balances
<1> HIDE DEF new, add
<1>10. Paired(new, h)
  BY <1>7, <1>8, <1>9, PairedFits
<1> QED BY <1>7, <1>8, <1>10 DEF BalanceSums, new

\* Inserting what is pending of both sides.
LEMMA FlushedBalances ==
    ASSUME NEW v, NEW h \in Nat, Paired(v, h), NEW S, NEW T,
           IsFiniteSet(S), IsFiniteSet(T), S \subseteq Facts, T \subseteq Facts, S \cap T = {},
           LowerThan(S, h), \A e \in T : e.height = h,
           BalanceSums(v, S), NEW a, NEW b, IncreasesPend(a, T), DeductionsPend(b, T)
    PROVE  LET new == InsertBalanceChanges(InsertBalanceChanges(v, a, h, 1), b, h, -1)
           IN  Paired(new, h) /\ BalanceSums(new, S \cup T)
<1> DEFINE up == InsertBalanceChanges(v, a, h, 1)
           new == InsertBalanceChanges(up, b, h, -1)
           R == Side(T, "receive")
           U == Side(T, "send")
<1>1. /\ R \subseteq T /\ U \subseteq T /\ R \cup U = T /\ R \cap U = {}
      /\ IsFiniteSet(R) /\ IsFiniteSet(U)
  <2>1. R \subseteq T /\ U \subseteq T /\ R \cup U = T /\ R \cap U = {}
    BY DEF Side
  <2> HIDE DEF R, U
  <2> QED BY <2>1, FS_Subset
<1>2. /\ ChangesSum(Balances(a), R, HolderOf, ReceivedOf, SentOf)
      /\ ChangesSum(Balances(b), U, HolderOf, SentOf, ReceivedOf)
  BY DEF IncreasesPend, DeductionsPend
<1> HIDE DEF R, U
<1>3. Paired(up, h) /\ BalanceSums(up, S \cup R)
  BY <1>1, <1>2, FlushedSide
<1>4. /\ IsFiniteSet(S \cup R) /\ S \cup R \subseteq Facts /\ (S \cup R) \cap U = {}
      /\ LowerThan(S \cup R, h) /\ U \subseteq Facts /\ (S \cup R) \cup U = S \cup T
  <2>1. IsFiniteSet(S \cup R)
    BY <1>1, FS_Union
  <2>2. LowerThan(S \cup R, h)
    BY <1>1 DEF LowerThan
  <2> QED BY <1>1, <2>1, <2>2
<1> HIDE DEF up
<1>5. Paired(new, h) /\ BalanceSums(new, (S \cup R) \cup U)
  BY <1>1, <1>2, <1>3, <1>4, FlushedSide
<1> QED BY <1>4, <1>5 DEF up

\* So a flush leaves tables that sum up their ledger.
LEMMA FlushSums ==
    ASSUME NEW d, NEW c, NEW h \in Nat, Summed(d, h), Awaits(c, h),
           d.ledger \cap ToSet(c.ledger) = {}
    PROVE  /\ Summed(Flush(d, c, h), h)
           /\ Flush(d, c, h).ledger = d.ledger \cup ToSet(c.ledger)
<1> DEFINE S == d.ledger
           T == ToSet(c.ledger)
           new == Flush(d, c, h)
<1>1. /\ IsFiniteSet(S) /\ S \subseteq Facts /\ LowerThan(S, h)
      /\ Paired(d.supply, h) /\ Paired(d.balances, h)
      /\ SupplySums(d.supply, S) /\ BalanceSums(d.balances, S)
  BY DEF Summed
<1>2. /\ T \subseteq Facts /\ (\A e \in T : e.height = h) /\ SupplyPends(c.supply, T)
      /\ IncreasesPend(c.increases, T) /\ DeductionsPend(c.deductions, T)
      /\ IsFiniteSet(T)
  BY ListFinite DEF Awaits
<1>3. /\ new.supply = InsertSupplyChanges(d.supply, c.supply, h)
      /\ new.ledger = S \cup T
      /\ new.balances = InsertBalanceChanges(
                            InsertBalanceChanges(d.balances, c.increases, h, 1),
                            c.deductions, h, -1)
  BY DEF Flush
<1>8. S \cap T = {}
  OBVIOUS
<1> HIDE DEF S, T, new
<1>4. Paired(new.supply, h) /\ SupplySums(new.supply, S \cup T)
  BY <1>1, <1>2, <1>3, <1>8, FlushedSupply
<1>5. Paired(new.balances, h) /\ BalanceSums(new.balances, S \cup T)
  BY <1>1, <1>2, <1>3, <1>8, FlushedBalances
<1>6. IsFiniteSet(S \cup T) /\ S \cup T \subseteq Facts /\ LowerThan(S \cup T, h)
  <2>1. IsFiniteSet(S \cup T)
    BY <1>1, <1>2, FS_Union
  <2>2. LowerThan(T, h)
    BY <1>2, FactHeights
  <2> QED BY <1>1, <1>2, <2>1, <2>2 DEF LowerThan
<1> QED BY <1>3, <1>4, <1>5, <1>6 DEF Summed, S, T, new

\* A roll-back does too.
LEMMA RollBackSums ==
    ASSUME NEW d, IsTables(d), NEW h \in Nat, Summed(d, h)
    PROVE  Summed(RollBack(d, h), h - 1)
<1> DEFINE S == d.ledger
           T == {e \in S : e.height # h}
           new == RollBack(d, h)
<1>1. /\ IsFiniteSet(S) /\ S \subseteq Facts /\ LowerThan(S, h)
      /\ Paired(d.supply, h) /\ Paired(d.balances, h)
      /\ SupplySums(d.supply, S) /\ BalanceSums(d.balances, S)
  BY DEF Summed
<1>2. /\ new.ledger = T
      /\ new.supply = WithoutHeight(d.supply, h)
      /\ new.balances = WithoutHeight(d.balances, h)
  BY RolledBack
<1>3. IsFiniteSet(T) /\ T \subseteq Facts
  BY <1>1, FS_Subset
<1>4. /\ LowerThan(T, h - 1) /\ Paired(WithoutHeight(Balances(d.balances), h), h - 1)
      /\ RowsSum(WithoutHeight(Balances(d.balances), h), T, HolderOf, ReceivedOf, SentOf)
  <2>1. Paired(Balances(d.balances), h)
    <3>1. DOMAIN Balances(d.balances) = DOMAIN d.balances
      BY DEF Balances
    <3> QED BY <1>1, <3>1, PairedFits
  <2> QED BY <1>1, <2>1, WithoutSums DEF BalanceSums
<1>5. ASSUME NEW f \in Fields
      PROVE  /\ Paired(WithoutHeight(Column(d.supply, f), h), h - 1)
             /\ RowsSum(WithoutHeight(Column(d.supply, f), h), T, RuneOf, Weight(f), ZeroOf)
  <2>1. Paired(Column(d.supply, f), h)
    <3>1. DOMAIN Column(d.supply, f) = DOMAIN d.supply
      BY DEF Column
    <3> QED BY <1>1, <3>1, PairedFits
  <2>2. RowsSum(Column(d.supply, f), S, RuneOf, Weight(f), ZeroOf)
    BY <1>1 DEF SupplySums
  <2> QED BY <1>1, <2>1, <2>2, WithoutSums
<1>6. Balances(WithoutHeight(d.balances, h)) = WithoutHeight(Balances(d.balances), h)
  BY DEF Balances, WithoutHeight, Only
<1>7. \A f : Column(WithoutHeight(d.supply, h), f) = WithoutHeight(Column(d.supply, f), h)
  BY DEF Column, WithoutHeight, Only
<1> HIDE DEF T, new
<1>8. SupplySums(new.supply, T) /\ BalanceSums(new.balances, T)
  BY <1>2, <1>4, <1>5, <1>6, <1>7 DEF SupplySums, BalanceSums
<1>9. Paired(new.supply, h - 1) /\ Paired(new.balances, h - 1)
  <2>1. "minted" \in Fields
    BY DEF Fields
  <2>2. /\ DOMAIN Column(new.supply, "minted") = DOMAIN new.supply
        /\ DOMAIN Balances(new.balances) = DOMAIN new.balances
    BY DEF Column, Balances
  <2>3. Paired(Column(new.supply, "minted"), h - 1) /\ Paired(Balances(new.balances), h - 1)
    BY <1>2, <1>4, <1>5, <1>6, <1>7, <2>1
  <2> QED BY <2>2, <2>3, PairedFits
<1> QED BY <1>2, <1>3, <1>4, <1>8, <1>9 DEF Summed, new

-----------------------------------------------------------------------------
(* Pending changes that grow by the entries of a list *)

\* The changes cc are the changes c and the sums of the entries L.
Grows(c, cc, L, key, w, u) ==
    /\ DOMAIN c \subseteq DOMAIN cc
    /\ \A k \in DOMAIN cc :
          cc[k] = (IF k \in DOMAIN c THEN c[k] ELSE 0) + Net(w, u, Keyed(L, key, k))
    /\ \A e \in L : Idle(w, u, e) \/ key[e] \in DOMAIN cc

\* Changes that are sums stay sums when entries are added.
LEMMA GrowSums ==
    ASSUME NEW T, NEW L, NEW key, NEW w, NEW u, Ledgered(T, w, u), Ledgered(L, w, u),
           T \cap L = {}, NEW c, ChangesSum(c, T, key, w, u),
           NEW cc, Grows(c, cc, L, key, w, u)
    PROVE  ChangesSum(cc, T \cup L, key, w, u)
<1>1. ASSUME NEW k \in DOMAIN cc
      PROVE  cc[k] = Net(w, u, Keyed(T \cup L, key, k))
  <2> DEFINE s == Keyed(T, key, k)
             t == Keyed(L, key, k)
  <2>1. s \in SUBSET T /\ t \in SUBSET L /\ s \cap t = {} /\ Keyed(T \cup L, key, k) = s \cup t
    BY DEF Keyed
  <2>2. Ledgered(s, w, u) /\ Ledgered(t, w, u)
    BY <2>1, LedgeredPart
  <2>3. cc[k] = (IF k \in DOMAIN c THEN c[k] ELSE 0) + Net(w, u, t)
    BY <1>1 DEF Grows
  <2>4. (IF k \in DOMAIN c THEN c[k] ELSE 0) = Net(w, u, s)
    <3>1. CASE k \in DOMAIN c
      BY <3>1 DEF ChangesSum
    <3>2. CASE k \notin DOMAIN c
      <4>1. \A e \in s : Idle(w, u, e)
        BY <3>2 DEF ChangesSum, Keyed
      <4> HIDE DEF s
      <4>2. Net(w, u, s) = 0
        BY <2>2, <4>1, NetOfIdle DEF Ledgered
      <4> QED BY <3>2, <4>2
    <3> QED BY <3>1, <3>2
  <2> HIDE DEF s, t
  <2>5. AddsUp(w, u, s, t)
    BY <2>1, <2>2, NetAddsUp
  <2>6. Net(w, u, s \cup t) = Net(w, u, s) + Net(w, u, t)
    BY <2>5 DEF AddsUp
  <2> QED BY <2>1, <2>3, <2>4, <2>6
<1>2. ASSUME NEW e \in T \cup L
      PROVE  Idle(w, u, e) \/ key[e] \in DOMAIN cc
  BY DEF ChangesSum, Grows
<1> QED BY <1>1, <1>2 DEF ChangesSum

\* A list of entries, none twice.
Log(l) ==
    /\ IsList(l)
    /\ ToSet(l) \subseteq Facts
    /\ \A i, j \in DOMAIN l : l[i] = l[j] => i = j

\* A set of places of a list is finite.
LEMMA PlacesFinite ==
    ASSUME NEW l, IsList(l), NEW I \in SUBSET DOMAIN l
    PROVE  IsFiniteSet(I)
<1>1. IsFiniteSet(DOMAIN l)
  BY ListLength, FS_Interval
<1> QED BY <1>1, FS_Subset

\* Summing over places is summing over the entries there.
LEMMA AmountsReached ==
    ASSUME NEW l, Log(l), NEW I \in SUBSET DOMAIN l, NEW w,
           \A i \in I : l[i].amount \in Nat /\ w[l[i]] = l[i].amount
    PROVE  SumOver(w, Reached(l, I)) = AmountsAt(l, I)
<1>1. IsFiniteSet(I) /\ \A x, y \in I : l[x] = l[y] => x = y
  BY PlacesFinite DEF Log
<1>2. AmountsAt(l, I) = SumOver(Amounts(l), I)
  BY <1>1, AmountsAtIsSum
<1>3. Weighs(w, Reached(l, I))
  BY DEF Weighs, Reached
<1>4. \A x \in I : Amounts(l)[x] = w[l[x]]
  BY DEF Amounts
<1>5. SumOver(Amounts(l), I) = SumOver(w, Reached(l, I))
  BY <1>1, <1>3, <1>4, SumOfPlaces
<1> QED BY <1>2, <1>5

\* Counting places is counting the entries there.
LEMMA CountReached ==
    ASSUME NEW l, Log(l), NEW I \in SUBSET DOMAIN l, NEW w, \A i \in I : w[l[i]] = 1
    PROVE  SumOver(w, Reached(l, I)) = Cardinality(I)
<1> DEFINE one == [i \in I |-> 1]
<1>1. IsFiniteSet(I) /\ \A x, y \in I : l[x] = l[y] => x = y
  BY PlacesFinite DEF Log
<1>2. Weighs(w, Reached(l, I))
  BY DEF Weighs, Reached
<1>3. (\A x \in I : one[x] = w[l[x]]) /\ \A x \in I : one[x] = 1
  OBVIOUS
<1> HIDE DEF one
<1>4. SumOver(one, I) = SumOver(w, Reached(l, I))
  BY <1>1, <1>2, <1>3, SumOfPlaces
<1>5. SumOver(one, I) = Cardinality(I)
  BY <1>1, <1>3, SumOfOnes
<1> QED BY <1>4, <1>5

\* Nothing is taken from a field of a supply row.
LEMMA NetOfWeight ==
    ASSUME NEW f \in Fields, NEW S, IsFiniteSet(S), S \subseteq Facts
    PROVE  /\ SumOver(Weight(f), S) \in Nat
           /\ Net(Weight(f), ZeroOf, S) = SumOver(Weight(f), S)
<1>1. Ledgered(S, Weight(f), ZeroOf)
  BY FactsWeigh
<1>2. SumOver(Weight(f), S) \in Nat
  BY <1>1, SumTakesOut DEF Ledgered
<1>3. \A e \in S : ZeroOf[e] = 0
  BY DEF ZeroOf
<1>4. SumOver(ZeroOf, S) = 0
  BY <1>3, SumOfZeros
<1> QED BY <1>2, <1>4 DEF Net

\* The sums a list of moves adds to the supply of the rune r.
MovesSum(l, r, f) ==
    LET of(op) == {i \in DOMAIN l : l[i].rune = r /\ l[i].op \in op}
    IN  IF f = "burned" THEN AmountsAt(l, of({"burn"}))
        ELSE IF f = "total_burns" THEN Cardinality(of({"burn"}))
        ELSE IF f = "total_operations" THEN Cardinality(of({"burn", "send", "receive"}))
        ELSE 0

\* What CountMoves adds to a field is what the entries weigh.
LEMMA MovesSumIsNet ==
    ASSUME NEW l, Log(l), Shifts(l), NEW r, NEW f \in Fields
    PROVE  MovesSum(l, r, f) = Net(Weight(f), ZeroOf, Keyed(ToSet(l), RuneOf, r))
           /\ MovesSum(l, r, f) \in Nat
<1> DEFINE L == ToSet(l)
           K == Keyed(L, RuneOf, r)
           B == {i \in DOMAIN l : l[i].rune = r /\ l[i].op \in {"burn"}}
           I == {i \in DOMAIN l : l[i].rune = r /\ l[i].op \in {"burn", "send", "receive"}}
           w == Weight(f)
<1>1. IsFiniteSet(L) /\ L \subseteq Facts /\ L = {l[i] : i \in DOMAIN l}
  BY ListFinite DEF Log, ToSet
<1>2. /\ \A i \in DOMAIN l : /\ l[i] \in Facts /\ RuneOf[l[i]] = l[i].rune
                             /\ l[i].op \in {"burn", "send", "receive"}
                             /\ l[i].amount \in Nat
  <2> SUFFICES ASSUME NEW i \in DOMAIN l
               PROVE  /\ l[i] \in Facts /\ RuneOf[l[i]] = l[i].rune
                      /\ l[i].op \in {"burn", "send", "receive"} /\ l[i].amount \in Nat
    OBVIOUS
  <2>1. l[i] \in Facts
    BY <1>1
  <2>2. l[i].op \in {"burn", "send", "receive"}
    BY DEF Shifts
  <2> QED BY <2>1, <2>2, FactFields
<1>3. /\ K \in SUBSET L /\ Reached(l, I) = K /\ Reached(l, B) \in SUBSET K
      /\ \A e \in K \ Reached(l, B) : e.op # "burn"
      /\ \A e \in K : e.op \in {"burn", "send", "receive"} /\ e \in Facts
  BY <1>1, <1>2 DEF Keyed, Reached
<1>4. IsFiniteSet(K) /\ K \subseteq Facts /\ I \in SUBSET DOMAIN l /\ B \in SUBSET DOMAIN l
  BY <1>1, <1>3, FS_Subset
<1>5. \A i \in B : l[i].op = "burn"
  OBVIOUS
<1> HIDE DEF L, K, I, B
<1>6. Net(w, ZeroOf, K) = SumOver(w, K) /\ SumOver(w, K) \in Nat
  BY <1>4, NetOfWeight
<1>7. Weighs(w, K)
  BY <1>4, FactsWeigh DEF Ledgered
<1>8. CASE f = "burned"
  <2>1. /\ \A e \in K \ Reached(l, B) : w[e] = 0
        /\ \A i \in B : w[l[i]] = l[i].amount /\ l[i].amount \in Nat
    <3>1. \A e \in Facts : w[e] = IF e.op = "burn" THEN e.amount ELSE 0
      BY <1>8 DEF Weight
    <3> HIDE DEF w
    <3> QED BY <1>2, <1>3, <1>4, <1>5, <3>1
  <2> HIDE DEF w
  <2>2. SumOver(w, K) = SumOver(w, Reached(l, B))
    BY <1>3, <1>4, <1>7, <2>1, SumOfHeavy
  <2>3. SumOver(w, Reached(l, B)) = AmountsAt(l, B)
    BY <1>4, <2>1, AmountsReached
  <2>4. MovesSum(l, r, f) = AmountsAt(l, B)
    BY <1>8 DEF MovesSum, B
  <2> QED BY <1>6, <2>2, <2>3, <2>4 DEF K, L, w
<1>9. CASE f = "total_burns"
  <2>1. /\ \A e \in K \ Reached(l, B) : w[e] = 0
        /\ \A i \in B : w[l[i]] = 1
    <3>1. \A e \in Facts : w[e] = IF e.op = "burn" THEN 1 ELSE 0
      BY <1>9 DEF Weight
    <3> HIDE DEF w
    <3> QED BY <1>2, <1>3, <1>4, <1>5, <3>1
  <2> HIDE DEF w
  <2>2. SumOver(w, K) = SumOver(w, Reached(l, B))
    BY <1>3, <1>4, <1>7, <2>1, SumOfHeavy
  <2>3. SumOver(w, Reached(l, B)) = Cardinality(B)
    BY <1>4, <2>1, CountReached
  <2>4. MovesSum(l, r, f) = Cardinality(B)
    BY <1>9 DEF MovesSum, B
  <2> QED BY <1>6, <2>2, <2>3, <2>4 DEF K, L, w
<1>10. CASE f = "total_operations"
  <2>1. \A i \in I : w[l[i]] = 1
    <3>1. \A e \in Facts : w[e] = 1
      BY <1>10 DEF Weight
    <3> HIDE DEF w
    <3> QED BY <1>2, <1>4, <3>1
  <2> HIDE DEF w
  <2>3. SumOver(w, K) = Cardinality(I)
    BY <1>3, <1>4, <2>1, CountReached
  <2>4. MovesSum(l, r, f) = Cardinality(I)
    BY <1>10 DEF MovesSum, I
  <2> QED BY <1>6, <2>3, <2>4 DEF K, L, w
<1>11. CASE f \in {"minted", "total_mints"}
  <2>1. \A e \in K : w[e] = 0
    BY <1>3, <1>11 DEF Weight
  <2> HIDE DEF w
  <2>2. SumOver(w, K) = 0
    BY <1>4, <2>1, SumOfZeros
  <2>3. MovesSum(l, r, f) = 0
    BY <1>11 DEF MovesSum
  <2> QED BY <1>6, <2>2, <2>3 DEF K, L, w
<1> QED BY <1>8, <1>9, <1>10, <1>11 DEF Fields

-----------------------------------------------------------------------------
(* The supply rows grow by the entries *)

\* The row new is the row s with v as its field f.
SetsField(new, s, f, v) ==
    /\ IsSupply(new)
    /\ Field(new, f) = v
    /\ \A g \in Fields \ {f} : Field(new, g) = Field(s, g)

\* Writing a field of a supply row leaves the others alone.
LEMMA FieldWritten ==
    ASSUME NEW s, IsSupply(s), NEW v
    PROVE  /\ SetsField([s EXCEPT !.minted = v], s, "minted", v)
           /\ v \in Nat => SetsField([s EXCEPT !.total_mints = v], s, "total_mints", v)
           /\ SetsField([s EXCEPT !.burned = v], s, "burned", v)
           /\ SetsField([s EXCEPT !.total_burns = v], s, "total_burns", v)
           /\ SetsField([s EXCEPT !.total_operations = v], s, "total_operations", v)
<1>1. SetsField([s EXCEPT !.minted = v], s, "minted", v)
  <2> DEFINE new == [s EXCEPT !.minted = v]
  <2>1. /\ IsSupply(new) /\ new.minted = v /\ new.total_mints = s.total_mints
        /\ new.burned = s.burned /\ new.total_burns = s.total_burns
        /\ new.total_operations = s.total_operations
    BY DEF IsSupply
  <2> HIDE DEF new
  <2>2. SetsField(new, s, "minted", v)
    BY <2>1 DEF SetsField, Field, Fields
  <2> QED BY <2>2 DEF new
<1>2. ASSUME v \in Nat
      PROVE  SetsField([s EXCEPT !.total_mints = v], s, "total_mints", v)
  <2> DEFINE new == [s EXCEPT !.total_mints = v]
  <2>1. /\ IsSupply(new) /\ new.minted = s.minted /\ new.total_mints = v
        /\ new.burned = s.burned /\ new.total_burns = s.total_burns
        /\ new.total_operations = s.total_operations
    BY <1>2 DEF IsSupply
  <2> HIDE DEF new
  <2>2. SetsField(new, s, "total_mints", v)
    BY <2>1 DEF SetsField, Field, Fields
  <2> QED BY <2>2 DEF new
<1>3. SetsField([s EXCEPT !.burned = v], s, "burned", v)
  <2> DEFINE new == [s EXCEPT !.burned = v]
  <2>1. /\ IsSupply(new) /\ new.minted = s.minted /\ new.total_mints = s.total_mints
        /\ new.burned = v /\ new.total_burns = s.total_burns
        /\ new.total_operations = s.total_operations
    BY DEF IsSupply
  <2> HIDE DEF new
  <2>2. SetsField(new, s, "burned", v)
    BY <2>1 DEF SetsField, Field, Fields
  <2> QED BY <2>2 DEF new
<1>4. SetsField([s EXCEPT !.total_burns = v], s, "total_burns", v)
  <2> DEFINE new == [s EXCEPT !.total_burns = v]
  <2>1. /\ IsSupply(new) /\ new.minted = s.minted /\ new.total_mints = s.total_mints
        /\ new.burned = s.burned /\ new.total_burns = v
        /\ new.total_operations = s.total_operations
    BY DEF IsSupply
  <2> HIDE DEF new
  <2>2. SetsField(new, s, "total_burns", v)
    BY <2>1 DEF SetsField, Field, Fields
  <2> QED BY <2>2 DEF new
<1>5. SetsField([s EXCEPT !.total_operations = v], s, "total_operations", v)
  <2> DEFINE new == [s EXCEPT !.total_operations = v]
  <2>1. /\ IsSupply(new) /\ new.minted = s.minted /\ new.total_mints = s.total_mints
        /\ new.burned = s.burned /\ new.total_burns = s.total_burns
        /\ new.total_operations = v
    BY DEF IsSupply
  <2> HIDE DEF new
  <2>2. SetsField(new, s, "total_operations", v)
    BY <2>1 DEF SetsField, Field, Fields
  <2> QED BY <2>2 DEF new
<1> QED BY <1>1, <1>2, <1>3, <1>4, <1>5

\* Pending supply rows whose fields are numbers.
RowsOfNat(c) ==
    \A k \in DOMAIN c : IsSupply(c[k]) /\ \A f \in Fields : Field(c[k], f) \in Nat

\* The pending rows are natural numbers.
LEMMA PendingIsNat ==
    ASSUME NEW c, \A k \in DOMAIN c : IsSupply(c[k]), NEW T, IsFiniteSet(T), T \subseteq Facts,
           SupplyPends(c, T)
    PROVE  RowsOfNat(c)
<1> SUFFICES ASSUME NEW k \in DOMAIN c, NEW f \in Fields
             PROVE  Field(c[k], f) \in Nat
  BY DEF RowsOfNat
<1> DEFINE K == Keyed(T, RuneOf, k)
<1>1. IsFiniteSet(K) /\ K \subseteq Facts
  BY FS_Subset DEF Keyed
<1>2. Net(Weight(f), ZeroOf, K) \in Nat
  <2> HIDE DEF K
  <2> QED BY <1>1, NetOfWeight
<1>3. k \in DOMAIN Column(c, f) /\ Column(c, f)[k] = Field(c[k], f)
  BY DEF Column
<1>4. Column(c, f)[k] = Net(Weight(f), ZeroOf, K)
  <2>1. ChangesSum(Column(c, f), T, RuneOf, Weight(f), ZeroOf)
    BY DEF SupplyPends
  <2> QED BY <1>3, <2>1 DEF ChangesSum
<1> QED BY <1>2, <1>3, <1>4

\* The row of a rune, with the default for one that has none.
LEMMA SupplyRow ==
    ASSUME NEW c, RowsOfNat(c), NEW r, NEW f \in Fields
    PROVE  /\ IsSupply(Supply(c, r))
           /\ Field(Supply(c, r), f) \in Nat
           /\ Field(Supply(c, r), f)
                  = IF r \in DOMAIN Column(c, f) THEN Column(c, f)[r] ELSE 0
<1>1. DOMAIN Column(c, f) = DOMAIN c
  BY DEF Column
<1>2. CASE r \in DOMAIN c
  <2>1. Supply(c, r) = c[r] /\ Column(c, f)[r] = Field(c[r], f)
    BY <1>2 DEF Supply, Column
  <2> QED BY <1>1, <1>2, <2>1 DEF RowsOfNat
<1>3. CASE r \notin DOMAIN c
  <2>1. Supply(c, r) = NoSupply
    BY <1>3 DEF Supply
  <2>2. IsSupply(NoSupply)
    BY DefaultSupply
  <2>3. Field(NoSupply, f) = 0
    BY NoField
  <2> QED BY <1>1, <1>3, <2>1, <2>2, <2>3
<1> QED BY <1>2, <1>3

\* The row s and what a list of moves adds to it.
MovedSupply(s, l, r) ==
    [s EXCEPT !.burned = @ + MovesSum(l, r, "burned"),
              !.total_burns = @ + MovesSum(l, r, "total_burns"),
              !.total_operations = @ + MovesSum(l, r, "total_operations")]

\* CountMoves adds to each field of a row.
LEMMA MovedRow ==
    ASSUME NEW s, IsSupply(s), NEW l, NEW r, NEW f \in Fields, Field(s, f) \in Nat
    PROVE  Field(MovedSupply(s, l, r), f) = Field(s, f) + MovesSum(l, r, f)
<1> DEFINE a == s.burned + MovesSum(l, r, "burned")
           b == s.total_burns + MovesSum(l, r, "total_burns")
           e == s.total_operations + MovesSum(l, r, "total_operations")
           s1 == [s EXCEPT !.burned = a]
           s2 == [s1 EXCEPT !.total_burns = b]
           s3 == [s2 EXCEPT !.total_operations = e]
           row == MovedSupply(s, l, r)
<1> SUFFICES Field(row, f) = Field(s, f) + MovesSum(l, r, f)
  OBVIOUS
<1>0. a = Field(s, "burned") + MovesSum(l, r, "burned")
      /\ b = Field(s, "total_burns") + MovesSum(l, r, "total_burns")
      /\ e = Field(s, "total_operations") + MovesSum(l, r, "total_operations")
  BY DEF Field
<1>1. SetsField(s1, s, "burned", a)
  <2> HIDE DEF a
  <2> QED BY FieldWritten
<1>2. row = s3
  <2>1. s1.total_burns = s.total_burns /\ s1.total_operations = s.total_operations
    BY DEF IsSupply
  <2>2. row = [[s1 EXCEPT !.total_burns = @ + MovesSum(l, r, "total_burns")] EXCEPT
                  !.total_operations = @ + MovesSum(l, r, "total_operations")]
    BY Zenon DEF MovedSupply
  <2> DEFINE q2 == [s1 EXCEPT !.total_burns = @ + MovesSum(l, r, "total_burns")]
  <2> HIDE DEF a, s1
  <2>3. q2 = s2
    BY <2>1
  <2>4. IsSupply(s1)
    BY <1>1 DEF SetsField
  <2>5. s2.total_operations = s.total_operations
    BY <2>1, <2>4 DEF IsSupply
  <2> HIDE DEF b, s2, row
  <2> QED BY <2>2, <2>3, <2>5
<1> HIDE DEF a, b, e, s1, row
<1>3. SetsField(s2, s1, "total_burns", b)
  <2>1. IsSupply(s1)
    BY <1>1 DEF SetsField
  <2> QED BY <2>1, FieldWritten
<1> HIDE DEF s2
<1>4. SetsField(s3, s2, "total_operations", e)
  <2>1. IsSupply(s2)
    BY <1>3 DEF SetsField
  <2> QED BY <2>1, FieldWritten
<1> HIDE DEF s3
<1>5. CASE f = "burned"
  <2>1. Field(s3, f) = a
    BY <1>1, <1>3, <1>4, <1>5 DEF SetsField, Fields
  <2> QED BY <1>0, <1>2, <1>5, <2>1
<1>6. CASE f = "total_burns"
  <2>1. Field(s3, f) = b
    BY <1>3, <1>4, <1>6 DEF SetsField, Fields
  <2> QED BY <1>0, <1>2, <1>6, <2>1
<1>7. CASE f = "total_operations"
  <2>1. Field(s3, f) = e
    BY <1>4, <1>7 DEF SetsField
  <2> QED BY <1>0, <1>2, <1>7, <2>1
<1>8. CASE f \in {"minted", "total_mints"}
  <2>1. Field(s3, f) = Field(s, f)
    BY <1>1, <1>3, <1>4, <1>8 DEF SetsField, Fields
  <2>2. MovesSum(l, r, f) = 0
    BY <1>8 DEF MovesSum
  <2> QED BY <1>2, <2>1, <2>2
<1> QED BY <1>5, <1>6, <1>7, <1>8 DEF Fields

\* So it adds the entries to the pending supply.
LEMMA MovesGrow ==
    ASSUME NEW c, RowsOfNat(c), NEW l, Log(l), Shifts(l), NEW f \in Fields
    PROVE  Grows(Column(c, f), Column(CountMoves(c, l), f), ToSet(l), RuneOf, Weight(f), ZeroOf)
<1> DEFINE new == CountMoves(c, l)
           D == DOMAIN c \cup {l[i].rune : i \in DOMAIN l}
           row(r) == MovedSupply(Supply(c, r), l, r)
<1>1. new = [r \in D |-> row(r)]
  BY DEF CountMoves, MovedSupply, MovesSum, AmountsAt
<1>2. ASSUME NEW r \in D
      PROVE  Field(row(r), f) = (IF r \in DOMAIN Column(c, f) THEN Column(c, f)[r] ELSE 0)
                                     + Net(Weight(f), ZeroOf, Keyed(ToSet(l), RuneOf, r))
  <2>1. /\ IsSupply(Supply(c, r)) /\ Field(Supply(c, r), f) \in Nat
        /\ Field(Supply(c, r), f)
               = IF r \in DOMAIN Column(c, f) THEN Column(c, f)[r] ELSE 0
    BY SupplyRow
  <2>2. Field(row(r), f) = Field(Supply(c, r), f) + MovesSum(l, r, f)
    BY <2>1, MovedRow
  <2>3. MovesSum(l, r, f) = Net(Weight(f), ZeroOf, Keyed(ToSet(l), RuneOf, r))
    BY MovesSumIsNet
  <2> HIDE DEF row
  <2> QED BY <2>1, <2>2, <2>3
<1>3. \A e \in ToSet(l) : RuneOf[e] \in D
  <2> SUFFICES ASSUME NEW i \in DOMAIN l
               PROVE  RuneOf[l[i]] \in D
    BY DEF ToSet
  <2>1. l[i] \in Facts
    BY DEF Log, ToSet
  <2> QED BY <2>1, FactFields
<1> HIDE DEF row
<1>4. /\ DOMAIN Column(new, f) = D /\ DOMAIN Column(c, f) = DOMAIN c
      /\ \A r \in D : Column(new, f)[r] = Field(row(r), f)
  BY <1>1 DEF Column
<1>5. DOMAIN c \subseteq D
  OBVIOUS
<1> HIDE DEF new, D
<1> QED BY <1>2, <1>3, <1>4, <1>5 DEF Grows, new

\* What one entry adds to its rune, and to no other.
LEMMA OneNet ==
    ASSUME NEW f \in Fields, NEW e \in Facts, NEW k
    PROVE  Net(Weight(f), ZeroOf, Keyed({e}, RuneOf, k)) = IF k = e.rune THEN Weight(f)[e] ELSE 0
<1> DEFINE w == Weight(f)
           K == Keyed({e}, RuneOf, k)
<1>1. RuneOf[e] = e.rune /\ w[e] \in Nat
  BY FactFields, WeightIsNat
<1>2. IsFiniteSet({e}) /\ {e} \subseteq Facts /\ IsFiniteSet({})
  BY FS_Singleton, FS_EmptySet
<1>3. CASE k = e.rune
  <2>1. K = {e}
    BY <1>1, <1>3 DEF Keyed
  <2> HIDE DEF w
  <2>2. Weighs(w, {e}) /\ Weighs(w, {})
    BY <1>1 DEF Weighs
  <2>3. SumOver(w, {e}) = w[e] + SumOver(w, {e} \ {e})
    BY <1>2, <2>2, SumTakesOut
  <2>4. {e} \ {e} = {} /\ SumOver(w, {}) = 0
    BY <1>2, <2>2, SumTakesOut
  <2>5. SumOver(w, {e}) = w[e]
    BY <1>1, <2>3, <2>4
  <2>6. Net(w, ZeroOf, {e}) = SumOver(w, {e})
    BY <1>2, NetOfWeight DEF w
  <2> HIDE DEF K
  <2> QED BY <1>3, <2>1, <2>5, <2>6 DEF w, K
<1>4. CASE k # e.rune
  <2>1. K = {}
    BY <1>1, <1>4 DEF Keyed
  <2> HIDE DEF K
  <2>2. Net(w, ZeroOf, K) = 0
    BY <1>2, <2>1, NetOfIdle
  <2> QED BY <1>4, <2>2 DEF w, K
<1> QED BY <1>3, <1>4

\* A row that has grown by one entry.
GrownRow(s, e, row) == \A f \in Fields : Field(row, f) = Field(s, f) + Weight(f)[e]

\* A row grown by an entry adds it to the pending supply.
LEMMA PlusGrows ==
    ASSUME NEW c, RowsOfNat(c), NEW e \in Facts, NEW row,
           GrownRow(Supply(c, e.rune), e, row), NEW f \in Fields
    PROVE  Grows(Column(c, f), Column(Plus(c, e.rune, row), f), {e}, RuneOf, Weight(f), ZeroOf)
<1> DEFINE id == e.rune
           new == Plus(c, id, row)
<1>1. /\ DOMAIN new = DOMAIN c \cup {id}
      /\ \A k \in DOMAIN new : new[k] = IF k = id THEN row ELSE c[k]
  BY DEF Plus
<1>2. /\ DOMAIN Column(c, f) = DOMAIN c
      /\ \A k \in DOMAIN c : Column(c, f)[k] = Field(c[k], f)
  BY DEF Column
<1>3. /\ DOMAIN Column(new, f) = DOMAIN new
      /\ \A k \in DOMAIN new : Column(new, f)[k] = Field(new[k], f)
  BY DEF Column
<1>4. RuneOf[e] = id
  BY FactFields
<1>5. /\ Field(Supply(c, id), f) \in Nat
      /\ Field(Supply(c, id), f)
             = IF id \in DOMAIN Column(c, f) THEN Column(c, f)[id] ELSE 0
      /\ Field(row, f) = Field(Supply(c, id), f) + Weight(f)[e]
  BY SupplyRow DEF GrownRow
<1> DEFINE col == Column(c, f)
           w == Weight(f)
           N(k) == Net(w, ZeroOf, Keyed({e}, RuneOf, k))
<1>6. \A k : N(k) = IF k = id THEN w[e] ELSE 0
  BY OneNet
<1> HIDE DEF new, id, w, N
<1>7. ASSUME NEW k \in DOMAIN Column(new, f)
      PROVE  Column(new, f)[k] = (IF k \in DOMAIN col THEN col[k] ELSE 0) + N(k)
  <2>1. CASE k = id
    BY <1>1, <1>3, <1>5, <1>6, <1>7, <2>1 DEF w
  <2>2. CASE k # id
    <3>1. k \in DOMAIN c /\ Column(new, f)[k] = Field(c[k], f) /\ N(k) = 0
      BY <1>1, <1>3, <1>6, <1>7, <2>2
    <3>2. Field(c[k], f) \in Nat
      BY <3>1 DEF RowsOfNat
    <3> QED BY <1>2, <3>1, <3>2
  <2> QED BY <2>1, <2>2
<1>8. RuneOf[e] \in DOMAIN Column(new, f) /\ DOMAIN col \subseteq DOMAIN Column(new, f)
  BY <1>1, <1>2, <1>3, <1>4
<1>9. Grows(col, Column(new, f), {e}, RuneOf, w, ZeroOf)
  <2> HIDE DEF col
  <2> QED BY <1>7, <1>8 DEF Grows, N
<1> QED BY <1>9 DEF new, id, w

\* What a mint and an etching add to the row of their rune.
LEMMA MintGrows ==
    ASSUME NEW c, RowsOfNat(c), NEW e \in Facts, e.op = "mint", NEW f \in Fields
    PROVE  Grows(Column(c, f), Column(CountMint(c, e.rune, e.amount), f), {e}, RuneOf,
                 Weight(f), ZeroOf)
<1> DEFINE s == Supply(c, e.rune)
           row == [s EXCEPT !.minted = @ + e.amount, !.total_mints = @ + 1,
                            !.total_operations = @ + 1]
           a == s.minted + e.amount
           b == s.total_mints + 1
           d == s.total_operations + 1
           s1 == [s EXCEPT !.minted = a]
           s2 == [s1 EXCEPT !.total_mints = b]
           s3 == [s2 EXCEPT !.total_operations = d]
<1>0. IsSupply(s) /\ s.total_mints \in Nat
  BY SupplyRow DEF IsSupply
<1>1. \A g \in Fields : Field(s, g) \in Nat
  BY SupplyRow
<1>2. /\ a = Field(s, "minted") + e.amount
      /\ b = Field(s, "total_mints") + 1
      /\ d = Field(s, "total_operations") + 1
      /\ b \in Nat
  BY <1>0 DEF Field
<1>3. CountMint(c, e.rune, e.amount) = Plus(c, e.rune, row)
  BY DEF CountMint
<1> HIDE DEF s
<1>4. row = s3
  <2>1. s1.total_mints = s.total_mints /\ s1.total_operations = s.total_operations
    BY <1>0 DEF IsSupply
  <2>2. row = [[s1 EXCEPT !.total_mints = @ + 1] EXCEPT !.total_operations = @ + 1]
    BY Zenon
  <2> DEFINE q2 == [s1 EXCEPT !.total_mints = @ + 1]
  <2>4. IsSupply(s1)
    <3> HIDE DEF a
    <3> QED BY <1>0, FieldWritten DEF SetsField
  <2> HIDE DEF a, s1
  <2>3. q2 = s2
    BY <2>1
  <2>5. s2.total_operations = s.total_operations
    BY <2>1, <2>4 DEF IsSupply
  <2> HIDE DEF b, s2, row
  <2> QED BY <2>2, <2>3, <2>5
<1> HIDE DEF a, b, d, row
<1>5. SetsField(s1, s, "minted", a)
  BY <1>0, FieldWritten
<1> HIDE DEF s1
<1>6. SetsField(s2, s1, "total_mints", b)
  <2>1. IsSupply(s1)
    BY <1>5 DEF SetsField
  <2> QED BY <1>2, <2>1, FieldWritten
<1> HIDE DEF s2
<1>7. SetsField(s3, s2, "total_operations", d)
  <2>1. IsSupply(s2)
    BY <1>6 DEF SetsField
  <2> QED BY <2>1, FieldWritten
<1> HIDE DEF s3
<1>8. ASSUME NEW g \in Fields
      PROVE  Field(row, g) = Field(s, g) + Weight(g)[e]
  <2>1. CASE g = "minted"
    <3>1. Field(s3, g) = a
      BY <1>5, <1>6, <1>7, <2>1 DEF SetsField, Fields
    <3>2. Weight(g)[e] = e.amount
      BY <2>1 DEF Weight
    <3> QED BY <1>2, <1>4, <2>1, <3>1, <3>2
  <2>2. CASE g = "total_mints"
    <3>1. Field(s3, g) = b
      BY <1>6, <1>7, <2>2 DEF SetsField, Fields
    <3>2. Weight(g)[e] = 1
      BY <2>2 DEF Weight
    <3> QED BY <1>2, <1>4, <2>2, <3>1, <3>2
  <2>3. CASE g = "total_operations"
    <3>1. Field(s3, g) = d
      BY <1>7, <2>3 DEF SetsField, Fields
    <3>2. Weight(g)[e] = 1
      BY <2>3 DEF Weight
    <3> QED BY <1>2, <1>4, <2>3, <3>1, <3>2
  <2>4. CASE g \in {"burned", "total_burns"}
    <3>1. Field(s3, g) = Field(s, g)
      BY <1>5, <1>6, <1>7, <2>4 DEF SetsField, Fields
    <3>2. Weight(g)[e] = 0
      BY <2>4 DEF Weight
    <3>3. Field(s, g) \in Nat
      BY <1>1
    <3> QED BY <1>4, <3>1, <3>2, <3>3
  <2> QED BY <2>1, <2>2, <2>3, <2>4 DEF Fields
<1>9. GrownRow(Supply(c, e.rune), e, row)
  BY <1>8 DEF GrownRow, s
<1> QED BY <1>3, <1>9, PlusGrows

\* CountOperation adds an etching.
LEMMA EtchingGrows ==
    ASSUME NEW c, RowsOfNat(c), NEW e \in Facts, e.op = "etching", NEW f \in Fields
    PROVE  Grows(Column(c, f), Column(CountOperation(c, e.rune), f), {e}, RuneOf,
                 Weight(f), ZeroOf)
<1> DEFINE s == Supply(c, e.rune)
           d == s.total_operations + 1
           row == [s EXCEPT !.total_operations = @ + 1]
           s3 == [s EXCEPT !.total_operations = d]
<1>0. IsSupply(s)
  BY SupplyRow
<1>1. \A g \in Fields : Field(s, g) \in Nat
  BY SupplyRow
<1>2. d = Field(s, "total_operations") + 1
  BY DEF Field
<1>3. CountOperation(c, e.rune) = Plus(c, e.rune, row)
  BY DEF CountOperation
<1> HIDE DEF s
<1>4. row = s3
  OBVIOUS
<1> HIDE DEF d, row
<1>5. SetsField(s3, s, "total_operations", d)
  BY <1>0, FieldWritten
<1> HIDE DEF s3
<1>8. ASSUME NEW g \in Fields
      PROVE  Field(row, g) = Field(s, g) + Weight(g)[e]
  <2>3. CASE g = "total_operations"
    <3>1. Field(s3, g) = d
      BY <1>5, <2>3 DEF SetsField, Fields
    <3>2. Weight(g)[e] = 1
      BY <2>3 DEF Weight
    <3> QED BY <1>2, <1>4, <2>3, <3>1, <3>2
  <2>4. CASE g \in Fields \ {"total_operations"}
    <3>1. Field(s3, g) = Field(s, g)
      BY <1>5, <2>4 DEF SetsField, Fields
    <3>2. Weight(g)[e] = 0
      BY <2>4 DEF Weight, Fields
    <3>3. Field(s, g) \in Nat
      BY <1>1
    <3> QED BY <1>4, <3>1, <3>2, <3>3
  <2> QED BY <2>3, <2>4
<1>9. GrownRow(Supply(c, e.rune), e, row)
  BY <1>8 DEF GrownRow, s
<1> QED BY <1>3, <1>9, PlusGrows

-----------------------------------------------------------------------------
(* The balance changes grow by the entries *)

\* w is what entries of the kind op count, and u nothing on their side.
Counts(op, w, u) ==
    /\ op \in {"receive", "send"}
    /\ \A e \in Facts : w[e] = IF e.op = op /\ e.address # None THEN e.amount ELSE 0
    /\ \A e \in Side(Facts, op) : u[e] = 0

\* The two sides of a balance.
LEMMA BothCount == Counts("receive", ReceivedOf, SentOf) /\ Counts("send", SentOf, ReceivedOf)
<1>1. Counts("receive", ReceivedOf, SentOf)
  BY DEF Counts, ReceivedOf, SentOf, Side
<1>2. Counts("send", SentOf, ReceivedOf)
  BY DEF Counts, ReceivedOf, SentOf, Side
<1> QED BY <1>1, <1>2

\* The places of the entries of the kind op that k holds.
PlacesOf(l, op, k) == {i \in DOMAIN l : l[i].op = op /\ <<l[i].rune, l[i].address>> = k}

\* What ChangeBalances adds for a holder is what its entries weigh.
LEMMA HeldIsNet ==
    ASSUME NEW l, Log(l), NEW op, NEW w, NEW u, Counts(op, w, u),
           NEW k, k[2] # None
    PROVE  AmountsAt(l, PlacesOf(l, op, k)) = Net(w, u, Keyed(Side(ToSet(l), op), HolderOf, k))
<1> DEFINE L == Side(ToSet(l), op)
           K == Keyed(L, HolderOf, k)
           I == PlacesOf(l, op, k)
<1>1. IsFiniteSet(ToSet(l)) /\ ToSet(l) \subseteq Facts /\ ToSet(l) = {l[i] : i \in DOMAIN l}
  BY ListFinite DEF Log, ToSet
<1>2. /\ I \in SUBSET DOMAIN l
      /\ \A i \in I : l[i] \in Facts /\ l[i].op = op /\ HolderOf[l[i]] = k /\ l[i].address # None
  <2> SUFFICES ASSUME NEW i \in I
               PROVE  /\ i \in DOMAIN l /\ l[i] \in Facts /\ l[i].op = op /\ HolderOf[l[i]] = k
                      /\ l[i].address # None
    OBVIOUS
  <2>1. i \in DOMAIN l /\ l[i].op = op /\ <<l[i].rune, l[i].address>> = k
    BY DEF PlacesOf
  <2>2. l[i] \in Facts
    BY <1>1, <2>1
  <2>3. HolderOf[l[i]] = <<l[i].rune, l[i].address>>
    BY <2>2, FactFields
  <2>4. <<l[i].rune, l[i].address>>[2] = l[i].address
    OBVIOUS
  <2> QED BY <2>1, <2>2, <2>3, <2>4
<1>3. K \subseteq ToSet(l) /\ K \subseteq Facts /\ IsFiniteSet(K)
      /\ \A e \in K : HolderOf[e] = k /\ e \in Side(Facts, op)
  <2>1. K \subseteq ToSet(l) /\ \A e \in K : HolderOf[e] = k
    BY DEF Keyed, Side
  <2>2. \A e \in K : e \in Side(Facts, op)
    BY <1>1 DEF Keyed, Side
  <2> HIDE DEF K
  <2> QED BY <1>1, <2>1, <2>2, FS_Subset
<1>4. Reached(l, I) \in SUBSET K
  <2> SUFFICES ASSUME NEW i \in I
               PROVE  l[i] \in K
    BY DEF Reached
  <2>1. l[i] \in ToSet(l) /\ l[i].op = op /\ HolderOf[l[i]] = k
    BY <1>1, <1>2
  <2>2. op \in {"receive", "send"}
    BY DEF Counts
  <2> QED BY <2>1, <2>2 DEF Keyed, Side
<1>5. \A e \in K \ Reached(l, I) : w[e] = 0
  <2> SUFFICES ASSUME NEW e \in K, e \notin Reached(l, I), e.op = op, e.address # None
               PROVE  FALSE
    BY <1>3 DEF Counts
  <2>1. PICK i \in DOMAIN l : l[i] = e
    BY <1>1, <1>3
  <2>2. HolderOf[e] = <<e.rune, e.address>>
    BY <1>3, FactFields
  <2>3. i \in I
    BY <1>3, <2>1, <2>2 DEF PlacesOf
  <2> QED BY <2>1, <2>3 DEF Reached
<1>6. \A e \in K : w[e] \in Nat /\ u[e] = 0
  <2> SUFFICES ASSUME NEW e \in K
               PROVE  w[e] \in Nat /\ u[e] = 0
    OBVIOUS
  <2>1. e \in Facts /\ e \in Side(Facts, op)
    BY <1>3
  <2>2. e.op # "etching" => e.amount \in Nat
    BY <2>1, FactFields
  <2> QED BY <2>1, <2>2 DEF Counts
<1>7. \A i \in I : l[i].amount \in Nat /\ w[l[i]] = l[i].amount
  <2> SUFFICES ASSUME NEW i \in I
               PROVE  l[i].amount \in Nat /\ w[l[i]] = l[i].amount
    OBVIOUS
  <2>1. l[i] \in Facts /\ l[i].op = op /\ l[i].address # None
    BY <1>2
  <2>2. l[i].op # "etching" => l[i].amount \in Nat
    BY <2>1, FactFields
  <2> QED BY <2>1, <2>2 DEF Counts
<1> HIDE DEF L, K, I
<1>8. Weighs(w, K) /\ SumOver(u, K) = 0
  BY <1>3, <1>6, SumOfZeros DEF Weighs
<1>9. SumOver(w, K) = SumOver(w, Reached(l, I))
  BY <1>3, <1>4, <1>5, <1>8, SumOfHeavy
<1>10. SumOver(w, Reached(l, I)) = AmountsAt(l, I)
  BY <1>2, <1>7, AmountsReached
<1>11. SumOver(w, K) \in Nat
  BY <1>3, <1>8, SumTakesOut
<1> QED BY <1>8, <1>9, <1>10, <1>11 DEF Net, I, K, L

\* So it adds the entries of its kind to the pending balances.
LEMMA ChangesGrow ==
    ASSUME NEW c, \A k \in DOMAIN c : k[2] # None, NEW l, Log(l),
           NEW op, NEW w, NEW u, Counts(op, w, u)
    PROVE  /\ Grows(Balances(c), Balances(ChangeBalances(c, l, op)), Side(ToSet(l), op),
                    HolderOf, w, u)
           /\ \A k \in DOMAIN ChangeBalances(c, l, op) : k[2] # None
<1> DEFINE new == ChangeBalances(c, l, op)
           touched == {<<l[i].rune, l[i].address>> :
                          i \in {j \in DOMAIN l : l[j].op = op /\ l[j].address # None}}
           D == DOMAIN c \cup touched
           L == Side(ToSet(l), op)
<1>1. new = [k \in D |->
                [balance |-> (IF k \in DOMAIN c THEN c[k].balance ELSE 0)
                                 + AmountsAt(l, PlacesOf(l, op, k)),
                 total_operations |-> 1]]
  BY DEF ChangeBalances, AddedAmounts, AmountsAt, PlacesOf
<1>2. \A k \in D : k[2] # None
  OBVIOUS
<1>3. \A k \in D :
          AmountsAt(l, PlacesOf(l, op, k)) = Net(w, u, Keyed(L, HolderOf, k))
  BY <1>2, HeldIsNet
<1>4. /\ DOMAIN Balances(c) = DOMAIN c /\ \A k \in DOMAIN c : Balances(c)[k] = c[k].balance
      /\ DOMAIN Balances(new) = DOMAIN new
      /\ \A k \in DOMAIN new : Balances(new)[k] = new[k].balance
  BY DEF Balances
<1>5. ASSUME NEW e \in L
      PROVE  Idle(w, u, e) \/ HolderOf[e] \in D
  <2>1. e \in Facts /\ e \in Side(Facts, op)
    BY DEF Log, Side
  <2>2. PICK i \in DOMAIN l : l[i] = e
    BY DEF Side, ToSet
  <2>3. HolderOf[e] = <<e.rune, e.address>>
    BY <2>1, FactFields
  <2>4. CASE e.op = op /\ e.address # None
    BY <2>2, <2>3, <2>4
  <2>5. CASE ~(e.op = op /\ e.address # None)
    BY <2>1, <2>5 DEF Counts, Idle
  <2> QED BY <2>4, <2>5
<1> HIDE DEF new, D, L, touched
<1>6. DOMAIN new = D /\ \A k \in D : new[k].balance = (IF k \in DOMAIN c THEN c[k].balance ELSE 0)
                                 + AmountsAt(l, PlacesOf(l, op, k))
  BY <1>1
<1>7. DOMAIN c \subseteq D
  BY DEF D
<1>8. Grows(Balances(c), Balances(new), L, HolderOf, w, u)
  BY <1>3, <1>4, <1>5, <1>6, <1>7 DEF Grows
<1> QED BY <1>2, <1>6, <1>8 DEF new, L

-----------------------------------------------------------------------------
(* What a handler adds to what is pending *)

\* More entries pending.
LEMMA SupplyPendsMore ==
    ASSUME NEW c, NEW cc, NEW T, IsFiniteSet(T), T \subseteq Facts, SupplyPends(c, T),
           NEW L, IsFiniteSet(L), L \subseteq Facts, T \cap L = {},
           \A f \in Fields : Grows(Column(c, f), Column(cc, f), L, RuneOf, Weight(f), ZeroOf)
    PROVE  SupplyPends(cc, T \cup L)
<1> SUFFICES ASSUME NEW f \in Fields
             PROVE  ChangesSum(Column(cc, f), T \cup L, RuneOf, Weight(f), ZeroOf)
  BY DEF SupplyPends
<1>1. Ledgered(T, Weight(f), ZeroOf) /\ Ledgered(L, Weight(f), ZeroOf)
  BY FactsWeigh
<1>2. ChangesSum(Column(c, f), T, RuneOf, Weight(f), ZeroOf)
  BY DEF SupplyPends
<1>3. Grows(Column(c, f), Column(cc, f), L, RuneOf, Weight(f), ZeroOf)
  OBVIOUS
<1> QED BY <1>1, <1>2, <1>3, GrowSums

\* One side of the balances, in terms of what it counts.
SidePends(c, T, op, w, u) ==
    /\ ChangesSum(Balances(c), Side(T, op), HolderOf, w, u)
    /\ \A k \in DOMAIN c : k[2] # None

\* Both kinds of pending balances are alike.
LEMMA BothSides ==
    ASSUME NEW c, NEW T
    PROVE  /\ IncreasesPend(c, T) <=> SidePends(c, T, "receive", ReceivedOf, SentOf)
           /\ DeductionsPend(c, T) <=> SidePends(c, T, "send", SentOf, ReceivedOf)
BY DEF IncreasesPend, DeductionsPend, SidePends

\* One side of a set of entries can be summed up.
LEMMA CountsWeigh ==
    ASSUME NEW op, NEW w, NEW u, Counts(op, w, u), NEW S, IsFiniteSet(S), S \subseteq Facts
    PROVE  IsFiniteSet(Side(S, op)) /\ Ledgered(Side(S, op), w, u)
<1> DEFINE R == Side(S, op)
<1>1. R \subseteq S /\ R \subseteq Side(Facts, op)
  BY DEF Side
<1>2. IsFiniteSet(R)
  BY <1>1, FS_Subset
<1>3. ASSUME NEW e \in R
      PROVE  w[e] \in Nat /\ u[e] \in Nat
  <2>1. e \in Facts /\ e \in Side(Facts, op)
    BY <1>1
  <2>2. e.op # "etching" => e.amount \in Nat
    BY <2>1, FactFields
  <2> QED BY <2>1, <2>2 DEF Counts
<1> HIDE DEF R
<1>4. Ledgered(R, w, u)
  BY <1>2, <1>3 DEF Ledgered, Weighs
<1> QED BY <1>2, <1>4 DEF R

\* More entries pending on one side.
LEMMA SidePendsMore ==
    ASSUME NEW c, NEW cc, NEW op, NEW w, NEW u, Counts(op, w, u),
           NEW T, IsFiniteSet(T), T \subseteq Facts, SidePends(c, T, op, w, u),
           NEW L, IsFiniteSet(L), L \subseteq Facts, T \cap L = {},
           Grows(Balances(c), Balances(cc), Side(L, op), HolderOf, w, u),
           \A k \in DOMAIN cc : k[2] # None
    PROVE  SidePends(cc, T \cup L, op, w, u)
<1>1. Ledgered(Side(T, op), w, u) /\ Ledgered(Side(L, op), w, u)
  BY CountsWeigh
<1>2. Side(T, op) \cap Side(L, op) = {} /\ Side(T \cup L, op) = Side(T, op) \cup Side(L, op)
  BY DEF Side
<1>3. ChangesSum(Balances(c), Side(T, op), HolderOf, w, u)
  BY DEF SidePends
<1>4. ChangesSum(Balances(cc), Side(T, op) \cup Side(L, op), HolderOf, w, u)
  BY <1>1, <1>2, <1>3, GrowSums
<1> QED BY <1>2, <1>4 DEF SidePends

\* Entries that move nothing leave the balance changes what they are.
LEMMA NoneGrow ==
    ASSUME NEW c, NEW op, NEW w, NEW u, Counts(op, w, u),
           NEW T, IsFiniteSet(T), T \subseteq Facts, SidePends(c, T, op, w, u),
           NEW e \in Facts, e.op \notin {"receive", "send"}
    PROVE  Grows(Balances(c), Balances(c), Side({e}, op), HolderOf, w, u)
<1> DEFINE L == Side({e}, op)
           b == Balances(c)
<1>1. \A x \in L : x = e /\ x \in Side(Facts, op)
  BY DEF Side
<1>2. \A x \in L : Idle(w, u, x)
  BY <1>1 DEF Idle, Counts
<1>3. IsFiniteSet(L)
  BY FS_Subset, FS_Singleton DEF Side
<1> HIDE DEF L
<1>4. ASSUME NEW k \in DOMAIN b
      PROVE  b[k] = b[k] + Net(w, u, Keyed(L, HolderOf, k))
  <2>1. IsFiniteSet(Keyed(L, HolderOf, k)) /\ \A x \in Keyed(L, HolderOf, k) : Idle(w, u, x)
    BY <1>2, <1>3, FS_Subset DEF Keyed
  <2>2. Net(w, u, Keyed(L, HolderOf, k)) = 0
    BY <2>1, NetOfIdle
  <2> DEFINE K == Keyed(Side(T, op), HolderOf, k)
  <2>3. b[k] = Net(w, u, K)
    BY <1>4 DEF SidePends, ChangesSum
  <2>4. Ledgered(Side(T, op), w, u) /\ K \in SUBSET Side(T, op)
    BY CountsWeigh DEF Keyed
  <2> HIDE DEF K
  <2>5. Ledgered(K, w, u)
    BY <2>4, LedgeredPart
  <2>6. SumOver(w, K) \in Nat /\ SumOver(u, K) \in Nat
    BY <2>5, SumTakesOut DEF Ledgered
  <2>7. b[k] \in Int
    BY <2>3, <2>6 DEF Net
  <2> HIDE DEF b
  <2> QED BY <2>2, <2>7
<1> HIDE DEF b
<1>5. Grows(b, b, L, HolderOf, w, u)
  BY <1>2, <1>4 DEF Grows
<1> QED BY <1>5 DEF b, L

\* The fields of the pending rows after each kind of step.
AddsMoves(rows, l, new) ==
    /\ new.ledger = rows.ledger \o l
    /\ new.supply = CountMoves(rows.supply, l)
    /\ new.increases = ChangeBalances(rows.increases, l, "receive")
    /\ new.deductions = ChangeBalances(rows.deductions, l, "send")

\* What AddMint and AddEtching leave.
AddsOne(rows, l, supply, new) ==
    /\ new.ledger = rows.ledger \o l
    /\ new.supply = supply
    /\ new.increases = rows.increases
    /\ new.deductions = rows.deductions

\* The rows new are the rows c with v as supply, and so on.
SetsSupply(new, c, v) ==
    /\ IsRows(new) /\ new.supply = v
    /\ new.increases = c.increases /\ new.deductions = c.deductions

SetsIncreases(new, c, v) ==
    /\ IsRows(new) /\ new.increases = v
    /\ new.supply = c.supply /\ new.deductions = c.deductions

SetsDeductions(new, c, v) ==
    /\ IsRows(new) /\ new.deductions = v
    /\ new.supply = c.supply /\ new.increases = c.increases

SetsNone(new, c) ==
    /\ IsRows(new) /\ new.supply = c.supply
    /\ new.increases = c.increases /\ new.deductions = c.deductions

\* One table of the pending rows written.
LEMMA RowFieldWritten ==
    ASSUME NEW c, IsRows(c), NEW v
    PROVE  /\ SetsNone([c EXCEPT !.ledger = v], c)
           /\ SetsNone([c EXCEPT !.runes = v], c)
           /\ SetsSupply([c EXCEPT !.supply = v], c, v)
           /\ SetsIncreases([c EXCEPT !.increases = v], c, v)
           /\ SetsDeductions([c EXCEPT !.deductions = v], c, v)
<1>1. SetsNone([c EXCEPT !.ledger = v], c)
  BY DEF IsRows, SetsNone
<1>2. SetsNone([c EXCEPT !.runes = v], c)
  BY DEF IsRows, SetsNone
<1>3. SetsSupply([c EXCEPT !.supply = v], c, v)
  BY DEF IsRows, SetsSupply
<1>4. SetsIncreases([c EXCEPT !.increases = v], c, v)
  BY DEF IsRows, SetsIncreases
<1>5. SetsDeductions([c EXCEPT !.deductions = v], c, v)
  BY DEF IsRows, SetsDeductions
<1> QED BY <1>1, <1>2, <1>3, <1>4, <1>5

\* What AddMoves leaves.
LEMMA AddedMovesRows ==
    ASSUME NEW rows, IsRows(rows), NEW l
    PROVE  AddsMoves(rows, l, AddMoves(rows, l))
<1> DEFINE ledger     == rows.ledger \o l
           supply     == CountMoves(rows.supply, l)
           increases  == ChangeBalances(rows.increases, l, "receive")
           deductions == ChangeBalances(rows.deductions, l, "send")
           r1 == [rows EXCEPT !.ledger = ledger]
           r2 == [r1 EXCEPT !.supply = supply]
           r3 == [r2 EXCEPT !.increases = increases]
           r4 == [r3 EXCEPT !.deductions = deductions]
<1>1. AddMoves(rows, l) = r4
  BY Zenon DEF AddMoves
<1>2. AddMoves(rows, l).ledger = ledger
  BY AddedLedger
<1> HIDE DEF ledger, supply, increases, deductions
<1>3. SetsNone(r1, rows)
  BY RowFieldWritten
<1> HIDE DEF r1
<1>4. SetsSupply(r2, r1, supply)
  BY <1>3, RowFieldWritten DEF SetsNone
<1> HIDE DEF r2
<1>5. SetsIncreases(r3, r2, increases)
  BY <1>4, RowFieldWritten DEF SetsSupply
<1> HIDE DEF r3
<1>6. SetsDeductions(r4, r3, deductions)
  BY <1>5, RowFieldWritten DEF SetsIncreases
<1> HIDE DEF r4
<1>7. r4.supply = supply /\ r4.increases = increases /\ r4.deductions = deductions
  BY <1>4, <1>5, <1>6 DEF SetsSupply, SetsIncreases, SetsDeductions
<1> QED BY <1>1, <1>2, <1>7 DEF AddsMoves, ledger, supply, increases, deductions

\* What AddMint and AddEtching leave, table by table.
LEMMA AddedOneRows ==
    ASSUME NEW rows, IsRows(rows), NEW l, NEW rune
    PROVE  /\ AddsOne(rows, l, CountMint(rows.supply, l[1].rune, l[1].amount), AddMint(rows, l))
           /\ AddsOne(rows, l, CountOperation(rows.supply, l[1].rune), AddEtching(rows, l, rune))
<1> DEFINE ledger == rows.ledger \o l
<1>1. AddsOne(rows, l, CountMint(rows.supply, l[1].rune, l[1].amount), AddMint(rows, l))
  <2> DEFINE supply == CountMint(rows.supply, l[1].rune, l[1].amount)
             r1 == [rows EXCEPT !.ledger = ledger]
             r2 == [r1 EXCEPT !.supply = supply]
  <2>1. AddMint(rows, l) = r2
    BY Zenon DEF AddMint
  <2>2. AddMint(rows, l).ledger = ledger
    BY AddedLedger
  <2> HIDE DEF ledger, supply
  <2>3. SetsNone(r1, rows)
    BY RowFieldWritten
  <2> HIDE DEF r1
  <2>4. SetsSupply(r2, r1, supply)
    BY <2>3, RowFieldWritten DEF SetsNone
  <2> HIDE DEF r2
  <2>5. r2.supply = supply /\ r2.increases = rows.increases /\ r2.deductions = rows.deductions
    BY <2>3, <2>4 DEF SetsNone, SetsSupply
  <2> QED BY <2>1, <2>2, <2>5 DEF AddsOne, ledger, supply
<1>2. AddsOne(rows, l, CountOperation(rows.supply, l[1].rune), AddEtching(rows, l, rune))
  <2> DEFINE runes  == Append(rows.runes, rune)
             q1     == [rows EXCEPT !.runes = runes]
             q2     == [q1 EXCEPT !.ledger = ledger]
             supply == CountOperation(rows.supply, l[1].rune)
             q3     == [q2 EXCEPT !.supply = supply]
  <2>1. AddEtching(rows, l, rune) = q3
    <3>1. q1.ledger = rows.ledger /\ q1.supply = rows.supply
      BY DEF IsRows
    <3> QED BY <3>1, Zenon DEF AddEtching
  <2>2. AddEtching(rows, l, rune).ledger = ledger
    BY AddedLedger
  <2> HIDE DEF ledger, runes, supply
  <2>3. SetsNone(q1, rows)
    BY RowFieldWritten
  <2> HIDE DEF q1
  <2>4. SetsNone(q2, q1)
    BY <2>3, RowFieldWritten DEF SetsNone
  <2> HIDE DEF q2
  <2>5. SetsSupply(q3, q2, supply)
    BY <2>4, RowFieldWritten DEF SetsNone
  <2> HIDE DEF q3
  <2>6. q3.supply = supply /\ q3.increases = rows.increases /\ q3.deductions = rows.deductions
    BY <2>3, <2>4, <2>5 DEF SetsNone, SetsSupply
  <2> QED BY <2>1, <2>2, <2>6 DEF AddsOne, ledger, supply
<1> QED BY <1>1, <1>2

\* Moves that are added, none of them there yet.
LEMMA AwaitsMoves ==
    ASSUME NEW c, IsRows(c), CountsPending(c), NEW h, Awaits(c, h), NEW l, Log(l), Shifts(l),
           \A e \in ToSet(l) : e.height = h, ToSet(c.ledger) \cap ToSet(l) = {}
    PROVE  /\ Awaits(AddMoves(c, l), h)
           /\ ToSet(AddMoves(c, l).ledger) = ToSet(c.ledger) \cup ToSet(l)
<1> DEFINE T == ToSet(c.ledger)
           L == ToSet(l)
           new == AddMoves(c, l)
<1>1. /\ IsList(c.ledger) /\ T \subseteq Facts /\ (\A e \in T : e.height = h)
      /\ SupplyPends(c.supply, T) /\ IncreasesPend(c.increases, T)
      /\ DeductionsPend(c.deductions, T)
  BY DEF Awaits
<1>2. IsFiniteSet(T) /\ IsFiniteSet(L) /\ L \subseteq Facts /\ T \cap L = {}
  BY <1>1, ListFinite DEF Log
<1>3. AddsMoves(c, l, new)
  BY AddedMovesRows
<1>4. IsList(new.ledger) /\ ToSet(new.ledger) = T \cup L
  BY <1>1, <1>3, ListConcat DEF AddsMoves, Log
<1> HIDE DEF T, L, new
<1>5. SupplyPends(new.supply, T \cup L)
  <2>1. RowsOfNat(c.supply)
    BY <1>1, <1>2, PendingIsNat DEF CountsPending
  <2>2. \A f \in Fields : Grows(Column(c.supply, f), Column(new.supply, f), L, RuneOf,
                                Weight(f), ZeroOf)
    BY <1>3, <2>1, MovesGrow DEF AddsMoves, L
  <2> QED BY <1>1, <1>2, <2>2, SupplyPendsMore
<1>6. IncreasesPend(new.increases, T \cup L)
  <2> DEFINE cc == new.increases
  <2>1. Counts("receive", ReceivedOf, SentOf)
    BY BothCount
  <2>2. SidePends(c.increases, T, "receive", ReceivedOf, SentOf)
    BY <1>1, BothSides
  <2>3. cc = ChangeBalances(c.increases, l, "receive")
    BY <1>3 DEF AddsMoves
  <2>4. \A k \in DOMAIN c.increases : k[2] # None
    BY <2>2 DEF SidePends
  <2>5. /\ Grows(Balances(c.increases), Balances(cc), Side(L, "receive"), HolderOf,
                 ReceivedOf, SentOf)
        /\ \A k \in DOMAIN cc : k[2] # None
    BY <2>1, <2>3, <2>4, ChangesGrow DEF L
  <2> HIDE DEF cc
  <2>6. SidePends(cc, T \cup L, "receive", ReceivedOf, SentOf)
    BY <1>1, <1>2, <2>1, <2>2, <2>5, SidePendsMore
  <2> QED BY <2>6, BothSides DEF cc
<1>7. DeductionsPend(new.deductions, T \cup L)
  <2> DEFINE cc == new.deductions
  <2>1. Counts("send", SentOf, ReceivedOf)
    BY BothCount
  <2>2. SidePends(c.deductions, T, "send", SentOf, ReceivedOf)
    BY <1>1, BothSides
  <2>3. cc = ChangeBalances(c.deductions, l, "send")
    BY <1>3 DEF AddsMoves
  <2>4. \A k \in DOMAIN c.deductions : k[2] # None
    BY <2>2 DEF SidePends
  <2>5. /\ Grows(Balances(c.deductions), Balances(cc), Side(L, "send"), HolderOf,
                 SentOf, ReceivedOf)
        /\ \A k \in DOMAIN cc : k[2] # None
    BY <2>1, <2>3, <2>4, ChangesGrow DEF L
  <2> HIDE DEF cc
  <2>6. SidePends(cc, T \cup L, "send", SentOf, ReceivedOf)
    BY <1>1, <1>2, <2>1, <2>2, <2>5, SidePendsMore
  <2> QED BY <2>6, BothSides DEF cc
<1>8. T \cup L \subseteq Facts /\ \A e \in T \cup L : e.height = h
  BY <1>1, <1>2 DEF L
<1> QED BY <1>4, <1>5, <1>6, <1>7, <1>8 DEF Awaits, T, L, new

\* One entry that moves nothing.
LEMMA AwaitsOne ==
    ASSUME NEW c, CountsPending(c), NEW h, Awaits(c, h), NEW e \in Facts,
           e.op \notin {"receive", "send"}, e.height = h, e \notin ToSet(c.ledger),
           NEW supply, NEW new, AddsOne(c, <<e>>, supply, new),
           RowsOfNat(c.supply) => \A f \in Fields :
               Grows(Column(c.supply, f), Column(supply, f), {e}, RuneOf, Weight(f), ZeroOf)
    PROVE  /\ Awaits(new, h)
           /\ ToSet(new.ledger) = ToSet(c.ledger) \cup {e}
<1> DEFINE T == ToSet(c.ledger)
           L == {e}
<1>1. /\ IsList(c.ledger) /\ T \subseteq Facts /\ (\A x \in T : x.height = h)
      /\ SupplyPends(c.supply, T) /\ IncreasesPend(c.increases, T)
      /\ DeductionsPend(c.deductions, T)
  BY DEF Awaits
<1>2. IsFiniteSet(T) /\ IsFiniteSet(L) /\ L \subseteq Facts /\ T \cap L = {}
  BY <1>1, ListFinite, FS_Singleton
<1>3. /\ new.ledger = c.ledger \o <<e>> /\ new.supply = supply
      /\ new.increases = c.increases /\ new.deductions = c.deductions
  BY DEF AddsOne
<1>4. IsList(new.ledger) /\ ToSet(new.ledger) = T \cup L
  <2>1. IsList(<<e>>) /\ ToSet(<<e>>) = {e}
    BY ListOfOne
  <2> QED BY <1>1, <1>3, <2>1, ListConcat
<1> HIDE DEF T
<1>5. SupplyPends(new.supply, T \cup L)
  <2>1. RowsOfNat(c.supply)
    BY <1>1, <1>2, PendingIsNat DEF CountsPending
  <2>2. \A f \in Fields : Grows(Column(c.supply, f), Column(new.supply, f), L, RuneOf,
                                Weight(f), ZeroOf)
    BY <1>3, <2>1
  <2> HIDE DEF L
  <2> QED BY <1>1, <1>2, <2>2, SupplyPendsMore
<1>6. IncreasesPend(new.increases, T \cup L)
  <2>1. Counts("receive", ReceivedOf, SentOf)
    BY BothCount
  <2>2. SidePends(c.increases, T, "receive", ReceivedOf, SentOf)
    BY <1>1, BothSides
  <2>3. Grows(Balances(c.increases), Balances(c.increases), Side(L, "receive"), HolderOf,
              ReceivedOf, SentOf)
    BY <1>1, <1>2, <2>1, <2>2, NoneGrow
  <2>4. \A k \in DOMAIN c.increases : k[2] # None
    BY <2>2 DEF SidePends
  <2> HIDE DEF L
  <2>5. SidePends(c.increases, T \cup L, "receive", ReceivedOf, SentOf)
    BY <1>1, <1>2, <2>1, <2>2, <2>3, <2>4, SidePendsMore
  <2> QED BY <1>3, <2>5, BothSides
<1>7. DeductionsPend(new.deductions, T \cup L)
  <2>1. Counts("send", SentOf, ReceivedOf)
    BY BothCount
  <2>2. SidePends(c.deductions, T, "send", SentOf, ReceivedOf)
    BY <1>1, BothSides
  <2>3. Grows(Balances(c.deductions), Balances(c.deductions), Side(L, "send"), HolderOf,
              SentOf, ReceivedOf)
    BY <1>1, <1>2, <2>1, <2>2, NoneGrow
  <2>4. \A k \in DOMAIN c.deductions : k[2] # None
    BY <2>2 DEF SidePends
  <2> HIDE DEF L
  <2>5. SidePends(c.deductions, T \cup L, "send", SentOf, ReceivedOf)
    BY <1>1, <1>2, <2>1, <2>2, <2>3, <2>4, SidePendsMore
  <2> QED BY <1>3, <2>5, BothSides
<1>8. T \cup L \subseteq Facts /\ \A x \in T \cup L : x.height = h
  BY <1>1, <1>2
<1> QED BY <1>4, <1>5, <1>6, <1>7, <1>8 DEF Awaits, T

\* A mint added to what is pending.
LEMMA AwaitsMint ==
    ASSUME NEW c, IsRows(c), CountsPending(c), NEW h, Awaits(c, h), NEW e \in Facts,
           e.op = "mint", e.height = h, e \notin ToSet(c.ledger)
    PROVE  /\ Awaits(AddMint(c, <<e>>), h)
           /\ ToSet(AddMint(c, <<e>>).ledger) = ToSet(c.ledger) \cup {e}
<1> DEFINE supply == CountMint(c.supply, e.rune, e.amount)
           new == AddMint(c, <<e>>)
<1>1. <<e>>[1] = e
  OBVIOUS
<1>2. AddsOne(c, <<e>>, supply, new)
  BY <1>1, AddedOneRows
<1>3. RowsOfNat(c.supply) => \A f \in Fields :
          Grows(Column(c.supply, f), Column(supply, f), {e}, RuneOf, Weight(f), ZeroOf)
  BY MintGrows
<1>4. e.op \notin {"receive", "send"}
  OBVIOUS
<1> HIDE DEF supply, new
<1>5. Awaits(new, h) /\ ToSet(new.ledger) = ToSet(c.ledger) \cup {e}
  BY <1>2, <1>3, <1>4, AwaitsOne
<1> QED BY <1>5 DEF new

\* An etching added to what is pending.
LEMMA AwaitsEtching ==
    ASSUME NEW c, IsRows(c), CountsPending(c), NEW h, Awaits(c, h), NEW e \in Facts,
           e.op = "etching", e.height = h, e \notin ToSet(c.ledger), NEW rune
    PROVE  /\ Awaits(AddEtching(c, <<e>>, rune), h)
           /\ ToSet(AddEtching(c, <<e>>, rune).ledger) = ToSet(c.ledger) \cup {e}
<1> DEFINE supply == CountOperation(c.supply, e.rune)
           new == AddEtching(c, <<e>>, rune)
<1>1. <<e>>[1] = e
  OBVIOUS
<1>2. AddsOne(c, <<e>>, supply, new)
  BY <1>1, AddedOneRows
<1>3. RowsOfNat(c.supply) => \A f \in Fields :
          Grows(Column(c.supply, f), Column(supply, f), {e}, RuneOf, Weight(f), ZeroOf)
  BY EtchingGrows
<1>4. e.op \notin {"receive", "send"}
  OBVIOUS
<1> HIDE DEF supply, new
<1>5. Awaits(new, h) /\ ToSet(new.ledger) = ToSet(c.ledger) \cup {e}
  BY <1>2, <1>3, <1>4, AwaitsOne
<1> QED BY <1>5 DEF new

\* Nothing is pending for nothing.
LEMMA AwaitsNothing ==
    ASSUME NEW h
    PROVE  Awaits(NoRows, h) /\ ToSet(NoRows.ledger) = {}
<1>1. /\ NoRows.ledger = <<>> /\ NoRows.supply = <<>> /\ NoRows.increases = <<>>
      /\ NoRows.deductions = <<>>
  BY DEF NoRows
<1>2. IsList(<<>>) /\ ToSet(<<>>) = {}
  BY ListsOfNone
<1>3. Side({}, "receive") = {} /\ Side({}, "send") = {}
  BY DEF Side
<1>4. DOMAIN Balances(<<>>) = {} /\ \A f : DOMAIN Column(<<>>, f) = {}
  BY DEF Balances, Column
<1>5. DOMAIN << >> = {}
  OBVIOUS
<1>6. SupplyPends(<<>>, {})
  BY <1>4 DEF SupplyPends, ChangesSum
<1>7. IncreasesPend(<<>>, {}) /\ DeductionsPend(<<>>, {})
  BY <1>3, <1>4, <1>5 DEF IncreasesPend, DeductionsPend, ChangesSum
<1> QED BY <1>1, <1>2, <1>6, <1>7 DEF Awaits

-----------------------------------------------------------------------------
(* What outputs are found to hold *)

\* The balances an output can hold.
Coins == [rune : RuneKeys, address : Wallets, amount : Nat]

\* A cache of outputs holds balances.
Coined(cache) == \A o \in DOMAIN cache : cache[o] \in Seq(Coins)

\* An empty one does.
LEMMA NoCoins == <<>> \in Seq(Coins) /\ Coined(<<>>)
BY DEF Coined

\* The entries of an output are balances of it.
LEMMA OutputCoined ==
    ASSUME NEW entries, IsFiniteSet(entries), entries \subseteq Facts, NEW o
    PROVE  LedgerOutput(entries, o) \in Seq(Coins)
<1> DEFINE S == {e \in entries : e.op = "receive" /\ e.tx = o[1] /\ e.output = o[2]}
           n == Cardinality(S)
           key == [e \in S |-> e.event]
           f == BalancesOf(S)
<1>1. IsFiniteSet(S)
  BY FS_Subset
<1>2. Keys(key, S)
  BY FactFields DEF Keys
<1>3. \A e \in S : BalanceOf(e) \in Coins
  <2> SUFFICES ASSUME NEW e \in S
               PROVE  BalanceOf(e) \in Coins
    OBVIOUS
  <2>1. e.rune \in RuneKeys /\ e.address \in Wallets /\ e.amount \in Nat
    BY FactFields
  <2> QED BY <2>1 DEF BalanceOf, Coins
<1>4. f = [i \in 1..n |-> BalanceOf(InOrder(S, key)[i])]
  BY Zenon DEF BalancesOf
<1>5. LedgerOutput(entries, o) = f
  BY Zenon DEF LedgerOutput
<1> HIDE DEF S, key, f
<1>6. n \in Nat /\ \A i \in 1..n : InOrder(S, key)[i] \in S
  BY <1>1, <1>2, InOrderElements
<1> HIDE DEF n
<1>7. \A i \in 1..n : BalanceOf(InOrder(S, key)[i]) \in Coins
  BY <1>3, <1>6
<1> QED BY <1>4, <1>5, <1>6, <1>7

\* The outputs of the block hold what they received.
LEMMA ReceivedCoins ==
    ASSUME NEW outputs, Coined(outputs), NEW entries, IsList(entries),
           ToSet(entries) \subseteq Facts
    PROVE  Coined(ReceiveOutputs(outputs, entries))
<1> DEFINE received == {e \in ToSet(entries) : e.op = "receive"}
           all == DOMAIN outputs \cup {<<e.tx, e.output>> : e \in received}
           new == ReceiveOutputs(outputs, entries)
<1>1. IsFiniteSet(received) /\ received \subseteq Facts
  <2>1. IsFiniteSet(ToSet(entries))
    BY ListFinite
  <2> QED BY <2>1, FS_Subset
<1>2. new = [k \in all |-> (IF k \in DOMAIN outputs THEN outputs[k] ELSE <<>>)
                               \o LedgerOutput(received, k)]
  BY Zenon DEF ReceiveOutputs
<1> HIDE DEF received, all, new
<1>3. ASSUME NEW k \in DOMAIN new
      PROVE  new[k] \in Seq(Coins)
  <2> DEFINE was == IF k \in DOMAIN outputs THEN outputs[k] ELSE <<>>
             more == LedgerOutput(received, k)
  <2>1. new[k] = was \o more
    BY <1>2, <1>3
  <2>2. was \in Seq(Coins)
    BY NoCoins DEF Coined
  <2>3. more \in Seq(Coins)
    BY <1>1, OutputCoined
  <2> HIDE DEF was, more
  <2> QED BY <2>1, <2>2, <2>3
<1> QED BY <1>3 DEF Coined, new

\* So do those of the LRU output cache.
LEMMA MovedOutputsCoined ==
    ASSUME NEW outputs, Coined(outputs), NEW cache, Coined(cache),
           NEW c \in MoveBlockOutputCache(outputs, cache)
    PROVE  Coined(c)
<1> DEFINE all  == DOMAIN outputs \cup DOMAIN cache
           fits == Cardinality(all) <= LruSize
           kept == IF fits THEN {all} ELSE kSubset(LruSize, all)
           Extended(k) ==
               IF k \notin DOMAIN cache THEN outputs[k]
               ELSE IF k \notin DOMAIN outputs THEN cache[k]
               ELSE cache[k] \o outputs[k]
           Replaced(k) == IF k \in DOMAIN outputs THEN outputs[k] ELSE cache[k]
<1>1. c \in {[k \in S |-> Extended(k)] : S \in kept} \cup
          (IF fits THEN {} ELSE {[k \in S |-> Replaced(k)] : S \in kept})
  BY Zenon DEF MoveBlockOutputCache
<1>2. \A S \in kept : S \subseteq all
  BY DEF kSubset
<1>3. \A k \in all : Extended(k) \in Seq(Coins) /\ Replaced(k) \in Seq(Coins)
  <2> SUFFICES ASSUME NEW k \in all
               PROVE  Extended(k) \in Seq(Coins) /\ Replaced(k) \in Seq(Coins)
    OBVIOUS
  <2>1. k \in DOMAIN cache => cache[k] \in Seq(Coins)
    BY DEF Coined
  <2>2. k \in DOMAIN outputs => outputs[k] \in Seq(Coins)
    BY DEF Coined
  <2>3. k \in DOMAIN cache /\ k \in DOMAIN outputs => cache[k] \o outputs[k] \in Seq(Coins)
    BY <2>1, <2>2
  <2> QED BY <2>1, <2>2, <2>3
<1> HIDE DEF Extended, Replaced, kept, fits, all
<1>4. PICK S \in kept : c = [k \in S |-> Extended(k)] \/ c = [k \in S |-> Replaced(k)]
  BY <1>1
<1> QED BY <1>2, <1>3, <1>4 DEF Coined

\* So an output is found to hold balances.
LEMMA FoundCoins ==
    ASSUME Coined(block_output_cache), Coined(output_cache), IsFiniteSet(db_tx.ledger),
           db_tx.ledger \subseteq Facts, NEW o
    PROVE  FindOutput(o) \in Seq(Coins)
<1>1. LedgerOutput(db_tx.ledger, o) \in Seq(Coins)
  BY OutputCoined
<1> QED BY <1>1 DEF FindOutput, Coined

\* And so are all the inputs of a transaction.
LEMMA InputsCoined ==
    ASSUME Coined(block_output_cache), Coined(output_cache), IsFiniteSet(db_tx.ledger),
           db_tx.ledger \subseteq Facts, NEW b, IsList(b)
    PROVE  Found(b) \in Seq(Coins)
<1> DEFINE n == Len(b)
<1>1. n \in Nat /\ DOMAIN b = 1..n
  BY ListLength
<1> HIDE DEF n
<1>2. PICK h : Finds(b, n, h) /\ Found(b) = h[n]
  BY <1>1, FoundTrace
<1> DEFINE good == {k \in Nat : k <= n => h[k] \in Seq(Coins)}
<1>3. 0 \in good
  BY <1>2, NoCoins DEF Finds
<1>4. ASSUME NEW k \in Nat, k \in good
      PROVE  k + 1 \in good
  <2>1. CASE k + 1 <= n
    <3>1. h[k] \in Seq(Coins) /\ k + 1 \in 1..n /\ (k + 1) - 1 = k
      BY <1>1, <1>4, <2>1
    <3>2. h[k + 1] = h[k] \o FindOutput(b[k + 1])
      BY <1>2, <3>1 DEF Finds
    <3> HIDE DEF good
    <3>3. FindOutput(b[k + 1]) \in Seq(Coins)
      BY FoundCoins
    <3>4. h[k + 1] \in Seq(Coins)
      BY <3>1, <3>2, <3>3
    <3> QED BY <3>4 DEF good
  <2>2. CASE ~(k + 1 <= n)
    BY <2>2
  <2> QED BY <2>1, <2>2
<1>5. Nat \subseteq good
  <2> HIDE DEF good
  <2> QED BY <1>3, <1>4, NatGrows
<1>6. n \in good
  BY <1>1, <1>5
<1>7. n <= n
  BY <1>1
<1> QED BY <1>2, <1>6, <1>7

\* The input runes of a transaction belong to the wallets.
LEMMA InputsTyped ==
    ASSUME NEW b, Found(b) \in Seq(Coins)
    PROVE  InputRunes(b) \in [RuneKeys -> Deques(Wallets)]
<1> DEFINE found == Found(b)
           Of(r) == {i \in DOMAIN found : found[i].rune = r}
           key(r) == [j \in Of(r) |-> j]
           Held(r, i) == LET at == InOrder(Of(r), key(r))
                         IN  [address |-> found[at[i]].address,
                              amount |-> found[at[i]].amount]
           runes == InputRunes(b)
<1>1. runes = [r \in RuneKeys |-> [i \in 1..Cardinality(Of(r)) |-> Held(r, i)]]
  BY Zenon DEF InputRunes
<1>2. found \in Seq(Coins)
  OBVIOUS
<1> HIDE DEF found, runes
<1>3. DOMAIN found = 1..Len(found) /\ Len(found) \in Nat
      /\ \A i \in DOMAIN found : found[i] \in Coins
  BY <1>2
<1>4. ASSUME NEW r \in RuneKeys
      PROVE  [i \in 1..Cardinality(Of(r)) |-> Held(r, i)] \in Deques(Wallets)
  <2> DEFINE S == Of(r)
             k == key(r)
             n == Cardinality(S)
  <2>1. IsFiniteSet(DOMAIN found)
    BY <1>3, FS_Interval
  <2>2. IsFiniteSet(S) /\ Keys(k, S)
    <3>1. IsFiniteSet(S)
      BY <2>1, FS_Subset
    <3>2. Keys(k, S)
      BY <1>3 DEF Keys
    <3> QED BY <3>1, <3>2
  <2>3. S \subseteq DOMAIN found
    OBVIOUS
  <2> SUFFICES [i \in 1..n |-> [address |-> found[InOrder(S, k)[i]].address,
                               amount |-> found[InOrder(S, k)[i]].amount]]
                   \in Deques(Wallets)
    OBVIOUS
  <2> HIDE DEF S, k
  <2>4. n \in Nat /\ \A i \in 1..n : InOrder(S, k)[i] \in S
    BY <2>2, InOrderElements
  <2> HIDE DEF n
  <2>5. \A i \in 1..n : found[InOrder(S, k)[i]] \in Coins
    BY <1>3, <2>3, <2>4
  <2>6. \A i \in 1..n : [address |-> found[InOrder(S, k)[i]].address,
                         amount |-> found[InOrder(S, k)[i]].amount]
                            \in [address : Wallets, amount : Nat]
    BY <2>5 DEF Coins
  <2> QED BY <2>4, <2>6 DEF Deques
<1> HIDE DEF Of, key, Held
<1>5. runes \in [RuneKeys -> Deques(Wallets)]
  BY <1>1, <1>4
<1> QED BY <1>5 DEF runes

-----------------------------------------------------------------------------
(* The sums: the inductive invariant *)

\* The committed rows are the sums of the committed ledger.
SumsCommitted == Summed(db, Height - 1)

\* So are the rows of the open transaction, and what is pending is the sum of the
\* entries that are pending, which the tables do not have yet.
SumsOpen ==
    InBlock => /\ Summed(db_tx, Height)
               /\ Awaits(db_cache, Height)
               /\ db_tx.ledger \cap ToSet(db_cache.ledger) = {}

\* An entry of a transaction of this block that was reached; the one at hand has
\* given its number.
OfReached(e) ==
    \E i \in 1..pos : /\ e.tx = block.txs[i]
                      /\ i = pos /\ InTransaction => e.event < tx_cache.next_event_index

\* No transaction is indexed twice, and every entry the open block has written is
\* of a transaction it has reached.
EntriesPassed ==
    InBlock => /\ IsInjective(block.txs)
               /\ \A e \in OpenLedger(db_tx, db_cache) : e \in db.ledger \/ OfReached(e)

\* The transaction at hand moves runes between known addresses and outputs.
TransactionTyped ==
    InTransaction =>
        /\ Carries(tx_cache, Wallets)
        /\ tx_cache.output_pointer \in Slots
        /\ tx_cache.etching # None => IsRune(tx_cache.etching)
        /\ stage \in {"cenotaph", "cenotaph etching", "cenotaph mint"} =>
               Artifact.kind = "cenotaph"

\* The caches of outputs hold balances of known runes.
OutputsCoined == Coined(block_output_cache) /\ Coined(output_cache)

\* What makes the running totals sums of the ledger.
SInv == SumsCommitted /\ SumsOpen /\ EntriesPassed /\ TransactionTyped /\ OutputsCoined

\* A lookup keeps the sums, whether it inserts what is pending or not.
LEMMA LookupSums ==
    ASSUME Structure, BlockOpen, CountInv, SumsOpen, InBlock, NEW f \in BOOLEAN
    PROVE  /\ Summed(TablesAfter(f), Height)
           /\ Awaits(RowsAfter(f), Height)
           /\ TablesAfter(f).ledger \cap ToSet(RowsAfter(f).ledger) = {}
           /\ IsRows(RowsAfter(f)) /\ CountsPending(RowsAfter(f))
           /\ OpenLedger(TablesAfter(f), RowsAfter(f)) = OpenLedger(db_tx, db_cache)
<1>1. /\ Summed(db_tx, Height) /\ Awaits(db_cache, Height)
      /\ db_tx.ledger \cap ToSet(db_cache.ledger) = {}
  BY DEF SumsOpen
<1>2. IsRows(RowsAfter(f)) /\ CountsPending(RowsAfter(f))
  BY AfterLookup, LookupMints
<1>3. OpenLedger(TablesAfter(f), RowsAfter(f)) = OpenLedger(db_tx, db_cache)
  BY OpenLookup DEF BlockOpen
<1>4. CASE f = FALSE
  <2>1. TablesAfter(f) = db_tx /\ RowsAfter(f) = db_cache
    BY <1>4 DEF TablesAfter, RowsAfter
  <2> QED BY <1>1, <1>2, <1>3, <2>1
<1>5. CASE f = TRUE
  <2>1. TablesAfter(f) = Flush(db_tx, db_cache, Height) /\ RowsAfter(f) = NoRows
    BY <1>5 DEF TablesAfter, RowsAfter, Structure
  <2>2. Summed(Flush(db_tx, db_cache, Height), Height)
    BY <1>1, HeightNat, FlushSums
  <2>3. Awaits(NoRows, Height) /\ ToSet(NoRows.ledger) = {}
    BY AwaitsNothing
  <2> QED BY <1>2, <1>3, <2>1, <2>2, <2>3
<1> QED BY <1>4, <1>5

\* The new entries of the transaction at hand.
NewEntered(l) ==
    /\ Log(l)
    /\ \A e \in ToSet(l) : e.height = Height
    /\ \A e \in ToSet(l) : e.tx = block.txs[pos]
    /\ \A e \in ToSet(l) : e.event < tx_cache.next_event_index + Len(l)
    /\ OpenLedger(db_tx, db_cache) \cap ToSet(l) = {}

\* Entries numbered on from those of the transaction were not there.
LEMMA NewEntries ==
    ASSUME Structure, TransactionOpen, InTransaction, SumsCommitted, EntriesPassed,
           TransactionTyped, NEW new, NEW l, Enters(Wallets, Slots, tx_cache, new, l)
    PROVE  NewEntered(l)
<1> DEFINE n == tx_cache.next_event_index
           loc == tx_cache.location
           T == Logs(loc, Wallets, Slots)
<1>1. /\ loc.height = Height /\ loc.tx = block.txs[pos] /\ loc.tx \in Txs
      /\ pos \in 1..Len(block.txs) /\ InBlock /\ Height \in Nat
  BY PlaceOf, HeightNat
<1>2. l \in Seq(T) /\ \A i \in DOMAIN l : l[i].event = n + i - 1
  BY DEF Enters
<1>3. n \in Nat
  BY DEF TransactionTyped, Carries
<1>4. \A e \in T : e \in Facts /\ e.height = Height /\ e.tx = block.txs[pos]
  BY <1>1, LogsAreFacts
<1> HIDE DEF n, T, loc
<1>5. DOMAIN l = 1..Len(l) /\ Len(l) \in Nat /\ \A i \in DOMAIN l : l[i] \in T
  BY <1>2
<1>6. \A e \in ToSet(l) : \E i \in DOMAIN l : e = l[i]
  BY DEF ToSet
<1>7. Log(l)
  <2>1. IsList(l)
    BY <1>2 DEF IsList
  <2>2. ToSet(l) \subseteq Facts
    BY <1>4, <1>5, <1>6
  <2>3. \A i, j \in DOMAIN l : l[i] = l[j] => i = j
    <3> SUFFICES ASSUME NEW i \in DOMAIN l, NEW j \in DOMAIN l, l[i] = l[j]
                 PROVE  i = j
      OBVIOUS
    <3>1. n + i - 1 = n + j - 1
      BY <1>2
    <3>2. i \in Int /\ j \in Int
      BY <1>5
    <3> QED BY <1>3, <3>1, <3>2
  <2> QED BY <2>1, <2>2, <2>3 DEF Log
<1>8. ASSUME NEW e \in ToSet(l)
      PROVE  /\ e.height = Height /\ e.tx = block.txs[pos]
             /\ e.event \in Int /\ e.event >= n /\ e.event < n + Len(l)
  <2>1. PICK i \in DOMAIN l : e = l[i]
    BY <1>6
  <2>2. i \in 1..Len(l) /\ e.event = n + i - 1
    BY <1>2, <1>5, <2>1
  <2> QED BY <1>3, <1>4, <1>5, <2>1, <2>2
<1>9. ASSUME NEW e \in ToSet(l), e \in OpenLedger(db_tx, db_cache)
      PROVE  FALSE
  <2>1. /\ IsInjective(block.txs)
        /\ e \in db.ledger \/ OfReached(e)
    BY <1>1, <1>9 DEF EntriesPassed
  <2>2. e.height = Height /\ e.tx = block.txs[pos] /\ e.event \in Int /\ e.event >= n
    BY <1>8
  <2>3. CASE e \in db.ledger
    <3>1. e.height <= Height - 1
      BY <2>3 DEF SumsCommitted, Summed, LowerThan
    <3> QED BY <1>1, <2>2, <3>1
  <2>4. CASE OfReached(e)
    <3>1. PICK i \in 1..pos : /\ e.tx = block.txs[i]
                              /\ i = pos => e.event < n
      BY <2>4 DEF OfReached, n
    <3>2. block.txs \in Seq(Txs)
      BY DEF Structure
    <3>3. i \in DOMAIN block.txs /\ pos \in DOMAIN block.txs
      BY <1>1, <3>2
    <3>4. i = pos
      BY <2>1, <2>2, <3>1, <3>3 DEF IsInjective
    <3> QED BY <1>3, <2>2, <3>1, <3>4
  <2> QED BY <2>1, <2>3, <2>4
<1> QED BY <1>7, <1>8, <1>9 DEF NewEntered, n

-----------------------------------------------------------------------------
(* What the handlers leave of the sums *)

\* What a handler leaves pending when its lookup inserted what was pending if f, and
\* it wrote the entries l.
Pends(f, l) ==
    LET c == RowsAfter(f)
    IN  /\ db_tx' = TablesAfter(f)
        /\ \/ l = <<>> /\ db_cache' = c
           \/ Shifts(l) /\ db_cache' = AddMoves(c, l)
           \/ Len(l) = 1 /\ l[1].op = "mint" /\ db_cache' = AddMint(c, l)
           \/ /\ Len(l) = 1 /\ l[1].op = "etching"
              /\ \E rune : db_cache' = AddEtching(c, l, rune)

\* A list of one entry.
LEMMA OneOf ==
    ASSUME NEW l, IsList(l), Len(l) = 1
    PROVE  l = <<l[1]>> /\ ToSet(l) = {l[1]}
<1>1. PICK S : l \in Seq(S)
  BY DEF IsList
<1>2. l = <<l[1]>>
  BY <1>1
<1>3. ToSet(<<l[1]>>) = {l[1]}
  BY ListOfOne
<1> QED BY <1>2, <1>3

\* The sums of what is open after a handler.
LEMMA PendsSums ==
    ASSUME NEW c, IsRows(c), CountsPending(c), NEW h, Awaits(c, h), NEW l, Log(l),
           \A e \in ToSet(l) : e.height = h, ToSet(c.ledger) \cap ToSet(l) = {},
           NEW cc,
           \/ l = <<>> /\ cc = c
           \/ Shifts(l) /\ cc = AddMoves(c, l)
           \/ Len(l) = 1 /\ l[1].op = "mint" /\ cc = AddMint(c, l)
           \/ Len(l) = 1 /\ l[1].op = "etching" /\ \E rune : cc = AddEtching(c, l, rune)
    PROVE  Awaits(cc, h) /\ ToSet(cc.ledger) = ToSet(c.ledger) \cup ToSet(l)
<1>1. CASE l = <<>> /\ cc = c
  BY <1>1, ListsOfNone
<1>2. CASE Shifts(l) /\ cc = AddMoves(c, l)
  BY <1>2, AwaitsMoves
<1>3. ASSUME Len(l) = 1
      PROVE  /\ l = <<l[1]>> /\ ToSet(l) = {l[1]} /\ l[1] \in Facts /\ l[1].height = h
             /\ l[1] \notin ToSet(c.ledger)
  <2>1. l = <<l[1]>> /\ ToSet(l) = {l[1]}
    BY <1>3, OneOf DEF Log
  <2>2. l[1] \in ToSet(l)
    BY <2>1
  <2> QED BY <2>1, <2>2 DEF Log
<1>4. CASE Len(l) = 1 /\ l[1].op = "mint" /\ cc = AddMint(c, l)
  <2> DEFINE e == l[1]
  <2>1. e \in Facts /\ e.height = h /\ e \notin ToSet(c.ledger) /\ e.op = "mint"
        /\ ToSet(l) = {e} /\ cc = AddMint(c, <<e>>)
    BY <1>3, <1>4
  <2> HIDE DEF e
  <2>2. Awaits(AddMint(c, <<e>>), h)
        /\ ToSet(AddMint(c, <<e>>).ledger) = ToSet(c.ledger) \cup {e}
    BY <2>1, AwaitsMint
  <2> QED BY <2>1, <2>2
<1>5. ASSUME Len(l) = 1, l[1].op = "etching", NEW rune, cc = AddEtching(c, l, rune)
      PROVE  Awaits(cc, h) /\ ToSet(cc.ledger) = ToSet(c.ledger) \cup ToSet(l)
  <2> DEFINE e == l[1]
  <2>1. e \in Facts /\ e.height = h /\ e \notin ToSet(c.ledger) /\ e.op = "etching"
        /\ ToSet(l) = {e} /\ cc = AddEtching(c, <<e>>, rune)
    BY <1>3, <1>5
  <2> HIDE DEF e
  <2>2. Awaits(AddEtching(c, <<e>>, rune), h)
        /\ ToSet(AddEtching(c, <<e>>, rune).ledger) = ToSet(c.ledger) \cup {e}
    BY <2>1, AwaitsEtching
  <2> QED BY <2>1, <2>2
<1> QED BY <1>1, <1>2, <1>4, <1>5

\* A single entry that is no receipt receives nothing.
LEMMA NoneReceived ==
    ASSUME NEW S, NEW l \in Seq(S), Len(l) = 1 /\ l[1].op # "receive"
    PROVE  \A i \in DOMAIN l : l[i].op # "receive"
<1>1. DOMAIN l = 1..Len(l)
  OBVIOUS
<1>2. \A i \in DOMAIN l : i = 1
  BY <1>1
<1> QED BY <1>2

\* Nor does an empty list.
LEMMA NothingReceived == \A i \in DOMAIN <<>> : <<>>[i].op # "receive"
OBVIOUS

\* What is received goes to the outputs of the block.
Collects(l) ==
    \/ block_output_cache' = ReceiveOutputs(block_output_cache, l)
    \/ /\ block_output_cache' = block_output_cache
       /\ \A i \in DOMAIN l : l[i].op # "receive"

\* A handler that inserts what is pending if f, and enters the entries l.
Stepping(f, l) ==
    /\ InTransaction
    /\ stage' \in Stages \ {"idle", "commit"}
    /\ UNCHANGED <<db, block, chain, pos, output_cache>>
    /\ Pends(f, l)
    /\ Enters(Wallets, Slots, tx_cache, tx_cache', l)
    /\ Collects(l)
    /\ Coined(block_output_cache')
    /\ InTransaction' =>
           /\ tx_cache'.output_pointer \in Slots
           /\ tx_cache'.etching # None => IsRune(tx_cache'.etching)
           /\ stage' \in {"cenotaph", "cenotaph etching", "cenotaph mint"} =>
                  stage \in {"cenotaph", "cenotaph etching", "cenotaph mint"}

\* A step of a handler.
Handled == \E f \in BOOLEAN : \E l : Stepping(f, l)

\* What a handler leaves open: the entries there were and its own, still summed.
LEMMA SteppingOpens ==
    ASSUME Structure, BInv, CountInv, SInv, NEW f \in BOOLEAN, NEW l, Stepping(f, l)
    PROVE  /\ NewEntered(l) /\ SumsOpen'
           /\ OpenLedger(db_tx', db_cache') = OpenLedger(db_tx, db_cache) \cup ToSet(l)
<1>1. /\ BlockOpen /\ TransactionOpen /\ SumsCommitted /\ SumsOpen /\ EntriesPassed
      /\ TransactionTyped /\ OutputsCoined /\ InTransaction
  BY DEF BInv, SInv, Stepping
<1>2. InBlock /\ InBlock'
  BY <1>1 DEF InBlock, InTransaction, Stepping
<1>3. Height' = Height /\ UNCHANGED <<db, block, chain, pos, output_cache>>
  BY DEF Height, Stepping
<1>4. Enters(Wallets, Slots, tx_cache, tx_cache', l)
  BY DEF Stepping
<1>5. NewEntered(l)
  BY <1>1, <1>4, NewEntries
<1> DEFINE d == TablesAfter(f)
           c == RowsAfter(f)
<1>6. /\ Summed(d, Height) /\ Awaits(c, Height) /\ d.ledger \cap ToSet(c.ledger) = {}
      /\ IsRows(c) /\ CountsPending(c)
      /\ OpenLedger(d, c) = OpenLedger(db_tx, db_cache)
  BY <1>1, <1>2, LookupSums
<1>7. /\ db_tx' = d
      /\ \/ l = <<>> /\ db_cache' = c
         \/ Shifts(l) /\ db_cache' = AddMoves(c, l)
         \/ Len(l) = 1 /\ l[1].op = "mint" /\ db_cache' = AddMint(c, l)
         \/ /\ Len(l) = 1 /\ l[1].op = "etching"
            /\ \E rune : db_cache' = AddEtching(c, l, rune)
  BY DEF Stepping, Pends
<1> HIDE DEF d, c
<1>8. d.ledger \cap ToSet(l) = {} /\ ToSet(c.ledger) \cap ToSet(l) = {}
  BY <1>5, <1>6 DEF NewEntered, OpenLedger
<1>9. Awaits(db_cache', Height) /\ ToSet(db_cache'.ledger) = ToSet(c.ledger) \cup ToSet(l)
  <2>1. Log(l) /\ \A e \in ToSet(l) : e.height = Height
    BY <1>5 DEF NewEntered
  <2> QED BY <1>6, <1>7, <1>8, <2>1, PendsSums
<1>10. SumsOpen'
  <2>1. d.ledger \cap ToSet(db_cache'.ledger) = {}
    BY <1>6, <1>8, <1>9
  <2>2. Summed(db_tx', Height') /\ Awaits(db_cache', Height')
    BY <1>3, <1>6, <1>7, <1>9
  <2> QED BY <1>7, <2>1, <2>2 DEF SumsOpen
<1>11. OpenLedger(db_tx', db_cache') = OpenLedger(db_tx, db_cache) \cup ToSet(l)
  BY <1>6, <1>7, <1>9 DEF OpenLedger
<1> QED BY <1>5, <1>10, <1>11

\* Every handler keeps the sums.
LEMMA SteppingKeeps ==
    ASSUME Structure, BInv, CountInv, SInv, NEW f \in BOOLEAN, NEW l, Stepping(f, l)
    PROVE  SInv'
<1>1. /\ BlockOpen /\ TransactionOpen /\ SumsCommitted /\ SumsOpen /\ EntriesPassed
      /\ TransactionTyped /\ OutputsCoined /\ InTransaction
  BY DEF BInv, SInv, Stepping
<1>2. InBlock /\ InBlock'
  BY <1>1 DEF InBlock, InTransaction, Stepping
<1>3. Height' = Height /\ UNCHANGED <<db, block, chain, pos, output_cache>>
  BY DEF Height, Stepping
<1>4. Enters(Wallets, Slots, tx_cache, tx_cache', l)
  BY DEF Stepping
<1>5. /\ NewEntered(l) /\ SumsOpen'
      /\ OpenLedger(db_tx', db_cache') = OpenLedger(db_tx, db_cache) \cup ToSet(l)
  BY SteppingOpens
<1>6. SumsCommitted'
  BY <1>1, <1>3 DEF SumsCommitted
<1>7. EntriesPassed'
  <2>1. OpenLedger(db_tx', db_cache') = OpenLedger(db_tx, db_cache) \cup ToSet(l)
    BY <1>5
  <2> DEFINE n == tx_cache.next_event_index
             m == tx_cache'.next_event_index
  <2>2. n \in Nat /\ Len(l) \in Nat /\ m = n + Len(l)
    <3>1. n \in Nat
      BY <1>1 DEF TransactionTyped, Carries
    <3>2. Len(l) \in Nat /\ m = n + Len(l)
      BY <1>4 DEF Enters
    <3> QED BY <3>1, <3>2
  <2> HIDE DEF n, m
  <2>3. pos \in 1..pos
    <3>1. pos \in 1..Len(block.txs)
      BY <1>1, PlaceOf
    <3> QED BY <3>1
  <2>4. ASSUME NEW e \in OpenLedger(db_tx, db_cache), OfReached(e)
        PROVE  OfReached(e)'
    <3>1. PICK i \in 1..pos : e.tx = block.txs[i] /\ (i = pos => e.event < n)
      BY <1>1, <2>4 DEF OfReached, n
    <3>2. e.event \in Nat
      <4>1. e \in Facts
        BY <1>1, <1>2, <2>4 DEF SumsOpen, Summed, Awaits, OpenLedger
      <4> QED BY <4>1, FactFields
    <3>3. i = pos => e.event < m
      BY <2>2, <3>1, <3>2
    <3> QED BY <1>3, <3>1, <3>3 DEF OfReached, m
  <2>5. ASSUME NEW e \in ToSet(l)
        PROVE  OfReached(e)'
    <3>1. e.tx = block.txs[pos] /\ e.event < m
      BY <1>5, <2>2 DEF NewEntered, n
    <3> QED BY <1>3, <2>3, <3>1 DEF OfReached, m
  <2>6. \A e \in OpenLedger(db_tx, db_cache) : e \in db.ledger \/ OfReached(e)
    BY <1>1, <1>2 DEF EntriesPassed
  <2>7. \A e \in OpenLedger(db_tx', db_cache') : e \in db'.ledger \/ OfReached(e)'
    BY <1>3, <2>1, <2>4, <2>5, <2>6
  <2>8. IsInjective(block'.txs)
    BY <1>1, <1>2, <1>3 DEF EntriesPassed
  <2> QED BY <2>7, <2>8 DEF EntriesPassed, OpenLedger
<1>8. TransactionTyped'
  <2> SUFFICES ASSUME InTransaction'
               PROVE  /\ Carries(tx_cache', Wallets)
                      /\ tx_cache'.output_pointer \in Slots
                      /\ tx_cache'.etching # None => IsRune(tx_cache'.etching)
                      /\ stage' \in {"cenotaph", "cenotaph etching", "cenotaph mint"} =>
                             Artifact'.kind = "cenotaph"
    BY DEF TransactionTyped, Carries, IsTransaction, IsRune
  <2>1. Carries(tx_cache', Wallets)
    BY <1>4 DEF Enters
  <2>2. Artifact' = Artifact
    BY <1>3 DEF Artifact, Tx
  <2> QED BY <1>1, <2>1, <2>2 DEF TransactionTyped, Stepping
<1>9. OutputsCoined'
  BY <1>1, <1>3 DEF OutputsCoined, Stepping, Coined
<1> QED BY <1>5, <1>6, <1>7, <1>8, <1>9 DEF SInv

\* The transaction at hand is one of the modelled ones.
LEMMA AtHand ==
    ASSUME Structure, BInv, CountInv, SInv, InTransaction
    PROVE  /\ TransactionOpen /\ TransactionTyped /\ OutputsCoined /\ InBlock
           /\ Carries(tx_cache, Wallets) /\ tx_cache.output_pointer \in Slots
           /\ tx_cache.etching # None => IsRune(tx_cache.etching)
           /\ tx_cache.location.height = Height /\ Height \in Nat
           /\ tx_cache.location.tx \in Txs /\ block.txs[pos] \in Txs
           /\ tx_cache.eligible_outputs = Tx.outputs
           /\ tx_cache.etching # None => tx_cache.etching.id \in RuneKeys
           /\ None \in Slots /\ Nat \subseteq Slots
<1>1. TransactionOpen /\ TransactionTyped /\ OutputsCoined
  BY DEF BInv, SInv
<1>2. /\ tx_cache.location.height = Height /\ tx_cache.location.tx = block.txs[pos]
      /\ block.txs[pos] \in Txs /\ InBlock /\ Height \in Nat
  BY <1>1, PlaceOf, HeightNat
<1>3. None \in Slots /\ Nat \subseteq Slots
  BY DEF Slots
<1> QED BY <1>1, <1>2, <1>3 DEF TransactionOpen, TransactionTyped

\* The pointer of a runestone is an output an entry may name.
LEMMA ApplyRunestoneSteps == IInv /\ BInv /\ CountInv /\ SInv /\ ApplyRunestone => Handled
<1> SUFFICES ASSUME IInv, BInv, CountInv, SInv, ApplyRunestone
             PROVE  Handled
  OBVIOUS
<1>1. Structure /\ InTransaction
  BY DEF IInv, ApplyRunestone, InTransaction
<1>2. /\ TransactionTyped /\ OutputsCoined /\ Carries(tx_cache, Wallets)
      /\ tx_cache.output_pointer \in Slots
      /\ tx_cache.etching # None => IsRune(tx_cache.etching)
      /\ block.txs[pos] \in Txs
  BY <1>1, AtHand
<1>3. /\ Carries(tx_cache', Wallets) /\ tx_cache'.output_pointer \in Slots
      /\ tx_cache'.location = tx_cache.location /\ tx_cache'.etching = tx_cache.etching
      /\ tx_cache'.next_event_index = tx_cache.next_event_index
  <2> DEFINE pointer == Artifact.pointer
             new == [tx_cache EXCEPT !.output_pointer = pointer]
  <2>1. CASE tx_cache' = tx_cache
    BY <1>2, <2>1
  <2>2. CASE tx_cache' = new
    <3>1. pointer \in Slots
      BY <1>2 DEF Slots, Artifact, Tx
    <3> HIDE DEF pointer
    <3>2. /\ Carries(new, Wallets) /\ new.output_pointer = pointer
          /\ new.location = tx_cache.location /\ new.etching = tx_cache.etching
          /\ new.next_event_index = tx_cache.next_event_index
      BY <1>2, PointerCarries
    <3> HIDE DEF new
    <3> QED BY <2>2, <3>1, <3>2
  <2> QED BY <2>1, <2>2 DEF ApplyRunestone
<1>4. Enters(Wallets, Slots, tx_cache, tx_cache', <<>>)
  BY <1>2, <1>3, NothingEnters
<1>5. Pends(FALSE, <<>>)
  BY DEF Pends, ApplyRunestone, TablesAfter, RowsAfter
<1>6. Collects(<<>>)
  BY NothingReceived DEF Collects, ApplyRunestone
<1>7. Stepping(FALSE, <<>>)
  BY <1>1, <1>2, <1>3, <1>4, <1>5, <1>6
     DEF Stepping, ApplyRunestone, Stages, OutputsCoined, Coined, caches, history
<1> QED BY <1>7 DEF Handled

\* What is recorded of moves.
LEMMA MovesEnter ==
    ASSUME Carries(tx_cache, Wallets), Coined(block_output_cache),
           tx_cache.location.height \in Nat, tx_cache.location.tx \in Txs,
           NEW rows, NEW result, RecordMoves(rows, result),
           Enters(Wallets, Slots, tx_cache, result.tc, result.entries)
    PROVE  /\ Enters(Wallets, Slots, tx_cache, tx_cache', result.entries)
           /\ tx_cache'.etching = tx_cache.etching
           /\ tx_cache'.output_pointer = tx_cache.output_pointer
           /\ db_cache' = AddMoves(rows, result.entries)
           /\ Collects(result.entries) /\ Coined(block_output_cache')
<1>1. /\ db_cache' = AddMoves(rows, result.entries)
      /\ block_output_cache' = ReceiveOutputs(block_output_cache, result.entries)
  BY DEF RecordMoves
<1>2. /\ Carries(result.tc, Wallets) /\ result.tc.location = tx_cache.location
      /\ result.entries \in Seq(Logs(tx_cache.location, Wallets, Slots))
      /\ result.tc.next_event_index = tx_cache.next_event_index + Len(result.entries)
      /\ \A i \in DOMAIN result.entries :
             result.entries[i].event = tx_cache.next_event_index + i - 1
  BY DEF Enters
<1>3. /\ Carries(tx_cache', Wallets) /\ tx_cache'.location = tx_cache.location
      /\ tx_cache'.etching = tx_cache.etching
      /\ tx_cache'.output_pointer = tx_cache.output_pointer
      /\ tx_cache'.next_event_index = result.tc.next_event_index
  <2> DEFINE runes == result.tc.input_runes
             event == result.tc.next_event_index
             moved == [tx_cache EXCEPT !.input_runes = runes]
             new == [moved EXCEPT !.next_event_index = event]
  <2>1. /\ IsTransaction(tx_cache) /\ None \in Wallets
        /\ \A o \in DOMAIN tx_cache.eligible_outputs : tx_cache.eligible_outputs[o] \in Wallets
    BY DEF Carries
  <2>2. runes \in [RuneKeys -> Deques(Wallets)] /\ event \in Nat
    BY <1>2 DEF Carries
  <2>3. tx_cache' = new
    BY Zenon DEF RecordMoves
  <2> HIDE DEF runes, event
  <2>4. /\ IsTransaction(moved) /\ SameTransaction(tx_cache, moved)
        /\ moved.input_runes = runes
    BY <2>1, InputRunesField
  <2> HIDE DEF moved
  <2>5. /\ IsTransaction(new) /\ SameTransaction(moved, new)
        /\ new.input_runes = moved.input_runes /\ new.next_event_index = event
    BY <2>4, EventField
  <2> HIDE DEF new
  <2>6. Carries(new, Wallets)
    BY <2>1, <2>2, <2>4, <2>5 DEF Carries, SameTransaction
  <2> QED BY <2>3, <2>4, <2>5, <2>6 DEF SameTransaction, event
<1>4. Coined(block_output_cache')
  <2>1. IsList(result.entries)
    BY <1>2 DEF IsList
  <2>2. ToSet(result.entries) \subseteq Facts
    <3> SUFFICES ASSUME NEW e \in ToSet(result.entries)
                 PROVE  e \in Facts
      OBVIOUS
    <3>1. e \in Logs(tx_cache.location, Wallets, Slots)
      BY <1>2 DEF ToSet
    <3> QED BY <3>1, LogsAreFacts
  <2> QED BY <1>1, <2>1, <2>2, ReceivedCoins
<1> QED BY <1>1, <1>2, <1>3, <1>4 DEF Enters, Collects

\* The burn of a cenotaph's inputs.
LEMMA ApplyCenotaphSteps == IInv /\ BInv /\ CountInv /\ SInv /\ ApplyCenotaph => Handled
<1> SUFFICES ASSUME IInv, BInv, CountInv, SInv, ApplyCenotaph
             PROVE  Handled
  OBVIOUS
<1>1. Structure /\ InTransaction
  BY DEF IInv, ApplyCenotaph, InTransaction
<1>2. /\ TransactionTyped /\ OutputsCoined /\ Carries(tx_cache, Wallets)
      /\ tx_cache.output_pointer \in Slots /\ None \in Slots
      /\ tx_cache.etching # None => IsRune(tx_cache.etching)
      /\ tx_cache.location.height \in Nat /\ tx_cache.location.tx \in Txs
  BY <1>1, AtHand
<1> DEFINE result == ApplyCenotaphInputBurn(tx_cache)
           l == result.entries
<1>3. Enters(Wallets, Slots, tx_cache, result.tc, l) /\ Shifts(l)
  <2>1. BurntOut(Wallets, Slots, tx_cache, result)
    BY <1>2, CenotaphSettles
  <2> HIDE DEF result
  <2>2. Settled(Wallets, Slots, tx_cache, result)
    BY <2>1 DEF BurntOut
  <2> QED BY <2>2, SettledEnters
<1>4. RecordMoves(db_cache, result)
  BY DEF ApplyCenotaph
<1> HIDE DEF result
<1>5. /\ Enters(Wallets, Slots, tx_cache, tx_cache', l)
      /\ tx_cache'.etching = tx_cache.etching
      /\ tx_cache'.output_pointer = tx_cache.output_pointer
      /\ db_cache' = AddMoves(db_cache, l)
      /\ Collects(l) /\ Coined(block_output_cache')
  BY <1>2, <1>3, <1>4, MovesEnter DEF OutputsCoined
<1> HIDE DEF l
<1>6. Pends(FALSE, l)
  BY <1>3, <1>5 DEF Pends, ApplyCenotaph, TablesAfter, RowsAfter
<1>7. Stepping(FALSE, l)
  BY <1>1, <1>2, <1>5, <1>6 DEF Stepping, ApplyCenotaph, Stages, caches, history
<1> QED BY <1>7 DEF Handled

\* Allocating what is left over.
LEMMA EndTransactionSteps == IInv /\ BInv /\ CountInv /\ SInv /\ EndTransaction => Handled
<1> SUFFICES ASSUME IInv, BInv, CountInv, SInv, EndTransaction
             PROVE  Handled
  OBVIOUS
<1>1. Structure /\ InTransaction
  BY DEF IInv, EndTransaction, EdictsDone, InTransaction
<1>2. /\ TransactionTyped /\ OutputsCoined /\ Carries(tx_cache, Wallets)
      /\ tx_cache.output_pointer \in Slots
      /\ tx_cache.location.height \in Nat /\ tx_cache.location.tx \in Txs
  BY <1>1, AtHand
<1> DEFINE result == AllocateRemainingBalances(tx_cache)
           l == result.entries
<1>3. Enters(Wallets, Slots, tx_cache, result.tc, l) /\ Shifts(l)
  <2> DEFINE end == MoveAllTo(tx_cache, tx_cache.output_pointer)
  <2>1. Enters(Wallets, Slots, tx_cache, end.tc, end.entries) /\ Shifts(end.entries)
    BY <1>2, RestEnters
  <2>2. result = end
    BY Zenon DEF AllocateRemainingBalances
  <2> HIDE DEF end, result
  <2> QED BY <2>1, <2>2
<1>4. RecordMoves(db_cache, result)
  BY DEF EndTransaction
<1> HIDE DEF result
<1>5. /\ Enters(Wallets, Slots, tx_cache, tx_cache', l)
      /\ db_cache' = AddMoves(db_cache, l)
      /\ Collects(l) /\ Coined(block_output_cache')
  BY <1>2, <1>3, <1>4, MovesEnter DEF OutputsCoined
<1> HIDE DEF l
<1>6. Pends(FALSE, l)
  BY <1>3, <1>5 DEF Pends, EndTransaction, TablesAfter, RowsAfter
<1>7. ~InTransaction'
  BY DEF InTransaction, EndTransaction
<1>8. Stepping(FALSE, l)
  BY <1>1, <1>5, <1>6, <1>7 DEF Stepping, EndTransaction, Stages, caches, history
<1> QED BY <1>8 DEF Handled

\* The outputs of a transaction, in order.
Sorted(t) == SetToSortSeq(DOMAIN TxData[t].outputs, <)

\* An edict names outputs of its transaction.
LEMMA EligibleSlots ==
    ASSUME NEW t \in Txs, NEW tc, tc.eligible_outputs = TxData[t].outputs, NEW k \in Nat
    PROVE  EligibleInOrder(tc)[k] \in Slots
<1>1. EligibleInOrder(tc) = Sorted(t)
  BY Zenon DEF EligibleInOrder, Sorted
<1>2. Slots = Nat \cup {None}
                \cup (UNION {{Sorted(u)[i] : i \in Nat} : u \in Txs})
                \cup {TxData[u].artifact.pointer : u \in Txs}
                \cup {Min(DOMAIN TxData[u].outputs) : u \in Txs}
  BY Zenon DEF Slots, Sorted
<1>3. Sorted(t)[k] \in UNION {{Sorted(u)[i] : i \in Nat} : u \in Txs}
  <2> HIDE DEF Sorted
  <2> QED OBVIOUS
<1> HIDE DEF Sorted
<1>4. Sorted(t)[k] \in Slots
  BY <1>2, <1>3, Zenon
<1> QED BY <1>1, <1>4, Zenon

\* An edict may flush, and moves runes of its transaction.
LEMMA EdictSteps == IInv /\ BInv /\ CountInv /\ SInv /\ Edict => Handled
<1> SUFFICES ASSUME IInv, BInv, CountInv, SInv, Edict
             PROVE  Handled
  OBVIOUS
<1>1. Structure /\ InTransaction /\ stage = "edicts" /\ Bounded
  BY DEF IInv, BInv, Edict, InTransaction
<1>2. /\ TransactionOpen /\ TransactionTyped /\ OutputsCoined /\ InBlock
      /\ Carries(tx_cache, Wallets)
      /\ tx_cache.output_pointer \in Slots /\ None \in Slots /\ Nat \subseteq Slots
      /\ tx_cache.etching # None => IsRune(tx_cache.etching)
      /\ tx_cache.etching # None => tx_cache.etching.id \in RuneKeys
      /\ tx_cache.location.height \in Nat /\ tx_cache.location.tx \in Txs
      /\ block.txs[pos] \in Txs
      /\ tx_cache.eligible_outputs = Tx.outputs
  BY <1>1, AtHand
<1>3. Artifact.kind = "runestone"
  BY <1>1, <1>2 DEF TransactionOpen
<1> DEFINE edict == Artifact.edicts[next_edict]
           result == ApplyEdict(tx_cache, edict)
           l == result.entries
<1>4. edict.id \in RuneKeys /\ edict.amount \in Nat /\ edict.output \in Nat
  <2>1. Artifact.edicts \in Seq([id : RuneKeys, amount : Nat, output : Nat])
    BY <1>2, <1>3, ArtifactAssumption DEF Artifact, Tx
  <2>2. next_edict \in 1..Len(Artifact.edicts)
    BY <1>1, <2>1 DEF Bounded, Edict
  <2>3. ASSUME NEW S, NEW s \in Seq(S), NEW i \in 1..Len(s)
        PROVE  s[i] \in S
    BY <2>3
  <2>4. edict \in [id : RuneKeys, amount : Nat, output : Nat]
    BY <2>1, <2>2, <2>3
  <2> HIDE DEF edict
  <2> QED BY <2>4
<1> HIDE DEF edict
<1>5. IsFiniteSet(DOMAIN tx_cache.eligible_outputs)
  BY <1>2, OutputsAssumption DEF Tx
<1>6. \A k \in Nat : EligibleInOrder(tx_cache)[k] \in Slots
  BY <1>2, EligibleSlots DEF Tx
<1>7. Settled(Wallets, Slots, tx_cache, result)
  BY <1>2, <1>4, <1>5, <1>6, EdictSettles
<1>8. PICK found \in FindRune(edict.id) :
          /\ db_tx' = TablesAfter(found.flushed)
          /\ \/ /\ db_cache' = RowsAfter(found.flushed)
                /\ UNCHANGED <<tx_cache, block_output_cache>>
             \/ RecordMoves(RowsAfter(found.flushed), result)
  BY Zenon DEF Edict, edict
<1> HIDE DEF result
<1>9. found.flushed \in BOOLEAN
  BY FoundRune
<1> DEFINE f == found.flushed
<1>10. Enters(Wallets, Slots, tx_cache, result.tc, l) /\ Shifts(l)
  BY <1>7, SettledEnters
<1>11. \E new : /\ Enters(Wallets, Slots, tx_cache, tx_cache', new)
                /\ tx_cache'.etching = tx_cache.etching
                /\ tx_cache'.output_pointer = tx_cache.output_pointer
                /\ Collects(new) /\ Coined(block_output_cache')
                /\ Pends(f, new)
  <2>1. CASE db_cache' = RowsAfter(f) /\ UNCHANGED <<tx_cache, block_output_cache>>
    <3>1. Enters(Wallets, Slots, tx_cache, tx_cache', <<>>)
      BY <1>2, <2>1, NothingEnters
    <3>2. Pends(f, <<>>)
      BY <1>8, <2>1 DEF Pends
    <3>3. Collects(<<>>)
      BY <2>1, NothingReceived DEF Collects
    <3> QED BY <1>2, <2>1, <3>1, <3>2, <3>3 DEF OutputsCoined
  <2>2. CASE RecordMoves(RowsAfter(f), result)
    <3>1. /\ Enters(Wallets, Slots, tx_cache, tx_cache', l)
          /\ tx_cache'.etching = tx_cache.etching
          /\ tx_cache'.output_pointer = tx_cache.output_pointer
          /\ db_cache' = AddMoves(RowsAfter(f), l)
          /\ Collects(l) /\ Coined(block_output_cache')
      BY <1>2, <1>10, <2>2, MovesEnter DEF OutputsCoined
    <3>2. Pends(f, l)
      BY <1>8, <1>10, <3>1 DEF Pends
    <3> QED BY <3>1, <3>2
  <2> QED BY <1>8, <2>1, <2>2
<1>12. PICK new : /\ Enters(Wallets, Slots, tx_cache, tx_cache', new)
                  /\ tx_cache'.etching = tx_cache.etching
                  /\ tx_cache'.output_pointer = tx_cache.output_pointer
                  /\ Collects(new) /\ Coined(block_output_cache')
                  /\ Pends(f, new)
  BY <1>11
<1>13. Stepping(f, new)
  BY <1>1, <1>2, <1>12 DEF Stepping, Edict, Stages, history
<1> QED BY <1>9, <1>13 DEF Handled, f

\* A mint enters its amount, whatever its rune.
LEMMA MintEnters ==
    ASSUME NEW A, NEW O, NEW tc, Carries(tc, A), None \in O, NEW id \in RuneKeys,
           NEW rune, rune.terms.amount \in Nat
    PROVE  LET res == ApplyMint(tc, id, rune)
           IN  /\ Enters(A, O, tc, res.tc, res.entries)
               /\ Len(res.entries) = 1 /\ res.entries[1].op = "mint"
               /\ res.tc.etching = tc.etching /\ res.tc.output_pointer = tc.output_pointer
<1> DEFINE amount == rune.terms.amount
           mid == AddInputRunes(tc, id, amount)
           res == ApplyMint(tc, id, rune)
<1>1. Added(A, tc, id, amount, mid)
  BY AddInputRunesAdds
<1>2. res = OneEntry(mid, id, amount, "mint")
  BY Zenon DEF ApplyMint
<1> HIDE DEF amount, mid, res
<1>3. /\ Carries(mid, A) /\ mid.location = tc.location /\ mid.etching = tc.etching
      /\ mid.output_pointer = tc.output_pointer
      /\ mid.next_event_index = tc.next_event_index
  BY <1>1 DEF Added, SameTransaction
<1>4. Entered(A, O, mid, id, amount, "mint", OneEntry(mid, id, amount, "mint"))
  BY <1>3, OneEntryEntered DEF amount
<1>5. Entered(A, O, mid, id, amount, "mint", res)
  BY <1>2, <1>4, Zenon
<1>6. /\ Enters(A, O, tc, res.tc, res.entries)
      /\ Len(res.entries) = 1 /\ res.entries[1].op = "mint"
      /\ res.tc.etching = mid.etching /\ res.tc.output_pointer = tc.output_pointer
  BY <1>3, <1>5, EnteredEnters
<1> QED BY <1>3, <1>6 DEF res

\* A cenotaph's mint enters a burn.
LEMMA CenotaphMintEnters ==
    ASSUME NEW A, NEW O, NEW tc, Carries(tc, A), None \in O, NEW id \in RuneKeys,
           NEW rune, rune.terms.amount \in Nat
    PROVE  LET res == ApplyCenotaphMint(tc, id, rune)
           IN  /\ Enters(A, O, tc, res.tc, res.entries) /\ Shifts(res.entries)
               /\ Len(res.entries) = 1 /\ res.entries[1].op = "burn"
               /\ res.tc.etching = tc.etching /\ res.tc.output_pointer = tc.output_pointer
<1> DEFINE amount == rune.terms.amount
           res == ApplyCenotaphMint(tc, id, rune)
<1>1. res = OneEntry(tc, id, amount, "burn")
  BY Zenon DEF ApplyCenotaphMint
<1> HIDE DEF amount, res
<1>2. Entered(A, O, tc, id, amount, "burn", OneEntry(tc, id, amount, "burn"))
  BY OneEntryEntered DEF amount
<1>3. Entered(A, O, tc, id, amount, "burn", res)
  BY <1>1, <1>2, Zenon
<1>4. /\ Enters(A, O, tc, res.tc, res.entries)
      /\ Len(res.entries) = 1 /\ res.entries[1].op = "burn"
      /\ res.tc.etching = tc.etching /\ res.tc.output_pointer = tc.output_pointer
  BY <1>3, EnteredEnters
<1>5. Shifts(res.entries)
  BY <1>4, EnteredShifts DEF Enters
<1> QED BY <1>4, <1>5 DEF res

\* What a mint of either kind enters, which is never received.
MintEntered ==
    \E f \in BOOLEAN : \E l :
        /\ Enters(Wallets, Slots, tx_cache, tx_cache', l)
        /\ \A i \in DOMAIN l : l[i].op # "receive"
        /\ tx_cache'.etching = tx_cache.etching
        /\ tx_cache'.output_pointer = tx_cache.output_pointer
        /\ Pends(f, l)

\* A lookup and a mint that is added to what is pending.
LEMMA MintAdded ==
    ASSUME NEW f \in BOOLEAN, NEW result, db_tx' = TablesAfter(f), tx_cache' = result.tc,
           Enters(Wallets, Slots, tx_cache, result.tc, result.entries),
           result.tc.etching = tx_cache.etching,
           result.tc.output_pointer = tx_cache.output_pointer,
           Len(result.entries) = 1,
           \/ /\ result.entries[1].op = "mint"
              /\ db_cache' = AddMint(RowsAfter(f), result.entries)
           \/ /\ Shifts(result.entries) /\ result.entries[1].op = "burn"
              /\ db_cache' = AddMoves(RowsAfter(f), result.entries)
    PROVE  MintEntered
<1>1. Pends(f, result.entries)
  BY DEF Pends
<1>2. result.entries \in Seq(Logs(tx_cache.location, Wallets, Slots))
  BY DEF Enters
<1>3. \A i \in DOMAIN result.entries : result.entries[i].op # "receive"
  BY <1>2, NoneReceived
<1> QED BY <1>1, <1>3 DEF MintEntered

\* A lookup and a mint that adds nothing.
LEMMA MintSkipped ==
    ASSUME Carries(tx_cache, Wallets), NEW f \in BOOLEAN, db_tx' = TablesAfter(f),
           db_cache' = RowsAfter(f), tx_cache' = tx_cache
    PROVE  MintEntered
<1>1. Pends(f, <<>>)
  BY DEF Pends
<1>2. Enters(Wallets, Slots, tx_cache, tx_cache', <<>>)
  BY NothingEnters
<1>3. \A i \in DOMAIN <<>> : <<>>[i].op # "receive"
  BY NothingReceived
<1> QED BY <1>1, <1>2, <1>3 DEF MintEntered

\* A rune that can be minted has an amount.
LEMMA FoundAmount ==
    ASSUME TInv, tx_cache.etching # None => IsRune(tx_cache.etching),
           NEW id, NEW found \in FindRune(id), found.rune # None, NEW total,
           IsRuneMintable(found.rune, total, tx_cache.location)
    PROVE  found.rune.terms.amount \in Nat
<1>1. IsRune(found.rune)
  <2>1. IInv /\ RunesShaped
    BY DEF TInv, NumberInv
  <2>2. \/ id = SelfId
        \/ id \in DOMAIN rune_cache /\ found.rune = rune_cache[id]
        \/ found.rune \in RuneRows /\ found.rune.id = id
    BY <2>1, FoundRuneRow
  <2>3. CASE id = SelfId
    <3>1. found.rune = tx_cache.etching
      BY <2>3 DEF FindRune
    <3> QED BY <3>1
  <2>4. CASE id # SelfId
    BY <2>1, <2>2, <2>4 DEF RunesShaped
  <2> QED BY <2>3, <2>4
<1>2. found.rune.terms.amount \in Optional(Nat)
  BY <1>1 DEF IsRune
<1>3. found.rune.terms.amount # None
  BY DEF IsRuneMintable
<1> QED BY <1>2, <1>3 DEF Optional

\* Both mint handlers enter one entry or nothing.
LEMMA MintsEnter ==
    ASSUME TInv, Carries(tx_cache, Wallets), None \in Slots,
           tx_cache.etching # None => IsRune(tx_cache.etching),
           Artifact.mint # None => Artifact.mint \in RuneKeys, Mint \/ CenotaphMint
    PROVE  MintEntered
<1>1. CASE NothingMinted
  <2>1. db_tx' = TablesAfter(FALSE) /\ db_cache' = RowsAfter(FALSE) /\ tx_cache' = tx_cache
    BY <1>1 DEF NothingMinted, TablesAfter, RowsAfter
  <2> QED BY <2>1, MintSkipped
<1>2. CASE Artifact.mint # None /\ MintWith(ApplyMint, AddMint)
  <2>1. PICK found \in FindRune(Artifact.mint) :
          \/ /\ db_tx' = TablesAfter(found.flushed)
             /\ db_cache' = RowsAfter(found.flushed)
             /\ tx_cache' = tx_cache
          \/ /\ found.rune # None
             /\ \E counted \in FindTotalMints(Artifact.mint) :
                /\ db_tx' = TablesAfter(found.flushed \/ counted.flushed)
                /\ \/ /\ IsRuneMintable(found.rune, counted.total, tx_cache.location)
                      /\ tx_cache' = ApplyMint(tx_cache, Artifact.mint, found.rune).tc
                      /\ db_cache' = AddMint(RowsAfter(found.flushed \/ counted.flushed),
                                 ApplyMint(tx_cache, Artifact.mint, found.rune).entries)
                   \/ /\ db_cache' = RowsAfter(found.flushed \/ counted.flushed)
                      /\ tx_cache' = tx_cache
    BY <1>2, Zenon DEF MintWith
  <2>2. found.flushed \in BOOLEAN
    BY FoundRune DEF TInv
  <2>3. CASE /\ db_tx' = TablesAfter(found.flushed)
             /\ db_cache' = RowsAfter(found.flushed)
             /\ tx_cache' = tx_cache
    BY <2>2, <2>3, MintSkipped
  <2>4. ASSUME found.rune # None, NEW counted \in FindTotalMints(Artifact.mint),
               db_tx' = TablesAfter(found.flushed \/ counted.flushed),
               \/ /\ IsRuneMintable(found.rune, counted.total, tx_cache.location)
                  /\ tx_cache' = ApplyMint(tx_cache, Artifact.mint, found.rune).tc
                  /\ db_cache' = AddMint(RowsAfter(found.flushed \/ counted.flushed),
                             ApplyMint(tx_cache, Artifact.mint, found.rune).entries)
               \/ /\ db_cache' = RowsAfter(found.flushed \/ counted.flushed)
                  /\ tx_cache' = tx_cache
        PROVE  MintEntered
    <3> DEFINE f == found.flushed \/ counted.flushed
               result == ApplyMint(tx_cache, Artifact.mint, found.rune)
    <3>1. f \in BOOLEAN
      OBVIOUS
    <3>2. CASE db_cache' = RowsAfter(f) /\ tx_cache' = tx_cache
      <4>1. db_tx' = TablesAfter(f)
        BY <2>4
      <4> HIDE DEF f
      <4> QED BY <3>1, <3>2, <4>1, MintSkipped
    <3>3. CASE /\ IsRuneMintable(found.rune, counted.total, tx_cache.location)
               /\ tx_cache' = result.tc
               /\ db_cache' = AddMint(RowsAfter(f), result.entries)
      <4>1. found.rune.terms.amount \in Nat
        BY <2>4, <3>3, FoundAmount
      <4>2. /\ Enters(Wallets, Slots, tx_cache, result.tc, result.entries)
            /\ Len(result.entries) = 1 /\ result.entries[1].op = "mint"
            /\ result.tc.etching = tx_cache.etching
            /\ result.tc.output_pointer = tx_cache.output_pointer
        BY <1>2, <4>1, MintEnters
      <4>3. db_tx' = TablesAfter(f)
        BY <2>4
      <4> HIDE DEF f, result
      <4> QED BY <3>1, <3>3, <4>2, <4>3, MintAdded
    <3> QED BY <2>4, <3>2, <3>3
  <2> QED BY <2>1, <2>3, <2>4
<1>3. CASE Artifact.mint # None /\ MintWith(ApplyCenotaphMint, AddMoves)
  <2>1. PICK found \in FindRune(Artifact.mint) :
          \/ /\ db_tx' = TablesAfter(found.flushed)
             /\ db_cache' = RowsAfter(found.flushed)
             /\ tx_cache' = tx_cache
          \/ /\ found.rune # None
             /\ \E counted \in FindTotalMints(Artifact.mint) :
                /\ db_tx' = TablesAfter(found.flushed \/ counted.flushed)
                /\ \/ /\ IsRuneMintable(found.rune, counted.total, tx_cache.location)
                      /\ tx_cache' = ApplyCenotaphMint(tx_cache, Artifact.mint, found.rune).tc
                      /\ db_cache' = AddMoves(RowsAfter(found.flushed \/ counted.flushed),
                             ApplyCenotaphMint(tx_cache, Artifact.mint, found.rune).entries)
                   \/ /\ db_cache' = RowsAfter(found.flushed \/ counted.flushed)
                      /\ tx_cache' = tx_cache
    BY <1>3, Zenon DEF MintWith
  <2>2. found.flushed \in BOOLEAN
    BY FoundRune DEF TInv
  <2>3. CASE /\ db_tx' = TablesAfter(found.flushed)
             /\ db_cache' = RowsAfter(found.flushed)
             /\ tx_cache' = tx_cache
    BY <2>2, <2>3, MintSkipped
  <2>4. ASSUME found.rune # None, NEW counted \in FindTotalMints(Artifact.mint),
               db_tx' = TablesAfter(found.flushed \/ counted.flushed),
               \/ /\ IsRuneMintable(found.rune, counted.total, tx_cache.location)
                  /\ tx_cache' = ApplyCenotaphMint(tx_cache, Artifact.mint, found.rune).tc
                  /\ db_cache' = AddMoves(RowsAfter(found.flushed \/ counted.flushed),
                         ApplyCenotaphMint(tx_cache, Artifact.mint, found.rune).entries)
               \/ /\ db_cache' = RowsAfter(found.flushed \/ counted.flushed)
                  /\ tx_cache' = tx_cache
        PROVE  MintEntered
    <3> DEFINE f == found.flushed \/ counted.flushed
               result == ApplyCenotaphMint(tx_cache, Artifact.mint, found.rune)
    <3>1. f \in BOOLEAN
      OBVIOUS
    <3>2. CASE db_cache' = RowsAfter(f) /\ tx_cache' = tx_cache
      <4>1. db_tx' = TablesAfter(f)
        BY <2>4
      <4> HIDE DEF f
      <4> QED BY <3>1, <3>2, <4>1, MintSkipped
    <3>3. CASE /\ IsRuneMintable(found.rune, counted.total, tx_cache.location)
               /\ tx_cache' = result.tc
               /\ db_cache' = AddMoves(RowsAfter(f), result.entries)
      <4>1. found.rune.terms.amount \in Nat
        BY <2>4, <3>3, FoundAmount
      <4>2. /\ Enters(Wallets, Slots, tx_cache, result.tc, result.entries)
            /\ Shifts(result.entries)
            /\ Len(result.entries) = 1 /\ result.entries[1].op = "burn"
            /\ result.tc.etching = tx_cache.etching
            /\ result.tc.output_pointer = tx_cache.output_pointer
        BY <1>3, <4>1, CenotaphMintEnters
      <4>3. db_tx' = TablesAfter(f)
        BY <2>4
      <4> HIDE DEF f, result
      <4> QED BY <3>1, <3>3, <4>2, <4>3, MintAdded
    <3> QED BY <2>4, <3>2, <3>3
  <2> QED BY <2>1, <2>3, <2>4
<1> QED BY <1>1, <1>2, <1>3 DEF Mint, CenotaphMint

\* A mint of either kind is a step.
LEMMA MintSteps == TInv /\ BInv /\ SInv /\ (Mint \/ CenotaphMint) => Handled
<1> SUFFICES ASSUME TInv, BInv, SInv, Mint \/ CenotaphMint
             PROVE  Handled
  OBVIOUS
<1>1. Structure /\ CountInv /\ InTransaction
  BY DEF TInv, IInv, Mint, CenotaphMint, InTransaction
<1>2. /\ TransactionOpen /\ TransactionTyped /\ OutputsCoined
      /\ Carries(tx_cache, Wallets)
      /\ tx_cache.output_pointer \in Slots /\ None \in Slots
      /\ tx_cache.etching # None => IsRune(tx_cache.etching)
      /\ block.txs[pos] \in Txs
  BY <1>1, AtHand
<1>3. /\ UNCHANGED <<block, db, chain, pos, output_cache, block_output_cache>>
      /\ \/ stage = "mint" /\ stage' = "edicts"
         \/ stage = "cenotaph mint" /\ stage' = "end"
  BY DEF Mint, CenotaphMint, history
<1>4. Artifact.kind = "runestone" \/ Artifact.kind = "cenotaph"
  BY <1>1, <1>2, <1>3 DEF TransactionOpen, TransactionTyped
<1>5. Artifact.mint # None => Artifact.mint \in RuneKeys
  <2>1. Artifact.mint \in Optional(RuneKeys)
    BY <1>2, <1>4, ArtifactAssumption DEF Artifact, Tx
  <2> QED BY <2>1 DEF Optional
<1>6. MintEntered
  BY <1>2, <1>5, MintsEnter
<1>7. PICK f \in BOOLEAN : \E l :
        /\ Enters(Wallets, Slots, tx_cache, tx_cache', l)
        /\ \A i \in DOMAIN l : l[i].op # "receive"
        /\ tx_cache'.etching = tx_cache.etching
        /\ tx_cache'.output_pointer = tx_cache.output_pointer
        /\ Pends(f, l)
  BY <1>6 DEF MintEntered
<1>8. PICK l :
        /\ Enters(Wallets, Slots, tx_cache, tx_cache', l)
        /\ \A i \in DOMAIN l : l[i].op # "receive"
        /\ tx_cache'.etching = tx_cache.etching
        /\ tx_cache'.output_pointer = tx_cache.output_pointer
        /\ Pends(f, l)
  BY <1>7
<1>9. Coined(block_output_cache') /\ Collects(l)
  BY <1>2, <1>3, <1>8 DEF OutputsCoined, Collects
<1>10. Stepping(f, l)
  BY <1>1, <1>2, <1>3, <1>8, <1>9 DEF Stepping, Stages
<1> QED BY <1>10 DEF Handled

\* What an etching of either kind enters, and the rune it writes.
EtchingEnters(A, O, tc, res) ==
    /\ Enters(A, O, tc, res.tc, res.entries)
    /\ Len(res.entries) = 1 /\ res.entries[1].op = "etching"
    /\ res.tc.output_pointer = tc.output_pointer
    /\ IsRune(res.tc.etching)

\* The entry of an etching, once its rune was written and its premine joined.
LEMMA EtchingEntered ==
    ASSUME NEW A, NEW O, NEW tc, Carries(tc, A), None \in O, NEW id \in RuneKeys,
           NEW mid, Carries(mid, A), mid.location = tc.location,
           mid.output_pointer = tc.output_pointer, mid.next_event_index = tc.next_event_index,
           IsRune(mid.etching)
    PROVE  EtchingEnters(A, O, tc, OneEntry(mid, id, None, "etching"))
<1> DEFINE res == OneEntry(mid, id, None, "etching")
<1>1. Entered(A, O, mid, id, None, "etching", res)
  BY OneEntryEntered
<1> HIDE DEF res
<1>2. /\ Enters(A, O, tc, res.tc, res.entries)
      /\ Len(res.entries) = 1 /\ res.entries[1].op = "etching"
      /\ res.tc.etching = mid.etching /\ res.tc.output_pointer = tc.output_pointer
  BY <1>1, EnteredEnters
<1>3. EtchingEnters(A, O, tc, res)
  BY <1>2 DEF EtchingEnters
<1> QED BY <1>3 DEF res

\* A runestone's etching enters its entry.
LEMMA RunestoneEtchingEnters ==
    ASSUME NEW A, NEW O, NEW tc, Carries(tc, A), None \in O,
           RuneIdOf(tc.location) \in RuneKeys, NEW etching \in EtchingType, NEW number
    PROVE  EtchingEnters(A, O, tc, ApplyEtching(tc, etching, number))
<1> DEFINE id == RuneIdOf(tc.location)
           rune == DbRuneFromEtching(etching, number, tc.location)
           etched == [tc EXCEPT !.etching = rune]
           given == AddInputRunes(etched, id, etching.premine)
           mid == IF etching.premine = None THEN etched ELSE given
           res == ApplyEtching(tc, etching, number)
<1>1. res = OneEntry(mid, id, None, "etching")
  BY Zenon DEF ApplyEtching
<1>2. IsRune(rune)
  BY EtchingShape
<1>3. etching.premine # None => etching.premine \in Nat
  BY DEF EtchingType, Optional
<1>4. id \in RuneKeys
  OBVIOUS
<1> HIDE DEF id, rune
<1>5. /\ Carries(etched, A) /\ etched.etching = rune
      /\ etched.location = tc.location /\ etched.output_pointer = tc.output_pointer
      /\ etched.next_event_index = tc.next_event_index
  BY EtchingCarries
<1> HIDE DEF etched
<1>6. /\ Carries(mid, A) /\ mid.etching = rune
      /\ mid.location = tc.location /\ mid.output_pointer = tc.output_pointer
      /\ mid.next_event_index = tc.next_event_index
  <2>1. CASE etching.premine = None
    BY <1>5, <2>1
  <2>2. CASE etching.premine # None
    <3>1. Added(A, etched, id, etching.premine, given)
      BY <1>3, <1>4, <1>5, <2>2, AddInputRunesAdds
    <3>2. mid = given
      BY <2>2
    <3> HIDE DEF given, mid
    <3> QED BY <1>5, <3>1, <3>2 DEF Added, SameTransaction
  <2> QED BY <2>1, <2>2
<1> HIDE DEF mid, res
<1>7. EtchingEnters(A, O, tc, OneEntry(mid, id, None, "etching"))
  BY <1>2, <1>4, <1>6, EtchingEntered
<1>8. EtchingEnters(A, O, tc, res)
  BY <1>1, <1>7, Zenon
<1> QED BY <1>8 DEF res

\* So does a cenotaph's.
LEMMA CenotaphEtchingEnters ==
    ASSUME NEW A, NEW O, NEW tc, Carries(tc, A), None \in O,
           RuneIdOf(tc.location) \in RuneKeys, NEW name, NEW number
    PROVE  EtchingEnters(A, O, tc, ApplyCenotaphEtching(tc, name, number))
<1> DEFINE id == RuneIdOf(tc.location)
           rune == DbRuneFromCenotaphEtching(name, number, tc.location)
           mid == [tc EXCEPT !.etching = rune]
           res == ApplyCenotaphEtching(tc, name, number)
<1>1. res = OneEntry(mid, id, None, "etching")
  BY Zenon DEF ApplyCenotaphEtching
<1>2. IsRune(rune)
  BY CenotaphEtchingShape
<1>3. id \in RuneKeys
  OBVIOUS
<1> HIDE DEF id, rune
<1>4. /\ Carries(mid, A) /\ mid.etching = rune
      /\ mid.location = tc.location /\ mid.output_pointer = tc.output_pointer
      /\ mid.next_event_index = tc.next_event_index
  BY EtchingCarries
<1> HIDE DEF mid, res
<1>5. EtchingEnters(A, O, tc, OneEntry(mid, id, None, "etching"))
  BY <1>2, <1>3, <1>4, EtchingEntered
<1>6. EtchingEnters(A, O, tc, res)
  BY <1>1, <1>5, Zenon
<1> QED BY <1>6 DEF res

\* An etching of either kind, or none, is a step.
LEMMA RecordedSteps ==
    ASSUME Structure, BInv, CountInv, SInv, InTransaction,
           \/ NothingEtched
           \/ \E res : /\ EtchingEnters(Wallets, Slots, tx_cache, res)
                       /\ RecordEtching(res),
           \/ stage = "etching" /\ stage' = "mint"
           \/ stage = "cenotaph etching" /\ stage' = "cenotaph mint",
           UNCHANGED <<output_cache, block_output_cache, db_tx, db, block, pos, history>>
    PROVE  Handled
<1>1. /\ OutputsCoined /\ Carries(tx_cache, Wallets)
      /\ tx_cache.output_pointer \in Slots
      /\ tx_cache.etching # None => IsRune(tx_cache.etching)
  BY AtHand
<1>2. Coined(block_output_cache')
  BY <1>1 DEF OutputsCoined
<1>3. chain' = chain
  BY DEF history
<1>4. db_tx' = TablesAfter(FALSE) /\ RowsAfter(FALSE) = db_cache
  BY DEF TablesAfter, RowsAfter
<1>5. \E l : /\ Enters(Wallets, Slots, tx_cache, tx_cache', l)
             /\ Pends(FALSE, l)
             /\ \A i \in DOMAIN l : l[i].op # "receive"
             /\ tx_cache'.output_pointer \in Slots
             /\ tx_cache'.etching # None => IsRune(tx_cache'.etching)
  <2>1. CASE NothingEtched
    <3>1. tx_cache' = tx_cache /\ db_cache' = db_cache
      BY <2>1 DEF NothingEtched
    <3>2. Enters(Wallets, Slots, tx_cache, tx_cache', <<>>)
      BY <1>1, <3>1, NothingEnters
    <3>3. Pends(FALSE, <<>>)
      BY <1>4, <3>1 DEF Pends
    <3>4. \A i \in DOMAIN <<>> : <<>>[i].op # "receive"
      BY NothingReceived
    <3> QED BY <1>1, <3>1, <3>2, <3>3, <3>4
  <2>2. ASSUME NEW res, EtchingEnters(Wallets, Slots, tx_cache, res), RecordEtching(res)
        PROVE  /\ Enters(Wallets, Slots, tx_cache, tx_cache', res.entries)
               /\ Pends(FALSE, res.entries)
               /\ \A i \in DOMAIN res.entries : res.entries[i].op # "receive"
               /\ tx_cache'.output_pointer \in Slots
               /\ tx_cache'.etching # None => IsRune(tx_cache'.etching)
    <3>1. /\ tx_cache' = res.tc
          /\ db_cache' = AddEtching(db_cache, res.entries, res.tc.etching)
      BY <2>2 DEF RecordEtching
    <3>2. /\ Enters(Wallets, Slots, tx_cache, res.tc, res.entries)
          /\ Len(res.entries) = 1 /\ res.entries[1].op = "etching"
          /\ res.tc.output_pointer = tx_cache.output_pointer
          /\ IsRune(res.tc.etching)
      BY <2>2 DEF EtchingEnters
    <3>3. Pends(FALSE, res.entries)
      BY <1>4, <3>1, <3>2 DEF Pends
    <3>4. res.entries \in Seq(Logs(tx_cache.location, Wallets, Slots))
      BY <3>2 DEF Enters
    <3>5. \A i \in DOMAIN res.entries : res.entries[i].op # "receive"
      BY <3>2, <3>4, NoneReceived
    <3> QED BY <1>1, <3>1, <3>2, <3>3, <3>5
  <2> QED BY <2>1, <2>2
<1>6. PICK l : /\ Enters(Wallets, Slots, tx_cache, tx_cache', l)
               /\ Pends(FALSE, l)
               /\ \A i \in DOMAIN l : l[i].op # "receive"
               /\ tx_cache'.output_pointer \in Slots
               /\ tx_cache'.etching # None => IsRune(tx_cache'.etching)
  BY <1>5
<1>7. Stepping(FALSE, l)
  BY <1>2, <1>3, <1>6 DEF Stepping, Collects, Stages
<1> QED BY <1>7 DEF Handled

\* The etching of a runestone.
LEMMA EtchingSteps == IInv /\ BInv /\ CountInv /\ SInv /\ Etching => Handled
<1> SUFFICES ASSUME IInv, BInv, CountInv, SInv, Etching
             PROVE  Handled
  OBVIOUS
<1>1. /\ stage = "etching" /\ stage' = "mint" /\ InTransaction /\ Structure
      /\ UNCHANGED <<output_cache, block_output_cache, db_tx, db, block, pos, history>>
  BY DEF Etching, InTransaction, IInv
<1>2. CASE NothingEtched
  BY <1>1, <1>2, RecordedSteps
<1>3. CASE /\ Artifact.etching # None
           /\ RecordEtching(ApplyEtching(tx_cache, Artifact.etching, next_rune_number))
  <2> DEFINE res == ApplyEtching(tx_cache, Artifact.etching, next_rune_number)
  <2>1. /\ Carries(tx_cache, Wallets) /\ None \in Slots /\ block.txs[pos] \in Txs
        /\ TransactionOpen
    BY <1>1, AtHand
  <2>2. RuneIdOf(tx_cache.location) \in RuneKeys
    BY <1>1, EtchedId
  <2>3. Artifact.etching \in EtchingType
    <3>1. Artifact.kind = "runestone"
      BY <1>1, <2>1 DEF TransactionOpen
    <3>2. Artifact.etching \in Optional(EtchingType)
      BY <2>1, <3>1, ArtifactAssumption DEF Artifact, Tx
    <3> QED BY <1>3, <3>2 DEF Optional
  <2>4. EtchingEnters(Wallets, Slots, tx_cache, res)
    BY <2>1, <2>2, <2>3, RunestoneEtchingEnters
  <2> HIDE DEF res
  <2> QED BY <1>1, <1>3, <2>4, RecordedSteps DEF res
<1> QED BY <1>2, <1>3 DEF Etching

\* The etching of a cenotaph.
LEMMA CenotaphEtchingSteps == IInv /\ BInv /\ CountInv /\ SInv /\ CenotaphEtching => Handled
<1> SUFFICES ASSUME IInv, BInv, CountInv, SInv, CenotaphEtching
             PROVE  Handled
  OBVIOUS
<1>1. /\ stage = "cenotaph etching" /\ stage' = "cenotaph mint" /\ InTransaction
      /\ Structure
      /\ UNCHANGED <<output_cache, block_output_cache, db_tx, db, block, pos, history>>
  BY DEF CenotaphEtching, InTransaction, IInv
<1>2. CASE NothingEtched
  BY <1>1, <1>2, RecordedSteps
<1>3. CASE RecordEtching(ApplyCenotaphEtching(tx_cache, Artifact.etching,
                                              next_rune_number))
  <2> DEFINE res == ApplyCenotaphEtching(tx_cache, Artifact.etching, next_rune_number)
  <2>1. Carries(tx_cache, Wallets) /\ None \in Slots
    BY <1>1, AtHand
  <2>2. RuneIdOf(tx_cache.location) \in RuneKeys
    BY <1>1, EtchedId
  <2>3. EtchingEnters(Wallets, Slots, tx_cache, res)
    BY <2>1, <2>2, CenotaphEtchingEnters
  <2> HIDE DEF res
  <2> QED BY <1>1, <1>3, <2>3, RecordedSteps DEF res
<1> QED BY <1>2, <1>3 DEF CenotaphEtching

\* Of the steps of the indexer all but the first and the last of a block and of a
\* transaction are steps of a handler.
LEMMA HandlersStep ==
    ASSUME TInv, BInv, SInv, Forward
    PROVE  \/ BeginBlock \/ BeginTransaction \/ Handled \/ EndBlock \/ Commit \/ Restart
<1>1. IInv /\ CountInv
  BY DEF TInv
<1> QED BY <1>1, ApplyRunestoneSteps, EtchingSteps, MintSteps, EdictSteps, ApplyCenotaphSteps,
           CenotaphEtchingSteps, EndTransactionSteps DEF Forward, IndexBlock

\* The outputs of a transaction pay wallets, and the first is one it may name.
LEMMA OutputsTyped ==
    ASSUME NEW t \in Txs
    PROVE  /\ \A o \in DOMAIN TxData[t].outputs : TxData[t].outputs[o] \in Wallets
           /\ Min(DOMAIN TxData[t].outputs) \in Slots
<1>1. \A o \in DOMAIN TxData[t].outputs : TxData[t].outputs[o] \in Wallets
  BY DEF Wallets, Addresses
<1>2. Min(DOMAIN TxData[t].outputs) \in Slots
  <2> DEFINE m(u) == Min(DOMAIN TxData[u].outputs)
  <2>1. m(t) \in {m(u) : u \in Txs}
    OBVIOUS
  <2> QED BY <2>1, Zenon DEF Slots
<1> QED BY <1>1, <1>2

\* A transaction starts with what the sums say its inputs hold.
LEMMA BeginTransactionSums ==
    IInv /\ BInv /\ CountInv /\ SInv /\ BeginTransaction => SInv'
<1> SUFFICES ASSUME IInv, BInv, CountInv, SInv, BeginTransaction
             PROVE  SInv'
  OBVIOUS
<1>1. /\ Structure /\ SumsCommitted /\ SumsOpen /\ EntriesPassed /\ OutputsCoined
      /\ stage = "next" /\ InBlock /\ ~InTransaction
  BY DEF IInv, SInv, BeginTransaction, InBlock, InTransaction
<1> DEFINE next == block.txs[pos + 1]
           tx   == TxData[next]
<1>2. pos \in Nat /\ pos' = pos + 1 /\ next \in Txs
  <2>1. block.txs \in Seq(Txs) /\ pos \in 0..Len(block.txs)
    BY <1>1 DEF Structure
  <2>2. pos < Len(block.txs) /\ pos' = pos + 1
    BY DEF BeginTransaction
  <2> QED BY <2>1, <2>2
<1>3. stage' = (IF tx.artifact.kind = "none" THEN "end" ELSE tx.artifact.kind)
  BY DEF BeginTransaction
<1>4. tx.artifact.kind \in {"none", "runestone", "cenotaph"}
  BY <1>2, ArtifactAssumption
<1>5. /\ UNCHANGED <<db, db_tx, db_cache, block, chain, block_output_cache, output_cache>>
      /\ Height' = Height
  BY DEF BeginTransaction, history, caches, Height
<1>6. Artifact' = tx.artifact
  BY <1>2, <1>5 DEF Tx, Artifact
<1>7. InTransaction' /\ InBlock'
  <2> HIDE DEF tx
  <2> QED BY <1>3, <1>4 DEF InTransaction, InBlock
<1>8. SumsCommitted' /\ SumsOpen' /\ OutputsCoined'
  BY <1>1, <1>5 DEF SumsCommitted, SumsOpen, OutputsCoined
<1>9. EntriesPassed'
  <2>1. ASSUME NEW e, OfReached(e)
        PROVE  OfReached(e)'
    <3>1. PICK i \in 1..pos : e.tx = block.txs[i]
      BY <2>1 DEF OfReached
    <3>2. i \in 1..pos' /\ i # pos'
      BY <1>2, <3>1
    <3> QED BY <1>5, <3>1, <3>2 DEF OfReached
  <2>2. OpenLedger(db_tx, db_cache)' = OpenLedger(db_tx, db_cache)
    BY <1>5 DEF OpenLedger
  <2>3. /\ IsInjective(block.txs)
        /\ \A e \in OpenLedger(db_tx, db_cache) : e \in db.ledger \/ OfReached(e)
    BY <1>1 DEF EntriesPassed
  <2>4. IsInjective(block'.txs)
    BY <1>5, <2>3
  <2>5. \A e \in OpenLedger(db_tx, db_cache)' : e \in db'.ledger \/ OfReached(e)'
    BY <1>5, <2>1, <2>2, <2>3
  <2> QED BY <2>4, <2>5 DEF EntriesPassed
<1>10. TransactionTyped'
  <2> DEFINE place == [height |-> block.height, index |-> pos + 1, tx |-> next]
             runes == InputRunes(tx.inputs)
             first == IF DOMAIN tx.outputs = {} THEN None ELSE Min(DOMAIN tx.outputs)
             new   == NewTransactionCache(place, runes, tx.outputs, first, tx.total)
  <2>1. tx_cache' = new
    BY Zenon DEF BeginTransaction, tx
  <2>2. runes \in [RuneKeys -> Deques(Wallets)]
    <3>1. IsFiniteSet(db_tx.ledger) /\ db_tx.ledger \subseteq Facts
      BY <1>1 DEF SumsOpen, Summed
    <3>2. IsList(tx.inputs)
      BY <1>2, OutputsAssumption DEF IsList
    <3>3. Found(tx.inputs) \in Seq(Coins)
      BY <1>1, <3>1, <3>2, InputsCoined DEF OutputsCoined
    <3> QED BY <3>3, InputsTyped
  <2>3. first \in Slots
    <3>1. Min(DOMAIN tx.outputs) \in Slots
      BY <1>2, OutputsTyped
    <3>2. None \in Slots
      BY DEF Slots
    <3> QED BY <3>1, <3>2
  <2>4. \A o \in DOMAIN tx.outputs : tx.outputs[o] \in Wallets
    BY <1>2, OutputsTyped
  <2>5. None \in Wallets
    BY DEF Wallets
  <2> HIDE DEF place, runes, first
  <2>6. /\ IsTransaction(new) /\ new.input_runes = runes
        /\ new.eligible_outputs = tx.outputs /\ new.etching = None
        /\ new.output_pointer = first /\ new.next_event_index = 0
    BY DEF NewTransactionCache, IsTransaction
  <2> HIDE DEF new
  <2>7. Carries(new, Wallets)
    BY <2>2, <2>4, <2>5, <2>6 DEF Carries
  <2>8. stage' \in {"cenotaph", "cenotaph etching", "cenotaph mint"} =>
            Artifact'.kind = "cenotaph"
    <3> HIDE DEF tx
    <3> QED BY <1>3, <1>4, <1>6
  <2>9. tx_cache'.output_pointer \in Slots /\ tx_cache'.etching = None
    BY <2>1, <2>3, <2>6
  <2> QED BY <2>1, <2>7, <2>8, <2>9
          DEF TransactionTyped, Carries, IsTransaction, IsRune
<1> QED BY <1>8, <1>9, <1>10 DEF SInv

-----------------------------------------------------------------------------
(* What the steps between transactions leave of the sums *)

\* Tables with the same entries and rows are summed alike.
LEMMA SummedAlike ==
    ASSUME NEW d, NEW top, Summed(d, top), NEW new, new.ledger = d.ledger,
           new.supply = d.supply, new.balances = d.balances
    PROVE  Summed(new, top)
BY DEF Summed

\* Tables summed up to a height are so up to a greater one.
LEMMA SummedFurther ==
    ASSUME NEW d, NEW h \in Nat, Summed(d, h - 1)
    PROVE  Summed(d, h)
<1>1. h - 1 \in Int /\ \A n \in Nat : n <= h - 1 => n <= h
  OBVIOUS
<1>2. LowerThan(d.ledger, h)
  BY <1>1 DEF Summed, LowerThan
<1>3. Paired(d.supply, h) /\ Paired(d.balances, h)
  BY <1>1 DEF Summed, Paired
<1> QED BY <1>2, <1>3 DEF Summed

\* Outside a transaction nothing is at hand, outside a block nothing is open.
LEMMA IdleSums ==
    ASSUME stage' = "idle", SumsCommitted', OutputsCoined'
    PROVE  SInv'
BY DEF SInv, SumsOpen, EntriesPassed, TransactionTyped, InBlock, InTransaction

\* A block starts from the sums of the committed ledger.
LEMMA BeginBlockSums == IInv /\ SInv /\ BeginBlock => SInv'
<1> SUFFICES ASSUME IInv, SInv, BeginBlock
             PROVE  SInv'
  OBVIOUS
<1>1. /\ Structure /\ SumsCommitted /\ OutputsCoined /\ stage = "idle"
  BY DEF SInv, IInv, BeginBlock
<1>2. /\ UNCHANGED <<db, chain, output_cache, block_output_cache, db_cache>>
      /\ stage' = "next" /\ pos' = 0 /\ db_tx' = db
  BY DEF BeginBlock, caches, history
<1>3. db_cache' = NoRows
  BY <1>1, <1>2 DEF Structure
<1>4. Height' = Height /\ Height \in Nat
  BY <1>1, <1>2, HeightNat DEF Height
<1>5. IsInjective(block'.txs)
  <2>1. PICK txs \in SeqOf(Txs, MaxBlockTxs) :
            /\ ValidNext(txs)
            /\ block' = [height |-> StartHeight + Len(chain), txs |-> txs]
    BY DEF BeginBlock
  <2>2. block'.txs = txs
    BY <2>1
  <2>3. IsInjective(txs)
    BY <2>1, Zenon DEF ValidNext
  <2> QED BY <2>2, <2>3
<1>6. SumsCommitted' /\ OutputsCoined'
  BY <1>1, <1>2, <1>4 DEF SumsCommitted, OutputsCoined
<1>7. SumsOpen'
  <2>1. Summed(db, Height)
    BY <1>1, <1>4, SummedFurther DEF SumsCommitted
  <2>2. Awaits(NoRows, Height) /\ ToSet(NoRows.ledger) = {}
    BY AwaitsNothing
  <2> QED BY <1>2, <1>3, <1>4, <2>1, <2>2 DEF SumsOpen
<1>8. EntriesPassed'
  <2>1. ToSet(NoRows.ledger) = {}
    BY AwaitsNothing
  <2>2. OpenLedger(db_tx, db_cache)' = db'.ledger
    BY <1>2, <1>3, <2>1 DEF OpenLedger
  <2> QED BY <1>5, <2>2 DEF EntriesPassed
<1>9. TransactionTyped'
  BY <1>2 DEF TransactionTyped, InTransaction
<1> QED BY <1>6, <1>7, <1>8, <1>9 DEF SInv

\* The end of a block inserts what is pending.
LEMMA EndBlockSums == IInv /\ BInv /\ CountInv /\ SInv /\ EndBlock => SInv'
<1> SUFFICES ASSUME IInv, BInv, CountInv, SInv, EndBlock
             PROVE  SInv'
  OBVIOUS
<1>1. /\ BlockOpen /\ Structure /\ InBlock
      /\ SumsCommitted /\ SumsOpen /\ EntriesPassed /\ OutputsCoined
  BY DEF BInv, IInv, SInv, EndBlock, InBlock
<1>2. /\ UNCHANGED <<block, db, chain, pos>>
      /\ stage = "next" /\ stage' = "commit"
      /\ block_output_cache' = <<>> /\ db_cache' = NoRows
      /\ output_cache' \in MoveBlockOutputCache(block_output_cache, output_cache)
  BY DEF EndBlock, history
<1>3. Height' = Height
  BY <1>2 DEF Height
<1> DEFINE d == TablesAfter(TRUE)
           new == [d EXCEPT !.last_scanned = block.height]
<1>4. /\ IsTables(d) /\ RowsAfter(TRUE) = NoRows
  BY <1>1, AfterLookup DEF RowsAfter
<1>5. db_tx' = new
  BY DEF EndBlock
<1>6. /\ Summed(d, Height)
      /\ OpenLedger(d, NoRows) = OpenLedger(db_tx, db_cache)
  BY <1>1, <1>4, LookupSums
<1> HIDE DEF d
<1>7. new.ledger = d.ledger /\ new.supply = d.supply /\ new.balances = d.balances
  BY <1>4 DEF IsTables
<1> HIDE DEF new
<1>8. Summed(new, Height)
  BY <1>6, <1>7, SummedAlike
<1>9. Awaits(NoRows, Height) /\ ToSet(NoRows.ledger) = {}
  BY AwaitsNothing
<1>10. SumsOpen'
  BY <1>2, <1>3, <1>5, <1>8, <1>9 DEF SumsOpen
<1>11. SumsCommitted'
  BY <1>1, <1>2, <1>3 DEF SumsCommitted
<1>12. EntriesPassed'
  <2>1. OpenLedger(db_tx, db_cache)' = OpenLedger(db_tx, db_cache)
    BY <1>2, <1>5, <1>6, <1>7 DEF OpenLedger
  <2>2. ~InTransaction'
    BY <1>2 DEF InTransaction
  <2>3. \A e : OfReached(e) => OfReached(e)'
    BY <1>2, <2>2 DEF OfReached
  <2> QED BY <1>1, <1>2, <2>1, <2>3 DEF EntriesPassed
<1>13. TransactionTyped'
  BY <1>2 DEF TransactionTyped, InTransaction
<1>14. OutputsCoined'
  BY <1>1, <1>2, MovedOutputsCoined, NoCoins DEF OutputsCoined
<1> QED BY <1>10, <1>11, <1>12, <1>13, <1>14 DEF SInv

\* A commit makes the sums of the block those of the chain.
LEMMA CommitSums == IInv /\ SInv /\ Commit => SInv'
<1> SUFFICES ASSUME IInv, SInv, Commit
             PROVE  SInv'
  OBVIOUS
<1>1. /\ Structure /\ SumsOpen /\ OutputsCoined /\ InBlock
  BY DEF IInv, SInv, Commit, InBlock
<1>2. /\ db' = db_tx /\ chain' = Append(chain, block.txs) /\ stage' = "idle"
      /\ UNCHANGED <<output_cache, block_output_cache>>
  BY DEF Commit, caches
<1>3. Height' - 1 = Height
  <2>1. chain \in Seq(Seq(Txs))
    BY <1>1 DEF Structure
  <2>2. Len(chain') = Len(chain) + 1 /\ Len(chain) \in Nat
    BY <1>2, <2>1
  <2> QED BY <2>2, SizesAssumption DEF Height
<1>4. SumsCommitted'
  BY <1>1, <1>2, <1>3 DEF SumsCommitted, SumsOpen
<1>5. OutputsCoined'
  BY <1>1, <1>2 DEF OutputsCoined
<1> QED BY <1>2, <1>4, <1>5, IdleSums

\* Rolling back the tip leaves the sums of the chain before it.
LEMMA RollBackBlockSums == IInv /\ SInv /\ RollBackBlock => SInv'
<1> SUFFICES ASSUME IInv, SInv, RollBackBlock
             PROVE  SInv'
  OBVIOUS
<1>1. /\ Structure /\ SumsCommitted /\ OutputsCoined
  BY DEF IInv, SInv
<1>2. /\ db' = RollBack(db, StartHeight + Len(chain) - 1)
      /\ chain' = Front(chain) /\ chain # <<>> /\ stage' = "idle"
      /\ UNCHANGED <<output_cache, block_output_cache>>
  BY DEF RollBackBlock, caches
<1> DEFINE h == StartHeight + Len(chain) - 1
<1>3. h \in Nat /\ Height - 1 = h /\ Height' - 1 = h - 1
  <2>1. chain \in Seq(Seq(Txs))
    BY <1>1 DEF Structure
  <2>2. Len(chain) \in Nat \ {0}
    BY <1>2, <2>1
  <2>3. chain' = [b \in 1..(Len(chain) - 1) |-> chain[b]]
    BY <1>2, <2>1 DEF Front
  <2>4. Len(chain') = Len(chain) - 1
    BY <2>2, <2>3
  <2> QED BY <2>2, <2>4, SizesAssumption DEF Height
<1> HIDE DEF h
<1>4. Summed(db, h) /\ IsTables(db)
  BY <1>1, <1>3 DEF SumsCommitted, Structure
<1>5. Summed(RollBack(db, h), h - 1)
  BY <1>3, <1>4, RollBackSums
<1>6. SumsCommitted'
  BY <1>2, <1>3, <1>5 DEF SumsCommitted, h
<1>7. OutputsCoined'
  BY <1>1, <1>2 DEF OutputsCoined
<1> QED BY <1>2, <1>6, <1>7, IdleSums

\* A restart forgets the block that was not committed.
LEMMA RestartSums == SInv /\ Restart => SInv'
<1> SUFFICES ASSUME SInv, Restart
             PROVE  SInv'
  OBVIOUS
<1>1. /\ UNCHANGED <<db, chain>>
      /\ stage' = "idle" /\ output_cache' = <<>> /\ block_output_cache' = <<>>
  BY DEF Restart, history
<1>2. SumsCommitted'
  BY <1>1 DEF SInv, SumsCommitted, Height
<1>3. OutputsCoined'
  BY <1>1, NoCoins DEF OutputsCoined
<1> QED BY <1>1, <1>2, <1>3, IdleSums

\* The first migration leaves no entry and no row to sum.
LEMMA InitSums == Init => SInv
<1> SUFFICES ASSUME Init
             PROVE  SInv
  OBVIOUS
<1>1. /\ db = EmptyDb /\ stage = "idle"
      /\ output_cache = <<>> /\ block_output_cache = <<>>
  BY DEF Init
<1>2. db.ledger = {} /\ db.supply = <<>> /\ db.balances = <<>>
  BY <1>1 DEF EmptyDb
<1>3. SumsCommitted
  <2>1. IsFiniteSet({})
    BY FS_EmptySet
  <2>2. \A top : Paired(<<>>, top) /\ LowerThan({}, top)
    BY DEF Paired, LowerThan
  <2>3. \A f : DOMAIN Column(<<>>, f) = {}
    BY DEF Column
  <2>4. DOMAIN Balances(<<>>) = {}
    BY DEF Balances
  <2>5. SupplySums(<<>>, {})
    BY <2>3 DEF SupplySums, RowsSum
  <2>6. BalanceSums(<<>>, {})
    BY <2>4 DEF BalanceSums, RowsSum
  <2> QED BY <1>2, <2>1, <2>2, <2>5, <2>6 DEF SumsCommitted, Summed
<1>4. OutputsCoined
  BY <1>1, NoCoins DEF OutputsCoined
<1> QED BY <1>1, <1>3, <1>4
        DEF SInv, SumsOpen, EntriesPassed, TransactionTyped, InBlock, InTransaction

\* A step that changes no variable keeps the sums.
LEMMA StutterSums == SInv /\ UNCHANGED vars => SInv'
<1> SUFFICES ASSUME SInv, UNCHANGED vars
             PROVE  SInv'
  OBVIOUS
<1>0. /\ UNCHANGED <<db, db_tx, db_cache, chain, block, pos, stage, tx_cache, output_cache,
                     block_output_cache>>
  BY DEF vars, caches, history
<1>1. Height' = Height /\ InBlock' = InBlock /\ InTransaction' = InTransaction
  BY <1>0 DEF Height, InBlock, InTransaction
<1>2. SumsCommitted' /\ SumsOpen'
  BY <1>0, <1>1 DEF SInv, SumsCommitted, SumsOpen
<1>3. EntriesPassed'
  <2>1. \A e : OfReached(e)' = OfReached(e)
    BY <1>0, <1>1 DEF OfReached
  <2>2. OpenLedger(db_tx, db_cache)' = OpenLedger(db_tx, db_cache)
    BY <1>0 DEF OpenLedger
  <2> QED BY <1>0, <1>1, <2>1, <2>2 DEF SInv, EntriesPassed
<1>4. TransactionTyped'
  BY <1>0, <1>1 DEF SInv, TransactionTyped, Artifact, Tx
<1>5. OutputsCoined'
  BY <1>0 DEF SInv, OutputsCoined
<1> QED BY <1>2, <1>3, <1>4, <1>5 DEF SInv

\* With the counts and the blocks, the sums are inductive.
LEMMA SumsNext == TInv /\ BInv /\ SInv /\ [Next]_vars => SInv'
<1> SUFFICES ASSUME TInv, BInv, SInv, [Next]_vars
             PROVE  SInv'
  OBVIOUS
<1>1. IInv /\ CountInv /\ Structure
  BY DEF TInv, IInv
<1>2. \/ BeginBlock \/ BeginTransaction \/ Handled \/ EndBlock \/ Commit
      \/ Restart \/ RollBackBlock \/ UNCHANGED vars
  BY HandlersStep DEF Next
<1>3. CASE Handled
  BY <1>1, <1>3, SteppingKeeps DEF Handled
<1> QED BY <1>1, <1>2, <1>3, BeginBlockSums, BeginTransactionSums, EndBlockSums, CommitSums,
           RollBackBlockSums, RestartSums, StutterSums

\* They hold of every reachable state.
LEMMA SumsInvariance == Spec => []SInv
<1>1. Init => SInv
  BY InitSums
<1>2. TInv /\ BInv /\ SInv /\ [Next]_vars => SInv'
  BY SumsNext
<1> QED BY <1>1, <1>2, TableInvariance, WholeInvariance, PTL DEF Spec

-----------------------------------------------------------------------------
(* The sums of the tables *)

\* What a set of entries is worth is the sum of their weights.
LEMMA AmountSums ==
    ASSUME NEW S, NEW w, \A e \in S : w[e] = e.amount
    PROVE  AmountIn(S) = SumOver(w, S)
<1> DEFINE Ch(s) == CHOOSE i \in s : TRUE
           F1(g) == [s \in SUBSET S |-> IF s = {} THEN 0 ELSE Ch(s).amount + g[s \ {Ch(s)}]]
           F2(g) == [s \in SUBSET S |-> IF s = {} THEN 0 ELSE w[Ch(s)] + g[s \ {Ch(s)}]]
           i1 == CHOOSE g : g = F1(g)
           i2 == CHOOSE g : g = F2(g)
<1>1. AmountIn(S) = i1[S]
  BY Zenon DEF AmountIn, MapThenSumSet, MapThenFoldSet
<1>2. SumOver(w, S) = i2[S]
  BY Zenon DEF SumOver, MapThenSumSet, MapThenFoldSet
<1>3. ASSUME NEW s \in SUBSET S, s # {}
      PROVE  Ch(s) \in s
  BY <1>3
<1> HIDE DEF Ch
<1>4. ASSUME NEW g
      PROVE  F1(g) = F2(g)
  BY <1>3
<1>6. \A g : g = F1(g) <=> g = F2(g)
  BY <1>4, Zenon
<1> HIDE DEF F1, F2
<1>5. i1 = i2
  BY <1>6
<1> QED BY <1>1, <1>2, <1>5

\* The entries of a rune.
Of(S, r) == {e \in S : e.rune = r}

\* Those of one operation.
OfOp(S, op, r) == {e \in S : e.op = op /\ e.rune = r}

\* A field of the latest supply of a rune sums up the weights of its entries.
LEMMA SummedField ==
    ASSUME NEW d, NEW top \in Nat, Summed(d, top), NEW r, NEW f \in Fields
    PROVE  /\ Field(Latest(d.supply, r, NoSupply), f) = SumOver(Weight(f), Of(d.ledger, r))
           /\ IsFiniteSet(Of(d.ledger, r)) /\ Of(d.ledger, r) \subseteq Facts
           /\ Weighs(Weight(f), Of(d.ledger, r))
<1> DEFINE S == d.ledger
           mine == Of(S, r)
           v == Column(d.supply, f)
<1>1. /\ IsFiniteSet(S) /\ S \subseteq Facts /\ Paired(d.supply, top)
      /\ RowsSum(v, S, RuneOf, Weight(f), ZeroOf)
  BY DEF Summed, SupplySums
<1>2. Paired(v, top)
  BY <1>1, PairedFits DEF Column
<1>3. Ledgered(S, Weight(f), ZeroOf)
  BY <1>1, FactsWeigh
<1>4. \A e \in S : e.height \in Nat
  BY <1>1, FactFields
<1>5. Keyed(S, RuneOf, r) = mine
  BY <1>1, FactFields DEF Keyed, Of
<1>6. Field(Latest(d.supply, r, NoSupply), f) = Latest(v, r, 0)
  BY <1>1, LatestField
<1> HIDE DEF S, v, mine
<1>7. top \in Int
  OBVIOUS
<1>8. Latest(v, r, 0) = Net(Weight(f), ZeroOf, mine)
  BY <1>1, <1>2, <1>3, <1>4, <1>5, <1>7, LatestSums
<1>9. mine \subseteq S
  BY DEF mine, Of
<1>10. /\ IsFiniteSet(mine) /\ mine \subseteq Facts /\ Weighs(Weight(f), mine)
  BY <1>1, <1>3, <1>9, FS_Subset DEF Ledgered, Weighs
<1>11. SumOver(ZeroOf, mine) = 0
  <2>1. \A e \in mine : ZeroOf[e] = 0
    BY <1>10 DEF ZeroOf
  <2> QED BY <1>10, <2>1, SumOfZeros
<1>12. SumOver(Weight(f), mine) \in Nat
  BY <1>10, SumTakesOut
<1>13. Net(Weight(f), ZeroOf, mine) = SumOver(Weight(f), mine)
  BY <1>11, <1>12 DEF Net
<1> QED BY <1>6, <1>8, <1>10, <1>13 DEF S, mine

\* Entries of one operation that weigh what they amount to.
LEMMA AmountOfOp ==
    ASSUME NEW S, IsFiniteSet(S), S \subseteq Facts, NEW r, NEW op, NEW w, Weighs(w, Of(S, r)),
           \A e \in Of(S, r) : w[e] = IF e.op = op THEN e.amount ELSE 0
    PROVE  SumOver(w, Of(S, r)) = AmountIn(OfOp(S, op, r))
<1> DEFINE mine == Of(S, r)
           part == OfOp(S, op, r)
<1>1. part \in SUBSET mine /\ \A e \in mine \ part : w[e] = 0
  BY DEF Of, OfOp
<1>2. IsFiniteSet(mine)
  BY FS_Subset DEF Of
<1>3. \A e \in part : w[e] = e.amount
  BY DEF Of, OfOp
<1>4. SumOver(w, mine) = SumOver(w, part)
  <2> HIDE DEF mine, part
  <2> QED BY <1>1, <1>2, SumOfHeavy DEF mine
<1>5. AmountIn(part) = SumOver(w, part)
  BY <1>3, AmountSums
<1> QED BY <1>4, <1>5

\* Entries of one operation that weigh one each.
LEMMA CountOfOp ==
    ASSUME NEW S, IsFiniteSet(S), S \subseteq Facts, NEW r, NEW op, NEW w, Weighs(w, Of(S, r)),
           \A e \in Of(S, r) : w[e] = IF e.op = op THEN 1 ELSE 0
    PROVE  SumOver(w, Of(S, r)) = Cardinality(OfOp(S, op, r))
<1> DEFINE mine == Of(S, r)
           part == OfOp(S, op, r)
<1>1. part \in SUBSET mine /\ \A e \in mine \ part : w[e] = 0
  BY DEF Of, OfOp
<1>2. IsFiniteSet(mine)
  BY FS_Subset DEF Of
<1>3. \A e \in part : w[e] = 1
  BY DEF Of, OfOp
<1>4. IsFiniteSet(part)
  BY <1>1, <1>2, FS_Subset
<1>5. SumOver(w, mine) = SumOver(w, part)
  <2> HIDE DEF mine, part
  <2> QED BY <1>1, <1>2, SumOfHeavy DEF mine
<1>6. SumOver(w, part) = Cardinality(part)
  BY <1>3, <1>4, SumOfOnes
<1> QED BY <1>5, <1>6

\* The latest supply of a rune is the sum of its entries.
LEMMA SupplyOf ==
    ASSUME NEW d, NEW top \in Nat, Summed(d, top), NEW r
    PROVE  LET s == Latest(d.supply, r, NoSupply)
           IN  /\ s.minted = AmountIn(OfOp(d.ledger, "mint", r))
               /\ s.total_mints = Cardinality(OfOp(d.ledger, "mint", r))
               /\ s.burned = AmountIn(OfOp(d.ledger, "burn", r))
               /\ s.total_burns = Cardinality(OfOp(d.ledger, "burn", r))
               /\ s.total_operations = Cardinality(Of(d.ledger, r))
<1> DEFINE s == Latest(d.supply, r, NoSupply)
           S == d.ledger
<1>1. IsFiniteSet(S) /\ S \subseteq Facts
  BY DEF Summed
<1>2. \A e \in Of(S, r) : e \in Facts
  BY <1>1 DEF Of
<1>3. ASSUME NEW f \in Fields
      PROVE  /\ Field(s, f) = SumOver(Weight(f), Of(S, r)) /\ Weighs(Weight(f), Of(S, r))
             /\ IsFiniteSet(Of(S, r))
  BY SummedField
<1> HIDE DEF s, S
<1>4. s.minted = AmountIn(OfOp(S, "mint", r))
  <2>1. "minted" \in Fields /\ Field(s, "minted") = s.minted
    BY DEF Fields, Field
  <2>2. \A e \in Of(S, r) : Weight("minted")[e] = IF e.op = "mint" THEN e.amount ELSE 0
    BY <1>2 DEF Weight
  <2>3. SumOver(Weight("minted"), Of(S, r)) = AmountIn(OfOp(S, "mint", r))
    BY <1>1, <1>3, <2>1, <2>2, AmountOfOp
  <2> QED BY <1>3, <2>1, <2>3
<1>5. s.total_mints = Cardinality(OfOp(S, "mint", r))
  <2>1. "total_mints" \in Fields /\ Field(s, "total_mints") = s.total_mints
    BY DEF Fields, Field
  <2>2. \A e \in Of(S, r) : Weight("total_mints")[e] = IF e.op = "mint" THEN 1 ELSE 0
    BY <1>2 DEF Weight
  <2>3. SumOver(Weight("total_mints"), Of(S, r)) = Cardinality(OfOp(S, "mint", r))
    BY <1>1, <1>3, <2>1, <2>2, CountOfOp
  <2> QED BY <1>3, <2>1, <2>3
<1>6. s.burned = AmountIn(OfOp(S, "burn", r))
  <2>1. "burned" \in Fields /\ Field(s, "burned") = s.burned
    BY DEF Fields, Field
  <2>2. \A e \in Of(S, r) : Weight("burned")[e] = IF e.op = "burn" THEN e.amount ELSE 0
    BY <1>2 DEF Weight
  <2>3. SumOver(Weight("burned"), Of(S, r)) = AmountIn(OfOp(S, "burn", r))
    BY <1>1, <1>3, <2>1, <2>2, AmountOfOp
  <2> QED BY <1>3, <2>1, <2>3
<1>7. s.total_burns = Cardinality(OfOp(S, "burn", r))
  <2>1. "total_burns" \in Fields /\ Field(s, "total_burns") = s.total_burns
    BY DEF Fields, Field
  <2>2. \A e \in Of(S, r) : Weight("total_burns")[e] = IF e.op = "burn" THEN 1 ELSE 0
    BY <1>2 DEF Weight
  <2>3. SumOver(Weight("total_burns"), Of(S, r)) = Cardinality(OfOp(S, "burn", r))
    BY <1>1, <1>3, <2>1, <2>2, CountOfOp
  <2> QED BY <1>3, <2>1, <2>3
<1>8. s.total_operations = Cardinality(Of(S, r))
  <2>1. "total_operations" \in Fields /\ Field(s, "total_operations") = s.total_operations
    BY DEF Fields, Field
  <2>2. \A e \in Of(S, r) : Weight("total_operations")[e] = 1
    BY <1>2 DEF Weight
  <2>3. SumOver(Weight("total_operations"), Of(S, r)) = Cardinality(Of(S, r))
    BY <1>3, <2>1, <2>2, SumOfOnes
  <2> QED BY <1>3, <2>1, <2>3
<1> QED BY <1>4, <1>5, <1>6, <1>7, <1>8 DEF s, S

\* The latest balance of an address is what it received less what it sent.
LEMMA BalanceOfAddress ==
    ASSUME NEW d, NEW top \in Nat, Summed(d, top), NEW r, NEW a, a # None
    PROVE  Latest(d.balances, <<r, a>>, NoBalance).balance
               = AmountIn({e \in OfOp(d.ledger, "receive", r) : e.address = a})
                     - AmountIn({e \in OfOp(d.ledger, "send", r) : e.address = a})
<1> DEFINE S == d.ledger
           k == <<r, a>>
           v == Balances(d.balances)
           mine == Keyed(S, HolderOf, k)
           in == {e \in OfOp(S, "receive", r) : e.address = a}
           out == {e \in OfOp(S, "send", r) : e.address = a}
<1>1. /\ IsFiniteSet(S) /\ S \subseteq Facts /\ Paired(d.balances, top)
      /\ RowsSum(v, S, HolderOf, ReceivedOf, SentOf)
  BY DEF Summed, BalanceSums
<1>2. Paired(v, top)
  BY <1>1, PairedFits DEF Balances
<1>3. Ledgered(S, ReceivedOf, SentOf)
  BY <1>1, FactsWeigh
<1>4. \A e \in S : e.height \in Nat
  BY <1>1, FactFields
<1>5. Latest(d.balances, k, NoBalance).balance = Latest(v, k, 0)
  BY <1>1, LatestBalance
<1>6. \A e \in S : e \in mine <=> e.rune = r /\ e.address = a
  <2> SUFFICES ASSUME NEW e \in S
               PROVE  e \in mine <=> e.rune = r /\ e.address = a
    OBVIOUS
  <2>1. HolderOf[e] = <<e.rune, e.address>>
    BY <1>1, FactFields
  <2> QED BY <2>1 DEF Keyed
<1>7. mine \subseteq S
  BY DEF Keyed
<1>8. /\ \A e \in S : e \in in <=> e \in mine /\ e.op = "receive"
      /\ \A e \in S : e \in out <=> e \in mine /\ e.op = "send"
      /\ in \subseteq S /\ out \subseteq S
  BY <1>6 DEF OfOp
<1> HIDE DEF S, v, mine, in, out
<1>9. top \in Int
  OBVIOUS
<1>10. Latest(v, k, 0) = Net(ReceivedOf, SentOf, mine)
  BY <1>1, <1>2, <1>3, <1>4, <1>9, LatestSums DEF mine
<1>11. /\ IsFiniteSet(mine) /\ mine \subseteq Facts
       /\ Weighs(ReceivedOf, mine) /\ Weighs(SentOf, mine)
  BY <1>1, <1>3, <1>7, FS_Subset DEF Ledgered, Weighs
<1>12. \A e \in mine :
           /\ ReceivedOf[e] = IF e.op = "receive" THEN e.amount ELSE 0
           /\ SentOf[e] = IF e.op = "send" THEN e.amount ELSE 0
  BY <1>6, <1>7, <1>11 DEF ReceivedOf, SentOf
<1>13. SumOver(ReceivedOf, mine) = AmountIn(in)
  <2>1. in \in SUBSET mine /\ \A e \in mine \ in : ReceivedOf[e] = 0
    BY <1>7, <1>8, <1>12
  <2>2. SumOver(ReceivedOf, mine) = SumOver(ReceivedOf, in)
    BY <1>11, <2>1, SumOfHeavy
  <2>3. \A e \in in : ReceivedOf[e] = e.amount
    BY <1>8, <1>12
  <2> QED BY <2>2, <2>3, AmountSums
<1>14. SumOver(SentOf, mine) = AmountIn(out)
  <2>1. out \in SUBSET mine /\ \A e \in mine \ out : SentOf[e] = 0
    BY <1>7, <1>8, <1>12
  <2>2. SumOver(SentOf, mine) = SumOver(SentOf, out)
    BY <1>11, <2>1, SumOfHeavy
  <2>3. \A e \in out : SentOf[e] = e.amount
    BY <1>8, <1>12
  <2> QED BY <2>2, <2>3, AmountSums
<1> QED BY <1>5, <1>10, <1>13, <1>14 DEF Net, S, in, out

\* The tables as a flush and a commit would leave them are summed.
LEMMA TablesSummed ==
    ASSUME TInv, BInv, SInv
    PROVE  Height \in Nat /\ Summed(Tables, Height)
<1>1. Structure /\ CountInv /\ SumsCommitted /\ SumsOpen /\ BlockOpen
  BY DEF TInv, IInv, BInv, SInv
<1>2. Height \in Nat
  BY <1>1, HeightNat
<1>3. CASE stage = "idle"
  BY <1>1, <1>2, <1>3, SummedFurther DEF SumsCommitted, Tables
<1>4. CASE stage # "idle"
  <2>1. Summed(TablesAfter(TRUE), Height)
    BY <1>1, <1>4, LookupSums DEF InBlock
  <2> QED BY <1>2, <1>4, <2>1 DEF Tables
<1> QED BY <1>3, <1>4

\* So the running totals are the sums over the ledger.
LEMMA InvSupply == TInv /\ BInv /\ SInv => SupplyMatchesLedger
<1> SUFFICES ASSUME TInv, BInv, SInv
             PROVE  SupplyMatchesLedger
  OBVIOUS
<1>1. Height \in Nat /\ Summed(Tables, Height)
  BY TablesSummed
<1>2. \A op, r : Entries(op, r) = OfOp(Tables.ledger, op, r)
  BY DEF Entries, OfOp, Written
<1>3. \A r : {e \in Written : e.rune = r} = Of(Tables.ledger, r)
  BY DEF Of, Written
<1> DEFINE d == Tables
<1> SUFFICES ASSUME NEW r \in RuneKeys
             PROVE  LET s == Latest(d.supply, r, NoSupply)
                    IN  /\ s.minted = AmountIn(Entries("mint", r))
                        /\ s.total_mints = Cardinality(Entries("mint", r))
                        /\ s.burned = AmountIn(Entries("burn", r))
                        /\ s.total_burns = Cardinality(Entries("burn", r))
                        /\ s.total_operations = Cardinality({e \in Written : e.rune = r})
  BY DEF SupplyMatchesLedger
<1> HIDE DEF d
<1>4. LET s == Latest(d.supply, r, NoSupply)
      IN  /\ s.minted = AmountIn(OfOp(d.ledger, "mint", r))
          /\ s.total_mints = Cardinality(OfOp(d.ledger, "mint", r))
          /\ s.burned = AmountIn(OfOp(d.ledger, "burn", r))
          /\ s.total_burns = Cardinality(OfOp(d.ledger, "burn", r))
          /\ s.total_operations = Cardinality(Of(d.ledger, r))
  BY <1>1, SupplyOf DEF d
<1> QED BY <1>2, <1>3, <1>4 DEF d

\* And so are the balances.
LEMMA InvBalances == TInv /\ BInv /\ SInv => BalancesMatchLedger
<1> SUFFICES ASSUME TInv, BInv, SInv, NEW r \in RuneKeys, NEW a \in Addresses
             PROVE  BalanceIn(r, a) = AmountIn({e \in Entries("receive", r) : e.address = a})
                                          - AmountIn({e \in Entries("send", r) : e.address = a})
  BY Zenon DEF BalancesMatchLedger
<1>1. Height \in Nat /\ Summed(Tables, Height)
  BY TablesSummed
<1>2. \A op : Entries(op, r) = OfOp(Tables.ledger, op, r)
  BY DEF Entries, OfOp, Written
<1>3. a # None
  BY DEF Addresses
<1> DEFINE d == Tables
<1>4. BalanceIn(r, a) = Latest(d.balances, <<r, a>>, NoBalance).balance
  BY DEF BalanceIn
<1> HIDE DEF d
<1>5. Latest(d.balances, <<r, a>>, NoBalance).balance
          = AmountIn({e \in OfOp(d.ledger, "receive", r) : e.address = a})
                - AmountIn({e \in OfOp(d.ledger, "send", r) : e.address = a})
  BY <1>1, <1>3, BalanceOfAddress DEF d
<1>6. Entries("receive", r) = OfOp(d.ledger, "receive", r)
      /\ Entries("send", r) = OfOp(d.ledger, "send", r)
  BY <1>2 DEF d
<1> QED BY <1>4, <1>5, <1>6

-----------------------------------------------------------------------------
(* The totals *)

\* add_ledger_entries_to_db_cache adds each entry to a pending supply row, and
\* pg_insert_supply_changes adds that row to the latest of its rune: however the
\* entries were split over flushes and blocks, and whichever blocks were rolled
\* back, the latest minted, burned and operation totals of a rune are the sums and
\* the counts of its ledger entries.
THEOREM SuppliesMatchLedger == Spec => []SupplyMatchesLedger
<1>1. TInv /\ BInv /\ SInv => SupplyMatchesLedger
  BY InvSupply
<1> QED BY <1>1, TableInvariance, WholeInvariance, SumsInvariance, PTL

\* The same of balance_changes, which pg_insert_balance_changes writes once for the
\* increases and once for the deductions of a flush: the latest balance of an address
\* is what the ledger says it received less what it sent.
THEOREM BalancesAlwaysMatchLedger == Spec => []BalancesMatchLedger
<1>1. TInv /\ BInv /\ SInv => BalancesMatchLedger
  BY InvBalances
<1> QED BY <1>1, TableInvariance, WholeInvariance, SumsInvariance, PTL

-----------------------------------------------------------------------------
(* Lists in the order of distinct keys *)

\* No two elements have the same key.
Apart(key, S) == \A x, y \in S : key[x] = key[y] => x = y

\* The elements up to the key k.
Below(S, key, k) == {x \in S : key[x] <= k}

\* In a sorted list as many elements precede one as its place says.
LEMMA PlaceInOrder ==
    ASSUME NEW S, NEW n \in Nat, NEW key, Keys(key, S), Apart(key, S),
           NEW s, Sorts(s, n, S, key), NEW i \in 1..n
    PROVE  Cardinality(Below(S, key, key[s[i]])) = i
<1> DEFINE P == {x \in S : key[x] <= key[s[i]]}
           front == [k \in 1..i |-> s[k]]
<1>1. /\ s \in [1..n -> S]
      /\ \A k, j \in 1..n : s[k] = s[j] => k = j
      /\ \A x \in S : \E k \in 1..n : s[k] = x
      /\ \A k, j \in 1..n : k < j => key[s[k]] <= key[s[j]]
  BY DEF Sorts, Bijection, Injection, Surjection, IsInjective
<1>2. \A k \in 1..n : s[k] \in S /\ key[s[k]] \in Nat
  BY <1>1 DEF Keys
<1>3. ASSUME NEW k \in 1..i
      PROVE  k \in 1..n /\ s[k] \in P
  <2>1. k \in 1..n /\ (k < i \/ k = i)
    OBVIOUS
  <2>2. key[s[k]] <= key[s[i]]
    BY <1>1, <1>2, <2>1
  <2> QED BY <1>2, <2>1, <2>2
<1>4. ASSUME NEW x \in P
      PROVE  \E k \in 1..i : s[k] = x
  <2>1. PICK k \in 1..n : s[k] = x
    BY <1>1
  <2>2. key[s[k]] <= key[s[i]]
    BY <2>1
  <2>3. CASE k > i
    <3>1. key[s[i]] <= key[s[k]]
      BY <1>1, <2>3
    <3>2. key[s[i]] = key[s[k]]
      BY <1>2, <2>2, <3>1
    <3>3. s[i] = s[k]
      BY <1>2, <3>2 DEF Apart
    <3> QED BY <1>1, <2>3, <3>3
  <2>4. CASE ~(k > i)
    BY <2>1, <2>4
  <2> QED BY <2>3, <2>4
<1> HIDE DEF P
<1>5. front \in Bijection(1..i, P)
  <2>1. front \in [1..i -> P]
    BY <1>3
  <2>2. \A k, j \in 1..i : front[k] = front[j] => k = j
    BY <1>1, <1>3
  <2>3. \A x \in P : \E k \in 1..i : front[k] = x
    BY <1>4
  <2> QED BY <2>1, <2>2, <2>3, Zenon DEF Bijection, Injection, Surjection, IsInjective
<1>6. IsFiniteSet(1..i) /\ Cardinality(1..i) = i
  BY FS_Interval
<1>7. Cardinality(P) = i
  BY <1>5, <1>6, FS_Bijection DEF ExistsBijection
<1> QED BY <1>7 DEF P, Below

\* So there is one list only.
LEMMA OneOrder ==
    ASSUME NEW S, NEW n \in Nat, NEW key, Keys(key, S), Apart(key, S),
           NEW s, Sorts(s, n, S, key), NEW t, Sorts(t, n, S, key)
    PROVE  \A i \in 1..n : s[i] = t[i]
<1> SUFFICES ASSUME NEW i \in 1..n
             PROVE  s[i] = t[i]
  OBVIOUS
<1>1. s[i] \in S /\ \A x \in S : \E k \in 1..n : t[k] = x
  BY DEF Sorts, Bijection, Injection, Surjection
<1>2. PICK j \in 1..n : t[j] = s[i]
  BY <1>1
<1>3. Cardinality(Below(S, key, key[s[i]])) = i
  BY PlaceInOrder
<1>4. Cardinality(Below(S, key, key[t[j]])) = j
  BY PlaceInOrder
<1> QED BY <1>2, <1>3, <1>4

\* A list of lesser keys goes on with one of greater keys.
LEMMA SortsJoin ==
    ASSUME NEW S, NEW T, NEW n \in Nat, NEW m \in Nat, NEW key,
           \A x \in S, y \in T : key[x] < key[y], Keys(key, S \cup T),
           NEW s, Sorts(s, n, S, key), NEW t, Sorts(t, m, T, key)
    PROVE  Sorts([i \in 1..(n + m) |-> IF i <= n THEN s[i] ELSE t[i - n]], n + m,
                 S \cup T, key)
<1> DEFINE c == [i \in 1..(n + m) |-> IF i <= n THEN s[i] ELSE t[i - n]]
<1>1. /\ s \in [1..n -> S]
      /\ \A k, j \in 1..n : s[k] = s[j] => k = j
      /\ \A x \in S : \E k \in 1..n : s[k] = x
      /\ \A k, j \in 1..n : k < j => key[s[k]] <= key[s[j]]
  BY DEF Sorts, Bijection, Injection, Surjection, IsInjective
<1>2. /\ t \in [1..m -> T]
      /\ \A k, j \in 1..m : t[k] = t[j] => k = j
      /\ \A x \in T : \E k \in 1..m : t[k] = x
      /\ \A k, j \in 1..m : k < j => key[t[k]] <= key[t[j]]
  BY DEF Sorts, Bijection, Injection, Surjection, IsInjective
<1>3. /\ \A i \in 1..n : i \in 1..(n + m) /\ c[i] = s[i] /\ c[i] \in S
      /\ \A i \in 1..m : n + i \in 1..(n + m) /\ c[n + i] = t[i] /\ c[n + i] \in T
  <2>1. \A i \in 1..n : i \in 1..(n + m) /\ i <= n
    OBVIOUS
  <2>2. \A i \in 1..m : n + i \in 1..(n + m) /\ ~(n + i <= n) /\ (n + i) - n = i
    OBVIOUS
  <2> QED BY <1>1, <1>2, <2>1, <2>2
<1>4. \A i \in 1..(n + m) : i \in 1..n \/ \E k \in 1..m : i = n + k
  <2> SUFFICES ASSUME NEW i \in 1..(n + m), i \notin 1..n
               PROVE  \E k \in 1..m : i = n + k
    OBVIOUS
  <2>1. i - n \in 1..m /\ i = n + (i - n)
    OBVIOUS
  <2> QED BY <2>1
<1>5. c \in [1..(n + m) -> S \cup T]
  <2>1. \A i \in 1..(n + m) : c[i] \in S \cup T
    BY <1>3, <1>4
  <2> QED BY <2>1
<1> HIDE DEF c
<1>6. \A x \in S, y \in T : x # y
  <2> SUFFICES ASSUME NEW x \in S, NEW y \in T, x = y
               PROVE  FALSE
    OBVIOUS
  <2>1. key[x] < key[x] /\ key[x] \in Nat
    BY DEF Keys
  <2> QED BY <2>1
<1>7. ASSUME NEW i \in 1..(n + m), NEW j \in 1..(n + m), i < j
      PROVE  key[c[i]] <= key[c[j]] /\ c[i] # c[j]
  <2>1. CASE i \in 1..n /\ j \in 1..n
    BY <1>1, <1>3, <1>7, <2>1
  <2>2. CASE i \in 1..n /\ j \notin 1..n
    <3>1. c[i] \in S /\ c[j] \in T
      BY <1>3, <1>4, <2>2
    <3>2. key[c[i]] \in Nat /\ key[c[j]] \in Nat /\ key[c[i]] < key[c[j]]
      BY <3>1 DEF Keys
    <3> QED BY <1>6, <3>1, <3>2
  <2>3. CASE i \notin 1..n
    <3>1. PICK k \in 1..m : i = n + k
      BY <1>4, <2>3
    <3>2. j \notin 1..n
      BY <1>7, <2>3
    <3>3. PICK l \in 1..m : j = n + l
      BY <1>4, <3>2
    <3>4. k < l
      BY <1>7, <3>1, <3>3
    <3>5. key[t[k]] <= key[t[l]] /\ t[k] # t[l]
      BY <1>2, <3>4
    <3> QED BY <1>3, <3>1, <3>3, <3>5
  <2> QED BY <2>1, <2>2, <2>3
<1>8. \A i, j \in 1..(n + m) : c[i] = c[j] => i = j
  <2> SUFFICES ASSUME NEW i \in 1..(n + m), NEW j \in 1..(n + m), c[i] = c[j], i # j
               PROVE  FALSE
    OBVIOUS
  <2>1. i < j \/ j < i
    OBVIOUS
  <2> QED BY <1>7, <2>1
<1>9. \A x \in S \cup T : \E i \in 1..(n + m) : c[i] = x
  <2>1. ASSUME NEW x \in S
        PROVE  \E i \in 1..(n + m) : c[i] = x
    BY <1>1, <1>3
  <2>2. ASSUME NEW x \in T
        PROVE  \E i \in 1..(n + m) : c[i] = x
    <3>1. PICK k \in 1..m : t[k] = x
      BY <1>2
    <3> QED BY <1>3, <3>1
  <2> QED BY <2>1, <2>2
<1>10. c \in Bijection(1..(n + m), S \cup T)
  BY <1>5, <1>8, <1>9, Zenon DEF Bijection, Injection, Surjection, IsInjective
<1>11. Sorts(c, n + m, S \cup T, key)
  BY <1>7, <1>10 DEF Sorts
<1> QED BY <1>11 DEF c

-----------------------------------------------------------------------------
(* What the ledger says of an output *)

\* The entries the output o received.
ReceivedBy(S, o) == {e \in S : e.op = "receive" /\ e.tx = o[1] /\ e.output = o[2]}

\* A transaction numbers its entries, each once.
NumberedOnce(S) == \A a, b \in S : a.tx = b.tx /\ a.event = b.event => a = b

\* The entries T of a transaction come after those of S.
Follows(S, T) == \A a \in S, b \in T : a.tx = b.tx => a.event < b.event

\* An output is the balances of its entries, in order.
LEMMA OutputInOrder ==
    ASSUME NEW S, NEW o
    PROVE  LedgerOutput(S, o) = BalancesOf(ReceivedBy(S, o))
BY Zenon DEF LedgerOutput, ReceivedBy

\* InOrder looks at the keys of its set alone.
LEMMA SortsAlike ==
    ASSUME NEW S, NEW n \in Nat, NEW key, NEW other, \A x \in S : key[x] = other[x],
           NEW s, Sorts(s, n, S, key)
    PROVE  Sorts(s, n, S, other)
<1>1. \A i \in 1..n : s[i] \in S
  BY DEF Sorts, Bijection, Injection
<1> QED BY <1>1 DEF Sorts

\* What T adds to the output o of S comes last.
Extends(S, T, o) == LedgerOutput(S \cup T, o) = LedgerOutput(S, o) \o LedgerOutput(T, o)

\* Entries that come after those of an output follow them in it.
LEMMA OutputGoesOn ==
    ASSUME NEW S, IsFiniteSet(S), S \subseteq Facts, NumberedOnce(S),
           NEW T, IsFiniteSet(T), T \subseteq Facts, NumberedOnce(T), Follows(S, T), NEW o
    PROVE  Extends(S, T, o)
<1> DEFINE A == ReceivedBy(S, o)
           B == ReceivedBy(T, o)
           C == ReceivedBy(S \cup T, o)
           n == Cardinality(A)
           m == Cardinality(B)
           keyA == [e \in A |-> e.event]
           keyB == [e \in B |-> e.event]
           keyC == [e \in C |-> e.event]
           s == InOrder(A, keyA)
           t == InOrder(B, keyB)
           c == InOrder(C, keyC)
           j == [i \in 1..(n + m) |-> IF i <= n THEN s[i] ELSE t[i - n]]
<1>1. A \subseteq S /\ B \subseteq T /\ C = A \cup B /\ \A e \in C : e.tx = o[1]
  BY DEF ReceivedBy
<1>2. IsFiniteSet(A) /\ IsFiniteSet(B) /\ IsFiniteSet(C)
  BY <1>1, FS_Subset, FS_Union
<1>3. n \in Nat /\ m \in Nat /\ Cardinality(C) \in Nat
  BY <1>2, FS_CardinalityType
<1>4. \A e \in C : e.event \in Nat
  BY <1>1, FactFields
<1>5. /\ LedgerOutput(S, o) = [i \in 1..n |-> BalanceOf(s[i])]
      /\ LedgerOutput(T, o) = [i \in 1..m |-> BalanceOf(t[i])]
      /\ LedgerOutput(S \cup T, o) = [i \in 1..Cardinality(C) |-> BalanceOf(c[i])]
  <2>1. BalancesOf(A) = [i \in 1..n |-> BalanceOf(s[i])]
    BY Zenon DEF BalancesOf
  <2>2. BalancesOf(B) = [i \in 1..m |-> BalanceOf(t[i])]
    BY Zenon DEF BalancesOf
  <2>3. BalancesOf(C) = [i \in 1..Cardinality(C) |-> BalanceOf(c[i])]
    BY Zenon DEF BalancesOf
  <2>4. /\ LedgerOutput(S, o) = BalancesOf(A)
        /\ LedgerOutput(T, o) = BalancesOf(B)
        /\ LedgerOutput(S \cup T, o) = BalancesOf(C)
    BY OutputInOrder
  <2> HIDE DEF A, B, C, s, t, c
  <2> QED BY <2>1, <2>2, <2>3, <2>4
<1>6. \A a \in A, b \in B : a.event < b.event
  BY <1>1 DEF Follows
<1> HIDE DEF A, B, C
<1>7. Keys(keyA, A) /\ Keys(keyB, B) /\ Keys(keyC, C)
  BY <1>1, <1>4 DEF Keys
<1>8. /\ \A e \in A : keyA[e] = keyC[e] /\ keyA[e] = e.event
      /\ \A e \in B : keyB[e] = keyC[e] /\ keyB[e] = e.event
      /\ \A e \in C : keyC[e] = e.event
  BY <1>1
<1> HIDE DEF keyA, keyB, keyC
<1>9. Sorts(s, n, A, keyA) /\ Sorts(t, m, B, keyB) /\ Sorts(c, Cardinality(C), C, keyC)
  BY <1>2, <1>7, InOrderSorts
<1> HIDE DEF s, t, c
<1>10. Sorts(s, n, A, keyC) /\ Sorts(t, m, B, keyC)
  BY <1>3, <1>8, <1>9, SortsAlike
<1> HIDE DEF n, m
<1>11. Sorts(j, n + m, C, keyC)
  <2>1. \A a \in A, b \in B : keyC[a] < keyC[b]
    BY <1>6, <1>8
  <2> QED BY <1>1, <1>3, <1>7, <1>10, <2>1, SortsJoin
<1>12. Cardinality(C) = n + m
  <2>1. A \cap B = {}
    <3> SUFFICES ASSUME NEW e \in A, e \in B
                 PROVE  FALSE
      OBVIOUS
    <3>1. e.event < e.event /\ e.event \in Nat
      BY <1>1, <1>4, <1>6
    <3> QED BY <3>1
  <2>2. Cardinality(A \cap B) = 0
    BY <2>1, FS_EmptySet
  <2>3. Cardinality(A \cup B) = n + m - Cardinality(A \cap B)
    BY <1>2, FS_Union DEF n, m
  <2> QED BY <1>1, <1>3, <2>2, <2>3
<1>13. Apart(keyC, C)
  <2> SUFFICES ASSUME NEW x \in C, NEW y \in C, x.event = y.event
               PROVE  x = y
    BY <1>8 DEF Apart
  <2>1. x.tx = y.tx /\ x.event \in Nat
    BY <1>1, <1>4
  <2>2. CASE x \in A /\ y \in A
    BY <1>1, <2>1, <2>2 DEF NumberedOnce
  <2>3. CASE x \in B /\ y \in B
    BY <1>1, <2>1, <2>3 DEF NumberedOnce
  <2>4. CASE (x \in A /\ y \in B) \/ (x \in B /\ y \in A)
    <3>1. x.event < x.event
      BY <1>6, <2>4
    <3> QED BY <2>1, <3>1
  <2> QED BY <1>1, <2>2, <2>3, <2>4
<1>14. n + m \in Nat
  BY <1>3
<1>15. Sorts(c, n + m, C, keyC)
  BY <1>9, <1>12
<1>16. \A i \in 1..(n + m) : c[i] = j[i]
  BY <1>7, <1>11, <1>13, <1>14, <1>15, OneOrder
<1> DEFINE f == [i \in 1..n |-> BalanceOf(s[i])]
           g == [i \in 1..m |-> BalanceOf(t[i])]
           h == [i \in 1..(n + m) |-> BalanceOf(c[i])]
<1>17. LedgerOutput(S, o) = f /\ LedgerOutput(T, o) = g /\ LedgerOutput(S \cup T, o) = h
  BY <1>5, <1>12 DEF n, m
<1>18. f \in Seq(Coins) /\ g \in Seq(Coins)
  <2>1. LedgerOutput(S, o) \in Seq(Coins) /\ LedgerOutput(T, o) \in Seq(Coins)
    BY OutputCoined
  <2> HIDE DEF f, g
  <2> QED BY <1>17, <2>1
<1>19. Len(f) = n /\ Len(g) = m
  BY <1>3
<1>20. /\ \A i \in 1..n : f[i] = BalanceOf(s[i])
       /\ \A i \in 1..m : g[i] = BalanceOf(t[i])
       /\ \A i \in 1..(n + m) : h[i] = BalanceOf(c[i])
       /\ DOMAIN h = 1..(n + m) /\ h = [i \in DOMAIN h |-> h[i]]
  OBVIOUS
<1>21. /\ \A i \in 1..n : j[i] = s[i]
       /\ \A i \in 1..(n + m) : ~(i <= n) => j[i] = t[i - n]
  BY <1>3
<1> HIDE DEF f, g, h, j
<1> DEFINE u == f \o g
<1>22. u \in Seq(Coins) /\ Len(u) = n + m
  BY <1>3, <1>18, <1>19
<1>23. /\ \A i \in 1..n : u[i] = f[i]
       /\ \A i \in 1..m : u[n + i] = g[i]
  BY <1>3, <1>18, <1>19
<1> HIDE DEF u
<1>24. u = [i \in 1..(n + m) |-> u[i]]
  BY <1>3, <1>22
<1>25. ASSUME NEW i \in 1..(n + m)
       PROVE  h[i] = u[i]
  <2>1. h[i] = BalanceOf(j[i])
    BY <1>16, <1>20
  <2>2. CASE i <= n
    <3>1. i \in 1..n
      BY <1>3, <2>2
    <3>2. j[i] = s[i] /\ u[i] = f[i] /\ f[i] = BalanceOf(s[i])
      BY <1>20, <1>21, <1>23, <3>1
    <3> QED BY <2>1, <3>2
  <2>3. CASE ~(i <= n)
    <3>1. i - n \in 1..m /\ i = n + (i - n)
      BY <1>3, <2>3
    <3>2. j[i] = t[i - n] /\ g[i - n] = BalanceOf(t[i - n])
      BY <1>20, <1>21, <2>3, <3>1
    <3>3. u[n + (i - n)] = g[i - n]
      BY <1>23, <3>1
    <3>4. u[i] = g[i - n]
      BY <3>1, <3>3
    <3> QED BY <2>1, <3>2, <3>4
  <2> QED BY <2>2, <2>3
<1>26. h = u
  BY <1>20, <1>24, <1>25
<1> QED BY <1>17, <1>26 DEF u, Extends

\* Entries an output did not receive do not matter to it.
LEMMA OutputStays ==
    ASSUME NEW S, NEW T, NEW o, \A e \in T : ~(e.op = "receive" /\ e.tx = o[1] /\ e.output = o[2])
    PROVE  LedgerOutput(S \cup T, o) = LedgerOutput(S, o)
<1>1. ReceivedBy(S \cup T, o) = ReceivedBy(S, o)
  BY DEF ReceivedBy
<1> QED BY <1>1, OutputInOrder

\* Of entries it counts those that were received.
LEMMA OutputOfReceived ==
    ASSUME NEW S, NEW o
    PROVE  LedgerOutput({e \in S : e.op = "receive"}, o) = LedgerOutput(S, o)
<1>1. ReceivedBy({e \in S : e.op = "receive"}, o) = ReceivedBy(S, o)
  BY DEF ReceivedBy
<1> QED BY <1>1, OutputInOrder

\* An output that received nothing is empty.
LEMMA OutputEmpty ==
    ASSUME NEW S, NEW o, ReceivedBy(S, o) = {}
    PROVE  LedgerOutput(S, o) = <<>>
<1> DEFINE R == ReceivedBy(S, o)
           s == InOrder(R, [e \in R |-> e.event])
<1>1. BalancesOf(R) = [i \in 1..Cardinality(R) |-> BalanceOf(s[i])]
  BY Zenon DEF BalancesOf
<1> HIDE DEF s
<1>2. Cardinality(R) = 0 /\ 1..0 = {}
  BY FS_EmptySet
<1>3. LedgerOutput(S, o) = BalancesOf(R)
  BY OutputInOrder
<1> HIDE DEF R
<1> QED BY <1>1, <1>2, <1>3

-----------------------------------------------------------------------------
(* Looking up inputs: the inductive invariant *)

\* The entries written so far, those of the open transaction included.
AllEntries == OpenLedger(db_tx, db_cache)

\* Outputs kept in memory hold what the entries say.
Exact(cache, S) == \A o \in DOMAIN cache : cache[o] = LedgerOutput(S, o)

\* A transaction is mined once.
BlockIsNew == InBlock => ToSet(block.txs) \cap Mined = {}

\* The outputs of the block are those of its transactions; those of the LRU cache,
\* of transactions that are mined, or are about to be.
OutputsPlaced ==
    /\ \A o \in DOMAIN block_output_cache : o[1] \in ToSet(block.txs)
    /\ \A o \in DOMAIN output_cache :
           o[1] \in Mined \/ (stage = "commit" /\ o[1] \in ToSet(block.txs))

\* What was received in the block is among its outputs.
ReceiptsKept ==
    InBlock /\ stage # "commit" =>
        \A e \in AllEntries : e.op = "receive" =>
            e \in db.ledger \/ <<e.tx, e.output>> \in DOMAIN block_output_cache

\* What makes a lookup exact.
LInv ==
    /\ NumberedOnce(AllEntries)
    /\ Exact(block_output_cache, AllEntries)
    /\ Exact(output_cache, AllEntries)
    /\ BlockIsNew
    /\ OutputsPlaced
    /\ ReceiptsKept

\* The open transaction has every committed entry, and all are finitely many.
LEMMA AllFacts ==
    ASSUME Structure, BInv, SInv
    PROVE  /\ IsFiniteSet(AllEntries) /\ AllEntries \subseteq Facts
           /\ db.ledger \subseteq db_tx.ledger
           /\ \A e \in db.ledger : e.tx \in Mined
           /\ ~InBlock => AllEntries = db.ledger
<1>1. \A e \in db.ledger : e.tx \in Mined
  BY DEF BInv, LedgerOfChain, Mined
<1>2. CASE InBlock
  <2>1. Open(db_tx, db_cache) /\ Summed(db_tx, Height) /\ Awaits(db_cache, Height)
    BY <1>2 DEF BInv, SInv, BlockOpen, SumsOpen
  <2>2. db.ledger \subseteq db_tx.ledger
    BY <2>1 DEF Open, SameRows
  <2>3. /\ IsFiniteSet(db_tx.ledger) /\ db_tx.ledger \subseteq Facts
        /\ IsFiniteSet(ToSet(db_cache.ledger)) /\ ToSet(db_cache.ledger) \subseteq Facts
    BY <2>1, ListFinite DEF Summed, Awaits
  <2>4. IsFiniteSet(db_tx.ledger \cup ToSet(db_cache.ledger))
    BY <2>3, FS_Union
  <2> QED BY <1>1, <1>2, <2>2, <2>3, <2>4 DEF AllEntries, OpenLedger
<1>3. CASE ~InBlock
  <2>1. db_tx = db /\ db_cache = NoRows
    BY <1>3 DEF Structure, InBlock
  <2>2. ToSet(NoRows.ledger) = {}
    BY AwaitsNothing
  <2>3. AllEntries = db.ledger
    BY <2>1, <2>2 DEF AllEntries, OpenLedger
  <2>4. IsFiniteSet(db.ledger) /\ db.ledger \subseteq Facts
    BY DEF SInv, SumsCommitted, Summed
  <2> QED BY <1>1, <2>1, <2>3, <2>4
<1> QED BY <1>2, <1>3

-----------------------------------------------------------------------------
(* What a handler adds to the outputs *)

\* The new entries come after those there were, and are numbered.
LEMMA NewFollow ==
    ASSUME Structure, BInv, SInv, BlockIsNew, InTransaction,
           NEW new, NEW l, Enters(Wallets, Slots, tx_cache, new, l), NewEntered(l)
    PROVE  Follows(AllEntries, ToSet(l)) /\ NumberedOnce(ToSet(l))
<1> DEFINE n == tx_cache.next_event_index
           here == block.txs[pos]
<1>1. /\ pos \in 1..Len(block.txs) /\ here \in ToSet(block.txs) /\ InBlock
  BY PlaceOf DEF BInv
<1>2. n \in Nat
  BY DEF SInv, TransactionTyped, Carries
<1>3. /\ DOMAIN l = 1..Len(l) /\ Len(l) \in Nat
      /\ \A i \in DOMAIN l : l[i].event = n + i - 1
  BY DEF Enters
<1>4. \A e \in ToSet(l) : e.tx = here /\ \E i \in DOMAIN l : e = l[i]
  BY DEF NewEntered, ToSet
<1>5. block.txs \in Seq(Txs)
  BY DEF Structure
<1>6. /\ IsInjective(block.txs)
      /\ \A e \in AllEntries : e \in db.ledger \/ OfReached(e)
  BY <1>1 DEF SInv, EntriesPassed, AllEntries
<1>7. \A e \in db.ledger : e.tx # here
  BY <1>1, AllFacts DEF BlockIsNew
<1>8. ASSUME NEW a \in AllEntries, NEW b \in ToSet(l), a.tx = b.tx
      PROVE  a.event < b.event
  <2>1. a.tx = here /\ OfReached(a)
    BY <1>4, <1>6, <1>7, <1>8
  <2>2. PICK i \in 1..pos : a.tx = block.txs[i] /\ (i = pos => a.event < n)
    BY <2>1 DEF OfReached, n
  <2>3. i \in DOMAIN block.txs /\ pos \in DOMAIN block.txs
    BY <1>1, <1>5
  <2>4. i = pos
    BY <1>6, <2>1, <2>2, <2>3 DEF IsInjective
  <2>5. a.event < n /\ a.event \in Nat
    <3>1. a.event \in Nat
      BY AllFacts, FactFields
    <3> QED BY <2>2, <2>4, <3>1
  <2>6. PICK j \in DOMAIN l : b = l[j]
    BY <1>4
  <2>7. j \in Nat /\ j >= 1 /\ b.event = n + j - 1
    BY <1>3, <2>6
  <2> QED BY <1>2, <2>5, <2>7
<1>9. ASSUME NEW a \in ToSet(l), NEW b \in ToSet(l), a.event = b.event
      PROVE  a = b
  <2>1. PICK i \in DOMAIN l : a = l[i]
    BY <1>4
  <2>2. PICK j \in DOMAIN l : b = l[j]
    BY <1>4
  <2>3. n + i - 1 = n + j - 1 /\ i \in Nat /\ j \in Nat
    BY <1>3, <1>9, <2>1, <2>2
  <2> QED BY <1>2, <2>1, <2>2, <2>3
<1> QED BY <1>8, <1>9 DEF Follows, NumberedOnce

\* Numbers stay unique.
LEMMA NumbersJoin ==
    ASSUME NEW S, S \subseteq Facts, NumberedOnce(S), NEW T, T \subseteq Facts,
           NumberedOnce(T), Follows(S, T)
    PROVE  NumberedOnce(S \cup T)
<1> SUFFICES ASSUME NEW a \in S \cup T, NEW b \in S \cup T, a.tx = b.tx, a.event = b.event
             PROVE  a = b
  BY DEF NumberedOnce
<1>1. a.event \in Nat
  BY FactFields
<1>2. CASE (a \in S /\ b \in S) \/ (a \in T /\ b \in T)
  BY <1>2 DEF NumberedOnce
<1>3. CASE (a \in S /\ b \in T) \/ (a \in T /\ b \in S)
  <2>1. a.event < a.event
    BY <1>3 DEF Follows
  <2> QED BY <1>1, <2>1
<1> QED BY <1>2, <1>3

\* The outputs of the block after new receipts.
LEMMA ReceivedExact ==
    ASSUME NEW outputs, NEW S, IsFiniteSet(S), S \subseteq Facts, NumberedOnce(S),
           Exact(outputs, S), NEW l, IsList(l), ToSet(l) \subseteq Facts,
           NumberedOnce(ToSet(l)), Follows(S, ToSet(l)),
           \A e \in ToSet(l) : \A a \in S : a.op = "receive" /\ a.tx = e.tx =>
               <<a.tx, a.output>> \in DOMAIN outputs
    PROVE  LET new == ReceiveOutputs(outputs, l)
           IN  /\ Exact(new, S \cup ToSet(l))
               /\ DOMAIN new = DOMAIN outputs
                      \cup {<<e.tx, e.output>> : e \in {x \in ToSet(l) : x.op = "receive"}}
<1> DEFINE T == ToSet(l)
           received == {e \in ToSet(l) : e.op = "receive"}
           keys == {<<e.tx, e.output>> : e \in received}
           new == ReceiveOutputs(outputs, l)
<1>1. new = [k \in DOMAIN outputs \cup keys |->
                 (IF k \in DOMAIN outputs THEN outputs[k] ELSE <<>>)
                     \o LedgerOutput(received, k)]
  BY Zenon DEF ReceiveOutputs
<1>2. IsFiniteSet(T)
  BY ListFinite
<1>3. \A k : LedgerOutput(received, k) = LedgerOutput(T, k)
  BY OutputOfReceived
<1>4. \A k \in keys : \E e \in T : e.op = "receive" /\ k = <<e.tx, e.output>>
  OBVIOUS
<1>5. DOMAIN new = DOMAIN outputs \cup keys
  BY <1>1
<1> HIDE DEF received, keys, new, T
<1>6. ASSUME NEW k \in DOMAIN new
      PROVE  new[k] = LedgerOutput(S \cup T, k)
  <2> DEFINE was == IF k \in DOMAIN outputs THEN outputs[k] ELSE <<>>
             more == LedgerOutput(T, k)
  <2>1. new[k] = was \o more
    BY <1>1, <1>3, <1>6
  <2>2. was = LedgerOutput(S, k)
    <3>1. CASE k \in DOMAIN outputs
      BY <3>1 DEF Exact
    <3>2. CASE k \notin DOMAIN outputs
      <4>1. PICK e \in T : k = <<e.tx, e.output>>
        BY <1>4, <1>5, <1>6, <3>2
      <4>2. ASSUME NEW a \in ReceivedBy(S, k)
            PROVE  FALSE
        <5>1. a \in S /\ a.op = "receive" /\ a.tx = e.tx /\ a.output = e.output
          BY <4>1, <4>2 DEF ReceivedBy
        <5>2. <<a.tx, a.output>> \in DOMAIN outputs
          BY <5>1 DEF T
        <5> QED BY <3>2, <4>1, <5>1, <5>2
      <4>3. ReceivedBy(S, k) = {}
        BY <4>2
      <4>4. LedgerOutput(S, k) = <<>>
        BY <4>3, OutputEmpty
      <4> QED BY <3>2, <4>4
    <3> QED BY <3>1, <3>2
  <2>3. LedgerOutput(S \cup T, k) = LedgerOutput(S, k) \o more
    <3>1. T \subseteq Facts /\ NumberedOnce(T) /\ Follows(S, T)
      BY DEF T
    <3>2. Extends(S, T, k)
      BY <1>2, <3>1, OutputGoesOn
    <3> QED BY <3>2 DEF Extends
  <2> QED BY <2>1, <2>2, <2>3
<1> QED BY <1>5, <1>6 DEF Exact, T, new, keys, received

\* A handler keeps the lookups exact.
LEMMA SteppingLookup ==
    ASSUME Structure, BInv, CountInv, SInv, LInv,
           NEW f \in BOOLEAN, NEW l, Stepping(f, l)
    PROVE  LInv'
<1> DEFINE S == AllEntries
           T == ToSet(l)
           here == block.txs[pos]
<1>1. InTransaction /\ InBlock /\ stage # "commit" /\ stage' \notin {"idle", "commit"}
  BY DEF Stepping, InTransaction, InBlock
<1>2. /\ UNCHANGED <<db, block, chain, pos, output_cache>>
      /\ Enters(Wallets, Slots, tx_cache, tx_cache', l) /\ Collects(l)
  BY DEF Stepping
<1>3. NewEntered(l) /\ AllEntries' = S \cup T
  BY SteppingOpens DEF AllEntries
<1>4. /\ IsFiniteSet(S) /\ S \subseteq Facts /\ \A e \in db.ledger : e.tx \in Mined
  BY AllFacts
<1>5. here \in ToSet(block.txs)
  BY <1>1, PlaceOf DEF BInv
<1>6. /\ IsList(l) /\ T \subseteq Facts /\ \A e \in T : e.tx = here
  BY <1>3 DEF NewEntered, Log
<1>7. NumberedOnce(S) /\ ToSet(block.txs) \cap Mined = {} /\ BlockIsNew
  BY <1>1 DEF LInv, BlockIsNew
<1>8. Follows(S, T) /\ NumberedOnce(T)
  BY <1>1, <1>2, <1>3, <1>7, NewFollow
<1>9. Exact(block_output_cache, S) /\ Exact(output_cache, S) /\ OutputsPlaced /\ ReceiptsKept
  BY DEF LInv
<1>10. Mined' = Mined /\ InBlock'
  BY <1>1, <1>2 DEF Mined, InBlock
<1>11. \A a \in S : a.op = "receive" =>
           a \in db.ledger \/ <<a.tx, a.output>> \in DOMAIN block_output_cache
  BY <1>1, <1>9 DEF ReceiptsKept
<1> HIDE DEF S, T, here
<1>12. NumberedOnce(S \cup T)
  BY <1>4, <1>6, <1>7, <1>8, NumbersJoin
<1>13. Exact(output_cache, S \cup T)
  <2> SUFFICES ASSUME NEW o \in DOMAIN output_cache
               PROVE  output_cache[o] = LedgerOutput(S \cup T, o)
    BY DEF Exact
  <2>1. o[1] \in Mined
    BY <1>1, <1>9 DEF OutputsPlaced
  <2>2. \A e \in T : e.tx # o[1]
    BY <1>5, <1>6, <1>7, <2>1
  <2>3. LedgerOutput(S \cup T, o) = LedgerOutput(S, o)
    BY <2>2, OutputStays
  <2> QED BY <1>9, <2>3 DEF Exact
<1>14. /\ Exact(block_output_cache', S \cup T)
       /\ \A o \in DOMAIN block_output_cache' : o[1] \in ToSet(block.txs)
       /\ DOMAIN block_output_cache \subseteq DOMAIN block_output_cache'
       /\ \A e \in T : e.op = "receive" => <<e.tx, e.output>> \in DOMAIN block_output_cache'
  <2>1. CASE block_output_cache' = ReceiveOutputs(block_output_cache, l)
    <3> DEFINE keys == {<<e.tx, e.output>> : e \in {x \in T : x.op = "receive"}}
               new == ReceiveOutputs(block_output_cache, l)
    <3>1. \A e \in T : \A a \in S : a.op = "receive" /\ a.tx = e.tx =>
              <<a.tx, a.output>> \in DOMAIN block_output_cache
      <4> SUFFICES ASSUME NEW e \in T, NEW a \in S, a.op = "receive", a.tx = e.tx
                   PROVE  <<a.tx, a.output>> \in DOMAIN block_output_cache
        OBVIOUS
      <4>1. a \notin db.ledger
        BY <1>4, <1>5, <1>6, <1>7
      <4> QED BY <1>11, <4>1
    <3>2. Exact(new, S \cup T) /\ DOMAIN new = DOMAIN block_output_cache \cup keys
      BY <1>4, <1>6, <1>7, <1>8, <1>9, <3>1, ReceivedExact DEF T
    <3>3. \A o \in keys : o[1] = here
      BY <1>6
    <3>4. \A e \in T : e.op = "receive" => <<e.tx, e.output>> \in keys
      OBVIOUS
    <3> HIDE DEF keys, new
    <3>5. \A o \in DOMAIN new : o[1] \in ToSet(block.txs)
      BY <1>5, <1>9, <3>2, <3>3 DEF OutputsPlaced
    <3>6. DOMAIN block_output_cache \subseteq DOMAIN new
      BY <3>2
    <3>7. \A e \in T : e.op = "receive" => <<e.tx, e.output>> \in DOMAIN new
      BY <3>2, <3>4
    <3>8. block_output_cache' = new
      BY <2>1 DEF new
    <3> QED BY <3>2, <3>5, <3>6, <3>7, <3>8
  <2>2. CASE /\ block_output_cache' = block_output_cache
             /\ \A i \in DOMAIN l : l[i].op # "receive"
    <3>1. \A e \in T : e.op # "receive"
      BY <2>2 DEF T, ToSet
    <3>2. \A o : LedgerOutput(S \cup T, o) = LedgerOutput(S, o)
      BY <3>1, OutputStays
    <3>3. Exact(block_output_cache, S \cup T)
      BY <1>9, <3>2 DEF Exact
    <3> QED BY <1>9, <2>2, <3>1, <3>3 DEF OutputsPlaced
  <2> QED BY <1>2, <2>1, <2>2 DEF Collects
<1>15. OutputsPlaced'
  BY <1>1, <1>2, <1>9, <1>10, <1>14 DEF OutputsPlaced
<1>16. ReceiptsKept'
  <2>1. \A e \in S \cup T : e.op = "receive" =>
            e \in db.ledger \/ <<e.tx, e.output>> \in DOMAIN block_output_cache'
    BY <1>11, <1>14
  <2> QED BY <1>2, <1>3, <2>1 DEF ReceiptsKept, S, T
<1>17. BlockIsNew'
  BY <1>2, <1>7, <1>10 DEF BlockIsNew
<1> QED BY <1>2, <1>3, <1>12, <1>13, <1>14, <1>15, <1>16, <1>17 DEF LInv, S, T

-----------------------------------------------------------------------------
(* The steps between transactions *)

\* Outside a block the lookups of the committed ledger matter alone.
LEMMA IdleLookup ==
    ASSUME stage' = "idle", NumberedOnce(AllEntries'), block_output_cache' = <<>>,
           Exact(output_cache', AllEntries'), \A o \in DOMAIN output_cache' : o[1] \in Mined'
    PROVE  LInv'
<1>1. DOMAIN <<>> = {}
  OBVIOUS
<1> QED BY <1>1 DEF LInv, Exact, BlockIsNew, OutputsPlaced, ReceiptsKept, InBlock

\* A block starts with no output of its own.
LEMMA BeginBlockLookup ==
    ASSUME Structure, BInv, SInv, LInv, BeginBlock
    PROVE  LInv'
<1>1. /\ stage = "idle" /\ stage' = "next" /\ db_tx' = db
      /\ UNCHANGED <<db, chain, output_cache, block_output_cache, db_cache>>
  BY DEF BeginBlock, caches, history
<1>2. db_tx = db /\ block_output_cache = <<>> /\ ~InBlock
  BY <1>1 DEF Structure, InBlock
<1>3. AllEntries' = AllEntries /\ AllEntries = db.ledger /\ Mined' = Mined
  BY <1>1, <1>2, AllFacts DEF AllEntries, OpenLedger, Mined
<1>4. ToSet(block'.txs) \cap Mined = {}
  <2>1. PICK txs \in SeqOf(Txs, MaxBlockTxs) :
            /\ ValidNext(txs)
            /\ block' = [height |-> StartHeight + Len(chain), txs |-> txs]
    BY DEF BeginBlock
  <2>2. block'.txs = txs
    BY <2>1
  <2>3. ToSet(txs) \cap Mined = {}
    BY <2>1, Zenon DEF ValidNext
  <2> QED BY <2>2, <2>3
<1>5. BlockIsNew'
  BY <1>3, <1>4 DEF BlockIsNew
<1>6. DOMAIN <<>> = {}
  OBVIOUS
<1>7. OutputsPlaced'
  BY <1>1, <1>2, <1>3, <1>6 DEF LInv, OutputsPlaced
<1>8. ReceiptsKept'
  BY <1>1, <1>3 DEF ReceiptsKept
<1>9. NumberedOnce(AllEntries') /\ Exact(block_output_cache', AllEntries')
      /\ Exact(output_cache', AllEntries')
  BY <1>1, <1>3 DEF LInv
<1> QED BY <1>5, <1>7, <1>8, <1>9 DEF LInv

\* A transaction starts with what it looked up.
LEMMA BeginTransactionLookup ==
    ASSUME Structure, LInv, BeginTransaction
    PROVE  LInv'
<1>1. /\ UNCHANGED <<db, db_tx, db_cache, block, chain, block_output_cache, output_cache>>
      /\ stage = "next"
  BY DEF BeginTransaction, history, caches
<1>2. AllEntries' = AllEntries /\ Mined' = Mined
  BY <1>1 DEF AllEntries, OpenLedger, Mined
<1>3. InBlock /\ stage # "commit"
  BY <1>1 DEF InBlock
<1>4. BlockIsNew'
  BY <1>1, <1>2, <1>3 DEF LInv, BlockIsNew
<1>5. OutputsPlaced'
  BY <1>1, <1>2, <1>3 DEF LInv, OutputsPlaced
<1>6. ReceiptsKept'
  BY <1>1, <1>2, <1>3 DEF LInv, ReceiptsKept
<1> QED BY <1>1, <1>2, <1>4, <1>5, <1>6 DEF LInv

\* Pushing outputs into the LRU cache that it does not have keeps what they hold.
LEMMA MovedOutputs ==
    ASSUME NEW outputs, NEW cache, DOMAIN outputs \cap DOMAIN cache = {},
           NEW c \in MoveBlockOutputCache(outputs, cache), NEW o \in DOMAIN c
    PROVE  \/ o \in DOMAIN outputs /\ c[o] = outputs[o]
           \/ o \in DOMAIN cache /\ c[o] = cache[o]
<1> DEFINE all  == DOMAIN outputs \cup DOMAIN cache
           fits == Cardinality(all) <= LruSize
           kept == IF fits THEN {all} ELSE kSubset(LruSize, all)
           Extended(k) ==
               IF k \notin DOMAIN cache THEN outputs[k]
               ELSE IF k \notin DOMAIN outputs THEN cache[k]
               ELSE cache[k] \o outputs[k]
           Replaced(k) == IF k \in DOMAIN outputs THEN outputs[k] ELSE cache[k]
<1>1. c \in {[k \in S |-> Extended(k)] : S \in kept} \cup
          (IF fits THEN {} ELSE {[k \in S |-> Replaced(k)] : S \in kept})
  BY Zenon DEF MoveBlockOutputCache
<1>2. \A S \in kept : S \subseteq all
  BY DEF kSubset
<1>3. \A k \in all : Extended(k) = Replaced(k)
  OBVIOUS
<1>4. \A k \in all : \/ k \in DOMAIN outputs /\ Replaced(k) = outputs[k]
                     \/ k \in DOMAIN cache /\ Replaced(k) = cache[k]
  OBVIOUS
<1> HIDE DEF Extended, Replaced, kept, fits, all
<1>5. PICK S \in kept : c = [k \in S |-> Extended(k)] \/ c = [k \in S |-> Replaced(k)]
  BY <1>1
<1>6. o \in all /\ c[o] = Replaced(o)
  BY <1>2, <1>3, <1>5
<1> QED BY <1>4, <1>6

\* The end of a block moves its outputs to the LRU cache, which may drop some.
LEMMA EndBlockLookup ==
    ASSUME Structure, BInv, CountInv, SInv, LInv, EndBlock
    PROVE  LInv'
<1>1. /\ UNCHANGED <<block, db, chain>> /\ stage = "next" /\ stage' = "commit"
      /\ block_output_cache' = <<>> /\ db_cache' = NoRows
      /\ output_cache' \in MoveBlockOutputCache(block_output_cache, output_cache)
      /\ db_tx' = [TablesAfter(TRUE) EXCEPT !.last_scanned = block.height]
  BY DEF EndBlock, history
<1>2. InBlock /\ BlockOpen /\ SumsOpen
  BY <1>1 DEF InBlock, BInv, SInv
<1>3. Mined' = Mined /\ InBlock'
  BY <1>1 DEF Mined, InBlock
<1>4. AllEntries' = AllEntries
  <2> DEFINE d == TablesAfter(TRUE)
             new == [d EXCEPT !.last_scanned = block.height]
  <2>1. RowsAfter(TRUE) = NoRows /\ IsTables(d)
    BY AfterLookup DEF RowsAfter
  <2>2. OpenLedger(d, NoRows) = OpenLedger(db_tx, db_cache)
    BY <1>2, <2>1, LookupSums
  <2>3. db_tx' = new
    BY <1>1
  <2> HIDE DEF d
  <2>4. new.ledger = d.ledger
    BY <2>1 DEF IsTables
  <2> QED BY <1>1, <2>2, <2>3, <2>4 DEF AllEntries, OpenLedger
<1>5. /\ ToSet(block.txs) \cap Mined = {}
      /\ \A o \in DOMAIN block_output_cache : o[1] \in ToSet(block.txs)
      /\ \A o \in DOMAIN output_cache : o[1] \in Mined
      /\ Exact(block_output_cache, AllEntries) /\ Exact(output_cache, AllEntries)
  BY <1>1, <1>2 DEF LInv, BlockIsNew, OutputsPlaced
<1>6. DOMAIN block_output_cache \cap DOMAIN output_cache = {}
  BY <1>5
<1>7. \A o \in DOMAIN output_cache' :
          \/ o \in DOMAIN block_output_cache /\ output_cache'[o] = block_output_cache[o]
          \/ o \in DOMAIN output_cache /\ output_cache'[o] = output_cache[o]
  BY <1>1, <1>6, MovedOutputs
<1>8. Exact(output_cache', AllEntries)
  BY <1>5, <1>7 DEF Exact
<1>9. DOMAIN <<>> = {}
  OBVIOUS
<1>10. OutputsPlaced'
  BY <1>1, <1>3, <1>5, <1>7, <1>9 DEF OutputsPlaced
<1>11. Exact(block_output_cache', AllEntries)
  BY <1>1, <1>9 DEF Exact
<1>12. BlockIsNew'
  BY <1>1, <1>3, <1>5 DEF BlockIsNew
<1>13. ReceiptsKept'
  BY <1>1 DEF ReceiptsKept
<1>14. NumberedOnce(AllEntries')
  BY <1>4 DEF LInv
<1> QED BY <1>4, <1>8, <1>10, <1>11, <1>12, <1>13, <1>14 DEF LInv

\* What a commit makes mined.
LEMMA CommitMines ==
    ASSUME Structure, chain' = Append(chain, block.txs)
    PROVE  Mined' = Mined \cup ToSet(block.txs)
<1> DEFINE n == Len(chain)
<1>1. chain \in Seq(Seq(Txs)) /\ block.txs \in Seq(Txs)
  BY DEF Structure
<1>2. /\ n \in Nat /\ DOMAIN chain = 1..n /\ DOMAIN chain' = 1..(n + 1)
      /\ \A b \in 1..n : chain'[b] = chain[b]
      /\ chain'[n + 1] = block.txs
  BY <1>1
<1>3. 1..(n + 1) = (1..n) \cup {n + 1}
  BY <1>2
<1> HIDE DEF n
<1>4. \A t : t \in Mined' <=> \E b \in 1..(n + 1) : t \in ToSet(chain'[b])
  BY <1>2 DEF Mined
<1>5. \A t : t \in Mined <=> \E b \in 1..n : t \in ToSet(chain[b])
  BY <1>2 DEF Mined
<1>6. \A t : t \in Mined' <=> t \in Mined \/ t \in ToSet(block.txs)
  BY <1>2, <1>3, <1>4, <1>5
<1> QED BY <1>6

\* With the commit the transactions of the block are mined.
LEMMA CommitLookup ==
    ASSUME Structure, LInv, Commit
    PROVE  LInv'
<1>1. /\ stage = "commit" /\ stage' = "idle" /\ chain' = Append(chain, block.txs)
      /\ UNCHANGED <<output_cache, block_output_cache, db_tx, db_cache>>
  BY DEF Commit, caches
<1>2. block_output_cache = <<>> /\ AllEntries' = AllEntries
  BY <1>1 DEF Structure, AllEntries, OpenLedger
<1>3. Mined' = Mined \cup ToSet(block.txs)
  BY <1>1, CommitMines
<1>4. \A o \in DOMAIN output_cache : o[1] \in Mined'
  BY <1>3 DEF LInv, OutputsPlaced
<1>5. NumberedOnce(AllEntries') /\ Exact(output_cache', AllEntries')
  BY <1>1, <1>2 DEF LInv
<1> QED BY <1>1, <1>2, <1>4, <1>5, IdleLookup

\* A restart starts without outputs, from the committed entries.
LEMMA RestartLookup ==
    ASSUME Structure, BInv, SInv, LInv, Restart
    PROVE  LInv'
<1>1. /\ stage' = "idle" /\ db_tx' = db /\ db_cache' = NoRows
      /\ output_cache' = <<>> /\ block_output_cache' = <<>>
  BY DEF Restart
<1>2. ToSet(NoRows.ledger) = {}
  BY AwaitsNothing
<1>3. AllEntries' = db.ledger
  BY <1>1, <1>2 DEF AllEntries, OpenLedger
<1>4. db.ledger \subseteq AllEntries
  BY AllFacts DEF AllEntries, OpenLedger
<1>5. NumberedOnce(AllEntries')
  BY <1>3, <1>4 DEF LInv, NumberedOnce
<1>6. DOMAIN <<>> = {}
  OBVIOUS
<1>7. Exact(output_cache', AllEntries') /\ \A o \in DOMAIN output_cache' : o[1] \in Mined'
  BY <1>1, <1>6 DEF Exact
<1> QED BY <1>1, <1>5, <1>7, IdleLookup

\* Nothing was received before the first block.
LEMMA InitLookup == Init => LInv
<1> SUFFICES ASSUME Init
             PROVE  LInv
  OBVIOUS
<1>1. /\ db_tx = EmptyDb /\ db_cache = NoRows /\ stage = "idle"
      /\ output_cache = <<>> /\ block_output_cache = <<>>
  BY DEF Init
<1>2. ToSet(NoRows.ledger) = {} /\ EmptyDb.ledger = {}
  BY AwaitsNothing DEF EmptyDb
<1>3. AllEntries = {}
  BY <1>1, <1>2 DEF AllEntries, OpenLedger
<1>4. DOMAIN <<>> = {}
  OBVIOUS
<1> QED BY <1>1, <1>3, <1>4
        DEF LInv, NumberedOnce, Exact, BlockIsNew, OutputsPlaced, ReceiptsKept, InBlock

\* A step that changes no variable changes no lookup.
LEMMA StutterLookup == LInv /\ UNCHANGED vars => LInv'
<1> SUFFICES ASSUME LInv, UNCHANGED vars
             PROVE  LInv'
  OBVIOUS
<1>1. /\ UNCHANGED <<db, db_tx, db_cache, chain, block, stage, output_cache,
                     block_output_cache>>
  BY DEF vars, caches, history
<1>2. AllEntries' = AllEntries /\ Mined' = Mined /\ InBlock' = InBlock
  BY <1>1 DEF AllEntries, OpenLedger, Mined, InBlock
<1> QED BY <1>1, <1>2 DEF LInv, BlockIsNew, OutputsPlaced, ReceiptsKept

\* While the chain only grows the lookups stay exact.
LEMMA LookupForward == TInv /\ BInv /\ SInv /\ LInv /\ [Forward]_vars => LInv'
<1> SUFFICES ASSUME TInv, BInv, SInv, LInv, [Forward]_vars
             PROVE  LInv'
  OBVIOUS
<1>1. CountInv /\ Structure
  BY DEF TInv, IInv
<1>2. \/ BeginBlock \/ BeginTransaction \/ Handled \/ EndBlock \/ Commit
      \/ Restart \/ UNCHANGED vars
  BY HandlersStep
<1>3. CASE Handled
  BY <1>1, <1>3, SteppingLookup DEF Handled
<1> QED BY <1>1, <1>2, <1>3, BeginBlockLookup, BeginTransactionLookup, EndBlockLookup,
           CommitLookup, RestartLookup, StutterLookup

\* So an input is found to hold what the ledger says.
LEMMA InvLookup == TInv /\ BInv /\ SInv /\ LInv => InputLookupExact
<1> SUFFICES ASSUME TInv, BInv, SInv, LInv, NEW t \in Indexed,
                    NEW v \in DOMAIN TxData[t].outputs
             PROVE  FindOutput(<<t, v>>) = LedgerOutput(Written, <<t, v>>)
  BY Zenon DEF InputLookupExact
<1> DEFINE o == <<t, v>>
<1>1. Structure /\ CountInv /\ BlockOpen /\ SumsOpen
  BY DEF TInv, IInv, BInv, SInv
<1>2. Written = AllEntries
  <2>1. CASE stage = "idle"
    <3>1. AllEntries = db.ledger
      BY <1>1, <2>1, AllFacts DEF InBlock
    <3> QED BY <2>1, <3>1 DEF Written, Tables
  <2>2. CASE stage # "idle"
    <3> DEFINE d == TablesAfter(TRUE)
    <3>1. RowsAfter(TRUE) = NoRows /\ InBlock
      BY <2>2 DEF RowsAfter, InBlock
    <3>2. OpenLedger(d, NoRows) = AllEntries
      BY <1>1, <3>1, LookupSums DEF AllEntries
    <3>3. Written = d.ledger
      BY <2>2 DEF Written, Tables
    <3> HIDE DEF d
    <3>4. ToSet(NoRows.ledger) = {}
      BY AwaitsNothing
    <3> QED BY <3>2, <3>3, <3>4 DEF OpenLedger
  <2> QED BY <2>1, <2>2
<1> SUFFICES FindOutput(o) = LedgerOutput(Written, o)
  OBVIOUS
<1> HIDE DEF o
<1>3. CASE o \in DOMAIN block_output_cache
  BY <1>2, <1>3 DEF FindOutput, LInv, Exact
<1>4. CASE o \notin DOMAIN block_output_cache /\ o \in DOMAIN output_cache
  BY <1>2, <1>4 DEF FindOutput, LInv, Exact
<1>5. CASE o \notin DOMAIN block_output_cache /\ o \notin DOMAIN output_cache
  <2>1. FindOutput(o) = LedgerOutput(db_tx.ledger, o)
    BY <1>5 DEF FindOutput
  <2>2. ReceivedBy(db_tx.ledger, o) = ReceivedBy(AllEntries, o)
    <3>1. db_tx.ledger \subseteq AllEntries
      BY DEF AllEntries, OpenLedger
    <3>2. ASSUME NEW e \in ReceivedBy(AllEntries, o)
          PROVE  e \in db_tx.ledger
      <4>1. e \in AllEntries /\ e.op = "receive" /\ <<e.tx, e.output>> = o
        BY <3>2 DEF ReceivedBy, o
      <4>2. CASE InBlock /\ stage # "commit"
        <5>1. e \in db.ledger
          BY <1>5, <4>1, <4>2 DEF LInv, ReceiptsKept
        <5> QED BY <1>1, <5>1, AllFacts
      <4>3. CASE ~(InBlock /\ stage # "commit")
        <5>1. db_cache = NoRows
          BY <1>1, <4>3 DEF Structure, InBlock
        <5>2. ToSet(NoRows.ledger) = {}
          BY AwaitsNothing
        <5> QED BY <4>1, <5>1, <5>2 DEF AllEntries, OpenLedger
      <4> QED BY <4>2, <4>3
    <3> QED BY <3>1, <3>2 DEF ReceivedBy
  <2> QED BY <1>2, <2>1, <2>2, OutputInOrder
<1> QED BY <1>3, <1>4, <1>5

\* input_rune_balances_from_tx_inputs asks the outputs of the block, then the LRU
\* cache, then the table, and flushes nothing: while the chain only grows, whatever
\* was evicted, flushed or lost in a restart, it finds an output to hold exactly what
\* the ledger says that output received.
THEOREM InputsFoundExactly == ForwardSpec => []InputLookupExact
<1>1. Init => TInv /\ BInv /\ SInv /\ LInv
  BY InitTable, InitWhole, InitSums, InitLookup
<1>2. TInv /\ BInv /\ SInv /\ LInv /\ [Forward]_vars => (TInv /\ BInv /\ SInv /\ LInv)'
  BY TableNext, WholeNext, SumsNext, LookupForward DEF Next, TInv
<1>3. TInv /\ BInv /\ SInv /\ LInv => InputLookupExact
  BY InvLookup
<1> QED BY <1>1, <1>2, <1>3, PTL DEF ForwardSpec
=============================================================================
