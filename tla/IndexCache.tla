------------------------------ MODULE IndexCache ------------------------------
(***************************************************************************)
(* The block indexer: index_block and roll_back_block (src/db/index.rs)    *)
(* over IndexCache and DbCache (src/db/cache) and the Postgres tables      *)
(* (src/db/mod.rs).  One thread indexes one block at a time inside one     *)
(* Postgres transaction; what crosses blocks are the committed tables and  *)
(* three LRU caches in memory.  The process may stop at any step.          *)
(*                                                                         *)
(* Recency inside an LRU cache is abstracted: a full cache drops some      *)
(* other entry, never the one being put.                                   *)
(***************************************************************************)
EXTENDS TransactionCache, FiniteSetsExt

CONSTANTS
    Txs,            \* the transactions that may be mined
    TxData,         \* tx -> [inputs, outputs, total, artifact]
    StartHeight,    \* height of the first block indexed
    GenesisRune,    \* the row the first migration inserts into runes
    LruSize,        \* config.resources.lru_cache_size
    Names,          \* names of runes
    MaxBlocks,      \* bound: length of the chain
    MaxBlockTxs,    \* bound: transactions in a block
    MaxReorgs       \* bound: blocks rolled back

TermsType == [amount : Optional(Nat), cap : Optional(Nat),
              height_start : Optional(Nat), height_end : Optional(Nat),
              offset_start : Optional(Nat), offset_end : Optional(Nat)]

EtchingType == [name : Names, premine : Optional(Nat), terms : Optional(TermsType)]

ASSUME SizesAssumption ==
    /\ LruSize \in Nat \ {0}
    /\ StartHeight \in Nat

\* The first migration's row has an id no transaction can have, and a height
\* that is never rolled back.
ASSUME GenesisAssumption ==
    /\ GenesisRune \in [id : Nat \X Nat, number : Nat, name : Names,
                       height : 0..(StartHeight - 1), premine : Nat,
                       terms : TermsType, cenotaph : {FALSE}]
    /\ GenesisRune.id # SelfId
    /\ GenesisRune.id[1] < StartHeight

\* What Runestone::decipher can return.
ASSUME ArtifactAssumption ==
    \A t \in Txs :
        LET artifact == TxData[t].artifact
        IN  \/ artifact.kind = "none"
            \/ /\ artifact.kind = "runestone"
               /\ artifact.etching \in Optional(EtchingType)
               /\ artifact.mint \in Optional(RuneKeys)
               /\ artifact.edicts \in Seq([id : RuneKeys, amount : Nat, output : Nat])
            \/ /\ artifact.kind = "cenotaph"
               /\ artifact.etching \in Optional(Names)
               /\ artifact.mint \in Optional(RuneKeys)

\* A transaction has finitely many outputs and spends a list of them.
ASSUME OutputsAssumption ==
    \A t \in Txs : /\ IsFiniteSet(DOMAIN TxData[t].outputs)
                   /\ TxData[t].inputs \in Seq(Txs \X Nat)

\* A rune etched anywhere in the chain can hold a balance.
ASSUME PlacesAssumption ==
    /\ MaxBlocks \in Nat
    /\ MaxBlockTxs \in Nat
    /\ (StartHeight..(StartHeight + MaxBlocks - 1)) \X (1..MaxBlockTxs) \subseteq RuneIds

VARIABLES
    next_rune_number, rune_cache, rune_total_mints_cache,
    output_cache, block_output_cache, tx_cache,
    db_cache,       \* rows not inserted yet
    db_tx,          \* the tables as the open Postgres transaction sees them
    db,             \* the committed tables
    block,          \* the block being indexed, [height, txs]
    pos,            \* the transaction of it being indexed; 0 before the first
    stage,          \* what index_block does next
    next_edict,     \* the edict it applies next
    chain,          \* the blocks committed and not rolled back, as tx sequences
    undo,           \* the committed tables as each of these blocks found them
    reorgs          \* how many blocks were rolled back

caches == <<rune_cache, rune_total_mints_cache, output_cache>>
history == <<chain, undo, reorgs>>
vars == <<next_rune_number, caches, block_output_cache, tx_cache, db_cache,
          db_tx, db, block, pos, stage, next_edict, history>>

Plus(f, k, v) == [x \in DOMAIN f \cup {k} |-> IF x = k THEN v ELSE f[x]]
Only(f, S) == [x \in DOMAIN f \cap S |-> f[x]]

-----------------------------------------------------------------------------
(* The LRU caches *)

\* The caches that may result from putting v at k.
LruPut(cache, k, v) ==
    IF k \in DOMAIN cache \/ Cardinality(DOMAIN cache) < LruSize
    THEN {Plus(cache, k, v)}
    ELSE {Plus(Only(cache, DOMAIN cache \ {x}), k, v) : x \in DOMAIN cache}

\* What may be in the LRU output cache after the outputs of the block are
\* pushed into it one by one: an output that is there already is extended,
\* unless it was dropped to make room before its turn came.
MoveBlockOutputCache(outputs, cache) ==
    LET all   == DOMAIN outputs \cup DOMAIN cache
        fits  == Cardinality(all) <= LruSize
        kept  == IF fits THEN {all} ELSE kSubset(LruSize, all)
        Extended(k) ==
            IF k \notin DOMAIN cache THEN outputs[k]
            ELSE IF k \notin DOMAIN outputs THEN cache[k]
            ELSE cache[k] \o outputs[k]
    IN  {[k \in S |-> Extended(k)] : S \in kept} \cup
        (IF fits THEN {}
         ELSE {[k \in S |-> IF k \in DOMAIN outputs THEN outputs[k] ELSE cache[k]] :
                 S \in kept})

-----------------------------------------------------------------------------
(* The tables *)

NoRows == [runes |-> <<>>, ledger |-> <<>>, supply |-> <<>>,
           increases |-> <<>>, deductions |-> <<>>]

NoSupply == [minted |-> 0, total_mints |-> 0, burned |-> 0, total_burns |-> 0,
             total_operations |-> 0]

NoBalance == [balance |-> 0, total_operations |-> 0]

EmptyDb == [runes |-> {GenesisRune}, ledger |-> {}, supply |-> <<>>,
            balances |-> <<>>, last_scanned |-> 0]

\* INSERT INTO runes .. ON CONFLICT (name) DO NOTHING, without the cenotaph
\* column, which keeps its default.
InsertRunes(rows, new) ==
    rows \cup {[new[i] EXCEPT !.cenotaph = FALSE] :
        i \in {j \in DOMAIN new :
            /\ \A r \in rows : r.name # new[j].name
            /\ \A k \in 1..(j - 1) : new[k].name # new[j].name}}

\* The row of greatest height for key k, the CTE "previous"; else the default.
Latest(rows, k, default) ==
    LET heights == {h \in {x[2] : x \in DOMAIN rows} : <<k, h>> \in DOMAIN rows}
    IN  IF heights = {} THEN default
        ELSE rows[<<k, CHOOSE h \in heights : \A g \in heights : g <= h>>]

SupplyPlus(a, b) ==
    [minted |-> a.minted + b.minted, total_mints |-> a.total_mints + b.total_mints,
     burned |-> a.burned + b.burned, total_burns |-> a.total_burns + b.total_burns,
     total_operations |-> a.total_operations + b.total_operations]

\* Mutant of InsertSupplyChanges: a conflict replaces the row by the changes.
InsertSupplyChangesReplaces(rows, changes, height) ==
    [x \in DOMAIN rows \cup {<<k, height>> : k \in DOMAIN changes} |->
        IF x[2] = height /\ x[1] \in DOMAIN changes THEN changes[x[1]] ELSE rows[x]]

\* Mutant of InsertSupplyChanges: a row of an earlier height is updated in place.
InsertSupplyChangesInPlace(rows, changes, height) ==
    [x \in DOMAIN rows \cup {<<k, height>> : k \in DOMAIN changes} |->
        IF x[1] \in DOMAIN changes
        THEN SupplyPlus(Latest(rows, x[1], NoSupply), changes[x[1]])
        ELSE rows[x]]

\* Add changes to the latest rows and write the sums at this height.
InsertSupplyChanges(rows, changes, height) ==
    [x \in DOMAIN rows \cup {<<k, height>> : k \in DOMAIN changes} |->
        IF x[2] = height /\ x[1] \in DOMAIN changes
        THEN SupplyPlus(Latest(rows, x[1], NoSupply), changes[x[1]])
        ELSE rows[x]]

InsertBalanceChanges(rows, changes, height, sign) ==
    [x \in DOMAIN rows \cup {<<k, height>> : k \in DOMAIN changes} |->
        IF x[2] = height /\ x[1] \in DOMAIN changes
        THEN LET previous == Latest(rows, x[1], NoBalance)
                 change   == changes[x[1]]
             IN  [balance |-> previous.balance + sign * change.balance,
                  total_operations |->
                      previous.total_operations + change.total_operations]
        ELSE rows[x]]

\* DbCache::flush, which leaves the cache empty.
Flush(d, rows, height) ==
    [runes    |-> InsertRunes(d.runes, rows.runes),
     supply   |-> InsertSupplyChanges(d.supply, rows.supply, height),
     ledger   |-> d.ledger \cup ToSet(rows.ledger),
     balances |-> InsertBalanceChanges(
                     InsertBalanceChanges(d.balances, rows.increases, height, 1),
                     rows.deductions, height, -1),
     last_scanned |-> d.last_scanned]

\* pg_roll_back_block: the four DELETEs; last_scanned_height stays.
WithoutHeight(rows, h) == Only(rows, {x \in DOMAIN rows : x[2] # h})

\* Mutant of RollBack: the ledger is forgotten.
RollBackKeepsLedger(d, h) ==
    [d EXCEPT !.runes    = {r \in @ : r.height # h},
              !.supply   = WithoutHeight(@, h),
              !.balances = WithoutHeight(@, h)]

RollBack(d, h) ==
    [d EXCEPT !.runes    = {r \in @ : r.height # h},
              !.ledger   = {e \in @ : e.height # h},
              !.supply   = WithoutHeight(@, h),
              !.balances = WithoutHeight(@, h)]

MaxRuneNumber(d) == Max({r.number : r \in d.runes})

BalanceOf(e) == [rune |-> e.rune, address |-> e.address, amount |-> e.amount]

\* The elements of S in the order of their keys.
InOrder(S, key) ==
    CHOOSE s \in Bijection(1..Cardinality(S), S) :
        \A i, j \in 1..Cardinality(S) : i < j => key[s[i]] <= key[s[j]]

BalancesOf(received) ==
    LET s == InOrder(received, [e \in received |-> e.event])
    IN  [i \in 1..Cardinality(received) |-> BalanceOf(s[i])]

\* Mutant of LedgerOutput: the entries of all outputs of the transaction.
LedgerOutputAny(entries, o) ==
    BalancesOf({e \in entries : e.op = "receive" /\ e.tx = o[1]})

\* The receive entries of an output. One output pays one address, so their
\* order, which the query leaves open, is taken as that of the events.
LedgerOutput(entries, o) ==
    BalancesOf({e \in entries : e.op = "receive" /\ e.tx = o[1] /\ e.output = o[2]})

-----------------------------------------------------------------------------
(* add_ledger_entries_to_db_cache, one operator per arm of its match *)

Supply(supply, rune) == IF rune \in DOMAIN supply THEN supply[rune] ELSE NoSupply

CountOperation(supply, rune) ==
    Plus(supply, rune, [Supply(supply, rune) EXCEPT !.total_operations = @ + 1])

CountMint(supply, rune, amount) ==
    Plus(supply, rune, [Supply(supply, rune) EXCEPT
        !.minted = @ + amount, !.total_mints = @ + 1, !.total_operations = @ + 1])

AddedAmounts(entries, Chosen(_)) ==
    MapThenSumSet(LAMBDA i : entries[i].amount,
                  {i \in DOMAIN entries : Chosen(entries[i])})

\* The arms of burn, send and receive, for a list of such entries.
CountMoves(supply, entries) ==
    [r \in DOMAIN supply \cup {entries[i].rune : i \in DOMAIN entries} |->
        LET of(op) == {i \in DOMAIN entries :
                          entries[i].rune = r /\ entries[i].op \in op}
        IN  [Supply(supply, r) EXCEPT
              !.burned = @ + MapThenSumSet(LAMBDA i : entries[i].amount, of({"burn"})),
              !.total_burns = @ + Cardinality(of({"burn"})),
              !.total_operations = @ + Cardinality(of({"burn", "send", "receive"}))]]

\* Mutant of ChangeBalances: the last entries replace what was pending.
ChangeBalancesReplaces(changes, entries, op) ==
    LET Key(e)  == <<e.rune, e.address>>
        touched == {Key(entries[i]) : i \in {j \in DOMAIN entries :
                       entries[j].op = op /\ entries[j].address # None}}
    IN  [k \in DOMAIN changes \cup touched |->
            IF k \notin touched THEN changes[k]
            ELSE [balance |-> AddedAmounts(entries, LAMBDA e : e.op = op /\ Key(e) = k),
                  total_operations |-> 1]]

\* and_modify adds to the balance alone: total_operations stays 1.
ChangeBalances(changes, entries, op) ==
    LET Key(e)  == <<e.rune, e.address>>
        touched == {Key(entries[i]) : i \in {j \in DOMAIN entries :
                       entries[j].op = op /\ entries[j].address # None}}
    IN  [k \in DOMAIN changes \cup touched |->
            [balance |-> (IF k \in DOMAIN changes THEN changes[k].balance ELSE 0)
                + AddedAmounts(entries, LAMBDA e : e.op = op /\ Key(e) = k),
             total_operations |-> 1]]

ReceiveOutputs(outputs, entries) ==
    LET received == {e \in ToSet(entries) : e.op = "receive"}
    IN  [k \in DOMAIN outputs \cup {<<e.tx, e.output>> : e \in received} |->
            (IF k \in DOMAIN outputs THEN outputs[k] ELSE <<>>)
                \o LedgerOutput(received, k)]

AddMoves(rows, entries) ==
    [rows EXCEPT !.ledger     = @ \o entries,
                 !.supply     = CountMoves(@, entries),
                 !.increases  = ChangeBalances(@, entries, "receive"),
                 !.deductions = ChangeBalances(@, entries, "send")]

AddMint(rows, entries) ==
    [rows EXCEPT !.ledger = @ \o entries,
                 !.supply = CountMint(@, entries[1].rune, entries[1].amount)]

AddEtching(rows, entries, rune) ==
    [rows EXCEPT !.runes  = Append(@, rune),
                 !.ledger = @ \o entries,
                 !.supply = CountOperation(@, entries[1].rune)]

-----------------------------------------------------------------------------
(* Lookups: what a handler may find, and whether it flushed on the way *)

\* The tables after a lookup: a flush writes all pending rows.
TablesAfter(flushed) == IF flushed THEN Flush(db_tx, db_cache, block.height) ELSE db_tx
RowsAfter(flushed) == IF flushed THEN NoRows ELSE db_cache

\* get_cached_rune_by_rune_id
FindRune(id) ==
    IF id = SelfId
    THEN {[rune |-> tx_cache.etching, cache |-> rune_cache, flushed |-> FALSE]}
    ELSE IF id \in DOMAIN rune_cache
    THEN {[rune |-> rune_cache[id], cache |-> rune_cache, flushed |-> FALSE]}
    ELSE LET rows == {r \in TablesAfter(TRUE).runes : r.id = id}
             row  == CHOOSE r \in rows : TRUE     \* id is the primary key
         IN  IF rows = {}
             THEN {[rune |-> None, cache |-> rune_cache, flushed |-> TRUE]}
             ELSE {[rune |-> row, cache |-> c, flushed |-> TRUE] :
                      c \in LruPut(rune_cache, id, row)}

TotalMints(d, id) == Latest(d.supply, id, NoSupply).total_mints

HasSupply(d, id) == \E x \in DOMAIN d.supply : x[1] = id

\* get_cached_rune_total_mints: 0:0 is looked up in the cache as the id of the
\* rune etched here, but in the table, and stored in the cache, as 0:0.
FindTotalMints(id) ==
    LET real == IF id = SelfId THEN RuneIdOf(tx_cache.location) ELSE id
        d    == TablesAfter(TRUE)
    IN  IF real \in DOMAIN rune_total_mints_cache
        THEN {[total |-> rune_total_mints_cache[real],
               cache |-> rune_total_mints_cache, flushed |-> FALSE]}
        ELSE IF ~HasSupply(d, id)
        THEN {[total |-> 0, cache |-> rune_total_mints_cache, flushed |-> TRUE]}
        ELSE {[total |-> TotalMints(d, id), cache |-> c, flushed |-> TRUE] :
                 c \in LruPut(rune_total_mints_cache, id, TotalMints(d, id))}

\* Mutant of CountedMint: the count starts again.
CountedMintRestarts(cache, id) == LruPut(cache, id, 1)

\* The count a valid mint leaves in the cache.
CountedMint(cache, id) ==
    LruPut(cache, id, IF id \in DOMAIN cache THEN cache[id] + 1 ELSE 1)

\* Mutant of FindOutput: the outputs of this block are left out.
FindOutputOfEarlierBlocks(o) ==
    IF o \in DOMAIN output_cache THEN output_cache[o]
    ELSE LedgerOutput(db_tx.ledger, o)

\* input_rune_balances_from_tx_inputs for one output: the outputs of this block,
\* then the LRU cache, then the table, without a flush.
FindOutput(o) ==
    IF o \in DOMAIN block_output_cache THEN block_output_cache[o]
    ELSE IF o \in DOMAIN output_cache THEN output_cache[o]
    ELSE LedgerOutput(db_tx.ledger, o)

Found(outpoints) == FoldLeft(LAMBDA acc, o : acc \o FindOutput(o), <<>>, outpoints)

InputRunes(outpoints) ==
    LET found == Found(outpoints)
        Of(r) == {i \in DOMAIN found : found[i].rune = r}
        at(r) == InOrder(Of(r), [i \in Of(r) |-> i])
    IN  [r \in RuneKeys |->
            [i \in 1..Cardinality(Of(r)) |->
                [address |-> found[at(r)[i]].address, amount |-> found[at(r)[i]].amount]]]

-----------------------------------------------------------------------------
(* The chain that is indexed *)

Mined == UNION {ToSet(chain[b]) : b \in DOMAIN chain}

OutpointsSpentBy(txs) == FlattenSeq([i \in DOMAIN txs |-> TxData[txs[i]].inputs])

\* Bitcoin's own rules: a transaction is mined once, after those whose outputs it
\* spends, and no output is spent twice.
ValidNext(txs) ==
    LET spent == OutpointsSpentBy(FlattenSeq(chain) \o txs)
    IN  /\ IsInjective(txs) /\ ToSet(txs) \cap Mined = {}
        /\ IsInjective(spent)
        /\ \A i \in DOMAIN txs : \A j \in DOMAIN TxData[txs[i]].inputs :
                TxData[txs[i]].inputs[j][1] \in Mined \cup {txs[k] : k \in 1..(i - 1)}

Tx == TxData[block.txs[pos]]
Artifact == Tx.artifact

Location == [height |-> block.height, index |-> pos, tx |-> block.txs[pos]]

NoBlock == [height |-> 0, txs |-> <<>>]

NoTransaction ==
    NewTransactionCache([height |-> 1, index |-> 0, tx |-> None],
                        [r \in RuneKeys |-> <<>>], <<>>, None, 0)

Init ==
    /\ db = EmptyDb
    /\ db_tx = db
    /\ db_cache = NoRows
    /\ next_rune_number = MaxRuneNumber(db) + 1
    /\ rune_cache = <<>>
    /\ rune_total_mints_cache = <<>>
    /\ output_cache = <<>>
    /\ block_output_cache = <<>>
    /\ tx_cache = NoTransaction
    /\ block = NoBlock
    /\ pos = 0
    /\ next_edict = 1
    /\ stage = "idle"
    /\ chain = <<>>
    /\ undo = <<>>
    /\ reorgs = 0

-----------------------------------------------------------------------------
(* index_block *)

BeginBlock ==
    /\ stage = "idle"
    /\ Len(chain) < MaxBlocks
    /\ \E txs \in SeqOf(Txs, MaxBlockTxs) :
        /\ txs # <<>>
        /\ ValidNext(txs)
        /\ block' = [height |-> StartHeight + Len(chain), txs |-> txs]
    /\ db_tx' = db
    /\ next_rune_number' = MaxRuneNumber(db) + 1
    /\ pos' = 0
    /\ stage' = "next"
    /\ UNCHANGED <<caches, block_output_cache, tx_cache, db_cache, db, next_edict, history>>

BeginTransaction ==
    /\ stage = "next"
    /\ pos < Len(block.txs)
    /\ pos' = pos + 1
    /\ LET tx == TxData[block.txs[pos + 1]]
       IN  /\ tx_cache' = NewTransactionCache(
                  [height |-> block.height, index |-> pos + 1, tx |-> block.txs[pos + 1]],
                  InputRunes(tx.inputs), tx.outputs,
                  IF DOMAIN tx.outputs = {} THEN None ELSE Min(DOMAIN tx.outputs),
                  tx.total)
           /\ stage' = IF tx.artifact.kind = "none" THEN "end" ELSE tx.artifact.kind
    /\ UNCHANGED <<next_rune_number, caches, block_output_cache, db_cache, db_tx, db,
                   block, next_edict, history>>

ApplyRunestone ==
    /\ stage = "runestone"
    /\ tx_cache' = IF Artifact.pointer = None THEN tx_cache
                   ELSE [tx_cache EXCEPT !.output_pointer = Artifact.pointer]
    /\ stage' = "etching"
    /\ UNCHANGED <<next_rune_number, caches, block_output_cache, db_cache, db_tx, db,
                   block, pos, next_edict, history>>

\* Mutant of RecordEtching: the next rune gets the same number.
RecordEtchingSameNumber(result) ==
    LET rune == result.tc.etching
    IN  /\ tx_cache' = result.tc
        /\ db_cache' = AddEtching(db_cache, result.entries, rune)
        /\ rune_cache' \in LruPut(rune_cache, rune.id, rune)
        /\ UNCHANGED next_rune_number

\* Mutant of RecordEtching: a rune already cached under the id stays there.
RecordEtchingOnce(result) ==
    LET rune == result.tc.etching
    IN  /\ tx_cache' = result.tc
        /\ db_cache' = AddEtching(db_cache, result.entries, rune)
        /\ IF rune.id \in DOMAIN rune_cache THEN UNCHANGED rune_cache
           ELSE rune_cache' \in LruPut(rune_cache, rune.id, rune)
        /\ next_rune_number' = next_rune_number + 1

\* The tail of both etching handlers, given the result of the transaction cache.
RecordEtching(result) ==
    LET rune == result.tc.etching
    IN  /\ tx_cache' = result.tc
        /\ db_cache' = AddEtching(db_cache, result.entries, rune)
        /\ rune_cache' \in LruPut(rune_cache, rune.id, rune)
        /\ next_rune_number' = next_rune_number + 1

NothingEtched ==
    /\ Artifact.etching = None
    /\ UNCHANGED <<tx_cache, db_cache, rune_cache, next_rune_number>>

Etching ==
    /\ stage = "etching"
    /\ stage' = "mint"
    /\ \/ NothingEtched
       \/ /\ Artifact.etching # None
          /\ RecordEtching(ApplyEtching(tx_cache, Artifact.etching, next_rune_number))
    /\ UNCHANGED <<rune_total_mints_cache, output_cache, block_output_cache,
                   db_tx, db, block, pos, next_edict, history>>

CenotaphEtching ==
    /\ stage = "cenotaph etching"
    /\ stage' = "cenotaph mint"
    /\ \/ NothingEtched
       \/ /\ Artifact.etching # None
          /\ RecordEtching(ApplyCenotaphEtching(tx_cache, Artifact.etching,
                                               next_rune_number))
    /\ UNCHANGED <<rune_total_mints_cache, output_cache, block_output_cache,
                   db_tx, db, block, pos, next_edict, history>>

\* apply_mint and apply_cenotaph_mint: find the rune, then how often it was
\* minted; if it can be minted write the entry and count the mint.
MintWith(Apply(_, _, _), Add(_, _)) ==
    \E found \in FindRune(Artifact.mint) :
        /\ rune_cache' = found.cache
        /\ IF found.rune = None
           THEN /\ db_tx' = TablesAfter(found.flushed)
                /\ db_cache' = RowsAfter(found.flushed)
                /\ UNCHANGED <<rune_total_mints_cache, tx_cache>>
           ELSE \E counted \in FindTotalMints(Artifact.mint) :
                LET flushed == found.flushed \/ counted.flushed
                    result  == Apply(tx_cache, Artifact.mint, found.rune)
                IN  /\ db_tx' = TablesAfter(flushed)
                    /\ IF IsRuneMintable(found.rune, counted.total, tx_cache.location)
                       THEN /\ tx_cache' = result.tc
                            /\ db_cache' = Add(RowsAfter(flushed), result.entries)
                            /\ rune_total_mints_cache' \in
                                   CountedMint(counted.cache, Artifact.mint)
                       ELSE /\ db_cache' = RowsAfter(flushed)
                            /\ rune_total_mints_cache' = counted.cache
                            /\ UNCHANGED tx_cache

NothingMinted ==
    /\ Artifact.mint = None
    /\ UNCHANGED <<tx_cache, db_cache, db_tx, rune_cache, rune_total_mints_cache>>

Mint ==
    /\ stage = "mint"
    /\ stage' = "edicts"
    /\ next_edict' = 1
    /\ \/ NothingMinted
       \/ Artifact.mint # None /\ MintWith(ApplyMint, AddMint)
    /\ UNCHANGED <<next_rune_number, output_cache, block_output_cache, db, block, pos,
                   history>>

CenotaphMint ==
    /\ stage = "cenotaph mint"
    /\ stage' = "end"
    /\ \/ NothingMinted
       \/ Artifact.mint # None /\ MintWith(ApplyCenotaphMint, AddMoves)
    /\ UNCHANGED <<next_rune_number, output_cache, block_output_cache, db, block, pos,
                   next_edict, history>>

\* Entries that move runes: of the transaction cache they change the input runes
\* and the event counter, nothing else.
RecordMoves(rows, result) ==
    /\ tx_cache' = [tx_cache EXCEPT
           !.input_runes      = result.tc.input_runes,
           !.next_event_index = result.tc.next_event_index]
    /\ db_cache' = AddMoves(rows, result.entries)
    /\ block_output_cache' = ReceiveOutputs(block_output_cache, result.entries)

Edict ==
    /\ stage = "edicts"
    /\ next_edict <= Len(Artifact.edicts)
    /\ next_edict' = next_edict + 1
    /\ \E found \in FindRune(Artifact.edicts[next_edict].id) :
        /\ rune_cache' = found.cache
        /\ db_tx' = TablesAfter(found.flushed)
        /\ IF found.rune = None
           THEN /\ db_cache' = RowsAfter(found.flushed)
                /\ UNCHANGED <<tx_cache, block_output_cache>>
           ELSE RecordMoves(RowsAfter(found.flushed),
                            ApplyEdict(tx_cache, Artifact.edicts[next_edict]))
    /\ UNCHANGED <<next_rune_number, rune_total_mints_cache, output_cache, db, block,
                   pos, stage, history>>

EdictsDone ==
    stage = "end" \/ (stage = "edicts" /\ next_edict > Len(Artifact.edicts))

ApplyCenotaph ==
    /\ stage = "cenotaph"
    /\ stage' = "cenotaph etching"
    /\ RecordMoves(db_cache, ApplyCenotaphInputBurn(tx_cache))
    /\ UNCHANGED <<next_rune_number, caches, db_tx, db, block, pos, next_edict, history>>

EndTransaction ==
    /\ EdictsDone
    /\ stage' = "next"
    /\ RecordMoves(db_cache, AllocateRemainingBalances(tx_cache))
    /\ UNCHANGED <<next_rune_number, caches, db_tx, db, block, pos, next_edict, history>>

\* After the last transaction: end_block, pg_update_block_height and the flush.
EndBlock ==
    /\ stage = "next"
    /\ pos = Len(block.txs)
    /\ stage' = "commit"
    /\ output_cache' \in MoveBlockOutputCache(block_output_cache, output_cache)
    /\ block_output_cache' = <<>>
    /\ db_tx' = [TablesAfter(TRUE) EXCEPT !.last_scanned = block.height]
    /\ db_cache' = NoRows
    /\ UNCHANGED <<next_rune_number, rune_cache, rune_total_mints_cache, tx_cache, db,
                   block, pos, next_edict, history>>

Commit ==
    /\ stage = "commit"
    /\ stage' = "idle"
    /\ db' = db_tx
    /\ chain' = Append(chain, block.txs)
    /\ undo' = Append(undo, db)
    /\ UNCHANGED <<next_rune_number, caches, block_output_cache, tx_cache, db_cache,
                   db_tx, block, pos, next_edict, reorgs>>

-----------------------------------------------------------------------------
(* Reorganisations and restarts *)

\* Mutant of RollBackBlock: the counts of the LRU cache start again from zero.
RollBackBlockZeroMints ==
    /\ stage = "idle"
    /\ chain # <<>>
    /\ reorgs < MaxReorgs
    /\ reorgs' = reorgs + 1
    /\ db' = RollBack(db, StartHeight + Len(chain) - 1)
    /\ db_tx' = db'
    /\ chain' = Front(chain)
    /\ undo' = Front(undo)
    /\ rune_total_mints_cache' = [r \in DOMAIN rune_total_mints_cache |-> 0]
    /\ UNCHANGED <<next_rune_number, rune_cache, output_cache, block_output_cache,
                   tx_cache, db_cache, block, pos, stage, next_edict>>

\* roll_back_block for the tip, in a Postgres transaction of its own. The caches
\* in memory are not told.
RollBackBlock ==
    /\ stage = "idle"
    /\ chain # <<>>
    /\ reorgs < MaxReorgs
    /\ reorgs' = reorgs + 1
    /\ db' = RollBack(db, StartHeight + Len(chain) - 1)
    /\ db_tx' = db'
    /\ chain' = Front(chain)
    /\ undo' = Front(undo)
    /\ UNCHANGED <<next_rune_number, caches, block_output_cache, tx_cache, db_cache,
                   block, pos, stage, next_edict>>

\* Mutant of Restart: each flush was committed on its own.
RestartAfterFlush ==
    /\ db' = db_tx
    /\ db_tx' = db'
    /\ db_cache' = NoRows
    /\ next_rune_number' = MaxRuneNumber(db') + 1
    /\ rune_cache' = <<>>
    /\ rune_total_mints_cache' = <<>>
    /\ output_cache' = <<>>
    /\ block_output_cache' = <<>>
    /\ tx_cache' = NoTransaction
    /\ block' = NoBlock
    /\ pos' = 0
    /\ stage' = "idle"
    /\ next_edict' = 1
    /\ UNCHANGED history

\* The process stops, at any step, and IndexCache::new starts from the tables.
Restart ==
    /\ db_tx' = db
    /\ db_cache' = NoRows
    /\ next_rune_number' = MaxRuneNumber(db) + 1
    /\ rune_cache' = <<>>
    /\ rune_total_mints_cache' = <<>>
    /\ output_cache' = <<>>
    /\ block_output_cache' = <<>>
    /\ tx_cache' = NoTransaction
    /\ block' = NoBlock
    /\ pos' = 0
    /\ stage' = "idle"
    /\ next_edict' = 1
    /\ UNCHANGED <<db, history>>

IndexBlock ==
    \/ BeginBlock \/ BeginTransaction
    \/ ApplyRunestone \/ Etching \/ Mint \/ Edict
    \/ ApplyCenotaph \/ CenotaphEtching \/ CenotaphMint
    \/ EndTransaction \/ EndBlock \/ Commit

\* A chain that only grows, and one that may be reorganised.
Forward == IndexBlock \/ Restart
Next == Forward \/ RollBackBlock

ForwardSpec == Init /\ [][Forward]_vars
Spec == Init /\ [][Next]_vars

-----------------------------------------------------------------------------
(* Properties *)

\* The tables as a flush and a commit at this moment would leave them.
Tables == IF stage = "idle" THEN db ELSE TablesAfter(TRUE)

Written == Tables.ledger

InBlock == stage # "idle"

\* The transactions indexed so far, the current one and its block included.
Indexed == Mined \cup (IF InBlock THEN {block.txs[i] : i \in 1..pos} ELSE {})

Stages == {"idle", "next", "runestone", "etching", "mint", "edicts", "cenotaph",
           "cenotaph etching", "cenotaph mint", "end", "commit"}

\* The type invariant: caches within their size, and nothing pending outside a
\* block.
TypeOK ==
    /\ stage \in Stages
    /\ pos \in 0..Len(block.txs)
    /\ Cardinality(DOMAIN rune_cache) <= LruSize
    /\ Cardinality(DOMAIN rune_total_mints_cache) <= LruSize
    /\ Cardinality(DOMAIN output_cache) <= LruSize
    /\ stage = "idle" => db_cache = NoRows /\ block_output_cache = <<>> /\ db_tx = db
    /\ GenesisRune \in db.runes

AmountIn(S) == MapThenSumSet(LAMBDA e : e.amount, S)

Entries(op, rune) == {e \in Written : e.op = op /\ e.rune = rune}

\* What an input of a transaction is found to hold, in the block's outputs, in
\* the LRU cache or in the table without a flush, is exactly what the ledger
\* says its output received, whatever was evicted, flushed or lost in between.
InputLookupExact ==
    \A t \in Indexed : \A v \in DOMAIN TxData[t].outputs :
        FindOutput(<<t, v>>) = LedgerOutput(Written, <<t, v>>)

\* The running totals of a rune, accumulated over several flushes of one block
\* and over blocks, are the sums over its ledger entries.
SupplyMatchesLedger ==
    \A r \in RuneKeys :
        LET s == Latest(Tables.supply, r, NoSupply)
        IN  /\ s.minted = AmountIn(Entries("mint", r))
            /\ s.total_mints = Cardinality(Entries("mint", r))
            /\ s.burned = AmountIn(Entries("burn", r))
            /\ s.total_burns = Cardinality(Entries("burn", r))
            /\ s.total_operations = Cardinality({e \in Written : e.rune = r})

Addresses == (UNION {{TxData[t].outputs[v] : v \in DOMAIN TxData[t].outputs} : t \in Txs})
             \ {None}

BalanceIn(rune, address) ==
    Latest(Tables.balances, <<rune, address>>, NoBalance).balance

\* The balance of an address is what it received less what it sent.
BalancesMatchLedger ==
    \A r \in RuneKeys, a \in Addresses :
        LET Of(op) == AmountIn({e \in Entries(op, r) : e.address = a})
        IN  BalanceIn(r, a) = Of("receive") - Of("send")

Unspent == {e \in Written : e.op = "receive" /\ \A t \in Indexed :
                \A i \in DOMAIN TxData[t].inputs :
                    TxData[t].inputs[i] # <<e.tx, e.output>>}

BetweenTransactions == stage \in {"idle", "next", "commit"}

TxAt(r) ==
    LET blocks == chain \o (IF InBlock THEN <<block.txs>> ELSE <<>>)
        b      == r[1] - StartHeight + 1
    IN  IF b \in DOMAIN blocks /\ r[2] \in DOMAIN blocks[b] THEN blocks[b][r[2]] ELSE None

Premine(r) ==
    LET t == TxAt(r)
    IN  IF t = None \/ TxData[t].artifact.kind # "runestone" THEN 0
        ELSE IF TxData[t].artifact.etching = None THEN 0
        ELSE IF TxData[t].artifact.etching.premine = None THEN 0
        ELSE TxData[t].artifact.etching.premine

\* Over the whole chain no rune unit is made up: what unspent outputs hold and
\* what was burned from inputs was minted or premined once.
OutputsBacked ==
    BetweenTransactions =>
        \A r \in RuneKeys :
            AmountIn({e \in Unspent : e.rune = r})
                + AmountIn({e \in Entries("burn", r) : e.address # None})
                <= Premine(r) + AmountIn(Entries("mint", r))

Etches(t) == TxData[t].artifact.kind # "none" /\ TxData[t].artifact.etching # None

\* Blocks are committed whole or not at all: after a stop at any step the tables
\* hold no entry of a transaction outside the chain and every etching inside it.
AllOrNothing ==
    /\ \A e \in db.ledger : e.tx \in Mined
    /\ \A t \in Mined : Etches(t) =>
           \E e \in db.ledger : e.op = "etching" /\ e.tx = t

\* Rolling back the last block leaves the rows the block found, however often it
\* was flushed and however its rows add to those of earlier blocks.
RollBackRestores ==
    chain # <<>> =>
        RollBack(db, StartHeight + Len(chain) - 1)
            = [Last(undo) EXCEPT !.last_scanned = db.last_scanned]

\* A rune found in the cache is the rune its row describes, cached before or
\* after the row was written, evicted and read back, or etched again at the same
\* place by another block.
RuneCacheCoherent ==
    \A r \in DOMAIN rune_cache : \A row \in Tables.runes :
        row.id = r => row = [rune_cache[r] EXCEPT !.cenotaph = FALSE]

\* Runes are numbered in the order of their etching, each number once; the
\* UNIQUE constraint on number would stop the indexer.
RuneNumbersOrdered ==
    \A a, b \in Tables.runes :
        a.number < b.number <=>
            (a.id[1] < b.id[1] \/ (a.id[1] = b.id[1] /\ a.id[2] < b.id[2]))

\* A cached mint count is never below the number of mints recorded.
CachedMintsCover ==
    \A r \in DOMAIN rune_total_mints_cache \ {SelfId} :
        rune_total_mints_cache[r] >= TotalMints(Tables, r)

\* The mints in a rune's supply rows, those of runestones that name its id, never
\* exceed its cap, however their count is split between rows not yet flushed, the
\* table and a cache that may drop it. The mints of cenotaphs and of 0:0 are in no
\* such row: EveryMintCapped counts them too.
RecordedMintsCapped ==
    \A row \in Tables.runes :
        row.terms.cap # None => TotalMints(Tables, row.id) <= row.terms.cap

-----------------------------------------------------------------------------
(* What the code does not keep: no run claims these *)

\* The ledger entries of every mint of a rune: those that name its id, that of 0:0
\* in the transaction that etches it, and those of cenotaphs, the only burns of a
\* balance without an address that get an entry.
MintsOf(r) ==
    Entries("mint", r)
        \cup {e \in Entries("mint", SelfId) : e.tx = TxAt(r)}
        \cup {e \in Entries("burn", r) : e.address = None}

\* No rune is minted more often than its cap ("Maximum number of mints allowed").
EveryMintCapped ==
    \A row \in Tables.runes :
        row.terms.cap # None => Cardinality(MintsOf(row.id)) <= row.terms.cap

\* "Update global balances": an address holds what its unspent outputs hold.
BalancesMatchOutputs ==
    BetweenTransactions =>
        \A r \in RuneKeys, a \in Addresses :
            BalanceIn(r, a) = AmountIn({e \in Unspent : e.rune = r /\ e.address = a})

\* Every operation of an address counts in its total_operations.
OperationsCounted ==
    BetweenTransactions =>
        \A r \in RuneKeys, a \in Addresses :
            Latest(Tables.balances, <<r, a>>, NoBalance).total_operations
                = Cardinality({e \in Entries("receive", r) \cup Entries("send", r) :
                                  e.address = a})
=============================================================================
