--------------------------- MODULE IndexCacheProofs ---------------------------
(***************************************************************************)
(* Theorems about IndexCache for every chain, every size of the LRU caches *)
(* and every number of reorganisations: what its caches hold, and what it  *)
(* counts: how often each rune was minted, in the table supply_changes, in *)
(* the rows pending for it and in the LRU cache of counts, and the number  *)
(* each rune is given.                                                     *)
(*                                                                         *)
(* What the folds of TransactionCache compute is not needed here: the      *)
(* proofs follow the rune rows, the caches and the column total_mints      *)
(* through the handlers, flushes, commits, reorganisations and restarts.   *)
(***************************************************************************)
EXTENDS IndexCache, TransactionCacheProofs

-----------------------------------------------------------------------------
(* The inductive invariant *)

IsRows(c) ==
    c = [runes |-> c.runes, ledger |-> c.ledger, supply |-> c.supply,
         increases |-> c.increases, deductions |-> c.deductions]

IsTables(d) ==
    d = [runes |-> d.runes, supply |-> d.supply, ledger |-> d.ledger,
         balances |-> d.balances, last_scanned |-> d.last_scanned]

\* The height of the next block, or of the one being indexed.
Height == StartHeight + Len(chain)

InTransaction == stage \notin {"idle", "next", "commit"}

\* The last transaction of this block that may have etched its rune already.
LastEtched ==
    IF stage \in {"runestone", "etching", "cenotaph", "cenotaph etching"}
    THEN pos - 1 ELSE pos

\* How far index_block has come, and the shape of what it works on.
Structure ==
    /\ stage \in Stages
    /\ chain \in Seq(Seq(Txs))
    /\ block.txs \in Seq(Txs)
    /\ pos \in 0..Len(block.txs)
    /\ InBlock => block.height = Height
    /\ InTransaction =>
           /\ pos # 0
           /\ IsTransaction(tx_cache)
           /\ tx_cache.location.height = Height
           /\ tx_cache.location.index = pos
    /\ IsRows(db_cache)
    /\ db_cache.runes \in Seq(ToSet(db_cache.runes))
    /\ IsTables(db_tx)
    /\ IsTables(db)
    /\ stage = "idle" => db_cache = NoRows /\ block_output_cache = <<>> /\ db_tx = db
    /\ stage = "commit" => db_cache = NoRows /\ block_output_cache = <<>>

Cleared(r) == [r EXCEPT !.cenotaph = FALSE]

\* The rows of runes, those not inserted yet included.
RawRows(d, c) == d.runes \cup {Cleared(c.runes[i]) : i \in DOMAIN c.runes}

RuneRows == RawRows(db_tx, db_cache)

\* The id of a row is the place of its etching, which has been reached.
Placed(r) ==
    /\ r.height \in Nat
    /\ r.height >= StartHeight
    /\ r.id = <<r.height, r.id[2]>>
    /\ r.id[2] \in Nat \ {0}
    /\ \/ r.height < Height
       \/ InBlock /\ r.height = Height /\ r.id[2] <= LastEtched

RowsPlaced == \A r \in RuneRows : r = GenesisRune \/ Placed(r)

RowsCleared == \A r \in RuneRows : Cleared(r) = r

RowsUnique == \A r, s \in RuneRows : r.id = s.id => r = s

\* The committed rows are seen by the open transaction, and lie below its block.
RowsCommitted ==
    /\ db.runes \subseteq db_tx.runes
    /\ \A r \in db.runes : r.height < Height
    /\ GenesisRune \in db.runes

Coherent(cache) ==
    \A k \in DOMAIN cache : \A r \in RuneRows : r.id = k => r = Cleared(cache[k])

CacheCoherent == Coherent(rune_cache)

RunesInv ==
    /\ RowsPlaced
    /\ RowsCleared
    /\ RowsUnique
    /\ RowsCommitted
    /\ CacheCoherent

Fits(cache) == IsFiniteSet(DOMAIN cache) /\ Cardinality(DOMAIN cache) <= LruSize

CachesFit ==
    /\ Fits(rune_cache)
    /\ Fits(rune_total_mints_cache)
    /\ Cardinality(DOMAIN output_cache) <= LruSize

IInv == Structure /\ RunesInv /\ CachesFit

-----------------------------------------------------------------------------
(* Lemmas about the operators *)

\* An appended row leaves the rows before it where they are.
LEMMA AppendRow ==
    ASSUME NEW s, NEW e, s \in Seq(ToSet(s))
    PROVE  /\ Append(s, e) \in Seq(ToSet(Append(s, e)))
           /\ DOMAIN Append(s, e) = DOMAIN s \cup {Len(s) + 1}
           /\ \A i \in DOMAIN s : Append(s, e)[i] = s[i]
           /\ Append(s, e)[Len(s) + 1] = e
<1>1. /\ Append(s, e) \in Seq(ToSet(s) \cup {e})
      /\ Len(Append(s, e)) = Len(s) + 1
      /\ \A i \in 1..Len(s) : Append(s, e)[i] = s[i]
      /\ Append(s, e)[Len(s) + 1] = e
  OBVIOUS
<1>2. /\ DOMAIN s = 1..Len(s)
      /\ DOMAIN Append(s, e) = 1..(Len(s) + 1)
  BY <1>1
<1>3. DOMAIN Append(s, e) = DOMAIN s \cup {Len(s) + 1}
  BY <1>2
<1>4. ToSet(Append(s, e)) = ToSet(s) \cup {e}
  BY <1>1, <1>2, <1>3 DEF ToSet
<1> QED
  BY <1>1, <1>2, <1>3, <1>4

\* Inserting rows into runes adds some of them and drops none.
LEMMA InsertedRunes ==
    ASSUME NEW rows, NEW new
    PROVE  /\ rows \subseteq InsertRunes(rows, new)
           /\ InsertRunes(rows, new)
                  \subseteq rows \cup {Cleared(new[i]) : i \in DOMAIN new}
  BY DEF InsertRunes, Cleared

\* A flush makes up no rune: the rows afterwards were rows or pending before.
LEMMA FlushedRunes ==
    ASSUME NEW d, NEW c, NEW h
    PROVE  /\ RawRows(Flush(d, c, h), NoRows) \subseteq RawRows(d, c)
           /\ Flush(d, c, h).runes \subseteq RawRows(d, c)
           /\ d.runes \subseteq Flush(d, c, h).runes
           /\ IsTables(Flush(d, c, h))
           /\ Flush(d, c, h).last_scanned = d.last_scanned
<1>1. Flush(d, c, h).runes = InsertRunes(d.runes, c.runes)
  BY DEF Flush
<1>2. DOMAIN NoRows.runes = {}
  BY DEF NoRows
<1>3. RawRows(Flush(d, c, h), NoRows) = Flush(d, c, h).runes
  BY <1>2 DEF RawRows
<1>4. IsTables(Flush(d, c, h)) /\ Flush(d, c, h).last_scanned = d.last_scanned
  BY DEF IsTables, Flush
<1> QED
  BY <1>1, <1>3, <1>4, InsertedRunes DEF RawRows

\* Putting a value into an LRU cache disturbs no other entry it keeps.
LEMMA PutEntries ==
    ASSUME NEW cache, NEW k, NEW v, NEW c \in LruPut(cache, k, v)
    PROVE  /\ k \in DOMAIN c
           /\ c[k] = v
           /\ \A x \in DOMAIN c : x # k => x \in DOMAIN cache /\ c[x] = cache[x]
<1>1. \/ c = Plus(cache, k, v)
      \/ \E x \in DOMAIN cache : c = Plus(Only(cache, DOMAIN cache \ {x}), k, v)
  BY DEF LruPut
<1>2. CASE c = Plus(cache, k, v)
  BY <1>2 DEF Plus
<1>3. ASSUME NEW x \in DOMAIN cache, c = Plus(Only(cache, DOMAIN cache \ {x}), k, v)
      PROVE  /\ k \in DOMAIN c
             /\ c[k] = v
             /\ \A y \in DOMAIN c : y # k => y \in DOMAIN cache /\ c[y] = cache[y]
  BY <1>3 DEF Plus, Only
<1> QED
  BY <1>1, <1>2, <1>3

\* An LRU cache never outgrows its size.
LEMMA PutFits ==
    ASSUME NEW cache, NEW k, NEW v, NEW c \in LruPut(cache, k, v),
           Fits(cache)
    PROVE  Fits(c)
<1> USE DEF Fits
<1>0. Cardinality(DOMAIN cache) \in Nat /\ LruSize \in Nat \ {0}
  BY FS_CardinalityType, SizesAssumption
<1>1. CASE k \in DOMAIN cache
  <2>1. DOMAIN c = DOMAIN cache
    BY <1>1 DEF LruPut, Plus
  <2> QED
    BY <2>1
<1>2. CASE k \notin DOMAIN cache /\ Cardinality(DOMAIN cache) < LruSize
  <2>1. DOMAIN c = DOMAIN cache \cup {k}
    BY <1>2 DEF LruPut, Plus
  <2>2. /\ IsFiniteSet(DOMAIN cache \cup {k})
        /\ Cardinality(DOMAIN cache \cup {k}) = Cardinality(DOMAIN cache) + 1
    BY <1>2, FS_AddElement
  <2> QED
    BY <1>0, <1>2, <2>1, <2>2
<1>3. CASE k \notin DOMAIN cache /\ ~(Cardinality(DOMAIN cache) < LruSize)
  <2>1. PICK x \in DOMAIN cache :
            c = Plus(Only(cache, DOMAIN cache \ {x}), k, v)
    BY <1>3 DEF LruPut
  <2>2. DOMAIN c = (DOMAIN cache \ {x}) \cup {k}
    BY <2>1 DEF Plus, Only
  <2>3. /\ IsFiniteSet(DOMAIN cache \ {x})
        /\ Cardinality(DOMAIN cache \ {x}) = Cardinality(DOMAIN cache) - 1
    BY FS_RemoveElement
  <2>4. k \notin DOMAIN cache \ {x}
    BY <1>3
  <2>5. /\ IsFiniteSet((DOMAIN cache \ {x}) \cup {k})
        /\ Cardinality((DOMAIN cache \ {x}) \cup {k})
               = Cardinality(DOMAIN cache \ {x}) + 1
    BY <2>3, <2>4, FS_AddElement
  <2> QED
    BY <1>0, <2>2, <2>3, <2>5
<1> QED
  BY <1>1, <1>2, <1>3

\* The outputs of a block fit into the LRU output cache.
LEMMA MovedOutputsFit ==
    ASSUME NEW outputs, NEW cache, NEW c \in MoveBlockOutputCache(outputs, cache)
    PROVE  Cardinality(DOMAIN c) <= LruSize
<1> DEFINE all == DOMAIN outputs \cup DOMAIN cache
<1>1. CASE Cardinality(all) <= LruSize
  <2>1. DOMAIN c = all
    BY <1>1 DEF MoveBlockOutputCache
  <2> QED
    BY <1>1, <2>1
<1>2. CASE ~(Cardinality(all) <= LruSize)
  <2>1. DOMAIN c \in kSubset(LruSize, all)
    BY <1>2 DEF MoveBlockOutputCache
  <2> QED
    BY <2>1, SizesAssumption DEF kSubset
<1> QED
  BY <1>1, <1>2

-----------------------------------------------------------------------------
(* Lookups keep the invariant *)

\* A lookup that flushes leaves no rune row that was not there.
LEMMA AfterLookup ==
    ASSUME Structure, NEW f \in BOOLEAN
    PROVE  /\ RawRows(TablesAfter(f), RowsAfter(f)) \subseteq RuneRows
           /\ TablesAfter(f).runes \subseteq RuneRows
           /\ db_tx.runes \subseteq TablesAfter(f).runes
           /\ IsTables(TablesAfter(f))
           /\ IsRows(RowsAfter(f))
           /\ RowsAfter(f).runes \in Seq(ToSet(RowsAfter(f).runes))
<1>1. CASE f
  <2>1. TablesAfter(f) = Flush(db_tx, db_cache, block.height) /\ RowsAfter(f) = NoRows
    BY <1>1 DEF TablesAfter, RowsAfter
  <2>2. IsRows(NoRows) /\ NoRows.runes \in Seq(ToSet(NoRows.runes))
    BY DEF IsRows, NoRows
  <2> QED
    BY <2>1, <2>2, FlushedRunes DEF RuneRows
<1>2. CASE ~f
  <2>1. TablesAfter(f) = db_tx /\ RowsAfter(f) = db_cache
    BY <1>2 DEF TablesAfter, RowsAfter
  <2> QED
    BY <2>1 DEF Structure, RuneRows, RawRows
<1> QED
  BY <1>1, <1>2

\* A rune that is looked up leaves the cache coherent and within its size.
LEMMA FoundRune ==
    ASSUME IInv, NEW id, NEW found \in FindRune(id)
    PROVE  /\ found.flushed \in BOOLEAN
           /\ Coherent(found.cache)
           /\ Fits(found.cache)
<1> DEFINE rows == {r \in TablesAfter(TRUE).runes : r.id = id}
           row  == CHOOSE r \in rows : TRUE
<1>0. /\ Structure /\ RowsUnique /\ RowsCleared
      /\ Coherent(rune_cache) /\ Fits(rune_cache)
  BY DEF IInv, RunesInv, CachesFit, CacheCoherent
<1>1. \/ found.cache = rune_cache /\ found.flushed \in BOOLEAN
      \/ /\ rows # {}
         /\ found.cache \in LruPut(rune_cache, id, row)
         /\ found.flushed = TRUE
  <2>1. CASE id = SelfId \/ id \in DOMAIN rune_cache \/ rows = {}
    <3>1. \/ \E x : found = [rune |-> x, cache |-> rune_cache, flushed |-> FALSE]
          \/ found = [rune |-> None, cache |-> rune_cache, flushed |-> TRUE]
      BY <2>1 DEF FindRune
    <3>2. CASE found = [rune |-> None, cache |-> rune_cache, flushed |-> TRUE]
      BY <3>2, Zenon
    <3>3. ASSUME NEW x, found = [rune |-> x, cache |-> rune_cache, flushed |-> FALSE]
          PROVE  found.cache = rune_cache /\ found.flushed \in BOOLEAN
      BY <3>3, Zenon
    <3> QED
      BY <3>1, <3>2, <3>3
  <2>2. CASE id # SelfId /\ id \notin DOMAIN rune_cache /\ rows # {}
    <3>1. FindRune(id) = {[rune |-> row, cache |-> c, flushed |-> TRUE] :
                             c \in LruPut(rune_cache, id, row)}
      BY <2>2 DEF FindRune
    <3>2. PICK c \in LruPut(rune_cache, id, row) :
              found = [rune |-> row, cache |-> c, flushed |-> TRUE]
      BY <3>1
    <3> QED
      BY <2>2, <3>2
  <2> QED
    BY <2>1, <2>2
<1>2. rows # {} => row \in TablesAfter(TRUE).runes /\ row.id = id
  OBVIOUS
<1> HIDE DEF rows, row
<1>3. CASE found.cache = rune_cache /\ found.flushed \in BOOLEAN
  BY <1>0, <1>3
<1>4. CASE /\ rows # {}
           /\ found.cache \in LruPut(rune_cache, id, row)
           /\ found.flushed = TRUE
  <2>1. row \in RuneRows /\ row.id = id
    BY <1>0, <1>2, <1>4, AfterLookup
  <2>2. /\ id \in DOMAIN found.cache
        /\ found.cache[id] = row
        /\ \A x \in DOMAIN found.cache :
               x # id => x \in DOMAIN rune_cache /\ found.cache[x] = rune_cache[x]
    BY <1>4, PutEntries
  <2>3. ASSUME NEW k \in DOMAIN found.cache, NEW r \in RuneRows, r.id = k
        PROVE  r = Cleared(found.cache[k])
    <3>1. CASE k = id
      BY <1>0, <2>1, <2>2, <2>3, <3>1 DEF RowsUnique, RowsCleared
    <3>2. CASE k # id
      BY <1>0, <2>2, <2>3, <3>2 DEF Coherent
    <3> QED
      BY <3>1, <3>2
  <2>4. Coherent(found.cache)
    BY <2>3 DEF Coherent
  <2>5. Fits(found.cache)
    BY <1>0, <1>4, PutFits
  <2> QED
    BY <1>4, <2>4, <2>5
<1> QED
  BY <1>1, <1>3, <1>4

\* A mint count that is looked up leaves its cache within its size.
LEMMA FoundTotal ==
    ASSUME CachesFit, NEW id, NEW counted \in FindTotalMints(id)
    PROVE  counted.flushed \in BOOLEAN /\ Fits(counted.cache)
<1> DEFINE real  == IF id = SelfId THEN RuneIdOf(tx_cache.location) ELSE id
           total == TotalMints(TablesAfter(TRUE), id)
<1>1. /\ counted.flushed \in BOOLEAN
      /\ \/ counted.cache = rune_total_mints_cache
         \/ counted.cache \in LruPut(rune_total_mints_cache, id, total)
  <2>1. CASE real \in DOMAIN rune_total_mints_cache
    <3>1. counted = [total |-> rune_total_mints_cache[real],
                     cache |-> rune_total_mints_cache, flushed |-> FALSE]
      BY <2>1 DEF FindTotalMints
    <3>2. counted.cache = rune_total_mints_cache
      BY <3>1
    <3>3. counted.flushed \in BOOLEAN
      BY <3>1, Zenon
    <3> QED
      BY <3>2, <3>3
  <2>2. CASE real \notin DOMAIN rune_total_mints_cache /\ ~HasSupply(TablesAfter(TRUE), id)
    <3>1. counted = [total |-> 0, cache |-> rune_total_mints_cache, flushed |-> TRUE]
      BY <2>2 DEF FindTotalMints
    <3>2. counted.cache = rune_total_mints_cache
      BY <3>1
    <3>3. counted.flushed \in BOOLEAN
      BY <3>1, Zenon
    <3> QED
      BY <3>2, <3>3
  <2>3. CASE real \notin DOMAIN rune_total_mints_cache /\ HasSupply(TablesAfter(TRUE), id)
    <3>1. PICK c \in LruPut(rune_total_mints_cache, id, total) :
              counted = [total |-> total, cache |-> c, flushed |-> TRUE]
      BY <2>3 DEF FindTotalMints
    <3> QED
      BY <3>1
  <2> QED
    BY <2>1, <2>2, <2>3
<1> HIDE DEF total
<1> QED
  BY <1>1, PutFits DEF CachesFit

-----------------------------------------------------------------------------
(* What the parts of a step keep *)

\* Writing a field of the pending rows leaves the rune rows alone.
LEMMA RowsFields ==
    ASSUME NEW c, IsRows(c), NEW v
    PROVE  /\ IsRows([c EXCEPT !.ledger = v]) /\ [c EXCEPT !.ledger = v].runes = c.runes
           /\ IsRows([c EXCEPT !.supply = v]) /\ [c EXCEPT !.supply = v].runes = c.runes
           /\ IsRows([c EXCEPT !.increases = v])
           /\ [c EXCEPT !.increases = v].runes = c.runes
           /\ IsRows([c EXCEPT !.deductions = v])
           /\ [c EXCEPT !.deductions = v].runes = c.runes
  BY DEF IsRows

\* Adding rows for a mint or a move leaves the pending rune rows alone.
LEMMA AddedRows ==
    ASSUME NEW rows, IsRows(rows), NEW entries
    PROVE  /\ IsRows(AddMint(rows, entries)) /\ AddMint(rows, entries).runes = rows.runes
           /\ IsRows(AddMoves(rows, entries)) /\ AddMoves(rows, entries).runes = rows.runes
<1> DEFINE r1 == [rows EXCEPT !.ledger = @ \o entries]
<1>1. IsRows(r1) /\ r1.runes = rows.runes
  BY RowsFields
<1>2. IsRows(AddMint(rows, entries)) /\ AddMint(rows, entries).runes = rows.runes
  <2> DEFINE supply == CountMint(rows.supply, entries[1].rune, entries[1].amount)
             r2     == [r1 EXCEPT !.supply = supply]
  <2>1. AddMint(rows, entries) = r2
    BY Zenon DEF AddMint
  <2> HIDE DEF r1, supply
  <2>2. IsRows(r2) /\ r2.runes = r1.runes
    BY <1>1, RowsFields
  <2> HIDE DEF r2
  <2> QED
    BY <1>1, <2>1, <2>2
<1>3. IsRows(AddMoves(rows, entries)) /\ AddMoves(rows, entries).runes = rows.runes
  <2> DEFINE supply     == CountMoves(rows.supply, entries)
             increases  == ChangeBalances(rows.increases, entries, "receive")
             deductions == ChangeBalances(rows.deductions, entries, "send")
             r2         == [r1 EXCEPT !.supply = supply]
             r3         == [r2 EXCEPT !.increases = increases]
             r4         == [r3 EXCEPT !.deductions = deductions]
  <2>1. AddMoves(rows, entries) = r4
    BY Zenon DEF AddMoves
  <2> HIDE DEF r1, supply, increases, deductions
  <2>2. IsRows(r2) /\ r2.runes = r1.runes
    BY <1>1, RowsFields
  <2> HIDE DEF r2
  <2>3. IsRows(r3) /\ r3.runes = r2.runes
    BY <2>2, RowsFields
  <2> HIDE DEF r3
  <2>4. IsRows(r4) /\ r4.runes = r3.runes
    BY <2>3, RowsFields
  <2> HIDE DEF r4
  <2> QED
    BY <1>1, <2>1, <2>2, <2>3, <2>4
<1> QED
  BY <1>2, <1>3

\* Moving runes inside a transaction touches neither the rune rows nor where
\* the transaction is.
LEMMA MovesKeep ==
    ASSUME NEW rows, NEW result, IsRows(rows), IsTransaction(tx_cache),
           RecordMoves(rows, result)
    PROVE  /\ IsRows(db_cache')
           /\ db_cache'.runes = rows.runes
           /\ IsTransaction(tx_cache')
           /\ tx_cache'.location = tx_cache.location
<1>1. IsRows(db_cache') /\ db_cache'.runes = rows.runes
  BY AddedRows DEF RecordMoves
<1>2. IsTransaction(tx_cache') /\ tx_cache'.location = tx_cache.location
  <2> DEFINE moved == [tx_cache EXCEPT !.input_runes = result.tc.input_runes]
  <2>1. IsTransaction(moved) /\ moved.location = tx_cache.location
    BY TransactionFields, ZenonT(30)
  <2>2. tx_cache' = [moved EXCEPT !.next_event_index = result.tc.next_event_index]
    BY Zenon DEF RecordMoves
  <2> HIDE DEF moved
  <2> QED
    BY <2>1, <2>2, TransactionFields, ZenonT(30)
<1> QED
  BY <1>1, <1>2

\* A step of index_block that adds no rune row keeps the invariant on them.
LEMMA RowsKept ==
    ASSUME Structure, RunesInv,
           RuneRows' \subseteq RuneRows,
           db.runes \subseteq db_tx'.runes,
           Coherent(rune_cache'),
           db' = db, chain' = chain, InBlock', pos' \in Nat,
           InBlock => LastEtched' >= LastEtched
    PROVE  RunesInv'
<1> USE DEF RunesInv
<1>1. Height' = Height /\ Height \in Nat
  BY SizesAssumption DEF Height, Structure
<1>2. LastEtched \in Int /\ LastEtched' \in Int
  <2>1. block.txs \in Seq(Txs) /\ pos \in 0..Len(block.txs)
    BY DEF Structure
  <2>2. pos \in Int /\ pos' \in Int
    BY <2>1
  <2>3. pos - 1 \in Int /\ pos' - 1 \in Int
    BY <2>2
  <2>4. LastEtched = pos \/ LastEtched = pos - 1
    BY DEF LastEtched
  <2>5. LastEtched' = pos' \/ LastEtched' = pos' - 1
    BY DEF LastEtched
  <2> QED
    BY <2>2, <2>3, <2>4, <2>5
<1>3. RowsPlaced'
  <2>1. SUFFICES ASSUME NEW r \in RuneRows', r # GenesisRune
                 PROVE  Placed(r)'
    BY DEF RowsPlaced
  <2>2. Placed(r)
    BY <2>1 DEF RowsPlaced
  <2>3. /\ r.height \in Nat
        /\ r.height >= StartHeight
        /\ r.id = <<r.height, r.id[2]>>
        /\ r.id[2] \in Nat \ {0}
        /\ \/ r.height < Height
           \/ InBlock /\ r.height = Height /\ r.id[2] <= LastEtched
    BY <2>2 DEF Placed
  <2>4. InBlock /\ r.id[2] <= LastEtched => r.id[2] <= LastEtched'
    BY <1>2, <2>3
  <2> QED
    BY <1>1, <2>3, <2>4 DEF Placed
<1>4. RowsCleared' /\ RowsUnique' /\ CacheCoherent'
  BY DEF RowsCleared, RowsUnique, CacheCoherent, Coherent
<1>5. RowsCommitted'
  BY <1>1 DEF RowsCommitted
<1> QED
  BY <1>3, <1>4, <1>5

\* A step that at most flushes keeps the rune rows, and the shape of the tables.
LEMMA LookupKeeps ==
    ASSUME Structure, RunesInv, NEW f \in BOOLEAN,
           db_tx' = TablesAfter(f), db_cache'.runes = RowsAfter(f).runes
    PROVE  /\ RuneRows' \subseteq RuneRows
           /\ db.runes \subseteq db_tx'.runes
           /\ IsTables(db_tx')
           /\ db_cache'.runes \in Seq(ToSet(db_cache'.runes))
<1>1. RuneRows' = RawRows(TablesAfter(f), RowsAfter(f))
  BY DEF RuneRows, RawRows
<1>2. db.runes \subseteq db_tx.runes
  BY DEF RunesInv, RowsCommitted
<1> QED
  BY <1>1, <1>2, AfterLookup

\* The shape of a step inside a transaction.
WithinTransaction ==
    /\ stage' \in Stages \ {"idle", "commit"}
    /\ UNCHANGED <<db, block, pos, output_cache, chain>>
    /\ LastEtched' >= LastEtched
    /\ IsTransaction(tx_cache')
    /\ tx_cache'.location = tx_cache.location

\* A step inside a transaction that adds no rune row keeps the invariant.
LEMMA TransactionStep ==
    ASSUME IInv, InTransaction, WithinTransaction, NEW f \in BOOLEAN,
           db_tx' = TablesAfter(f),
           IsRows(db_cache'), db_cache'.runes = RowsAfter(f).runes,
           Coherent(rune_cache'), Fits(rune_cache'), Fits(rune_total_mints_cache')
    PROVE  IInv'
<1>1. Structure /\ RunesInv /\ CachesFit
  BY DEF IInv
<1>2. InBlock /\ InBlock' /\ pos' \in Nat
  <2>1. block.txs \in Seq(Txs) /\ pos \in 0..Len(block.txs) /\ pos' = pos
    BY <1>1 DEF Structure, WithinTransaction
  <2> QED
    BY <2>1 DEF InBlock, InTransaction, WithinTransaction
<1>3. /\ RuneRows' \subseteq RuneRows
      /\ db.runes \subseteq db_tx'.runes
      /\ IsTables(db_tx')
      /\ db_cache'.runes \in Seq(ToSet(db_cache'.runes))
  BY <1>1, LookupKeeps
<1>4. RunesInv'
  BY <1>1, <1>2, <1>3, RowsKept DEF WithinTransaction
<1>5. Structure'
  <2>1. Height' = Height
    BY DEF Height, WithinTransaction
  <2>2. /\ stage' \in Stages
        /\ chain' \in Seq(Seq(Txs))
        /\ block'.txs \in Seq(Txs)
        /\ pos' \in 0..Len(block'.txs)
        /\ block'.height = Height
        /\ IsTables(db')
    BY <1>1, <1>2 DEF Structure, WithinTransaction
  <2>3. /\ pos' # 0
        /\ tx_cache'.location.height = Height
        /\ tx_cache'.location.index = pos'
    BY <1>1 DEF Structure, WithinTransaction
  <2>4. stage' # "idle" /\ stage' # "commit"
    BY DEF WithinTransaction
  <2>5. IsTransaction(tx_cache')
    BY DEF WithinTransaction
  <2> QED
    BY <1>3, <2>1, <2>2, <2>3, <2>4, <2>5 DEF Structure, IsRows, IsTables, IsTransaction
<1>6. CachesFit'
  BY <1>1 DEF CachesFit, Fits, WithinTransaction
<1> QED
  BY <1>4, <1>5, <1>6 DEF IInv

-----------------------------------------------------------------------------
(* The handlers inside a transaction *)

\* Transactions are counted.
LEMMA PosNat == ASSUME Structure PROVE pos \in Nat
<1>1. block.txs \in Seq(Txs) /\ pos \in 0..Len(block.txs)
  BY DEF Structure
<1> QED
  BY <1>1

\* Either both are a count, or the first is one before it.
LEMMA OneBefore ==
    ASSUME NEW p \in Nat, NEW a, NEW b,
           a = p \/ a = p - 1,
           b = p \/ (b = p - 1 /\ a = p - 1)
    PROVE  b >= a
  OBVIOUS

\* No handler goes back before the etching of its transaction.
LEMMA StagesAdvance ==
    ASSUME Structure, pos' = pos,
           stage' \in Stages \ {"runestone", "cenotaph"},
           stage' \in {"etching", "cenotaph etching"} => stage \in {"runestone", "cenotaph"}
    PROVE  LastEtched' >= LastEtched
<1>1. pos \in Nat
  BY PosNat
<1>2. LastEtched' = pos \/ (LastEtched' = pos - 1 /\ LastEtched = pos - 1)
  BY DEF LastEtched
<1>3. LastEtched = pos \/ LastEtched = pos - 1
  BY DEF LastEtched
<1> QED
  BY <1>1, <1>2, <1>3, OneBefore, Zenon

\* The runestone's pointer is part of no row.
LEMMA ApplyRunestoneInv == IInv /\ ApplyRunestone => IInv'
<1> SUFFICES ASSUME IInv, ApplyRunestone
             PROVE  IInv'
  OBVIOUS
<1>1. Structure /\ RunesInv /\ CachesFit /\ InTransaction
  BY DEF IInv, ApplyRunestone, InTransaction
<1>2. IsTransaction(tx_cache) /\ IsRows(db_cache)
  BY <1>1 DEF Structure
<1> DEFINE pointed == [tx_cache EXCEPT !.output_pointer = Artifact.pointer]
<1>0. /\ stage = "runestone" /\ stage' = "etching"
      /\ tx_cache' = tx_cache \/ tx_cache' = pointed
      /\ UNCHANGED <<next_rune_number, caches, block_output_cache, db_cache, db_tx, db,
                     block, pos, next_edict, history>>
  <2>1. Artifact.pointer = None \/ Artifact.pointer # None
    OBVIOUS
  <2> QED
    BY <2>1, Zenon DEF ApplyRunestone
<1>p. IsTransaction(pointed) /\ pointed.location = tx_cache.location
  BY <1>2, TransactionFields
<1> HIDE DEF pointed
<1>3. IsTransaction(tx_cache') /\ tx_cache'.location = tx_cache.location
  BY <1>0, <1>2, <1>p
<1>4. WithinTransaction
  BY <1>0, <1>1, <1>3, StagesAdvance DEF WithinTransaction, Stages, caches, history
<1>5. /\ db_tx' = TablesAfter(FALSE)
      /\ IsRows(db_cache') /\ db_cache'.runes = RowsAfter(FALSE).runes
      /\ Coherent(rune_cache') /\ Fits(rune_cache') /\ Fits(rune_total_mints_cache')
  BY <1>0, <1>1, <1>2 DEF TablesAfter, RowsAfter, RunesInv, CacheCoherent,
                   CachesFit, caches
<1> QED
  BY <1>1, <1>4, <1>5, TransactionStep

\* Burning the inputs of a cenotaph adds ledger and supply rows alone.
LEMMA ApplyCenotaphInv == IInv /\ ApplyCenotaph => IInv'
<1> SUFFICES ASSUME IInv, ApplyCenotaph
             PROVE  IInv'
  OBVIOUS
<1>1. Structure /\ RunesInv /\ CachesFit /\ InTransaction
  BY DEF IInv, ApplyCenotaph, InTransaction
<1>2. IsTransaction(tx_cache) /\ IsRows(db_cache)
  BY <1>1 DEF Structure
<1>3. /\ IsRows(db_cache') /\ db_cache'.runes = db_cache.runes
      /\ IsTransaction(tx_cache') /\ tx_cache'.location = tx_cache.location
  BY <1>2, MovesKeep DEF ApplyCenotaph
<1>4. WithinTransaction
  BY <1>1, <1>3, StagesAdvance DEF WithinTransaction, ApplyCenotaph, Stages, caches, history
<1>5. /\ db_tx' = TablesAfter(FALSE)
      /\ db_cache'.runes = RowsAfter(FALSE).runes
      /\ Coherent(rune_cache') /\ Fits(rune_cache') /\ Fits(rune_total_mints_cache')
  BY <1>1, <1>3 DEF ApplyCenotaph, TablesAfter, RowsAfter, RunesInv, CacheCoherent,
                   CachesFit, caches
<1> QED
  BY <1>1, <1>3, <1>4, <1>5, TransactionStep

\* So does allocating what is left over.
LEMMA EndTransactionInv == IInv /\ EndTransaction => IInv'
<1> SUFFICES ASSUME IInv, EndTransaction
             PROVE  IInv'
  OBVIOUS
<1>1. Structure /\ RunesInv /\ CachesFit /\ InTransaction
  BY DEF IInv, EndTransaction, EdictsDone, InTransaction
<1>2. IsTransaction(tx_cache) /\ IsRows(db_cache)
  BY <1>1 DEF Structure
<1>3. /\ IsRows(db_cache') /\ db_cache'.runes = db_cache.runes
      /\ IsTransaction(tx_cache') /\ tx_cache'.location = tx_cache.location
  BY <1>2, MovesKeep DEF EndTransaction
<1>4. WithinTransaction
  BY <1>1, <1>3, StagesAdvance DEF WithinTransaction, EndTransaction, Stages, caches, history
<1>5. /\ db_tx' = TablesAfter(FALSE)
      /\ db_cache'.runes = RowsAfter(FALSE).runes
      /\ Coherent(rune_cache') /\ Fits(rune_cache') /\ Fits(rune_total_mints_cache')
  BY <1>1, <1>3 DEF EndTransaction, TablesAfter, RowsAfter, RunesInv, CacheCoherent,
                   CachesFit, caches
<1> QED
  BY <1>1, <1>3, <1>4, <1>5, TransactionStep

\* An edict looks its rune up, which may flush, and adds rows as a move does.
LEMMA EdictInv == IInv /\ Edict => IInv'
<1> SUFFICES ASSUME IInv, Edict
             PROVE  IInv'
  OBVIOUS
<1>1. Structure /\ RunesInv /\ CachesFit /\ InTransaction
  BY DEF IInv, Edict, InTransaction
<1>2. IsTransaction(tx_cache)
  BY <1>1 DEF Structure
<1>3. PICK found \in FindRune(Artifact.edicts[next_edict].id) :
          /\ rune_cache' = found.cache
          /\ db_tx' = TablesAfter(found.flushed)
          /\ \/ /\ db_cache' = RowsAfter(found.flushed)
                /\ UNCHANGED <<tx_cache, block_output_cache>>
             \/ RecordMoves(RowsAfter(found.flushed),
                            ApplyEdict(tx_cache, Artifact.edicts[next_edict]))
  BY Zenon DEF Edict
<1>4. found.flushed \in BOOLEAN /\ Coherent(rune_cache') /\ Fits(rune_cache')
  BY <1>3, FoundRune
<1>5. IsRows(RowsAfter(found.flushed))
  BY <1>1, <1>4, AfterLookup
<1>6. /\ IsRows(db_cache') /\ db_cache'.runes = RowsAfter(found.flushed).runes
      /\ IsTransaction(tx_cache') /\ tx_cache'.location = tx_cache.location
  BY <1>2, <1>3, <1>5, MovesKeep
<1>7. WithinTransaction
  BY <1>1, <1>6, StagesAdvance DEF WithinTransaction, Edict, Stages, history
<1>8. Fits(rune_total_mints_cache')
  BY <1>1 DEF CachesFit, Edict, Fits
<1> QED
  BY <1>1, <1>3, <1>4, <1>6, <1>7, <1>8, TransactionStep

\* One entry leaves the transaction where it is.
LEMMA OneEntryKeeps ==
    ASSUME NEW tc, IsTransaction(tc), NEW rune, NEW amount, NEW op
    PROVE  /\ IsTransaction(OneEntry(tc, rune, amount, op).tc)
           /\ OneEntry(tc, rune, amount, op).tc.location = tc.location
           /\ OneEntry(tc, rune, amount, op).tc.etching = tc.etching
<1> DEFINE counted == [tc EXCEPT !.next_event_index = @ + 1]
<1>1. OneEntry(tc, rune, amount, op).tc = counted
  BY Zenon DEF OneEntry
<1>2. /\ IsTransaction(counted)
      /\ counted.location = tc.location
      /\ counted.etching = tc.etching
  BY TransactionFields
<1> HIDE DEF counted
<1> QED
  BY <1>1, <1>2

\* So do the runes of a premine or a mint.
LEMMA AddInputRunesKeeps ==
    ASSUME NEW tc, IsTransaction(tc), NEW rune, NEW amount
    PROVE  /\ IsTransaction(AddInputRunes(tc, rune, amount))
           /\ AddInputRunes(tc, rune, amount).location = tc.location
           /\ AddInputRunes(tc, rune, amount).etching = tc.etching
<1>1. PICK v : AddInputRunes(tc, rune, amount) = [tc EXCEPT !.input_runes = v]
  BY DEF AddInputRunes
<1> DEFINE added == [tc EXCEPT !.input_runes = v]
<1>2. /\ IsTransaction(added)
      /\ added.location = tc.location
      /\ added.etching = tc.etching
  BY TransactionFields
<1>3. AddInputRunes(tc, rune, amount) = added
  BY <1>1
<1> HIDE DEF added
<1> QED
  BY <1>2, <1>3

\* A mint of either kind leaves the transaction where it is.
LEMMA MintKeeps ==
    ASSUME NEW tc, IsTransaction(tc), NEW id, NEW rune
    PROVE  /\ IsTransaction(ApplyMint(tc, id, rune).tc)
           /\ ApplyMint(tc, id, rune).tc.location = tc.location
           /\ IsTransaction(ApplyCenotaphMint(tc, id, rune).tc)
           /\ ApplyCenotaphMint(tc, id, rune).tc.location = tc.location
  BY AddInputRunesKeeps, OneEntryKeeps DEF ApplyMint, ApplyCenotaphMint

\* What a mint of either kind does to the state, whether it succeeds or not.
Minted ==
    \/ NothingMinted
    \/ \E found \in FindRune(Artifact.mint) :
          /\ rune_cache' = found.cache
          /\ \/ /\ db_tx' = TablesAfter(found.flushed)
                /\ db_cache' = RowsAfter(found.flushed)
                /\ UNCHANGED <<rune_total_mints_cache, tx_cache>>
             \/ \E counted \in FindTotalMints(Artifact.mint) :
                LET flushed == found.flushed \/ counted.flushed
                IN  /\ db_tx' = TablesAfter(flushed)
                    /\ \/ /\ db_cache' = RowsAfter(flushed)
                          /\ rune_total_mints_cache' = counted.cache
                          /\ UNCHANGED tx_cache
                       \/ /\ \/ /\ tx_cache' = ApplyMint(tx_cache, Artifact.mint,
                                                       found.rune).tc
                                /\ \E e : db_cache' = AddMint(RowsAfter(flushed), e)
                             \/ /\ tx_cache' = ApplyCenotaphMint(tx_cache,
                                                  Artifact.mint, found.rune).tc
                                /\ \E e : db_cache' = AddMoves(RowsAfter(flushed), e)
                          /\ rune_total_mints_cache' \in
                                 CountedMint(counted.cache, Artifact.mint)

\* Both mint handlers are such steps.
LEMMA MintIsMinted == (Mint \/ CenotaphMint) => Minted
<1>1. ASSUME MintWith(ApplyMint, AddMint)
      PROVE  Minted
  BY <1>1, Zenon DEF MintWith, Minted
<1>2. ASSUME MintWith(ApplyCenotaphMint, AddMoves)
      PROVE  Minted
  BY <1>2, Zenon DEF MintWith, Minted
<1>3. NothingMinted => Minted
  BY DEF Minted
<1> QED
  BY <1>1, <1>2, <1>3 DEF Mint, CenotaphMint

\* A mint is a lookup followed, if the rune is mintable, by rows for its entry.
LEMMA MintedInv ==
    ASSUME IInv, InTransaction, Minted,
           stage \in {"mint", "cenotaph mint"}, stage' \in {"edicts", "end"},
           UNCHANGED <<db, block, pos, output_cache, chain>>
    PROVE  IInv'
<1>1. Structure /\ RunesInv /\ CachesFit /\ IsTransaction(tx_cache) /\ IsRows(db_cache)
  BY DEF IInv, Structure
<1>2. Coherent(rune_cache) /\ Fits(rune_cache) /\ Fits(rune_total_mints_cache)
  BY <1>1 DEF RunesInv, CacheCoherent, CachesFit
<1>3. LastEtched' >= LastEtched
  BY <1>1, StagesAdvance DEF Stages
<1>4. stage' \in Stages \ {"idle", "commit"}
  BY DEF Stages
<1>5. ASSUME NEW f \in BOOLEAN,
             db_tx' = TablesAfter(f),
             IsRows(db_cache'), db_cache'.runes = RowsAfter(f).runes,
             Coherent(rune_cache'), Fits(rune_cache'), Fits(rune_total_mints_cache'),
             IsTransaction(tx_cache'), tx_cache'.location = tx_cache.location
      PROVE  IInv'
  <2>1. WithinTransaction
    BY <1>3, <1>4, <1>5 DEF WithinTransaction
  <2> QED
    BY <1>5, <2>1, TransactionStep
<1>6. CASE NothingMinted
  <2>1. db_tx' = TablesAfter(FALSE) /\ db_cache' = RowsAfter(FALSE)
    BY <1>6 DEF NothingMinted, TablesAfter, RowsAfter
  <2>2. db_cache' = db_cache /\ tx_cache' = tx_cache
        /\ rune_cache' = rune_cache /\ rune_total_mints_cache' = rune_total_mints_cache
    BY <1>6 DEF NothingMinted
  <2> QED
    BY <1>1, <1>2, <1>5, <2>1, <2>2
<1>7. ASSUME NEW found \in FindRune(Artifact.mint), rune_cache' = found.cache,
             db_tx' = TablesAfter(found.flushed), db_cache' = RowsAfter(found.flushed),
             UNCHANGED <<rune_total_mints_cache, tx_cache>>
      PROVE  IInv'
  <2>1. found.flushed \in BOOLEAN /\ Coherent(found.cache) /\ Fits(found.cache)
    BY <1>7, FoundRune
  <2>2. IsRows(RowsAfter(found.flushed))
    BY <1>1, <2>1, AfterLookup
  <2> QED
    BY <1>1, <1>2, <1>5, <1>7, <2>1, <2>2
<1>8. ASSUME NEW found \in FindRune(Artifact.mint), rune_cache' = found.cache,
             NEW counted \in FindTotalMints(Artifact.mint), NEW f \in BOOLEAN,
             db_tx' = TablesAfter(f),
             \/ /\ db_cache' = RowsAfter(f)
                /\ rune_total_mints_cache' = counted.cache
                /\ UNCHANGED tx_cache
             \/ /\ \/ /\ tx_cache' = ApplyMint(tx_cache, Artifact.mint, found.rune).tc
                      /\ \E e : db_cache' = AddMint(RowsAfter(f), e)
                   \/ /\ tx_cache' = ApplyCenotaphMint(tx_cache, Artifact.mint,
                                                        found.rune).tc
                      /\ \E e : db_cache' = AddMoves(RowsAfter(f), e)
                /\ rune_total_mints_cache' \in CountedMint(counted.cache, Artifact.mint)
      PROVE  IInv'
  <2>1. found.flushed \in BOOLEAN /\ Coherent(found.cache) /\ Fits(found.cache)
    BY <1>8, FoundRune
  <2>2. counted.flushed \in BOOLEAN /\ Fits(counted.cache)
    BY <1>1, <1>8, FoundTotal
  <2>4. IsRows(RowsAfter(f))
    BY <1>1, <1>8, AfterLookup
  <2>5. IsRows(db_cache') /\ db_cache'.runes = RowsAfter(f).runes
    BY <1>8, <2>4, AddedRows
  <2>6. IsTransaction(tx_cache') /\ tx_cache'.location = tx_cache.location
    <3>1. \/ tx_cache' = tx_cache
          \/ tx_cache' = ApplyMint(tx_cache, Artifact.mint, found.rune).tc
          \/ tx_cache' = ApplyCenotaphMint(tx_cache, Artifact.mint, found.rune).tc
      BY <1>8
    <3>2. /\ IsTransaction(ApplyMint(tx_cache, Artifact.mint, found.rune).tc)
          /\ ApplyMint(tx_cache, Artifact.mint, found.rune).tc.location
                = tx_cache.location
      BY <1>1, MintKeeps, ZenonT(60)
    <3>3. /\ IsTransaction(ApplyCenotaphMint(tx_cache, Artifact.mint, found.rune).tc)
          /\ ApplyCenotaphMint(tx_cache, Artifact.mint, found.rune).tc.location
                = tx_cache.location
      BY <1>1, MintKeeps, ZenonT(60)
    <3> QED
      BY <1>1, <3>1, <3>2, <3>3
  <2>7. Fits(rune_total_mints_cache')
    <3>1. \/ rune_total_mints_cache' = counted.cache
          \/ \E v : rune_total_mints_cache' \in LruPut(counted.cache, Artifact.mint, v)
      BY <1>8 DEF CountedMint
    <3> QED
      BY <2>2, <3>1, PutFits
  <2> QED
    BY <1>5, <1>8, <2>1, <2>5, <2>6, <2>7
<1>9. \A a, b : (a \/ b) \in BOOLEAN
  BY Zenon
<1> QED
  BY <1>6, <1>7, <1>8, <1>9, Zenon DEF Minted

\* A mint of a runestone keeps the invariant.
LEMMA MintInv == IInv /\ Mint => IInv'
<1> SUFFICES ASSUME IInv, Mint
             PROVE  IInv'
  OBVIOUS
<1>1. Minted
  BY MintIsMinted
<1>2. /\ stage = "mint" /\ stage' = "edicts" /\ InTransaction
      /\ UNCHANGED <<db, block, pos, output_cache, chain>>
  BY DEF Mint, InTransaction, history
<1> QED
  BY <1>1, <1>2, MintedInv

\* A mint of a cenotaph keeps the invariant.
LEMMA CenotaphMintInv == IInv /\ CenotaphMint => IInv'
<1> SUFFICES ASSUME IInv, CenotaphMint
             PROVE  IInv'
  OBVIOUS
<1>1. Minted
  BY MintIsMinted
<1>2. /\ stage = "cenotaph mint" /\ stage' = "end" /\ InTransaction
      /\ UNCHANGED <<db, block, pos, output_cache, chain>>
  BY DEF CenotaphMint, InTransaction, history
<1> QED
  BY <1>1, <1>2, MintedInv

\* An etching leaves the transaction where it is, and names the rune after it.
LEMMA EtchingKeeps ==
    ASSUME NEW tc, IsTransaction(tc), NEW etching, NEW name, NEW number
    PROVE  /\ IsTransaction(ApplyEtching(tc, etching, number).tc)
           /\ ApplyEtching(tc, etching, number).tc.location = tc.location
           /\ ApplyEtching(tc, etching, number).tc.etching
                  = DbRuneFromEtching(etching, number, tc.location)
           /\ IsTransaction(ApplyCenotaphEtching(tc, name, number).tc)
           /\ ApplyCenotaphEtching(tc, name, number).tc.location = tc.location
           /\ ApplyCenotaphEtching(tc, name, number).tc.etching
                  = DbRuneFromCenotaphEtching(name, number, tc.location)
<1>1. ASSUME NEW t, IsTransaction(t), t.location = tc.location, NEW a, NEW op
      PROVE  /\ IsTransaction(OneEntry(t, RuneIdOf(tc.location), a, op).tc)
             /\ OneEntry(t, RuneIdOf(tc.location), a, op).tc.location = tc.location
             /\ OneEntry(t, RuneIdOf(tc.location), a, op).tc.etching = t.etching
  BY <1>1, OneEntryKeeps
<1> DEFINE t1 == [tc EXCEPT !.etching = DbRuneFromEtching(etching, number, tc.location)]
           t2 == AddInputRunes(t1, RuneIdOf(tc.location), etching.premine)
           t3 == [tc EXCEPT !.etching = DbRuneFromCenotaphEtching(name, number, tc.location)]
<1>2. /\ IsTransaction(t1) /\ t1.location = tc.location
      /\ t1.etching = DbRuneFromEtching(etching, number, tc.location)
  BY TransactionFields
<1>3. /\ IsTransaction(t3) /\ t3.location = tc.location
      /\ t3.etching = DbRuneFromCenotaphEtching(name, number, tc.location)
  BY TransactionFields
<1>4. \/ ApplyEtching(tc, etching, number)
            = OneEntry(t1, RuneIdOf(tc.location), None, "etching")
      \/ ApplyEtching(tc, etching, number)
            = OneEntry(t2, RuneIdOf(tc.location), None, "etching")
  <2>1. etching.premine = None \/ etching.premine # None
    OBVIOUS
  <2> QED
    BY <2>1, Zenon DEF ApplyEtching
<1>5. ApplyCenotaphEtching(tc, name, number)
          = OneEntry(t3, RuneIdOf(tc.location), None, "etching")
  BY Zenon DEF ApplyCenotaphEtching
<1> HIDE DEF t1, t3
<1>6. /\ IsTransaction(t2) /\ t2.location = tc.location
      /\ t2.etching = DbRuneFromEtching(etching, number, tc.location)
  BY <1>2, AddInputRunesKeeps
<1> HIDE DEF t2
<1> QED
  BY <1>1, <1>2, <1>3, <1>4, <1>5, <1>6

\* The row of an etched rune, and its place.
LEMMA EtchedRow ==
    ASSUME NEW location,
           NEW rune, \/ \E e, n : rune = DbRuneFromEtching(e, n, location)
                     \/ \E e, n : rune = DbRuneFromCenotaphEtching(e, n, location)
    PROVE  /\ rune.id = <<location.height, location.index>>
           /\ Cleared(rune).id = rune.id
           /\ Cleared(rune).height = location.height
           /\ Cleared(Cleared(rune)) = Cleared(rune)
<1>1. /\ rune = [id |-> rune.id, number |-> rune.number, name |-> rune.name,
                 height |-> rune.height, premine |-> rune.premine,
                 terms |-> rune.terms, cenotaph |-> rune.cenotaph]
      /\ rune.id = <<location.height, location.index>>
      /\ rune.height = location.height
  BY DEF DbRuneFromEtching, DbRuneFromCenotaphEtching, RuneIdOf
<1>2. \A v : /\ [rune EXCEPT !.cenotaph = v].id = rune.id
             /\ [rune EXCEPT !.cenotaph = v].height = rune.height
  BY <1>1
<1>3. \A v : [[rune EXCEPT !.cenotaph = v] EXCEPT !.cenotaph = v]
                = [rune EXCEPT !.cenotaph = v]
  OBVIOUS
<1>4. Cleared(Cleared(rune)) = Cleared(rune)
  BY <1>3, Zenon DEF Cleared
<1>5. Cleared(rune).id = rune.id /\ Cleared(rune).height = rune.height
  BY <1>2, Zenon DEF Cleared
<1> QED
  BY <1>1, <1>4, <1>5

\* The shape of a step that etches rune.
EtchingStep(rune) ==
    /\ stage \in {"etching", "cenotaph etching"}
    /\ stage' \in {"mint", "cenotaph mint"}
    /\ UNCHANGED <<db, db_tx, block, pos, output_cache, rune_total_mints_cache, chain>>
    /\ rune.id = <<Height, pos>>
    /\ Cleared(rune).id = rune.id
    /\ Cleared(rune).height = Height
    /\ Cleared(Cleared(rune)) = Cleared(rune)
    /\ IsRows(db_cache')
    /\ db_cache'.runes = Append(db_cache.runes, rune)
    /\ rune_cache' \in LruPut(rune_cache, rune.id, rune)
    /\ IsTransaction(tx_cache')
    /\ tx_cache'.location = tx_cache.location

\* An etching adds one row, at a place no row has.
LEMMA EtchedInv ==
    ASSUME IInv, NEW rune, EtchingStep(rune)
    PROVE  IInv'
<1> DEFINE row == Cleared(rune)
<1>1. Structure /\ RunesInv /\ CachesFit
  BY DEF IInv
<1>2. /\ LastEtched = pos - 1 /\ LastEtched' = pos
      /\ InBlock /\ InBlock' /\ InTransaction
  BY DEF LastEtched, InBlock, InTransaction, EtchingStep
<1>3. pos \in Nat /\ pos # 0 /\ Height \in Nat /\ Height >= StartHeight
  BY <1>1, <1>2, PosNat, SizesAssumption DEF Structure, Height
<1>4. /\ Height' = Height /\ db' = db /\ db_tx' = db_tx
      /\ rune.id = <<Height, pos>> /\ row.id = rune.id /\ row.height = Height
      /\ Cleared(row) = row
  BY DEF Height, EtchingStep
<1>e. /\ db_cache'.runes = Append(db_cache.runes, rune)
      /\ rune_cache' \in LruPut(rune_cache, rune.id, rune)
  BY DEF EtchingStep
<1>5. RuneRows' = RuneRows \cup {row}
  <2>1. db_cache.runes \in Seq(ToSet(db_cache.runes))
    BY <1>1 DEF Structure
  <2>2. /\ DOMAIN db_cache'.runes = DOMAIN db_cache.runes \cup {Len(db_cache.runes) + 1}
        /\ \A i \in DOMAIN db_cache.runes : db_cache'.runes[i] = db_cache.runes[i]
        /\ db_cache'.runes[Len(db_cache.runes) + 1] = rune
    BY <1>e, <2>1, AppendRow
  <2> QED
    BY <1>4, <2>2 DEF RuneRows, RawRows
<1> HIDE DEF row
<1>6. \A r \in RuneRows : r.id # rune.id
  <2>1. GenesisRune.id # <<Height, pos>>
    BY <1>3, GenesisAssumption, SizesAssumption
  <2>2. ASSUME NEW r \in RuneRows, Placed(r), r.id = <<Height, pos>>
        PROVE  FALSE
    <3>1. r.height = Height /\ r.id[2] = pos
      BY <2>2 DEF Placed
    <3> QED
      BY <1>2, <1>3, <2>2, <3>1 DEF Placed
  <2> QED
    BY <1>1, <1>4, <2>1, <2>2 DEF RunesInv, RowsPlaced
<1>7. RowsPlaced'
  <2>1. Placed(row)'
    BY <1>2, <1>3, <1>4 DEF Placed
  <2>2. ASSUME NEW r \in RuneRows, Placed(r)
        PROVE  Placed(r)'
    BY <1>2, <1>3, <1>4, <2>2 DEF Placed
  <2> QED
    BY <1>1, <1>5, <2>1, <2>2 DEF RunesInv, RowsPlaced
<1>8. RowsCleared'
  BY <1>1, <1>4, <1>5 DEF RunesInv, RowsCleared
<1>9. RowsUnique'
  BY <1>1, <1>4, <1>5, <1>6 DEF RunesInv, RowsUnique
<1>10. RowsCommitted'
  BY <1>1, <1>4 DEF RunesInv, RowsCommitted
<1>11. CacheCoherent'
  <2>1. /\ rune.id \in DOMAIN rune_cache'
        /\ rune_cache'[rune.id] = rune
        /\ \A x \in DOMAIN rune_cache' :
               x # rune.id => x \in DOMAIN rune_cache /\ rune_cache'[x] = rune_cache[x]
    BY <1>e, PutEntries
  <2>2. ASSUME NEW k \in DOMAIN rune_cache', NEW r \in RuneRows', r.id = k
        PROVE  r = Cleared(rune_cache'[k])
    <3>1. CASE k = rune.id
      BY <1>5, <1>6, <2>1, <2>2, <3>1 DEF row
    <3>2. CASE k # rune.id
      BY <1>1, <1>4, <1>5, <2>1, <2>2, <3>2 DEF RunesInv, CacheCoherent, Coherent
    <3> QED
      BY <3>1, <3>2
  <2> QED
    BY <2>2 DEF CacheCoherent, Coherent
<1>12. CachesFit'
  <2>1. Fits(rune_cache')
    BY <1>1, PutFits DEF CachesFit, EtchingStep
  <2> QED
    BY <1>1, <2>1 DEF CachesFit, Fits, EtchingStep
<1>13. Structure'
  <2>1. db_cache'.runes \in Seq(ToSet(db_cache'.runes))
    <3>1. db_cache.runes \in Seq(ToSet(db_cache.runes))
      BY <1>1 DEF Structure
    <3> QED
      BY <1>e, <3>1, AppendRow
  <2>2. /\ stage' \in Stages /\ stage' # "idle" /\ stage' # "commit"
        /\ chain' \in Seq(Seq(Txs))
        /\ block'.txs \in Seq(Txs)
        /\ pos' \in 0..Len(block'.txs)
        /\ block'.height = Height
        /\ IsTables(db') /\ IsTables(db_tx')
    BY <1>1, <1>2 DEF Structure, Stages, EtchingStep
  <2>3. /\ pos' # 0
        /\ tx_cache'.location.height = Height
        /\ tx_cache'.location.index = pos'
    BY <1>1, <1>2 DEF Structure, EtchingStep
  <2>4. IsRows(db_cache') /\ IsTransaction(tx_cache')
    BY DEF EtchingStep
  <2> QED
    BY <1>4, <2>1, <2>2, <2>3, <2>4 DEF Structure, IsRows, IsTables, IsTransaction
<1> QED
  BY <1>7, <1>8, <1>9, <1>10, <1>11, <1>12, <1>13 DEF IInv, RunesInv

\* A transaction that etches nothing goes on.
LEMMA NothingEtchedInv ==
    ASSUME IInv, NothingEtched,
           (stage = "etching" /\ stage' = "mint")
               \/ (stage = "cenotaph etching" /\ stage' = "cenotaph mint"),
           UNCHANGED <<db, db_tx, block, pos, output_cache, rune_total_mints_cache, chain>>
    PROVE  IInv'
<1>1. /\ Structure /\ InTransaction /\ IsTransaction(tx_cache) /\ IsRows(db_cache)
      /\ Coherent(rune_cache) /\ Fits(rune_cache) /\ Fits(rune_total_mints_cache)
  BY DEF IInv, Structure, InTransaction, RunesInv, CacheCoherent, CachesFit
<1>2. tx_cache' = tx_cache /\ db_cache' = db_cache /\ rune_cache' = rune_cache
  BY DEF NothingEtched
<1>3. LastEtched' >= LastEtched
  <2>1. LastEtched' = pos /\ LastEtched = pos - 1
    BY DEF LastEtched
  <2> QED
    BY <1>1, <2>1, PosNat, OneBefore, Zenon
<1>4. WithinTransaction
  BY <1>1, <1>2, <1>3 DEF WithinTransaction, Stages
<1>5. db_tx' = TablesAfter(FALSE) /\ db_cache'.runes = RowsAfter(FALSE).runes
  BY <1>2 DEF TablesAfter, RowsAfter
<1> QED
  BY <1>1, <1>2, <1>4, <1>5, TransactionStep

\* The pending rows of an etching.
LEMMA AddedEtching ==
    ASSUME NEW rows, IsRows(rows), NEW entries, NEW rune
    PROVE  /\ IsRows(AddEtching(rows, entries, rune))
           /\ AddEtching(rows, entries, rune).runes = Append(rows.runes, rune)
<1> DEFINE r1 == [rows EXCEPT !.runes = Append(@, rune)]
           r2 == [r1 EXCEPT !.ledger = @ \o entries]
           supply == CountOperation(rows.supply, entries[1].rune)
           r3 == [r2 EXCEPT !.supply = supply]
<1>1. AddEtching(rows, entries, rune) = r3
  <2>1. r1.ledger = rows.ledger /\ r1.supply = rows.supply
    BY DEF IsRows
  <2> QED
    BY <2>1, Zenon DEF AddEtching
<1>2. IsRows(r1) /\ r1.runes = Append(rows.runes, rune)
  BY DEF IsRows
<1> HIDE DEF r1, supply
<1>3. IsRows(r2) /\ r2.runes = r1.runes
  BY <1>2, RowsFields
<1> HIDE DEF r2
<1>4. IsRows(r3) /\ r3.runes = r2.runes
  BY <1>3, RowsFields
<1> HIDE DEF r3
<1> QED
  BY <1>1, <1>2, <1>3, <1>4

\* The etching of a runestone keeps the invariant.
LEMMA EtchingInv == IInv /\ Etching => IInv'
<1> SUFFICES ASSUME IInv, Etching
             PROVE  IInv'
  OBVIOUS
<1>1. /\ stage = "etching" /\ stage' = "mint"
      /\ UNCHANGED <<db, db_tx, block, pos, output_cache, rune_total_mints_cache, chain>>
  BY DEF Etching, history
<1>2. CASE NothingEtched
  BY <1>1, <1>2, NothingEtchedInv
<1>3. CASE RecordEtching(ApplyEtching(tx_cache, Artifact.etching, next_rune_number))
  <2> DEFINE result == ApplyEtching(tx_cache, Artifact.etching, next_rune_number)
             rune   == result.tc.etching
  <2>1. /\ Structure /\ InTransaction /\ IsTransaction(tx_cache) /\ IsRows(db_cache)
        /\ tx_cache.location.height = Height /\ tx_cache.location.index = pos
    BY <1>1 DEF IInv, Structure, InTransaction
  <2>2. /\ IsTransaction(result.tc) /\ result.tc.location = tx_cache.location
        /\ rune = DbRuneFromEtching(Artifact.etching, next_rune_number, tx_cache.location)
    BY <2>1, EtchingKeeps
  <2>3. /\ rune.id = <<Height, pos>>
        /\ Cleared(rune).id = rune.id
        /\ Cleared(rune).height = Height
        /\ Cleared(Cleared(rune)) = Cleared(rune)
    <3> HIDE DEF rune
    <3>1. /\ rune.id = <<tx_cache.location.height, tx_cache.location.index>>
          /\ Cleared(rune).id = rune.id
          /\ Cleared(rune).height = tx_cache.location.height
          /\ Cleared(Cleared(rune)) = Cleared(rune)
      BY <2>2, EtchedRow
    <3> QED
      BY <2>1, <3>1
  <2> HIDE DEF result
  <2>4. /\ tx_cache' = result.tc
        /\ db_cache' = AddEtching(db_cache, result.entries, rune)
        /\ rune_cache' \in LruPut(rune_cache, rune.id, rune)
    BY <1>3 DEF RecordEtching, result
  <2>5. IsRows(db_cache') /\ db_cache'.runes = Append(db_cache.runes, rune)
    BY <2>1, <2>4, AddedEtching
  <2> HIDE DEF rune
  <2>6. EtchingStep(rune)
    BY <1>1, <2>2, <2>3, <2>4, <2>5 DEF EtchingStep
  <2> QED
    BY <2>6, EtchedInv
<1> QED
  BY <1>2, <1>3 DEF Etching

\* The etching of a cenotaph keeps the invariant.
LEMMA CenotaphEtchingInv == IInv /\ CenotaphEtching => IInv'
<1> SUFFICES ASSUME IInv, CenotaphEtching
             PROVE  IInv'
  OBVIOUS
<1>1. /\ stage = "cenotaph etching" /\ stage' = "cenotaph mint"
      /\ UNCHANGED <<db, db_tx, block, pos, output_cache, rune_total_mints_cache, chain>>
  BY DEF CenotaphEtching, history
<1>2. CASE NothingEtched
  BY <1>1, <1>2, NothingEtchedInv
<1>3. CASE RecordEtching(ApplyCenotaphEtching(tx_cache, Artifact.etching,
                                             next_rune_number))
  <2> DEFINE result == ApplyCenotaphEtching(tx_cache, Artifact.etching, next_rune_number)
             rune   == result.tc.etching
  <2>1. /\ Structure /\ InTransaction /\ IsTransaction(tx_cache) /\ IsRows(db_cache)
        /\ tx_cache.location.height = Height /\ tx_cache.location.index = pos
    BY <1>1 DEF IInv, Structure, InTransaction
  <2>2. /\ IsTransaction(result.tc) /\ result.tc.location = tx_cache.location
        /\ rune = DbRuneFromCenotaphEtching(Artifact.etching, next_rune_number,
                                            tx_cache.location)
    BY <2>1, EtchingKeeps
  <2>3. /\ rune.id = <<Height, pos>>
        /\ Cleared(rune).id = rune.id
        /\ Cleared(rune).height = Height
        /\ Cleared(Cleared(rune)) = Cleared(rune)
    <3> HIDE DEF rune
    <3>1. /\ rune.id = <<tx_cache.location.height, tx_cache.location.index>>
          /\ Cleared(rune).id = rune.id
          /\ Cleared(rune).height = tx_cache.location.height
          /\ Cleared(Cleared(rune)) = Cleared(rune)
      BY <2>2, EtchedRow
    <3> QED
      BY <2>1, <3>1
  <2> HIDE DEF result
  <2>4. /\ tx_cache' = result.tc
        /\ db_cache' = AddEtching(db_cache, result.entries, rune)
        /\ rune_cache' \in LruPut(rune_cache, rune.id, rune)
    BY <1>3 DEF RecordEtching, result
  <2>5. IsRows(db_cache') /\ db_cache'.runes = Append(db_cache.runes, rune)
    BY <2>1, <2>4, AddedEtching
  <2> HIDE DEF rune
  <2>6. EtchingStep(rune)
    BY <1>1, <2>2, <2>3, <2>4, <2>5 DEF EtchingStep
  <2> QED
    BY <2>6, EtchedInv
<1> QED
  BY <1>2, <1>3 DEF CenotaphEtching

-----------------------------------------------------------------------------
(* Blocks *)

\* A block starts from the committed tables.
LEMMA BeginBlockInv == IInv /\ BeginBlock => IInv'
<1> SUFFICES ASSUME IInv, BeginBlock
             PROVE  IInv'
  OBVIOUS
<1>1. Structure /\ RunesInv /\ CachesFit
  BY DEF IInv
<1>2. PICK txs \in SeqOf(Txs, MaxBlockTxs) :
          block' = [height |-> StartHeight + Len(chain), txs |-> txs]
  BY Zenon DEF BeginBlock
<1>3. txs \in Seq(Txs)
  BY DEF SeqOf
<1>4. /\ stage = "idle" /\ stage' = "next" /\ pos' = 0 /\ db_tx' = db
      /\ UNCHANGED <<rune_cache, rune_total_mints_cache, output_cache, tx_cache,
                     db_cache, db, chain>>
  BY DEF BeginBlock, caches, history
<1>5. db_cache = NoRows /\ db_tx = db
  BY <1>1, <1>4 DEF Structure
<1>6. /\ RuneRows' = RuneRows /\ InBlock' /\ ~InBlock /\ Height' = Height
  BY <1>4, <1>5 DEF RuneRows, RawRows, InBlock, Height
<1>7. RunesInv'
  <2>1. Coherent(rune_cache') /\ db.runes \subseteq db_tx'.runes
    BY <1>1, <1>4 DEF RunesInv, CacheCoherent, RowsCommitted
  <2>2. pos' \in Nat
    BY <1>4
  <2> QED
    BY <1>1, <1>4, <1>6, <2>1, <2>2, RowsKept
<1>8. Structure'
  <2>1. Height \in Nat /\ block'.height = Height /\ block'.txs = txs
    BY <1>1, <1>2, SizesAssumption DEF Structure, Height
  <2>2. pos' \in 0..Len(block'.txs)
    BY <1>3, <1>4, <2>1
  <2>3. ~InTransaction'
    BY <1>4 DEF InTransaction
  <2>4. /\ IsRows(db_cache') /\ IsTables(db_tx') /\ IsTables(db')
        /\ db_cache'.runes \in Seq(ToSet(db_cache'.runes))
        /\ chain' \in Seq(Seq(Txs))
    BY <1>1, <1>4 DEF Structure
  <2> QED
    BY <1>3, <1>4, <1>6, <2>1, <2>2, <2>3, <2>4 DEF Structure, Stages, IsRows, IsTables
<1>9. CachesFit'
  BY <1>1, <1>4 DEF CachesFit, Fits
<1> QED
  BY <1>7, <1>8, <1>9 DEF IInv

\* A transaction starts at the place after the last one.
LEMMA BeginTransactionInv == IInv /\ BeginTransaction => IInv'
<1> SUFFICES ASSUME IInv, BeginTransaction
             PROVE  IInv'
  OBVIOUS
<1>1. Structure /\ RunesInv /\ CachesFit
  BY DEF IInv
<1> DEFINE tx == TxData[block.txs[pos + 1]]
<1>2. /\ stage = "next" /\ pos < Len(block.txs) /\ pos' = pos + 1
      /\ stage' = IF tx.artifact.kind = "none" THEN "end" ELSE tx.artifact.kind
      /\ tx_cache' = NewTransactionCache(
             [height |-> block.height, index |-> pos + 1, tx |-> block.txs[pos + 1]],
             InputRunes(tx.inputs), tx.outputs,
             IF DOMAIN tx.outputs = {} THEN None ELSE Min(DOMAIN tx.outputs), tx.total)
      /\ UNCHANGED <<rune_cache, rune_total_mints_cache, output_cache, db_cache, db_tx,
                     db, block, chain>>
  BY DEF BeginTransaction, caches, history
<1>3. block.txs \in Seq(Txs) /\ pos \in 0..Len(block.txs) /\ block.height = Height
  BY <1>1, <1>2 DEF Structure, InBlock
<1>4. pos \in Nat /\ pos + 1 \in 1..Len(block.txs) /\ block.txs[pos + 1] \in Txs
  BY <1>2, <1>3
<1>5. stage' \in {"end", "runestone", "cenotaph"}
  BY <1>2, <1>4, ArtifactAssumption
<1>6. IsTransaction(tx_cache') /\ tx_cache'.location.height = block.height
      /\ tx_cache'.location.index = pos + 1
  BY <1>2 DEF IsTransaction, NewTransactionCache
<1> HIDE DEF tx
<1>7. /\ RuneRows' = RuneRows /\ InBlock' /\ Height' = Height
  BY <1>2, <1>5 DEF RuneRows, RawRows, InBlock, Height
<1>8. LastEtched' >= LastEtched
  <2>1. LastEtched = pos
    BY <1>2 DEF LastEtched
  <2>2. LastEtched' = pos + 1 \/ LastEtched' = (pos + 1) - 1
    BY <1>2, <1>5 DEF LastEtched
  <2> QED
    BY <1>4, <2>1, <2>2
<1>9. RunesInv'
  <2>1. Coherent(rune_cache') /\ db.runes \subseteq db_tx'.runes
    BY <1>1, <1>2 DEF RunesInv, CacheCoherent, RowsCommitted
  <2>2. pos' \in Nat
    BY <1>2, <1>4
  <2> QED
    BY <1>1, <1>2, <1>7, <1>8, <2>1, <2>2, RowsKept
<1>10. Structure'
  <2>1. stage' \in Stages /\ stage' # "idle" /\ stage' # "commit"
    BY <1>5 DEF Stages
  <2>2. pos' \in 0..Len(block'.txs) /\ pos' # 0
    BY <1>2, <1>3, <1>4
  <2>3. /\ IsRows(db_cache') /\ IsTables(db_tx') /\ IsTables(db')
        /\ db_cache'.runes \in Seq(ToSet(db_cache'.runes))
        /\ chain' \in Seq(Seq(Txs)) /\ block'.txs \in Seq(Txs) /\ block'.height = Height
    BY <1>1, <1>2, <1>3 DEF Structure
  <2>4. /\ tx_cache'.location.height = Height
        /\ tx_cache'.location.index = pos'
    BY <1>2, <1>3, <1>6
  <2> QED
    BY <1>6, <1>7, <2>1, <2>2, <2>3, <2>4
       DEF Structure, IsRows, IsTables, IsTransaction
<1>11. CachesFit'
  BY <1>1, <1>2 DEF CachesFit, Fits
<1> QED
  BY <1>9, <1>10, <1>11 DEF IInv

\* The end of a block inserts what is pending.
LEMMA EndBlockInv == IInv /\ EndBlock => IInv'
<1> SUFFICES ASSUME IInv, EndBlock
             PROVE  IInv'
  OBVIOUS
<1>1. Structure /\ RunesInv /\ CachesFit
  BY DEF IInv
<1> DEFINE flushed == TablesAfter(TRUE)
<1>2. /\ stage = "next" /\ stage' = "commit" /\ db_cache' = NoRows
      /\ output_cache' \in MoveBlockOutputCache(block_output_cache, output_cache)
      /\ block_output_cache' = <<>>
      /\ db_tx' = [flushed EXCEPT !.last_scanned = block.height]
      /\ UNCHANGED <<rune_cache, rune_total_mints_cache, db, block, pos, chain>>
  BY Zenon DEF EndBlock, history
<1>3. /\ IsTables(flushed) /\ db_tx.runes \subseteq flushed.runes
      /\ RawRows(flushed, NoRows) \subseteq RuneRows
  <2>1. RowsAfter(TRUE) = NoRows
    BY DEF RowsAfter
  <2> QED
    BY <1>1, <2>1, AfterLookup
<1> HIDE DEF flushed
<1>4. IsTables(db_tx') /\ db_tx'.runes = flushed.runes
  BY <1>2, <1>3 DEF IsTables
<1>5. /\ RuneRows' \subseteq RuneRows /\ db.runes \subseteq db_tx'.runes
      /\ InBlock' /\ Height' = Height
  BY <1>1, <1>2, <1>3, <1>4
     DEF RuneRows, RawRows, InBlock, Height, RunesInv, RowsCommitted
<1>6. LastEtched' >= LastEtched
  <2>1. LastEtched' = pos /\ LastEtched = pos
    BY <1>2 DEF LastEtched
  <2> QED
    BY <1>1, <2>1, PosNat
<1>7. RunesInv'
  <2>1. Coherent(rune_cache') /\ pos' \in Nat
    BY <1>1, <1>2, PosNat DEF RunesInv, CacheCoherent
  <2> QED
    BY <1>1, <1>2, <1>5, <1>6, <2>1, RowsKept
<1>8. Structure'
  <2>1. IsRows(NoRows) /\ NoRows.runes \in Seq(ToSet(NoRows.runes))
    BY DEF IsRows, NoRows
  <2>2. /\ chain' \in Seq(Seq(Txs)) /\ block'.txs \in Seq(Txs)
        /\ pos' \in 0..Len(block'.txs) /\ block'.height = Height /\ IsTables(db')
    BY <1>1, <1>2 DEF Structure, InBlock
  <2>3. ~InTransaction' /\ stage' \in Stages
    BY <1>2 DEF InTransaction, Stages
  <2> QED
    BY <1>2, <1>4, <1>5, <2>1, <2>2, <2>3 DEF Structure, IsRows, IsTables
<1>9. CachesFit'
  <2>1. Cardinality(DOMAIN output_cache') <= LruSize
    BY <1>2, MovedOutputsFit
  <2> QED
    BY <1>1, <1>2, <2>1 DEF CachesFit, Fits
<1> QED
  BY <1>7, <1>8, <1>9 DEF IInv

\* A commit makes the block's place a past one.
LEMMA CommitInv == IInv /\ Commit => IInv'
<1> SUFFICES ASSUME IInv, Commit
             PROVE  IInv'
  OBVIOUS
<1>1. Structure /\ RunesInv /\ CachesFit
  BY DEF IInv
<1>2. /\ stage = "commit" /\ stage' = "idle" /\ db' = db_tx
      /\ chain' = Append(chain, block.txs)
      /\ UNCHANGED <<rune_cache, rune_total_mints_cache, output_cache,
                     block_output_cache, db_cache, db_tx, block, pos>>
  BY DEF Commit, caches
<1>3. /\ db_cache = NoRows /\ block_output_cache = <<>>
      /\ chain \in Seq(Seq(Txs)) /\ block.txs \in Seq(Txs)
  BY <1>1, <1>2 DEF Structure
<1>4. chain' \in Seq(Seq(Txs)) /\ Height \in Nat /\ Height' = Height + 1
  BY <1>2, <1>3, SizesAssumption DEF Height
<1>5. RuneRows' = RuneRows /\ ~InBlock'
  BY <1>2 DEF RuneRows, RawRows, InBlock
<1>6. \A r \in RuneRows : r.height < Height' /\ (r = GenesisRune \/ Placed(r)')
  <2>1. SUFFICES ASSUME NEW r \in RuneRows
                 PROVE  r.height < Height' /\ (r = GenesisRune \/ Placed(r)')
    OBVIOUS
  <2>2. CASE r = GenesisRune
    <3>1. GenesisRune \in db.runes
      BY <1>1 DEF RunesInv, RowsCommitted
    <3>2. r.height < Height
      BY <1>1, <2>2, <3>1 DEF RunesInv, RowsCommitted
    <3>3. r.height \in Int
      BY <2>2, GenesisAssumption, SizesAssumption
    <3> QED
      BY <1>4, <2>2, <3>2, <3>3
  <2>3. CASE Placed(r)
    <3>1. r.height < Height'
      BY <1>4, <2>3 DEF Placed
    <3> QED
      BY <2>3, <3>1 DEF Placed
  <2> QED
    BY <1>1, <2>2, <2>3 DEF RunesInv, RowsPlaced
<1>7. RunesInv'
  <2>1. RowsPlaced' /\ RowsCleared' /\ RowsUnique' /\ CacheCoherent'
    BY <1>1, <1>2, <1>5, <1>6
       DEF RunesInv, RowsPlaced, RowsCleared, RowsUnique, CacheCoherent, Coherent
  <2>2. RowsCommitted'
    <3>1. db'.runes \subseteq RuneRows
      BY <1>2 DEF RuneRows, RawRows
    <3>2. GenesisRune \in db'.runes
      BY <1>1, <1>2 DEF RunesInv, RowsCommitted
    <3> QED
      BY <1>2, <1>6, <3>1, <3>2 DEF RowsCommitted
  <2> QED
    BY <2>1, <2>2 DEF RunesInv
<1>8. Structure'
  <2>1. /\ pos' \in 0..Len(block'.txs) /\ IsRows(db_cache') /\ IsTables(db_tx')
        /\ IsTables(db') /\ db_cache'.runes \in Seq(ToSet(db_cache'.runes))
    BY <1>1, <1>2 DEF Structure, IsRows, IsTables
  <2>2. ~InTransaction' /\ stage' \in Stages
    BY <1>2 DEF InTransaction, Stages
  <2> QED
    BY <1>2, <1>3, <1>4, <1>5, <2>1, <2>2 DEF Structure, IsRows, IsTables
<1>9. CachesFit'
  BY <1>1, <1>2 DEF CachesFit, Fits
<1> QED
  BY <1>7, <1>8, <1>9 DEF IInv

-----------------------------------------------------------------------------
(* Reorganisations and restarts *)

\* Writing a field of the tables leaves the others alone.
LEMMA WriteRunes ==
    ASSUME NEW d, IsTables(d), NEW v, NEW e, e = [d EXCEPT !.runes = v]
    PROVE  /\ IsTables(e) /\ e.runes = v
           /\ e.ledger = d.ledger /\ e.supply = d.supply
           /\ e.balances = d.balances /\ e.last_scanned = d.last_scanned
  BY DEF IsTables

\* The same for the field of ledger.
LEMMA WriteLedger ==
    ASSUME NEW d, IsTables(d), NEW v, NEW e, e = [d EXCEPT !.ledger = v]
    PROVE  /\ IsTables(e) /\ e.ledger = v
           /\ e.runes = d.runes /\ e.supply = d.supply
           /\ e.balances = d.balances /\ e.last_scanned = d.last_scanned
  BY DEF IsTables

\* The same for the field of supply.
LEMMA WriteSupply ==
    ASSUME NEW d, IsTables(d), NEW v, NEW e, e = [d EXCEPT !.supply = v]
    PROVE  /\ IsTables(e) /\ e.supply = v
           /\ e.runes = d.runes /\ e.ledger = d.ledger
           /\ e.balances = d.balances /\ e.last_scanned = d.last_scanned
  BY DEF IsTables

\* The same for the field of balances.
LEMMA WriteBalances ==
    ASSUME NEW d, IsTables(d), NEW v, NEW e, e = [d EXCEPT !.balances = v]
    PROVE  /\ IsTables(e) /\ e.balances = v
           /\ e.runes = d.runes /\ e.ledger = d.ledger
           /\ e.supply = d.supply /\ e.last_scanned = d.last_scanned
  BY DEF IsTables

\* The tables without the rows of one height.
LEMMA RolledBack ==
    ASSUME NEW d, IsTables(d), NEW h
    PROVE  /\ IsTables(RollBack(d, h))
           /\ RollBack(d, h).runes = {r \in d.runes : r.height # h}
           /\ RollBack(d, h).ledger = {e \in d.ledger : e.height # h}
           /\ RollBack(d, h).supply = WithoutHeight(d.supply, h)
           /\ RollBack(d, h).balances = WithoutHeight(d.balances, h)
           /\ RollBack(d, h).last_scanned = d.last_scanned
<1> DEFINE runes  == {r \in d.runes : r.height # h}
           ledger == {e \in d.ledger : e.height # h}
           supply == WithoutHeight(d.supply, h)
           balances == WithoutHeight(d.balances, h)
           d1 == [d  EXCEPT !.runes    = runes]
           d2 == [d1 EXCEPT !.ledger   = ledger]
           d3 == [d2 EXCEPT !.supply   = supply]
           d4 == [d3 EXCEPT !.balances = balances]
<1> HIDE DEF runes, ledger, supply, balances, d1, d2, d3, d4
<1>1. /\ IsTables(d1) /\ d1.runes = runes /\ d1.ledger = d.ledger
      /\ d1.supply = d.supply /\ d1.balances = d.balances
      /\ d1.last_scanned = d.last_scanned
  <2>1. d1 = [d EXCEPT !.runes = runes]
    BY DEF d1
  <2> QED
    BY <2>1, WriteRunes
<1>2. /\ IsTables(d2) /\ d2.runes = runes /\ d2.ledger = ledger
      /\ d2.supply = d.supply /\ d2.balances = d.balances
      /\ d2.last_scanned = d.last_scanned
  <2>1. d2 = [d1 EXCEPT !.ledger = ledger]
    BY DEF d2
  <2> QED
    BY <1>1, <2>1, WriteLedger
<1>3. /\ IsTables(d3) /\ d3.runes = runes /\ d3.ledger = ledger
      /\ d3.supply = supply /\ d3.balances = d.balances
      /\ d3.last_scanned = d.last_scanned
  <2>1. d3 = [d2 EXCEPT !.supply = supply]
    BY DEF d3
  <2> QED
    BY <1>2, <2>1, WriteSupply
<1>4. /\ IsTables(d4) /\ d4.runes = runes /\ d4.ledger = ledger
      /\ d4.supply = supply /\ d4.balances = balances
      /\ d4.last_scanned = d.last_scanned
  <2>1. d4 = [d3 EXCEPT !.balances = balances]
    BY DEF d4
  <2> QED
    BY <1>3, <2>1, WriteBalances
<1>5. RollBack(d, h) = d4
  <2>1. RollBack(d, h) =
            [[[[d EXCEPT !.runes    = {r \in @ : r.height # h}]
                  EXCEPT !.ledger   = {e \in @ : e.height # h}]
                  EXCEPT !.supply   = WithoutHeight(@, h)]
                  EXCEPT !.balances = WithoutHeight(@, h)]
    BY Zenon DEF RollBack
  <2>2. [d EXCEPT !.runes = {r \in @ : r.height # h}] = d1
    BY Zenon DEF d1, runes
  <2>3. [d1 EXCEPT !.ledger = {e \in @ : e.height # h}] = d2
    BY <1>1, Zenon DEF d2, ledger
  <2>4. [d2 EXCEPT !.supply = WithoutHeight(@, h)] = d3
    BY <1>2, Zenon DEF d3, supply
  <2>5. [d3 EXCEPT !.balances = WithoutHeight(@, h)] = d4
    BY <1>3, Zenon DEF d4, balances
  <2> QED
    BY <2>1, <2>2, <2>3, <2>4, <2>5, Zenon
<1> QED
  BY <1>4, <1>5 DEF runes, ledger, supply, balances

\* The chain without its last block.
LEMMA FrontOfChain ==
    ASSUME NEW S, NEW s \in Seq(S), s # <<>>
    PROVE  Front(s) \in Seq(S) /\ Len(s) >= 1 /\ Len(Front(s)) = Len(s) - 1
<1>1. Len(s) \in Nat /\ Len(s) # 0
  BY EmptySeq
<1>2. \A i \in 1..(Len(s) - 1) : s[i] \in S
  BY <1>1
<1>3. /\ SubSeq(s, 1, Len(s) - 1) \in Seq(S)
      /\ Len(SubSeq(s, 1, Len(s) - 1)) = Len(s) - 1
  <2> DEFINE n == Len(s) - 1
  <2>1. n \in Nat /\ 1 \in Int
    BY <1>1
  <2>2. \A i \in 1..n : s[i] \in S
    BY <1>2
  <2> HIDE DEF n
  <2>3. /\ SubSeq(s, 1, n) \in Seq(S)
        /\ Len(SubSeq(s, 1, n)) = IF 1 <= n THEN n - 1 + 1 ELSE 0
    BY <2>1, <2>2, SubSeqProperties
  <2>4. Len(SubSeq(s, 1, n)) = n
    BY <2>1, <2>3
  <2> QED
    BY <2>3, <2>4 DEF n
<1> QED
  BY <1>1, <1>3 DEF Front

\* Where no block is being indexed, tables whose rows are all committed rows
\* below the tip keep the invariant on the rows.
LEMMA IdleRows ==
    ASSUME IInv, stage' = "idle", db_tx' = db', db_cache' = NoRows,
           db'.runes \subseteq db.runes, GenesisRune \in db'.runes,
           \A r \in db'.runes : r.height < Height',
           Coherent(rune_cache')
    PROVE  RunesInv'
<1>1. RunesInv
  BY DEF IInv
<1>2. RuneRows' = db'.runes /\ RuneRows' \subseteq RuneRows
  <2>1. DOMAIN NoRows.runes = {}
    BY DEF NoRows
  <2>2. RuneRows' = db'.runes
    BY <2>1 DEF RuneRows, RawRows
  <2>3. db.runes \subseteq RuneRows
    BY <1>1 DEF RunesInv, RowsCommitted, RuneRows, RawRows
  <2> QED
    BY <2>2, <2>3
<1>3. RowsPlaced'
  <2>1. SUFFICES ASSUME NEW r \in RuneRows', r # GenesisRune
                 PROVE  Placed(r)'
    BY DEF RowsPlaced
  <2>2. Placed(r)
    BY <1>1, <1>2, <2>1 DEF RunesInv, RowsPlaced
  <2>3. r.height < Height'
    BY <1>2, <2>1
  <2> QED
    BY <2>2, <2>3 DEF Placed
<1>4. RowsCleared' /\ RowsUnique' /\ CacheCoherent'
  BY <1>1, <1>2 DEF RunesInv, RowsCleared, RowsUnique, CacheCoherent, Coherent
<1>5. RowsCommitted'
  BY DEF RowsCommitted
<1> QED
  BY <1>3, <1>4, <1>5 DEF RunesInv

\* Without the rows of the tip the others lie below the new tip.
LEMMA RollBackBlockInv == IInv /\ RollBackBlock => IInv'
<1> SUFFICES ASSUME IInv, RollBackBlock
             PROVE  IInv'
  OBVIOUS
<1>1. Structure /\ RunesInv /\ CachesFit
  BY DEF IInv
<1> DEFINE tip == StartHeight + Len(chain) - 1
<1>2. /\ stage = "idle" /\ stage' = "idle" /\ chain # <<>>
      /\ chain' = Front(chain) /\ db_tx' = db' /\ db' = RollBack(db, tip)
      /\ UNCHANGED <<rune_cache, rune_total_mints_cache, output_cache,
                     block_output_cache, db_cache, block, pos>>
  BY Zenon DEF RollBackBlock, caches
<1>3. /\ db_cache = NoRows /\ block_output_cache = <<>> /\ db_tx = db
      /\ chain \in Seq(Seq(Txs)) /\ IsTables(db)
  BY <1>1, <1>2 DEF Structure
<1>4. /\ chain' \in Seq(Seq(Txs)) /\ Height \in Nat
      /\ Height' = tip /\ Height = tip + 1 /\ tip >= StartHeight /\ tip \in Nat
  <2>1. Len(chain') = Len(chain) - 1 /\ Len(chain) \in Nat /\ Len(chain) >= 1
        /\ chain' \in Seq(Seq(Txs))
    BY <1>2, <1>3, FrontOfChain
  <2> QED
    BY <2>1, SizesAssumption DEF Height
<1> HIDE DEF tip
<1>5. IsTables(db') /\ db'.runes = {r \in db.runes : r.height # tip}
  BY <1>2, <1>3, RolledBack
<1>6. GenesisRune \in db'.runes
  <2>1. GenesisRune.height # tip
    BY <1>4, GenesisAssumption, SizesAssumption
  <2> QED
    BY <1>1, <1>5, <2>1 DEF RunesInv, RowsCommitted
<1>7. \A r \in db'.runes : r.height < Height'
  <2>1. SUFFICES ASSUME NEW r \in db.runes, r.height # tip
                 PROVE  r.height < Height'
    BY <1>5
  <2>2. r.height \in Int
    <3>1. r \in RuneRows
      BY <1>3 DEF RuneRows, RawRows
    <3>2. r = GenesisRune \/ r.height \in Nat
      BY <1>1, <3>1 DEF RunesInv, RowsPlaced, Placed
    <3> QED
      BY <3>2, GenesisAssumption, SizesAssumption
  <2>3. r.height < Height
    BY <1>1 DEF RunesInv, RowsCommitted
  <2> QED
    BY <1>4, <2>1, <2>2, <2>3
<1>8. RunesInv'
  <2>1. Coherent(rune_cache')
    BY <1>1, <1>2 DEF RunesInv, CacheCoherent
  <2> QED
    BY <1>2, <1>3, <1>5, <1>6, <1>7, <2>1, IdleRows
<1>9. Structure'
  <2>1. /\ block'.txs \in Seq(Txs) /\ pos' \in 0..Len(block'.txs)
        /\ IsRows(db_cache') /\ db_cache'.runes \in Seq(ToSet(db_cache'.runes))
    BY <1>1, <1>2 DEF Structure, IsRows
  <2>2. ~InTransaction' /\ ~InBlock' /\ stage' \in Stages
    BY <1>2 DEF InTransaction, InBlock, Stages
  <2> QED
    BY <1>2, <1>3, <1>4, <1>5, <2>1, <2>2 DEF Structure, IsRows, IsTables
<1>10. CachesFit'
  BY <1>1, <1>2 DEF CachesFit, Fits
<1> QED
  BY <1>8, <1>9, <1>10 DEF IInv

\* The empty caches a process starts with.
LEMMA EmptyCaches == Fits(<<>>) /\ Coherent(<<>>)
<1>1. DOMAIN <<>> = {}
  OBVIOUS
<1>2. Fits(<<>>)
  BY <1>1, FS_EmptySet, SizesAssumption DEF Fits
<1>3. Coherent(<<>>)
  BY <1>1 DEF Coherent
<1> QED
  BY <1>2, <1>3

\* The state a process starts in.
Fresh ==
    /\ db_tx = db /\ db_cache = NoRows
    /\ rune_cache = <<>> /\ rune_total_mints_cache = <<>> /\ output_cache = <<>>
    /\ block_output_cache = <<>> /\ block = NoBlock /\ pos = 0 /\ stage = "idle"

\* A process that starts holds nothing in memory.
LEMMA FreshStructure ==
    Fresh /\ IsTables(db) /\ chain \in Seq(Seq(Txs)) => Structure /\ CachesFit
<1> SUFFICES ASSUME Fresh, IsTables(db), chain \in Seq(Seq(Txs))
             PROVE  Structure /\ CachesFit
  OBVIOUS
<1>1. Fits(<<>>)
  BY EmptyCaches
<1>2. CachesFit
  BY <1>1 DEF CachesFit, Fresh, Fits
<1>3. IsRows(NoRows) /\ NoRows.runes \in Seq(ToSet(NoRows.runes))
  BY DEF IsRows, NoRows
<1>4. block.txs = <<>> /\ block.txs \in Seq(Txs) /\ pos \in 0..Len(block.txs)
  BY DEF Fresh, NoBlock
<1>5. ~InBlock /\ ~InTransaction /\ stage \in Stages /\ stage # "commit"
  BY DEF Fresh, InBlock, InTransaction, Stages
<1> QED
  BY <1>2, <1>3, <1>4, <1>5 DEF Structure, Fresh, IsRows, IsTables

\* A restart loses the block that was not committed, and the caches.
LEMMA RestartInv == IInv /\ Restart => IInv'
<1>0. (Fresh /\ IsTables(db) /\ chain \in Seq(Seq(Txs)) => Structure /\ CachesFit)'
  BY FreshStructure, PTL
<1> SUFFICES ASSUME IInv, Restart
             PROVE  IInv'
  OBVIOUS
<1>1. Structure /\ RunesInv /\ CachesFit
  BY DEF IInv
<1>2. Fresh' /\ UNCHANGED <<db, chain>>
  BY DEF Restart, Fresh, history
<1>3. IsTables(db') /\ chain' \in Seq(Seq(Txs))
  BY <1>1, <1>2 DEF Structure, IsTables
<1>4. Structure' /\ CachesFit'
  BY <1>0, <1>2, <1>3
<1>5. Coherent(rune_cache')
  BY <1>2, EmptyCaches DEF Fresh
<1>6. Height' = Height
  BY <1>2 DEF Height
<1>7. RunesInv'
  BY <1>1, <1>2, <1>5, <1>6, IdleRows DEF Fresh, RunesInv, RowsCommitted
<1> QED
  BY <1>4, <1>7 DEF IInv

-----------------------------------------------------------------------------
(* The theorems *)

\* The tables of the first migration satisfy the invariant.
LEMMA InitInv == Init => IInv
<1> SUFFICES ASSUME Init
             PROVE  IInv
  OBVIOUS
<1>1. Fresh /\ db = EmptyDb /\ chain = <<>>
  BY DEF Init, Fresh
<1>2. IsTables(db) /\ db.runes = {GenesisRune} /\ chain \in Seq(Seq(Txs))
  BY <1>1 DEF IsTables, EmptyDb
<1>3. Structure /\ CachesFit
  BY <1>1, <1>2, FreshStructure
<1>4. RuneRows = {GenesisRune}
  <2>1. DOMAIN NoRows.runes = {}
    BY DEF NoRows
  <2> QED
    BY <1>1, <1>2, <2>1 DEF RuneRows, RawRows, Fresh
<1>5. Height = StartHeight
  BY <1>1, SizesAssumption DEF Height
<1>6. RowsCommitted
  <2>1. GenesisRune.height < StartHeight
    BY GenesisAssumption, SizesAssumption
  <2> QED
    BY <1>1, <1>2, <1>5, <2>1 DEF RowsCommitted, Fresh
<1>7. RowsPlaced /\ RowsUnique
  BY <1>4 DEF RowsPlaced, RowsUnique
<1>8. RowsCleared
  BY <1>4, GenesisAssumption, Zenon DEF RowsCleared, Cleared
<1>9. CacheCoherent
  BY <1>1, EmptyCaches DEF Fresh, CacheCoherent
<1> QED
  BY <1>3, <1>6, <1>7, <1>8, <1>9 DEF IInv, RunesInv

\* A step that changes no variable keeps the invariant.
LEMMA StutterInv == IInv /\ UNCHANGED vars => IInv'
<1> SUFFICES ASSUME IInv, UNCHANGED vars
             PROVE  IInv'
  OBVIOUS
<1>1. UNCHANGED <<rune_cache, rune_total_mints_cache, output_cache, block_output_cache,
                  tx_cache, db_cache, db_tx, db, block, pos, stage, chain>>
  BY DEF vars, caches, history
<1>2. UNCHANGED <<RuneRows, Height, LastEtched, InTransaction, InBlock>>
  BY <1>1 DEF RuneRows, RawRows, Height, LastEtched, InTransaction, InBlock
<1>3. Structure'
  BY <1>1, <1>2 DEF IInv, Structure, IsRows, IsTables, IsTransaction
<1>4. RunesInv'
  BY <1>1, <1>2 DEF IInv, RunesInv, RowsPlaced, RowsCleared, RowsUnique, RowsCommitted,
                    CacheCoherent, Coherent, Placed
<1>5. CachesFit'
  BY <1>1 DEF IInv, CachesFit, Fits
<1> QED
  BY <1>3, <1>4, <1>5 DEF IInv

\* The invariant is inductive.
LEMMA NextInv == IInv /\ [Next]_vars => IInv'
  BY BeginBlockInv, BeginTransactionInv, ApplyRunestoneInv, EtchingInv, MintInv,
     EdictInv, ApplyCenotaphInv, CenotaphEtchingInv, CenotaphMintInv,
     EndTransactionInv, EndBlockInv, CommitInv, RestartInv, RollBackBlockInv,
     StutterInv DEF Next, Forward, IndexBlock

\* The invariant holds of every reachable state.
LEMMA Invariance == Spec => []IInv
<1>1. Init => IInv
  BY InitInv
<1>2. IInv /\ [Next]_vars => IInv'
  BY NextInv
<1> QED
  BY <1>1, <1>2, PTL DEF Spec

\* The invariant implies the type invariant.
LEMMA InvTypeOK == IInv => TypeOK
<1> SUFFICES ASSUME IInv
             PROVE  TypeOK
  OBVIOUS
<1>1. GenesisRune \in db.runes
  BY DEF IInv, RunesInv, RowsCommitted
<1> QED
  BY <1>1 DEF IInv, Structure, CachesFit, Fits, TypeOK

\* The invariant implies that the rune cache agrees with the tables.
LEMMA InvCoherent == IInv => RuneCacheCoherent
<1> SUFFICES ASSUME IInv
             PROVE  RuneCacheCoherent
  OBVIOUS
<1>1. Structure /\ RunesInv
  BY DEF IInv
<1>2. Tables.runes \subseteq RuneRows
  <2>1. CASE stage = "idle"
    BY <1>1, <2>1 DEF Structure, Tables, RuneRows, RawRows
  <2>2. CASE stage # "idle"
    BY <1>1, <2>2, AfterLookup DEF Tables
  <2> QED
    BY <2>1, <2>2
<1> QED
  BY <1>1, <1>2 DEF RunesInv, CacheCoherent, Coherent, RuneCacheCoherent, Cleared

\* Whatever is mined, rolled back or lost in a restart, no LRU cache outgrows its
\* size, index_block is at one of its stages, outside a block nothing is pending
\* and the first migration's rune stays in the table.
THEOREM TypeCorrect == Spec => []TypeOK
  BY Invariance, InvTypeOK, PTL

\* get_cached_rune_by_rune_id never returns a rune other than the one in the
\* table: the LRU cache survives roll_back_block, which does not tell it, because
\* an id is etched again only by a transaction that overwrites its entry.
THEOREM RuneCacheIsCoherent == Spec => []RuneCacheCoherent
  BY Invariance, InvCoherent, PTL

-----------------------------------------------------------------------------
(* Supply rows *)

IsSupply(s) ==
    /\ s = [minted |-> s.minted, total_mints |-> s.total_mints, burned |-> s.burned,
            total_burns |-> s.total_burns, total_operations |-> s.total_operations]
    /\ s.total_mints \in Nat

CountsPending(c) == \A k \in DOMAIN c.supply : IsSupply(c.supply[k])

\* The mints of rune k that c has pending.
Pending(c, k) == Supply(c.supply, k).total_mints

\* The mints of rune k counted so far.
MintsIn(d, c, k) == TotalMints(d, k) + Pending(c, k)

Mints(k) == MintsIn(db_tx, db_cache, k)

\* Rows up to height top, each counting at least the mints of those before it.
Ascend(rows, top) ==
    /\ \A x \in DOMAIN rows :
           x = <<x[1], x[2]>> /\ x[2] \in 0..top /\ rows[x].total_mints \in Nat
    /\ \A x, y \in DOMAIN rows :
           x[1] = y[1] /\ x[2] <= y[2] => rows[x].total_mints <= rows[y].total_mints

\* What Latest finds.
LEMMA LatestRow ==
    ASSUME NEW rows, NEW top \in Int, Ascend(rows, top), NEW k, NEW default
    PROVE  \/ /\ \A x \in DOMAIN rows : x[1] # k
              /\ Latest(rows, k, default) = default
           \/ \E h \in 0..top :
                 /\ <<k, h>> \in DOMAIN rows
                 /\ \A g : <<k, g>> \in DOMAIN rows => g <= h
                 /\ Latest(rows, k, default) = rows[<<k, h>>]
<1> DEFINE heights == {h \in {x[2] : x \in DOMAIN rows} : <<k, h>> \in DOMAIN rows}
           last    == CHOOSE h \in heights : \A g \in heights : g <= h
<1>1. heights \subseteq Nat /\ (\A h \in heights : h <= top)
  BY DEF Ascend
<1>2. \A g : <<k, g>> \in DOMAIN rows => g \in heights
  <2>1. \A g : <<k, g>>[2] = g
    OBVIOUS
  <2> QED
    BY <2>1
<1>3. CASE heights = {}
  <2>1. \A x \in DOMAIN rows : x[1] # k
    BY <1>2, <1>3 DEF Ascend
  <2>2. Latest(rows, k, default) = default
    BY <1>3 DEF Latest
  <2> QED
    BY <2>1, <2>2
<1>4. CASE heights # {}
  <2>1. Latest(rows, k, default) = rows[<<k, last>>]
    BY <1>4 DEF Latest
  <2>2. last \in heights /\ \A g \in heights : g <= last
    <3> HIDE DEF heights
    <3> QED
      BY <1>1, <1>4, GreatestNatural
  <2>3. <<k, last>> \in DOMAIN rows
    BY <2>2
  <2> HIDE DEF last
  <2>4. last \in 0..top
    BY <1>1, <2>2
  <2> HIDE DEF heights
  <2> QED
    BY <1>2, <2>1, <2>2, <2>3, <2>4
<1> QED
  BY <1>3, <1>4

\* The latest row of a rune counts at least the mints of every other.
LEMMA LatestMost ==
    ASSUME NEW rows, NEW top \in Int, Ascend(rows, top), NEW k
    PROVE  /\ Latest(rows, k, NoSupply).total_mints \in Nat
           /\ \A x \in DOMAIN rows :
                  x[1] = k => rows[x].total_mints <= Latest(rows, k, NoSupply).total_mints
<1>1. CASE /\ \A x \in DOMAIN rows : x[1] # k
           /\ Latest(rows, k, NoSupply) = NoSupply
  BY <1>1 DEF NoSupply
<1>2. ASSUME NEW h \in 0..top,
             <<k, h>> \in DOMAIN rows,
             \A g : <<k, g>> \in DOMAIN rows => g <= h,
             Latest(rows, k, NoSupply) = rows[<<k, h>>]
      PROVE  /\ Latest(rows, k, NoSupply).total_mints \in Nat
             /\ \A x \in DOMAIN rows : x[1] = k =>
                    rows[x].total_mints <= Latest(rows, k, NoSupply).total_mints
  <2>1. rows[<<k, h>>].total_mints \in Nat
    BY <1>2 DEF Ascend
  <2>2. ASSUME NEW x \in DOMAIN rows, x[1] = k
        PROVE  rows[x].total_mints <= rows[<<k, h>>].total_mints
    <3> DEFINE y == <<k, h>>
    <3>1. y \in DOMAIN rows /\ y[1] = k /\ y[2] = h
      BY <1>2
    <3>2. x[2] <= h
      BY <1>2, <2>2 DEF Ascend
    <3> HIDE DEF y
    <3>3. rows[x].total_mints <= rows[y].total_mints
      BY <2>2, <3>1, <3>2 DEF Ascend
    <3> QED
      BY <3>3 DEF y
  <2> QED
    BY <1>2, <2>1, <2>2
<1> QED
  BY <1>1, <1>2, LatestRow

\* Adding what is pending to the table keeps its rows ascending, and the latest
\* row of a rune then counts its pending mints too.
LEMMA InsertedSupply ==
    ASSUME NEW rows, NEW changes, NEW h \in Nat, Ascend(rows, h),
           \A k \in DOMAIN changes : IsSupply(changes[k])
    PROVE  /\ Ascend(InsertSupplyChanges(rows, changes, h), h)
           /\ \A k : Latest(InsertSupplyChanges(rows, changes, h), k, NoSupply).total_mints
                         = Latest(rows, k, NoSupply).total_mints
                               + Supply(changes, k).total_mints
<1> DEFINE new     == InsertSupplyChanges(rows, changes, h)
           prev(k) == Latest(rows, k, NoSupply).total_mints
<1>0. h \in Int
  OBVIOUS
<1>1. /\ \A x \in DOMAIN new : x \in DOMAIN rows \/ \E k \in DOMAIN changes : x = <<k, h>>
      /\ \A x \in DOMAIN rows : x \in DOMAIN new
      /\ \A k \in DOMAIN changes : <<k, h>> \in DOMAIN new
  BY DEF InsertSupplyChanges
<1>2. \A k \in DOMAIN changes :
          /\ <<k, h>> \in DOMAIN new
          /\ new[<<k, h>>].total_mints = prev(k) + changes[k].total_mints
          /\ changes[k].total_mints \in Nat
  <2>1. SUFFICES ASSUME NEW k \in DOMAIN changes
                 PROVE  /\ new[<<k, h>>].total_mints = prev(k) + changes[k].total_mints
                        /\ changes[k].total_mints \in Nat
    BY <1>1
  <2>2. new[<<k, h>>] = SupplyPlus(Latest(rows, k, NoSupply), changes[k])
    BY DEF InsertSupplyChanges
  <2> QED
    BY <2>2 DEF SupplyPlus, IsSupply
<1>3. \A x \in DOMAIN new : ~(x[2] = h /\ x[1] \in DOMAIN changes) =>
          x \in DOMAIN rows /\ new[x] = rows[x]
  BY DEF InsertSupplyChanges
<1> HIDE DEF new
<1>4. \A k : prev(k) \in Nat /\ \A x \in DOMAIN rows :
                 x[1] = k => rows[x].total_mints <= prev(k)
  BY LatestMost
<1> HIDE DEF prev
<1>5. \A x \in DOMAIN new :
          /\ x = <<x[1], x[2]>> /\ x[2] \in 0..h
          /\ x \in DOMAIN rows => rows[x].total_mints \in Nat
  BY <1>1 DEF Ascend
<1>6. ASSUME NEW x \in DOMAIN new
      PROVE  new[x].total_mints \in Nat
  <2>1. CASE x[2] = h /\ x[1] \in DOMAIN changes
    <3>1. x = <<x[1], h>>
      BY <1>5, <2>1
    <3> DEFINE k == x[1]
    <3>2. k \in DOMAIN changes /\ x = <<k, h>>
      BY <2>1, <3>1
    <3> HIDE DEF k
    <3> QED
      BY <1>2, <1>4, <3>2
  <2>2. CASE ~(x[2] = h /\ x[1] \in DOMAIN changes)
    BY <1>3, <1>5, <2>2
  <2> QED
    BY <2>1, <2>2
<1>7. ASSUME NEW x \in DOMAIN new, NEW y \in DOMAIN new, x[1] = y[1], x[2] <= y[2]
      PROVE  new[x].total_mints <= new[y].total_mints
  <2> DEFINE k == y[1]
  <2>0. /\ x = <<k, x[2]>> /\ y = <<k, y[2]>> /\ x[2] \in 0..h /\ y[2] \in 0..h
    BY <1>5, <1>7
  <2>1. CASE y[2] = h /\ k \in DOMAIN changes
    <3>1. new[y].total_mints = prev(k) + changes[k].total_mints
          /\ changes[k].total_mints \in Nat /\ prev(k) \in Nat
      <4> HIDE DEF k
      <4>1. y = <<k, h>>
        BY <2>0, <2>1
      <4> QED
        BY <1>2, <1>4, <2>1, <4>1
    <3>2. CASE x[2] = h
      <4>1. x = y
        BY <2>0, <2>1, <3>2
      <4> QED
        BY <1>6, <4>1
    <3>3. CASE x[2] # h
      <4>1. x \in DOMAIN rows /\ new[x] = rows[x]
        BY <1>3, <3>3
      <4>2. rows[x].total_mints <= prev(k) /\ rows[x].total_mints \in Nat
        BY <1>4, <1>5, <1>7, <4>1
      <4> QED
        BY <3>1, <4>1, <4>2
    <3> QED
      BY <3>2, <3>3
  <2>2. CASE ~(y[2] = h /\ k \in DOMAIN changes)
    <3>1. y \in DOMAIN rows /\ new[y] = rows[y]
      BY <1>3, <2>2
    <3>2. ~(x[2] = h /\ x[1] \in DOMAIN changes)
      BY <1>7, <2>0, <2>2
    <3>3. x \in DOMAIN rows /\ new[x] = rows[x]
      BY <1>3, <3>2
    <3> QED
      BY <1>7, <3>1, <3>3 DEF Ascend
  <2> QED
    BY <2>1, <2>2
<1>8. Ascend(new, h)
  BY <1>5, <1>6, <1>7 DEF Ascend
<1>9. ASSUME NEW k
      PROVE  Latest(new, k, NoSupply).total_mints
                 = prev(k) + Supply(changes, k).total_mints
  <2>1. CASE k \in DOMAIN changes
    <3>1. <<k, h>> \in DOMAIN new
      BY <1>2, <2>1
    <3>2. ~(\A x \in DOMAIN new : x[1] # k)
      BY <3>1
    <3>3. PICK g \in 0..h : /\ \A f : <<k, f>> \in DOMAIN new => f <= g
                            /\ Latest(new, k, NoSupply) = new[<<k, g>>]
      BY <1>8, <3>2, LatestRow
    <3>4. g = h
      BY <3>1, <3>3
    <3> QED
      BY <1>2, <2>1, <3>3, <3>4 DEF Supply
  <2>2. CASE k \notin DOMAIN changes
    <3>1. \A g : <<k, g>> \in DOMAIN new <=> <<k, g>> \in DOMAIN rows
      <4>1. ASSUME NEW g, <<k, g>> \in DOMAIN new
            PROVE  <<k, g>> \in DOMAIN rows
        BY <1>1, <2>2, <4>1
      <4> QED
        BY <1>1, <4>1
    <3>2. \A g : <<k, g>> \in DOMAIN new => new[<<k, g>>] = rows[<<k, g>>]
      <4>1. ASSUME NEW g, <<k, g>> \in DOMAIN new
            PROVE  new[<<k, g>>] = rows[<<k, g>>]
        <5>1. <<k, g>>[1] \notin DOMAIN changes
          BY <2>2
        <5> QED
          BY <1>3, <4>1, <5>1
      <4> QED
        BY <4>1
    <3>3. Latest(new, k, NoSupply).total_mints = prev(k)
      <4>1. CASE \A x \in DOMAIN new : x[1] # k
        <5>1. \A x \in DOMAIN rows : x[1] # k
          BY <1>1, <4>1
        <5>2. \A g : <<k, g>> \notin DOMAIN new
          BY <4>1
        <5>3. \A g : <<k, g>> \notin DOMAIN rows
          BY <5>1
        <5>4. Latest(new, k, NoSupply) = NoSupply
          BY <1>0, <1>8, <5>2, LatestRow, Zenon
        <5>5. Latest(rows, k, NoSupply) = NoSupply
          BY <1>0, <5>3, LatestRow, Zenon
        <5> QED
          BY <5>4, <5>5 DEF prev
      <4>2. CASE ~(\A x \in DOMAIN new : x[1] # k)
        <5>1. PICK g \in 0..h : /\ <<k, g>> \in DOMAIN new
                                /\ \A f : <<k, f>> \in DOMAIN new => f <= g
                                /\ Latest(new, k, NoSupply) = new[<<k, g>>]
          BY <1>8, <4>2, LatestRow
        <5>2. ~(\A x \in DOMAIN rows : x[1] # k)
          BY <3>1, <5>1
        <5>3. PICK i \in 0..h : /\ <<k, i>> \in DOMAIN rows
                                /\ \A f : <<k, f>> \in DOMAIN rows => f <= i
                                /\ Latest(rows, k, NoSupply) = rows[<<k, i>>]
          BY <5>2, LatestRow
        <5>4. g <= i /\ i <= g
          BY <3>1, <5>1, <5>3
        <5>5. g = i
          BY <5>4
        <5> QED
          BY <3>2, <5>1, <5>3, <5>5 DEF prev
      <4> QED
        BY <4>1, <4>2
    <3>4. Supply(changes, k).total_mints = 0
      BY <2>2 DEF Supply, NoSupply
    <3> QED
      BY <1>4, <3>3, <3>4
  <2> QED
    BY <2>1, <2>2
<1> QED
  BY <1>8, <1>9 DEF new, prev

\* Rows below a height are below every greater one.
LEMMA AscendHigher ==
    ASSUME NEW rows, NEW a \in Int, NEW b \in Int, a <= b, Ascend(rows, a)
    PROVE  Ascend(rows, b)
<1>1. \A n \in 0..a : n \in 0..b
  OBVIOUS
<1> QED
  BY <1>1, Zenon DEF Ascend

\* Deleting the rows of the greatest height leaves ascending rows, and no rune
\* with more mints than before.
LEMMA WithoutTop ==
    ASSUME NEW rows, NEW h \in Nat, Ascend(rows, h)
    PROVE  /\ Ascend(WithoutHeight(rows, h), h - 1)
           /\ \A k : /\ Latest(WithoutHeight(rows, h), k, NoSupply).total_mints \in Nat
                     /\ Latest(WithoutHeight(rows, h), k, NoSupply).total_mints
                            <= Latest(rows, k, NoSupply).total_mints
<1> DEFINE left == WithoutHeight(rows, h)
<1>1. /\ \A x \in DOMAIN left : x \in DOMAIN rows /\ x[2] # h /\ left[x] = rows[x]
      /\ \A x \in DOMAIN rows : x[2] # h => x \in DOMAIN left
  BY DEF WithoutHeight, Only
<1> HIDE DEF left
<1>2. Ascend(left, h - 1)
  <2>1. \A n \in 0..h : n # h => n \in 0..(h - 1)
    OBVIOUS
  <2> QED
    BY <1>1, <2>1 DEF Ascend
<1>3. h \in Int /\ h - 1 \in Int
  OBVIOUS
<1>4. ASSUME NEW k
      PROVE  /\ Latest(left, k, NoSupply).total_mints \in Nat
             /\ Latest(left, k, NoSupply).total_mints
                    <= Latest(rows, k, NoSupply).total_mints
  <2>1. /\ Latest(rows, k, NoSupply).total_mints \in Nat
        /\ \A x \in DOMAIN rows :
               x[1] = k => rows[x].total_mints <= Latest(rows, k, NoSupply).total_mints
    BY <1>3, LatestMost
  <2>2. Latest(left, k, NoSupply).total_mints \in Nat
    BY <1>2, <1>3, LatestMost
  <2>3. CASE Latest(left, k, NoSupply) = NoSupply
    BY <2>1, <2>3 DEF NoSupply
  <2>4. ASSUME NEW g, <<k, g>> \in DOMAIN left,
               Latest(left, k, NoSupply) = left[<<k, g>>]
        PROVE  Latest(left, k, NoSupply).total_mints
                   <= Latest(rows, k, NoSupply).total_mints
    <3> DEFINE x == <<k, g>>
    <3>1. x \in DOMAIN rows /\ x[1] = k /\ left[x] = rows[x]
      BY <1>1, <2>4
    <3> HIDE DEF x
    <3>2. rows[x].total_mints <= Latest(rows, k, NoSupply).total_mints
      BY <2>1, <3>1
    <3> QED
      BY <2>4, <3>1, <3>2 DEF x
  <2>5. \/ Latest(left, k, NoSupply) = NoSupply
        \/ \E g : <<k, g>> \in DOMAIN left /\ Latest(left, k, NoSupply) = left[<<k, g>>]
    <3> DEFINE top == h - 1
    <3>1. Ascend(left, top) /\ top \in Int
      BY <1>2, <1>3
    <3> HIDE DEF top
    <3>2. \/ Latest(left, k, NoSupply) = NoSupply
          \/ \E g \in 0..top : /\ <<k, g>> \in DOMAIN left
                             /\ Latest(left, k, NoSupply) = left[<<k, g>>]
      BY <3>1, LatestRow
    <3> QED
      BY <3>2, Zenon
  <2> QED
    BY <2>2, <2>3, <2>4, <2>5
<1> QED
  BY <1>2, <1>4 DEF left

\* The counts of the default row.
LEMMA DefaultSupply ==
    /\ IsSupply(NoSupply)
    /\ NoSupply.total_mints = 0
    /\ CountsPending(NoRows)
    /\ \A k : Pending(NoRows, k) = 0
<1>1. IsSupply(NoSupply) /\ NoSupply.total_mints = 0
  BY DEF IsSupply, NoSupply
<1>2. DOMAIN NoRows.supply = {}
  BY DEF NoRows
<1> QED
  BY <1>1, <1>2 DEF CountsPending, Pending, Supply

\* What is pending for a rune is a row.
LEMMA SupplyShape ==
    ASSUME NEW c, CountsPending(c), NEW k
    PROVE  IsSupply(Supply(c.supply, k)) /\ Pending(c, k) \in Nat
<1>1. IsSupply(Supply(c.supply, k))
  BY DefaultSupply DEF CountsPending, Supply
<1> QED
  BY <1>1 DEF Pending, IsSupply

\* Writing a field of a supply row other than total_mints leaves its count alone.
LEMMA SupplyFields ==
    ASSUME NEW s, IsSupply(s), NEW v
    PROVE  /\ IsSupply([s EXCEPT !.minted = v])
           /\ [s EXCEPT !.minted = v].total_mints = s.total_mints
           /\ IsSupply([s EXCEPT !.burned = v])
           /\ [s EXCEPT !.burned = v].total_mints = s.total_mints
           /\ IsSupply([s EXCEPT !.total_burns = v])
           /\ [s EXCEPT !.total_burns = v].total_mints = s.total_mints
           /\ IsSupply([s EXCEPT !.total_operations = v])
           /\ [s EXCEPT !.total_operations = v].total_mints = s.total_mints
  BY DEF IsSupply

\* A flush moves the pending mints of each rune into the table and loses none.
LEMMA FlushedMints ==
    ASSUME NEW d, NEW c, NEW h \in Nat, Ascend(d.supply, h), CountsPending(c)
    PROVE  /\ Ascend(Flush(d, c, h).supply, h)
           /\ \A k : TotalMints(Flush(d, c, h), k) = MintsIn(d, c, k)
           /\ \A k : MintsIn(Flush(d, c, h), NoRows, k) = MintsIn(d, c, k)
<1>1. Flush(d, c, h).supply = InsertSupplyChanges(d.supply, c.supply, h)
  BY DEF Flush
<1>2. /\ Ascend(Flush(d, c, h).supply, h)
      /\ \A k : Latest(Flush(d, c, h).supply, k, NoSupply).total_mints
                    = Latest(d.supply, k, NoSupply).total_mints
                          + Supply(c.supply, k).total_mints
  BY <1>1, InsertedSupply DEF CountsPending
<1>3. \A k : TotalMints(Flush(d, c, h), k) = MintsIn(d, c, k)
  BY <1>2, Zenon DEF TotalMints, MintsIn, Pending
<1>4. \A k : TotalMints(Flush(d, c, h), k) \in Nat
  BY <1>2, LatestMost DEF TotalMints
<1>5. \A k : MintsIn(Flush(d, c, h), NoRows, k) = TotalMints(Flush(d, c, h), k)
  BY <1>4, DefaultSupply DEF MintsIn
<1> QED
  BY <1>2, <1>3, <1>5

\* Entries that move runes count no mint.
LEMMA MovesCountNoMint ==
    ASSUME NEW c, IsRows(c), CountsPending(c), NEW entries
    PROVE  /\ CountsPending(AddMoves(c, entries))
           /\ \A k : Pending(AddMoves(c, entries), k) = Pending(c, k)
<1> DEFINE new == CountMoves(c.supply, entries)
<1>1. AddMoves(c, entries).supply = new
  BY DEF IsRows, AddMoves
<1>2. /\ \A k \in DOMAIN c.supply : k \in DOMAIN new
      /\ \A k \in DOMAIN new : \E a, b, e :
             new[k] = [Supply(c.supply, k) EXCEPT !.burned = a, !.total_burns = b,
                                                  !.total_operations = e]
  BY DEF CountMoves
<1> HIDE DEF new
<1>3. ASSUME NEW k \in DOMAIN new
      PROVE  IsSupply(new[k]) /\ new[k].total_mints = Pending(c, k)
  <2>1. PICK a, b, e :
            new[k] = [Supply(c.supply, k) EXCEPT !.burned = a, !.total_burns = b,
                                                 !.total_operations = e]
    BY <1>2
  <2> DEFINE s1 == [Supply(c.supply, k) EXCEPT !.burned = a]
             s2 == [s1 EXCEPT !.total_burns = b]
             s3 == [s2 EXCEPT !.total_operations = e]
  <2>2. IsSupply(s1) /\ s1.total_mints = Pending(c, k)
    BY SupplyShape, SupplyFields DEF Pending
  <2>3. new[k] = s3
    BY <2>1, Zenon
  <2> HIDE DEF s1
  <2>4. IsSupply(s2) /\ s2.total_mints = Pending(c, k)
    BY <2>2, SupplyFields
  <2> HIDE DEF s2
  <2>5. IsSupply(s3) /\ s3.total_mints = Pending(c, k)
    BY <2>4, SupplyFields
  <2> QED
    BY <2>3, <2>5
<1>4. \A k : Supply(new, k).total_mints = Pending(c, k)
  <2>1. \A k : k \notin DOMAIN new => Pending(c, k) = 0
    BY <1>2, DefaultSupply DEF Pending, Supply
  <2> QED
    BY <1>3, <2>1, DefaultSupply DEF Supply
<1> QED
  BY <1>1, <1>3, <1>4 DEF CountsPending, Pending

\* An etching counts no mint.
LEMMA EtchingCountsNoMint ==
    ASSUME NEW c, IsRows(c), CountsPending(c), NEW entries, NEW rune
    PROVE  /\ CountsPending(AddEtching(c, entries, rune))
           /\ \A k : Pending(AddEtching(c, entries, rune), k) = Pending(c, k)
<1> DEFINE id  == entries[1].rune
           was == Supply(c.supply, id)
           row == [was EXCEPT !.total_operations = @ + 1]
           new == Plus(c.supply, id, row)
<1>1. AddEtching(c, entries, rune).supply = new
  BY DEF IsRows, AddEtching, CountOperation
<1>2. IsSupply(was) /\ was.total_mints = Pending(c, id)
  BY SupplyShape DEF Pending
<1> HIDE DEF was
<1>3. IsSupply(row) /\ row.total_mints = Pending(c, id)
  BY <1>2 DEF IsSupply
<1> HIDE DEF row, id
<1>4. /\ DOMAIN new = DOMAIN c.supply \cup {id}
      /\ \A k \in DOMAIN new : new[k] = IF k = id THEN row ELSE c.supply[k]
  BY DEF Plus
<1> HIDE DEF new
<1>5. \A k \in DOMAIN new : IsSupply(new[k]) /\ new[k].total_mints = Pending(c, k)
  BY <1>3, <1>4 DEF CountsPending, Pending, Supply
<1>6. \A k : Supply(new, k).total_mints = Pending(c, k)
  BY <1>4, <1>5 DEF Supply, Pending
<1> QED
  BY <1>1, <1>5, <1>6 DEF CountsPending, Pending

\* A mint counts one for its rune and none for another.
LEMMA MintCountsOne ==
    ASSUME NEW c, IsRows(c), CountsPending(c), NEW entries
    PROVE  /\ CountsPending(AddMint(c, entries))
           /\ \A k : Pending(AddMint(c, entries), k)
                         = Pending(c, k) + IF k = entries[1].rune THEN 1 ELSE 0
<1> DEFINE id  == entries[1].rune
           was == Supply(c.supply, id)
           row == [was EXCEPT !.minted = @ + entries[1].amount,
                              !.total_mints = @ + 1, !.total_operations = @ + 1]
           new == Plus(c.supply, id, row)
<1>1. AddMint(c, entries).supply = new
  BY DEF IsRows, AddMint, CountMint
<1>2. /\ IsSupply(was) /\ was.total_mints = Pending(c, id)
      /\ \A k : Pending(c, k) \in Nat
  BY SupplyShape DEF Pending
<1> HIDE DEF was
<1>3. IsSupply(row) /\ row.total_mints = Pending(c, id) + 1
  <2> DEFINE n  == was.total_mints + 1
             s1 == [was EXCEPT !.minted = @ + entries[1].amount]
             s2 == [s1 EXCEPT !.total_mints = n]
             s3 == [s2 EXCEPT !.total_operations = @ + 1]
  <2>1. IsSupply(s1) /\ s1.total_mints = was.total_mints
    BY <1>2, SupplyFields
  <2>2. row = [[s1 EXCEPT !.total_mints = @ + 1] EXCEPT !.total_operations = @ + 1]
    BY Zenon
  <2> HIDE DEF s1
  <2>3. row = s3
    BY <2>1, <2>2, Zenon
  <2>4. n \in Nat /\ n = Pending(c, id) + 1
    BY <1>2
  <2> HIDE DEF n, row
  <2>5. IsSupply(s2) /\ s2.total_mints = n
    BY <2>1, <2>4 DEF IsSupply
  <2> HIDE DEF s2
  <2>6. IsSupply(s3) /\ s3.total_mints = n
    BY <2>5, SupplyFields
  <2> QED
    BY <2>3, <2>4, <2>6
<1> HIDE DEF row, id
<1>4. /\ DOMAIN new = DOMAIN c.supply \cup {id}
      /\ \A k \in DOMAIN new : new[k] = IF k = id THEN row ELSE c.supply[k]
  BY DEF Plus
<1> HIDE DEF new
<1>5. \A k \in DOMAIN new : IsSupply(new[k])
  BY <1>3, <1>4 DEF CountsPending
<1>6. \A k : k # id => Supply(new, k) = Supply(c.supply, k)
  BY <1>4 DEF Supply
<1>7. Supply(new, id) = row
  BY <1>4 DEF Supply
<1>8. \A k : Supply(new, k).total_mints = Pending(c, k) + IF k = id THEN 1 ELSE 0
  BY <1>2, <1>3, <1>6, <1>7 DEF Pending
<1> QED
  BY <1>1, <1>5, <1>8 DEF CountsPending, Pending, id

-----------------------------------------------------------------------------
(* The inductive invariants *)

\* The greatest height a row the open transaction sees may have.
Top == IF InBlock THEN Height ELSE Height - 1

TotalsAscend == Ascend(db.supply, Height - 1) /\ Ascend(db_tx.supply, Top)

\* A cached count is that of the rune's mints or a greater one. A mint of 0:0 is
\* counted under 0:0, which names another rune in every transaction.
Covers(cache) ==
    \A k \in DOMAIN cache \ {SelfId} : cache[k] \in Nat /\ cache[k] >= Mints(k)

CountInv ==
    /\ CountsPending(db_cache)
    /\ TotalsAscend
    /\ Covers(rune_total_mints_cache)

IsRune(r) ==
    /\ r = [id |-> r.id, number |-> r.number, name |-> r.name, height |-> r.height,
            premine |-> r.premine, terms |-> r.terms, cenotaph |-> r.cenotaph]
    /\ r.terms.cap \in Optional(Nat) /\ r.terms.amount \in Optional(Nat)

RunesShaped ==
    /\ \A r \in RuneRows : IsRune(r)
    /\ \A k \in DOMAIN rune_cache : IsRune(rune_cache[k])

AtRunestone == stage \in {"runestone", "etching"} => Artifact.kind = "runestone"

\* The order of places in the chain.
Before(a, b) == a[1] < b[1] \/ (a[1] = b[1] /\ a[2] < b[2])

Numbered ==
    /\ next_rune_number \in Nat
    /\ \A r \in RuneRows : r.number \in Nat /\ r.number < next_rune_number

NumbersAscend == \A a, b \in RuneRows : Before(a.id, b.id) => a.number < b.number

NumberInv == RunesShaped /\ AtRunestone /\ Numbered /\ NumbersAscend

TInv == IInv /\ CountInv /\ NumberInv

-----------------------------------------------------------------------------
(* The steps of a block but the etching of a rune *)

\* A lookup loses no mint.
LEMMA LookupMints ==
    ASSUME Structure, CountInv, InBlock, NEW f \in BOOLEAN
    PROVE  /\ Ascend(TablesAfter(f).supply, Height)
           /\ CountsPending(RowsAfter(f))
           /\ \A k : MintsIn(TablesAfter(f), RowsAfter(f), k) = Mints(k)
           /\ \A k : TotalMints(TablesAfter(TRUE), k) = Mints(k)
<1>1. Height \in Nat /\ block.height = Height
  BY SizesAssumption DEF Structure, Height
<1>2. Ascend(db_tx.supply, Height) /\ CountsPending(db_cache)
  BY DEF CountInv, TotalsAscend, Top
<1>3. TablesAfter(TRUE) = Flush(db_tx, db_cache, Height)
  BY <1>1 DEF TablesAfter
<1>4. /\ Ascend(TablesAfter(TRUE).supply, Height)
      /\ \A k : TotalMints(TablesAfter(TRUE), k) = Mints(k)
      /\ \A k : MintsIn(TablesAfter(TRUE), NoRows, k) = Mints(k)
  <2> DEFINE d == Flush(db_tx, db_cache, Height)
  <2>1. /\ Ascend(d.supply, Height)
        /\ \A k : TotalMints(d, k) = MintsIn(db_tx, db_cache, k)
        /\ \A k : MintsIn(d, NoRows, k) = MintsIn(db_tx, db_cache, k)
    BY <1>1, <1>2, FlushedMints
  <2>2. TablesAfter(TRUE) = d
    BY <1>3
  <2> HIDE DEF d
  <2> QED
    BY <2>1, <2>2, Zenon DEF Mints
<1>5. CASE f
  <2>1. f = TRUE /\ RowsAfter(TRUE) = NoRows
    BY <1>5 DEF RowsAfter
  <2> QED
    BY <1>4, <2>1, DefaultSupply
<1>6. CASE ~f
  <2>1. TablesAfter(f) = db_tx /\ RowsAfter(f) = db_cache
    BY <1>6 DEF TablesAfter, RowsAfter
  <2> QED
    BY <1>2, <1>4, <2>1 DEF Mints
<1> QED
  BY <1>5, <1>6

\* The mints of a rune are counted.
LEMMA MintsNat ==
    ASSUME Structure, CountInv, NEW k
    PROVE  TotalMints(db_tx, k) \in Nat /\ Pending(db_cache, k) \in Nat /\ Mints(k) \in Nat
<1>1. Top \in Int
  BY SizesAssumption DEF Structure, Height, Top
<1>2. TotalMints(db_tx, k) \in Nat
  BY <1>1, LatestMost DEF CountInv, TotalsAscend, TotalMints
<1>3. Pending(db_cache, k) \in Nat
  BY SupplyShape DEF CountInv
<1> QED
  BY <1>2, <1>3 DEF Mints, MintsIn

\* Every rune in the cache was there before or is a row.
FromRows(cache) ==
    \A k \in DOMAIN cache :
        \/ k \in DOMAIN rune_cache /\ cache[k] = rune_cache[k]
        \/ cache[k] \in RuneRows /\ cache[k].id = k

\* A step of a block that inserts what is pending if f and counts n mints of rune id.
CountStep(f, id, n) ==
    /\ InBlock /\ InBlock'
    /\ UNCHANGED <<db, chain>>
    /\ db_tx'.supply = TablesAfter(f).supply
    /\ CountsPending(db_cache')
    /\ \A k : Pending(db_cache', k)
                  = Pending(RowsAfter(f), k) + IF k = id THEN n ELSE 0

\* Such a step that adds no rune.
BlockStep(f, id, n) ==
    /\ CountStep(f, id, n)
    /\ AtRunestone'
    /\ LastEtched' >= LastEtched
    /\ UNCHANGED next_rune_number
    /\ db_tx'.runes = TablesAfter(f).runes
    /\ db_cache'.runes = RowsAfter(f).runes
    /\ FromRows(rune_cache')

\* Such a step counts these mints and no other.
LEMMA StepCounts ==
    ASSUME Structure, CountInv, NEW f \in BOOLEAN, NEW id, NEW n \in Nat,
           CountStep(f, id, n)
    PROVE  /\ CountsPending(db_cache)' /\ TotalsAscend'
           /\ \A k : Mints(k)' = Mints(k) + IF k = id THEN n ELSE 0
           /\ \A k : Mints(k) \in Nat
<1>1. /\ Ascend(TablesAfter(f).supply, Height)
      /\ CountsPending(RowsAfter(f))
      /\ \A k : MintsIn(TablesAfter(f), RowsAfter(f), k) = Mints(k)
  BY LookupMints DEF CountStep
<1>2. /\ Height' = Height /\ Top' = Height' /\ db' = db
      /\ db_tx'.supply = TablesAfter(f).supply
      /\ CountsPending(db_cache')
      /\ \A k : Pending(db_cache', k)
                    = Pending(RowsAfter(f), k) + IF k = id THEN n ELSE 0
  BY DEF CountStep, Height, Top
<1>3. TotalsAscend'
  BY <1>1, <1>2 DEF CountInv, TotalsAscend
<1>4. \A k : TotalMints(TablesAfter(f), k) \in Nat
  <2>1. Height \in Int
    BY SizesAssumption DEF Structure, Height
  <2> QED
    BY <1>1, <2>1, LatestMost DEF TotalMints
<1>5. \A k : Pending(RowsAfter(f), k) \in Nat
  BY <1>1, SupplyShape
<1>6. ASSUME NEW k
      PROVE  Mints(k)' = Mints(k) + IF k = id THEN n ELSE 0
  <2>1. Mints(k)' = TotalMints(db_tx', k) + Pending(db_cache', k)
    BY DEF Mints, MintsIn
  <2>2. TotalMints(db_tx', k) = TotalMints(TablesAfter(f), k)
    BY <1>2 DEF TotalMints
  <2>3. Mints(k) = TotalMints(TablesAfter(f), k) + Pending(RowsAfter(f), k)
    BY <1>1 DEF MintsIn
  <2> QED
    BY <1>2, <1>4, <1>5, <2>1, <2>2, <2>3
<1>7. \A k : Mints(k) \in Nat
  BY MintsNat
<1> QED
  BY <1>2, <1>3, <1>6, <1>7

\* Such a step numbers no rune.
LEMMA StepNumbers ==
    ASSUME IInv, NumberInv, NEW f \in BOOLEAN, NEW id, NEW n, BlockStep(f, id, n)
    PROVE  NumberInv' /\ RuneRows' \subseteq RuneRows
<1>1. RuneRows' \subseteq RuneRows
  <2>1. RuneRows' = RawRows(TablesAfter(f), RowsAfter(f))
    BY DEF BlockStep, RuneRows, RawRows
  <2> QED
    BY <2>1, AfterLookup DEF IInv
<1>2. RunesShaped'
  <2>1. \A k \in DOMAIN rune_cache' : IsRune(rune_cache'[k])
    BY DEF BlockStep, FromRows, NumberInv, RunesShaped
  <2>2. \A r \in RuneRows' : IsRune(r)
    BY <1>1 DEF NumberInv, RunesShaped
  <2> QED
    BY <2>1, <2>2 DEF RunesShaped, IsRune
<1>3. Numbered' /\ NumbersAscend'
  BY <1>1 DEF NumberInv, Numbered, NumbersAscend, BlockStep
<1> QED
  BY <1>1, <1>2, <1>3 DEF NumberInv, BlockStep

\* What a lookup finds was in the cache or is a row.
LEMMA FoundRuneRow ==
    ASSUME IInv, NEW id, NEW found \in FindRune(id)
    PROVE  /\ found.flushed \in BOOLEAN
           /\ FromRows(found.cache)
           /\ found.rune # None =>
                  \/ id = SelfId
                  \/ id \in DOMAIN rune_cache /\ found.rune = rune_cache[id]
                  \/ found.rune \in RuneRows /\ found.rune.id = id
<1> DEFINE rows == {r \in TablesAfter(TRUE).runes : r.id = id}
           row  == CHOOSE r \in rows : TRUE
<1>1. FromRows(rune_cache)
  BY DEF FromRows
<1>2. CASE id = SelfId
  <2>1. found = [rune |-> tx_cache.etching, cache |-> rune_cache, flushed |-> FALSE]
    BY <1>2 DEF FindRune
  <2>2. found.cache = rune_cache
    BY <2>1
  <2>3. found.flushed \in BOOLEAN
    BY <2>1, Zenon
  <2> QED
    BY <1>1, <1>2, <2>2, <2>3
<1>3. CASE id # SelfId /\ id \in DOMAIN rune_cache
  <2>1. found = [rune |-> rune_cache[id], cache |-> rune_cache, flushed |-> FALSE]
    BY <1>3 DEF FindRune
  <2>2. found.cache = rune_cache /\ found.rune = rune_cache[id]
    BY <2>1
  <2>3. found.flushed \in BOOLEAN
    BY <2>1, Zenon
  <2> QED
    BY <1>1, <1>3, <2>2, <2>3
<1>4. CASE id # SelfId /\ id \notin DOMAIN rune_cache /\ rows = {}
  <2>1. found = [rune |-> None, cache |-> rune_cache, flushed |-> TRUE]
    BY <1>4 DEF FindRune
  <2>2. found.cache = rune_cache /\ found.rune = None
    BY <2>1
  <2>3. found.flushed \in BOOLEAN
    BY <2>1, Zenon
  <2> QED
    BY <1>1, <2>2, <2>3
<1>5. CASE id # SelfId /\ id \notin DOMAIN rune_cache /\ rows # {}
  <2>1. PICK c \in LruPut(rune_cache, id, row) :
            found = [rune |-> row, cache |-> c, flushed |-> TRUE]
    BY <1>5 DEF FindRune
  <2>2. row \in TablesAfter(TRUE).runes /\ row.id = id
    BY <1>5
  <2> HIDE DEF row
  <2>3. row \in RuneRows /\ row.id = id
    BY <2>2, AfterLookup DEF IInv
  <2>4. found.cache = c /\ found.rune = row
    BY <2>1
  <2>5. found.flushed \in BOOLEAN
    BY <2>1, Zenon
  <2>6. /\ c[id] = row
        /\ \A x \in DOMAIN c : x # id => x \in DOMAIN rune_cache /\ c[x] = rune_cache[x]
    BY PutEntries
  <2>7. FromRows(c)
    BY <2>3, <2>6 DEF FromRows
  <2> QED
    BY <2>3, <2>4, <2>5, <2>7
<1> QED
  BY <1>2, <1>3, <1>4, <1>5

\* A step inside a transaction that at most looks up and moves runes.
LEMMA QuietStep ==
    ASSUME TInv, InBlock, InBlock', NEW f \in BOOLEAN,
           UNCHANGED <<db, chain, next_rune_number>>,
           AtRunestone', LastEtched' >= LastEtched,
           db_tx'.supply = TablesAfter(f).supply, db_tx'.runes = TablesAfter(f).runes,
           db_cache' = RowsAfter(f) \/ \E e : db_cache' = AddMoves(RowsAfter(f), e),
           FromRows(rune_cache')
    PROVE  BlockStep(f, SelfId, 0)
<1>1. Structure /\ CountInv
  BY DEF TInv, IInv
<1>2. CountsPending(RowsAfter(f)) /\ IsRows(RowsAfter(f))
  BY <1>1, LookupMints, AfterLookup
<1>3. /\ CountsPending(db_cache')
      /\ db_cache'.runes = RowsAfter(f).runes
      /\ \A k : Pending(db_cache', k) = Pending(RowsAfter(f), k)
  BY <1>2, MovesCountNoMint, AddedRows
<1>4. \A k : Pending(RowsAfter(f), k) \in Nat
  BY <1>2, SupplyShape
<1>5. \A k : Pending(db_cache', k)
                 = Pending(RowsAfter(f), k) + IF k = SelfId THEN 0 ELSE 0
  BY <1>3, <1>4
<1> QED
  BY <1>3, <1>5 DEF BlockStep, CountStep

\* Where it leaves the counts in memory alone it keeps the invariants.
LEMMA QuietKeeps ==
    ASSUME TInv, IInv', NEW f \in BOOLEAN, BlockStep(f, SelfId, 0),
           UNCHANGED rune_total_mints_cache
    PROVE  TInv' /\ \A k : Mints(k)' = Mints(k)
<1>1. Structure /\ CountInv /\ IInv /\ NumberInv
  BY DEF TInv, IInv
<1>2. /\ CountsPending(db_cache)' /\ TotalsAscend'
      /\ \A k : Mints(k)' = Mints(k) + IF k = SelfId THEN 0 ELSE 0
      /\ \A k : Mints(k) \in Nat
  BY <1>1, StepCounts DEF BlockStep
<1>3. \A k : Mints(k)' = Mints(k)
  BY <1>2
<1>4. Covers(rune_total_mints_cache)'
  BY <1>1, <1>3 DEF CountInv, Covers
<1>5. NumberInv'
  BY <1>1, StepNumbers
<1> QED
  BY <1>2, <1>3, <1>4, <1>5 DEF TInv, CountInv

Quiet ==
    /\ \E f \in BOOLEAN : BlockStep(f, SelfId, 0)
    /\ UNCHANGED rune_total_mints_cache

\* The pointer of a runestone is part of no row.
LEMMA ApplyRunestoneQuiet == TInv /\ ApplyRunestone => Quiet
<1> SUFFICES ASSUME TInv, ApplyRunestone
             PROVE  Quiet
  OBVIOUS
<1>1. /\ stage = "runestone" /\ stage' = "etching"
      /\ UNCHANGED <<next_rune_number, caches, db_cache, db_tx, db, block, pos, history>>
  BY DEF ApplyRunestone
<1>2. UNCHANGED <<rune_cache, rune_total_mints_cache, chain>>
  BY <1>1 DEF caches, history
<1>3. AtRunestone'
  BY <1>1 DEF TInv, NumberInv, AtRunestone, Artifact, Tx
<1>4. LastEtched' >= LastEtched
  BY <1>1, StagesAdvance DEF TInv, IInv, Stages
<1>5. db_tx' = TablesAfter(FALSE) /\ db_cache' = RowsAfter(FALSE) /\ FromRows(rune_cache')
  BY <1>1, <1>2 DEF TablesAfter, RowsAfter, FromRows
<1>6. BlockStep(FALSE, SelfId, 0)
  BY <1>1, <1>2, <1>3, <1>4, <1>5, QuietStep DEF InBlock
<1> QED
  BY <1>2, <1>6 DEF Quiet

\* Nor is what a transaction starts with.
LEMMA BeginTransactionQuiet == TInv /\ BeginTransaction => Quiet
<1> SUFFICES ASSUME TInv, BeginTransaction
             PROVE  Quiet
  OBVIOUS
<1> DEFINE kind == TxData[block.txs[pos + 1]].artifact.kind
<1>1. /\ stage = "next" /\ pos < Len(block.txs) /\ pos' = pos + 1
      /\ stage' = IF kind = "none" THEN "end" ELSE kind
      /\ UNCHANGED <<next_rune_number, rune_cache, rune_total_mints_cache, db_cache,
                     db_tx, db, block, chain>>
  BY DEF BeginTransaction, caches, history
<1>2. block.txs \in Seq(Txs) /\ pos \in 0..Len(block.txs)
  BY DEF TInv, IInv, Structure
<1>3. pos \in Nat /\ block.txs[pos + 1] \in Txs
  BY <1>1, <1>2
<1>4. kind \in {"none", "runestone", "cenotaph"}
  BY <1>3, ArtifactAssumption
<1>5. Artifact'.kind = kind
  BY <1>1 DEF Artifact, Tx
<1> HIDE DEF kind
<1>6. AtRunestone' /\ InBlock /\ InBlock'
  BY <1>1, <1>4, <1>5 DEF AtRunestone, InBlock
<1>7. LastEtched' >= LastEtched
  <2>1. LastEtched = pos
    BY <1>1 DEF LastEtched
  <2>2. LastEtched' = pos + 1 \/ LastEtched' = (pos + 1) - 1
    BY <1>1, <1>4 DEF LastEtched
  <2> QED
    BY <1>3, <2>1, <2>2
<1>8. db_tx' = TablesAfter(FALSE) /\ db_cache' = RowsAfter(FALSE) /\ FromRows(rune_cache')
  BY <1>1 DEF TablesAfter, RowsAfter, FromRows
<1>9. BlockStep(FALSE, SelfId, 0)
  BY <1>1, <1>6, <1>7, <1>8, QuietStep
<1> QED
  BY <1>1, <1>9 DEF Quiet

\* The burn of a cenotaph's inputs moves runes.
LEMMA ApplyCenotaphQuiet == TInv /\ ApplyCenotaph => Quiet
<1> SUFFICES ASSUME TInv, ApplyCenotaph
             PROVE  Quiet
  OBVIOUS
<1>1. /\ stage = "cenotaph" /\ stage' = "cenotaph etching"
      /\ \E e : db_cache' = AddMoves(RowsAfter(FALSE), e)
      /\ UNCHANGED <<next_rune_number, rune_cache, rune_total_mints_cache,
                     db_tx, db, block, pos, chain>>
  BY DEF ApplyCenotaph, RecordMoves, RowsAfter, caches, history
<1>2. AtRunestone' /\ InBlock /\ InBlock'
  BY <1>1 DEF AtRunestone, InBlock
<1>3. LastEtched' >= LastEtched
  BY <1>1, StagesAdvance DEF TInv, IInv, Stages
<1>4. db_tx' = TablesAfter(FALSE) /\ FromRows(rune_cache')
  BY <1>1 DEF TablesAfter, FromRows
<1>5. BlockStep(FALSE, SelfId, 0)
  BY <1>1, <1>2, <1>3, <1>4, QuietStep
<1> QED
  BY <1>1, <1>5 DEF Quiet

\* So does allocating what is left over.
LEMMA EndTransactionQuiet == TInv /\ EndTransaction => Quiet
<1> SUFFICES ASSUME TInv, EndTransaction
             PROVE  Quiet
  OBVIOUS
<1>1. /\ stage \in {"end", "edicts"} /\ stage' = "next"
      /\ \E e : db_cache' = AddMoves(RowsAfter(FALSE), e)
      /\ UNCHANGED <<next_rune_number, rune_cache, rune_total_mints_cache,
                     db_tx, db, block, pos, chain>>
  BY DEF EndTransaction, EdictsDone, RecordMoves, RowsAfter, caches, history
<1>2. AtRunestone' /\ InBlock /\ InBlock'
  BY <1>1 DEF AtRunestone, InBlock
<1>3. LastEtched' >= LastEtched
  BY <1>1, StagesAdvance DEF TInv, IInv, Stages
<1>4. db_tx' = TablesAfter(FALSE) /\ FromRows(rune_cache')
  BY <1>1 DEF TablesAfter, FromRows
<1>5. BlockStep(FALSE, SelfId, 0)
  BY <1>1, <1>2, <1>3, <1>4, QuietStep
<1> QED
  BY <1>1, <1>5 DEF Quiet

\* An edict looks its rune up and moves it.
LEMMA EdictQuiet == TInv /\ Edict => Quiet
<1> SUFFICES ASSUME TInv, Edict
             PROVE  Quiet
  OBVIOUS
<1>1. PICK found \in FindRune(Artifact.edicts[next_edict].id) :
          /\ rune_cache' = found.cache
          /\ db_tx' = TablesAfter(found.flushed)
          /\ \/ db_cache' = RowsAfter(found.flushed)
             \/ RecordMoves(RowsAfter(found.flushed),
                            ApplyEdict(tx_cache, Artifact.edicts[next_edict]))
  BY Zenon DEF Edict
<1> DEFINE f == found.flushed
<1>2. /\ stage = "edicts" /\ stage' = "edicts"
      /\ UNCHANGED <<next_rune_number, rune_total_mints_cache, db, block, pos, chain>>
  BY DEF Edict, history
<1>3. AtRunestone' /\ InBlock /\ InBlock'
  BY <1>2 DEF AtRunestone, InBlock
<1>4. LastEtched' >= LastEtched
  BY <1>2, StagesAdvance DEF TInv, IInv, Stages
<1>5. f \in BOOLEAN /\ FromRows(rune_cache')
  BY <1>1, FoundRuneRow DEF TInv
<1>6. /\ db_tx' = TablesAfter(f)
      /\ db_cache' = RowsAfter(f) \/ \E e : db_cache' = AddMoves(RowsAfter(f), e)
  BY <1>1 DEF RecordMoves
<1> HIDE DEF f
<1>7. BlockStep(f, SelfId, 0)
  BY <1>2, <1>3, <1>4, <1>5, <1>6, QuietStep
<1> QED
  BY <1>2, <1>5, <1>7 DEF Quiet

\* The end of a block inserts what is pending.
LEMMA EndBlockQuiet == TInv /\ EndBlock => Quiet
<1> SUFFICES ASSUME TInv, EndBlock
             PROVE  Quiet
  OBVIOUS
<1>1. /\ stage = "next" /\ stage' = "commit" /\ db_cache' = NoRows
      /\ db_tx' = [TablesAfter(TRUE) EXCEPT !.last_scanned = block.height]
      /\ UNCHANGED <<next_rune_number, rune_cache, rune_total_mints_cache, db, block, pos,
                     chain>>
  BY Zenon DEF EndBlock, history
<1>2. AtRunestone' /\ InBlock /\ InBlock'
  BY <1>1 DEF AtRunestone, InBlock
<1>3. LastEtched' >= LastEtched
  BY <1>1, StagesAdvance DEF TInv, IInv, Stages
<1>4. IsTables(TablesAfter(TRUE))
  BY AfterLookup DEF TInv, IInv
<1>5. /\ db_tx'.supply = TablesAfter(TRUE).supply
      /\ db_tx'.runes = TablesAfter(TRUE).runes
      /\ db_cache' = RowsAfter(TRUE)
      /\ FromRows(rune_cache')
  BY <1>1, <1>4 DEF IsTables, RowsAfter, FromRows
<1>6. BlockStep(TRUE, SelfId, 0)
  BY <1>1, <1>2, <1>3, <1>5, QuietStep
<1> QED
  BY <1>1, <1>6 DEF Quiet

-----------------------------------------------------------------------------
(* Etchings *)

\* The shape of a step that etches rune.
NumberStep(rune) ==
    /\ stage \in {"etching", "cenotaph etching"}
    /\ stage' \in {"mint", "cenotaph mint"}
    /\ UNCHANGED <<db, db_tx, block, pos, rune_total_mints_cache, chain>>
    /\ rune.id = <<Height, pos>>
    /\ rune.number = next_rune_number
    /\ IsRune(rune)
    /\ next_rune_number' = next_rune_number + 1
    /\ \E e : db_cache' = AddEtching(db_cache, e, rune)
    /\ rune_cache' \in LruPut(rune_cache, rune.id, rune)

\* The column an insert leaves out is not one the proofs are about.
LEMMA ClearedRune ==
    ASSUME NEW r, IsRune(r)
    PROVE  /\ IsRune(Cleared(r))
           /\ Cleared(r).id = r.id
           /\ Cleared(r).number = r.number
           /\ Cleared(r).terms = r.terms
<1> DEFINE c == [id |-> r.id, number |-> r.number, name |-> r.name, height |-> r.height,
                 premine |-> r.premine, terms |-> r.terms, cenotaph |-> FALSE]
<1>1. Cleared(r) = c
  <2>1. \A v : [r EXCEPT !.cenotaph = v]
                  = [id |-> r.id, number |-> r.number, name |-> r.name,
                     height |-> r.height, premine |-> r.premine, terms |-> r.terms,
                     cenotaph |-> v]
    BY DEF IsRune
  <2>2. [r EXCEPT !.cenotaph = FALSE] = c
    BY <2>1, Zenon
  <2> QED
    BY <2>2, Zenon DEF Cleared
<1>2. /\ c.id = r.id /\ c.number = r.number /\ c.name = r.name /\ c.height = r.height
      /\ c.premine = r.premine /\ c.terms = r.terms /\ c.cenotaph = FALSE
  OBVIOUS
<1>3. c = [id |-> c.id, number |-> c.number, name |-> c.name, height |-> c.height,
           premine |-> c.premine, terms |-> c.terms, cenotaph |-> c.cenotaph]
  OBVIOUS
<1> HIDE DEF c
<1>4. r.terms.cap \in Optional(Nat) /\ r.terms.amount \in Optional(Nat)
  BY DEF IsRune
<1>5. IsRune(c)
  BY <1>2, <1>3, <1>4, Zenon DEF IsRune
<1> QED
  BY <1>1, <1>2, <1>5

\* Its row comes after every other, in place and in number.
LEMMA NumberedRow ==
    ASSUME TInv, NEW rune, NumberStep(rune)
    PROVE  /\ InBlock /\ InBlock' /\ Height' = Height
           /\ LastEtched = pos - 1 /\ LastEtched' = pos
           /\ pos \in Nat \ {0} /\ Height \in Nat
           /\ RuneRows' = RuneRows \cup {Cleared(rune)}
           /\ \A r \in RuneRows : r.id = <<r.id[1], r.id[2]>> /\ Before(r.id, rune.id)
           /\ \A r \in RuneRows : r.id[1] \in Nat /\ r.id[2] \in Nat
<1>1. Structure /\ RunesInv
  BY DEF TInv, IInv
<1>2. /\ InBlock /\ InBlock' /\ InTransaction /\ Height' = Height
      /\ LastEtched = pos - 1 /\ LastEtched' = pos
  BY DEF NumberStep, InBlock, InTransaction, Height, LastEtched
<1>3. pos \in Nat \ {0} /\ Height \in Nat /\ Height >= StartHeight
  BY <1>1, <1>2, PosNat, SizesAssumption DEF Structure, Height
<1>4. RuneRows' = RuneRows \cup {Cleared(rune)}
  <2>1. db_cache'.runes = Append(db_cache.runes, rune) /\ db_tx' = db_tx
    <3>1. PICK e : db_cache' = AddEtching(db_cache, e, rune)
      BY DEF NumberStep
    <3>2. IsRows(db_cache) /\ db_tx' = db_tx
      BY <1>1 DEF NumberStep, Structure
    <3>3. AddEtching(db_cache, e, rune).runes = Append(db_cache.runes, rune)
      BY <3>2, AddedEtching, Zenon
    <3> QED
      BY <3>1, <3>2, <3>3
  <2>2. db_cache.runes \in Seq(ToSet(db_cache.runes))
    BY <1>1 DEF Structure
  <2>3. /\ DOMAIN db_cache'.runes = DOMAIN db_cache.runes \cup {Len(db_cache.runes) + 1}
        /\ \A i \in DOMAIN db_cache.runes : db_cache'.runes[i] = db_cache.runes[i]
        /\ db_cache'.runes[Len(db_cache.runes) + 1] = rune
    BY <2>1, <2>2, AppendRow
  <2> QED
    BY <2>1, <2>3 DEF RuneRows, RawRows
<1>5. ASSUME NEW r \in RuneRows
      PROVE  /\ r.id = <<r.id[1], r.id[2]>> /\ Before(r.id, rune.id)
             /\ r.id[1] \in Nat /\ r.id[2] \in Nat
  <2>1. rune.id[1] = Height /\ rune.id[2] = pos
    <3>1. rune.id = <<Height, pos>>
      BY DEF NumberStep
    <3> QED
      BY <3>1
  <2>2. CASE r = GenesisRune
    <3>1. r.id \in Nat \X Nat /\ r.id[1] < StartHeight
      BY <2>2, GenesisAssumption
    <3> QED
      BY <1>3, <2>1, <3>1, SizesAssumption DEF Before
  <2>3. CASE Placed(r)
    <3>1. r.id[1] = r.height /\ r.id = <<r.id[1], r.id[2]>>
      BY <2>3 DEF Placed
    <3> QED
      BY <1>2, <1>3, <2>1, <2>3, <3>1 DEF Placed, Before
  <2> QED
    BY <1>1, <2>2, <2>3 DEF RunesInv, RowsPlaced
<1> QED
  BY <1>2, <1>3, <1>4, <1>5

\* So the number it gets is the next one.
LEMMA NumberStepKeeps ==
    ASSUME TInv, IInv', NEW rune, NumberStep(rune)
    PROVE  TInv' /\ \A k : Mints(k)' = Mints(k)
<1> DEFINE row == Cleared(rune)
<1>1. Structure /\ CountInv /\ NumberInv
  BY DEF TInv, IInv
<1>2. /\ InBlock /\ InBlock' /\ RuneRows' = RuneRows \cup {row}
      /\ \A r \in RuneRows : Before(r.id, rune.id) /\ r.id[1] \in Nat /\ r.id[2] \in Nat
      /\ rune.id[1] \in Nat /\ rune.id[2] \in Nat
  <2>1. rune.id = <<Height, pos>>
    BY DEF NumberStep
  <2> QED
    BY <2>1, NumberedRow
<1>3. /\ IsRune(row) /\ row.id = rune.id /\ row.number = next_rune_number /\ IsRune(rune)
      /\ next_rune_number' = next_rune_number + 1
  BY ClearedRune DEF NumberStep
<1> HIDE DEF row
<1>4. CountStep(FALSE, SelfId, 0)
  <2>1. CountsPending(db_cache) /\ IsRows(db_cache)
    BY <1>1 DEF CountInv, Structure
  <2>2. CountsPending(db_cache') /\ \A k : Pending(db_cache', k) = Pending(db_cache, k)
    <3>1. PICK e : db_cache' = AddEtching(db_cache, e, rune)
      BY DEF NumberStep
    <3> QED
      BY <2>1, <3>1, EtchingCountsNoMint
  <2>3. \A k : Pending(db_cache, k) \in Nat
    BY <2>1, SupplyShape
  <2>4. db_tx' = TablesAfter(FALSE) /\ db_cache = RowsAfter(FALSE)
    BY DEF NumberStep, TablesAfter, RowsAfter
  <2>5. ASSUME NEW k
        PROVE  Pending(db_cache', k)
                   = Pending(RowsAfter(FALSE), k) + IF k = SelfId THEN 0 ELSE 0
    <3>1. Pending(db_cache', k) = Pending(db_cache, k) + 0
      BY <2>2, <2>3
    <3> QED
      BY <2>4, <3>1
  <2> QED
    BY <1>2, <2>2, <2>4, <2>5 DEF CountStep, NumberStep
<1>5. /\ CountsPending(db_cache)' /\ TotalsAscend'
      /\ \A k : Mints(k)' = Mints(k)
  <2>1. /\ CountsPending(db_cache)' /\ TotalsAscend'
        /\ \A k : Mints(k)' = Mints(k) + IF k = SelfId THEN 0 ELSE 0
        /\ \A k : Mints(k) \in Nat
    BY <1>1, <1>4, StepCounts
  <2> QED
    BY <2>1
<1>6. Covers(rune_total_mints_cache)'
  BY <1>1, <1>5 DEF CountInv, Covers, NumberStep
<1>7. RunesShaped'
  <2>1. \A k \in DOMAIN rune_cache' : IsRune(rune_cache'[k])
    <3>1. /\ rune_cache'[rune.id] = rune
          /\ \A x \in DOMAIN rune_cache' : x # rune.id =>
                 x \in DOMAIN rune_cache /\ rune_cache'[x] = rune_cache[x]
      <4>1. rune_cache' \in LruPut(rune_cache, rune.id, rune)
        BY DEF NumberStep
      <4> QED
        BY <4>1, PutEntries
    <3> QED
      BY <1>1, <1>3, <3>1 DEF NumberInv, RunesShaped
  <2>2. \A r \in RuneRows' : IsRune(r)
    BY <1>1, <1>2, <1>3 DEF NumberInv, RunesShaped
  <2> QED
    BY <2>1, <2>2 DEF RunesShaped, IsRune
<1>8. AtRunestone'
  BY DEF AtRunestone, NumberStep
<1>9. Numbered'
  BY <1>1, <1>2, <1>3 DEF NumberInv, Numbered
<1>10. NumbersAscend'
  <2>1. \A r \in RuneRows : ~Before(row.id, r.id)
    BY <1>2, <1>3 DEF Before
  <2>2. ~Before(row.id, row.id)
    BY <1>2, <1>3 DEF Before
  <2>3. \A r \in RuneRows : r.number < row.number
    BY <1>1, <1>3 DEF NumberInv, Numbered
  <2> QED
    BY <1>1, <1>2, <2>1, <2>2, <2>3 DEF NumberInv, NumbersAscend
<1> QED
  BY <1>5, <1>6, <1>7, <1>8, <1>9, <1>10 DEF TInv, CountInv, NumberInv

\* The row of an etching has all its columns.
LEMMA EtchingShape ==
    ASSUME NEW number, NEW location, NEW etching \in EtchingType
    PROVE  /\ IsRune(DbRuneFromEtching(etching, number, location))
           /\ DbRuneFromEtching(etching, number, location).number = number
           /\ DbRuneFromEtching(etching, number, location).id
                  = <<location.height, location.index>>
<1> DEFINE rune == DbRuneFromEtching(etching, number, location)
<1>1. /\ rune.number = number /\ rune.id = <<location.height, location.index>>
      /\ rune.terms = IF etching.terms = None THEN NoTerms ELSE etching.terms
  BY DEF DbRuneFromEtching, RuneIdOf
<1>2. \A i, n, na, h, pr, te, ce :
          LET r == [id |-> i, number |-> n, name |-> na, height |-> h, premine |-> pr,
                    terms |-> te, cenotaph |-> ce]
          IN  r = [id |-> r.id, number |-> r.number, name |-> r.name,
                   height |-> r.height, premine |-> r.premine, terms |-> r.terms,
                   cenotaph |-> r.cenotaph]
  OBVIOUS
<1>3. rune = [id |-> rune.id, number |-> rune.number, name |-> rune.name,
              height |-> rune.height, premine |-> rune.premine, terms |-> rune.terms,
              cenotaph |-> rune.cenotaph]
  BY <1>2, Zenon DEF DbRuneFromEtching
<1> HIDE DEF rune
<1>4. rune.terms.cap \in Optional(Nat) /\ rune.terms.amount \in Optional(Nat)
  <2>1. etching.terms = None \/ etching.terms \in TermsType
    BY DEF EtchingType, Optional
  <2>2. CASE etching.terms = None
    BY <1>1, <2>2 DEF NoTerms, Optional
  <2>3. CASE etching.terms # None
    BY <1>1, <2>1, <2>3 DEF TermsType
  <2> QED
    BY <2>2, <2>3
<1> QED
  BY <1>1, <1>3, <1>4 DEF IsRune, rune

\* So has that of a cenotaph's etching.
LEMMA CenotaphEtchingShape ==
    ASSUME NEW number, NEW location, NEW name
    PROVE  /\ IsRune(DbRuneFromCenotaphEtching(name, number, location))
           /\ DbRuneFromCenotaphEtching(name, number, location).number = number
           /\ DbRuneFromCenotaphEtching(name, number, location).id
                  = <<location.height, location.index>>
<1> DEFINE rune == DbRuneFromCenotaphEtching(name, number, location)
<1>1. /\ rune.number = number /\ rune.id = <<location.height, location.index>>
      /\ rune.terms.cap = None /\ rune.terms.amount = None
  BY DEF DbRuneFromCenotaphEtching, RuneIdOf, NoTerms
<1>2. \A i, n, na, h, pr, te, ce :
          LET r == [id |-> i, number |-> n, name |-> na, height |-> h, premine |-> pr,
                    terms |-> te, cenotaph |-> ce]
          IN  r = [id |-> r.id, number |-> r.number, name |-> r.name,
                   height |-> r.height, premine |-> r.premine, terms |-> r.terms,
                   cenotaph |-> r.cenotaph]
  OBVIOUS
<1>3. rune = [id |-> rune.id, number |-> rune.number, name |-> rune.name,
              height |-> rune.height, premine |-> rune.premine, terms |-> rune.terms,
              cenotaph |-> rune.cenotaph]
  BY <1>2, Zenon DEF DbRuneFromCenotaphEtching
<1> HIDE DEF rune
<1> QED
  BY <1>1, <1>3 DEF IsRune, rune, Optional

\* A transaction that etches nothing goes on.
LEMMA NothingEtchedQuiet ==
    ASSUME TInv, NothingEtched,
           (stage = "etching" /\ stage' = "mint")
               \/ (stage = "cenotaph etching" /\ stage' = "cenotaph mint"),
           UNCHANGED <<db, db_tx, block, pos, rune_total_mints_cache, chain>>
    PROVE  Quiet
<1>1. UNCHANGED <<db_cache, rune_cache, next_rune_number>>
  BY DEF NothingEtched
<1>2. AtRunestone' /\ InBlock /\ InBlock'
  BY DEF AtRunestone, InBlock
<1>3. LastEtched' >= LastEtched
  <2>1. LastEtched' = pos /\ LastEtched = pos - 1
    BY DEF LastEtched
  <2> QED
    BY <2>1, PosNat, OneBefore, Zenon DEF TInv, IInv
<1>4. db_tx' = TablesAfter(FALSE) /\ db_cache' = RowsAfter(FALSE) /\ FromRows(rune_cache')
  BY <1>1 DEF TablesAfter, RowsAfter, FromRows
<1>5. BlockStep(FALSE, SelfId, 0)
  BY <1>1, <1>2, <1>3, <1>4, QuietStep
<1> QED
  BY <1>5 DEF Quiet

\* A runestone etches a rune or goes on.
LEMMA EtchingNumbers == TInv /\ Etching => Quiet \/ \E rune : NumberStep(rune)
<1> SUFFICES ASSUME TInv, Etching
             PROVE  Quiet \/ \E rune : NumberStep(rune)
  OBVIOUS
<1>1. /\ stage = "etching" /\ stage' = "mint"
      /\ UNCHANGED <<db, db_tx, block, pos, rune_total_mints_cache, chain>>
  BY DEF Etching, history
<1>2. CASE NothingEtched
  BY <1>1, <1>2, NothingEtchedQuiet
<1>3. CASE /\ Artifact.etching # None
           /\ RecordEtching(ApplyEtching(tx_cache, Artifact.etching, next_rune_number))
  <2> DEFINE result == ApplyEtching(tx_cache, Artifact.etching, next_rune_number)
             rune   == result.tc.etching
  <2>1. /\ Structure /\ InTransaction /\ IsTransaction(tx_cache)
        /\ tx_cache.location.height = Height /\ tx_cache.location.index = pos
    BY <1>1 DEF TInv, IInv, Structure, InTransaction
  <2>2. rune = DbRuneFromEtching(Artifact.etching, next_rune_number, tx_cache.location)
    BY <2>1, EtchingKeeps
  <2> HIDE DEF result
  <2>3. /\ db_cache' = AddEtching(db_cache, result.entries, rune)
        /\ rune_cache' \in LruPut(rune_cache, rune.id, rune)
        /\ next_rune_number' = next_rune_number + 1
    BY <1>3 DEF RecordEtching, result
  <2> HIDE DEF rune
  <2>4. Artifact.etching \in EtchingType
    <3>1. block.txs \in Seq(Txs) /\ pos \in 0..Len(block.txs) /\ pos # 0
      BY <2>1 DEF Structure
    <3>2. block.txs[pos] \in Txs
      BY <3>1
    <3>3. Artifact.kind = "runestone"
      BY <1>1 DEF TInv, NumberInv, AtRunestone
    <3>4. Artifact.etching \in Optional(EtchingType)
      BY <3>2, <3>3, ArtifactAssumption DEF Artifact, Tx
    <3> QED
      BY <1>3, <3>4 DEF Optional
  <2>5. IsRune(rune) /\ rune.number = next_rune_number /\ rune.id = <<Height, pos>>
    BY <2>1, <2>2, <2>4, EtchingShape
  <2>6. NumberStep(rune)
    BY <1>1, <2>3, <2>5 DEF NumberStep
  <2> QED
    BY <2>6
<1> QED
  BY <1>2, <1>3 DEF Etching

\* So does a cenotaph.
LEMMA CenotaphEtchingNumbers ==
    TInv /\ CenotaphEtching => Quiet \/ \E rune : NumberStep(rune)
<1> SUFFICES ASSUME TInv, CenotaphEtching
             PROVE  Quiet \/ \E rune : NumberStep(rune)
  OBVIOUS
<1>1. /\ stage = "cenotaph etching" /\ stage' = "cenotaph mint"
      /\ UNCHANGED <<db, db_tx, block, pos, rune_total_mints_cache, chain>>
  BY DEF CenotaphEtching, history
<1>2. CASE NothingEtched
  BY <1>1, <1>2, NothingEtchedQuiet
<1>3. CASE RecordEtching(ApplyCenotaphEtching(tx_cache, Artifact.etching,
                                             next_rune_number))
  <2> DEFINE result == ApplyCenotaphEtching(tx_cache, Artifact.etching, next_rune_number)
             rune   == result.tc.etching
  <2>1. /\ Structure /\ InTransaction /\ IsTransaction(tx_cache)
        /\ tx_cache.location.height = Height /\ tx_cache.location.index = pos
    BY <1>1 DEF TInv, IInv, Structure, InTransaction
  <2>2. rune = DbRuneFromCenotaphEtching(Artifact.etching, next_rune_number,
                                         tx_cache.location)
    BY <2>1, EtchingKeeps
  <2> HIDE DEF result
  <2>3. /\ db_cache' = AddEtching(db_cache, result.entries, rune)
        /\ rune_cache' \in LruPut(rune_cache, rune.id, rune)
        /\ next_rune_number' = next_rune_number + 1
    BY <1>3 DEF RecordEtching, result
  <2> HIDE DEF rune
  <2>4. IsRune(rune) /\ rune.number = next_rune_number /\ rune.id = <<Height, pos>>
    BY <2>1, <2>2, CenotaphEtchingShape
  <2>5. NumberStep(rune)
    BY <1>1, <2>3, <2>4 DEF NumberStep
  <2> QED
    BY <2>5
<1> QED
  BY <1>2, <1>3 DEF CenotaphEtching

-----------------------------------------------------------------------------
(* Mints *)

\* A count that is looked up is that of the rune's mints or a greater one.
LEMMA FoundTotalCovers ==
    ASSUME Structure, CountInv, InBlock, NEW id, NEW counted \in FindTotalMints(id)
    PROVE  /\ counted.flushed \in BOOLEAN
           /\ Covers(counted.cache)
           /\ id # SelfId =>
                  /\ counted.total \in Nat
                  /\ counted.total >= Mints(id)
                  /\ id \in DOMAIN counted.cache \/ Mints(id) = 0
<1> DEFINE real  == IF id = SelfId THEN RuneIdOf(tx_cache.location) ELSE id
           total == TotalMints(TablesAfter(TRUE), id)
<1>1. Covers(rune_total_mints_cache)
  BY DEF CountInv
<1>2. total = Mints(id) /\ \A k : Mints(k) \in Nat
  BY LookupMints, MintsNat
<1>3. CASE real \in DOMAIN rune_total_mints_cache
  <2>1. counted = [total |-> rune_total_mints_cache[real],
                   cache |-> rune_total_mints_cache, flushed |-> FALSE]
    BY <1>3 DEF FindTotalMints
  <2>2. /\ counted.cache = rune_total_mints_cache
        /\ counted.total = rune_total_mints_cache[real]
    BY <2>1
  <2>3. counted.flushed \in BOOLEAN
    BY <2>1, Zenon
  <2>4. id # SelfId =>
            /\ counted.total \in Nat
            /\ counted.total >= Mints(id)
            /\ id \in DOMAIN counted.cache
    BY <1>1, <1>3, <2>2 DEF Covers
  <2> QED
    BY <1>1, <2>2, <2>3, <2>4
<1>4. CASE real \notin DOMAIN rune_total_mints_cache /\ ~HasSupply(TablesAfter(TRUE), id)
  <2>1. counted = [total |-> 0, cache |-> rune_total_mints_cache, flushed |-> TRUE]
    BY <1>4 DEF FindTotalMints
  <2>2. counted.cache = rune_total_mints_cache /\ counted.total = 0
    BY <2>1
  <2>3. counted.flushed \in BOOLEAN
    BY <2>1, Zenon
  <2>4. total = 0
    <3> DEFINE rows == TablesAfter(TRUE).supply
    <3>1. Ascend(rows, Height)
      BY LookupMints
    <3>0. Height \in Int
      BY SizesAssumption DEF Structure, Height
    <3>2. \A x \in DOMAIN rows : x[1] # id
      BY <1>4 DEF HasSupply
    <3> HIDE DEF rows
    <3>3. \A h : <<id, h>> \notin DOMAIN rows
      BY <3>2
    <3>4. Latest(rows, id, NoSupply) = NoSupply
      BY <3>0, <3>1, <3>3, LatestRow, Zenon
    <3> QED
      BY <3>4, DefaultSupply DEF TotalMints, rows
  <2>5. Mints(id) = 0
    BY <1>2, <2>4
  <2> QED
    BY <1>1, <2>2, <2>3, <2>5
<1>5. CASE real \notin DOMAIN rune_total_mints_cache /\ HasSupply(TablesAfter(TRUE), id)
  <2>1. PICK c \in LruPut(rune_total_mints_cache, id, total) :
            counted = [total |-> total, cache |-> c, flushed |-> TRUE]
    BY <1>5 DEF FindTotalMints
  <2>2. counted.flushed \in BOOLEAN
    BY <2>1, Zenon
  <2> HIDE DEF total
  <2>3. counted.cache = c /\ counted.total = total
    BY <2>1
  <2>4. /\ id \in DOMAIN c /\ c[id] = total
        /\ \A x \in DOMAIN c : x # id =>
               x \in DOMAIN rune_total_mints_cache /\ c[x] = rune_total_mints_cache[x]
    BY PutEntries
  <2>5. Covers(c)
    BY <1>1, <1>2, <2>4 DEF Covers
  <2> QED
    BY <1>2, <2>2, <2>3, <2>4, <2>5
<1> QED
  BY <1>3, <1>4, <1>5

\* One more mint of a rune is covered by one more count of it.
LEMMA CountedCovers ==
    ASSUME NEW id, NEW n \in {0, 1}, NEW cache, NEW c \in CountedMint(cache, id),
           \A k : Mints(k) \in Nat,
           \A k : Mints(k)' = Mints(k) + IF k = id THEN n ELSE 0,
           Covers(cache),
           id # SelfId => id \in DOMAIN cache \/ Mints(id) = 0
    PROVE  \A k \in DOMAIN c \ {SelfId} : c[k] \in Nat /\ c[k] >= Mints(k)'
<1> DEFINE v == IF id \in DOMAIN cache THEN cache[id] + 1 ELSE 1
<1>1. /\ c[id] = v
      /\ \A x \in DOMAIN c : x # id => x \in DOMAIN cache /\ c[x] = cache[x]
  BY PutEntries DEF CountedMint
<1>2. id # SelfId => v \in Nat /\ v >= Mints(id) + n
  BY DEF Covers
<1> HIDE DEF v
<1>3. Mints(id)' = Mints(id) + n
  OBVIOUS
<1>4. \A k : k # id => Mints(k)' = Mints(k)
  OBVIOUS
<1> QED
  BY <1>1, <1>2, <1>3, <1>4 DEF Covers

\* A step of a block after which the cache of counts still covers the mints.
Uncounted ==
    \E f \in BOOLEAN : BlockStep(f, SelfId, 0) /\ Covers(rune_total_mints_cache)'

\* The rune that is minted is found, and was minted less often than it may be.
BelowCap ==
    Artifact.mint # SelfId =>
        \E found \in FindRune(Artifact.mint) :
            /\ found.rune # None
            /\ found.rune.terms.cap # None =>
                   Mints(Artifact.mint) < found.rune.terms.cap

CountedOne ==
    \E f \in BOOLEAN :
        /\ BlockStep(f, Artifact.mint, 1)
        /\ Covers(rune_total_mints_cache)'
        /\ BelowCap

\* What a mint of either kind does to the counts.
LEMMA MintCounts ==
    ASSUME TInv, InBlock, InBlock', AtRunestone', LastEtched' >= LastEtched,
           UNCHANGED <<db, chain, next_rune_number>>,
           NEW found \in FindRune(Artifact.mint), found.rune # None,
           rune_cache' = found.cache,
           NEW counted \in FindTotalMints(Artifact.mint),
           NEW f \in BOOLEAN, db_tx' = TablesAfter(f),
           IsRuneMintable(found.rune, counted.total, tx_cache.location),
           rune_total_mints_cache' \in CountedMint(counted.cache, Artifact.mint),
           NEW e, db_cache' = AddMoves(RowsAfter(f), e)
                      \/ (db_cache' = AddMint(RowsAfter(f), e) /\ e[1].rune = Artifact.mint)
    PROVE  Uncounted \/ CountedOne
<1> DEFINE id == Artifact.mint
<1>1. IInv /\ Structure /\ CountInv
  BY DEF TInv, IInv
<1>2. FromRows(rune_cache')
  BY <1>1, FoundRuneRow
<1>3. /\ Covers(counted.cache)
      /\ id # SelfId => /\ counted.total \in Nat
                        /\ counted.total >= Mints(id)
                        /\ id \in DOMAIN counted.cache \/ Mints(id) = 0
  BY <1>1, FoundTotalCovers
<1>4. ASSUME NEW n \in {0, 1}, \A k : Mints(k) \in Nat,
             \A k : Mints(k)' = Mints(k) + IF k = id THEN n ELSE 0
      PROVE  Covers(rune_total_mints_cache)'
  <2> HIDE DEF id
  <2>1. \A k \in DOMAIN rune_total_mints_cache' \ {SelfId} :
            /\ rune_total_mints_cache'[k] \in Nat
            /\ rune_total_mints_cache'[k] >= Mints(k)'
    <3> DEFINE c == rune_total_mints_cache'
    <3>1. c \in CountedMint(counted.cache, id)
      BY DEF id
    <3> HIDE DEF c
    <3>2. \A k \in DOMAIN c \ {SelfId} : c[k] \in Nat /\ c[k] >= Mints(k)'
      BY <1>3, <1>4, <3>1, CountedCovers
    <3> QED
      BY <3>2 DEF c
  <2> QED
    BY <2>1 DEF Covers
<1>5. CASE db_cache' = AddMoves(RowsAfter(f), e)
  <2>1. BlockStep(f, SelfId, 0)
    BY <1>2, <1>5, QuietStep
  <2>2. /\ \A k : Mints(k)' = Mints(k) + IF k = SelfId THEN 0 ELSE 0
        /\ \A k : Mints(k) \in Nat
    BY <1>1, <2>1, StepCounts DEF BlockStep
  <2>3. \A k : Mints(k)' = Mints(k) + IF k = id THEN 0 ELSE 0
    BY <2>2
  <2>4. Covers(rune_total_mints_cache)'
    BY <1>4, <2>2, <2>3
  <2> QED
    BY <2>1, <2>4 DEF Uncounted
<1>6. CASE db_cache' = AddMint(RowsAfter(f), e) /\ e[1].rune = id
  <2>1. CountsPending(RowsAfter(f)) /\ IsRows(RowsAfter(f))
    BY <1>1, LookupMints, AfterLookup
  <2>2. /\ CountsPending(db_cache')
        /\ db_cache'.runes = RowsAfter(f).runes
        /\ \A k : Pending(db_cache', k)
                      = Pending(RowsAfter(f), k) + IF k = id THEN 1 ELSE 0
    <3>1. /\ CountsPending(AddMint(RowsAfter(f), e))
          /\ \A k : Pending(AddMint(RowsAfter(f), e), k)
                        = Pending(RowsAfter(f), k) + IF k = e[1].rune THEN 1 ELSE 0
      BY <2>1, MintCountsOne
    <3>2. AddMint(RowsAfter(f), e).runes = RowsAfter(f).runes
      BY <2>1, AddedRows
    <3> QED
      BY <1>6, <3>1, <3>2
  <2>3. BlockStep(f, id, 1)
    BY <1>2, <2>2 DEF BlockStep, CountStep
  <2>4. /\ \A k : Mints(k)' = Mints(k) + IF k = id THEN 1 ELSE 0
        /\ \A k : Mints(k) \in Nat
    BY <1>1, <2>3, StepCounts DEF BlockStep
  <2>5. Covers(rune_total_mints_cache)'
    BY <1>4, <2>4
  <2>6. BelowCap
    <3>1. SUFFICES ASSUME id # SelfId, found.rune.terms.cap # None
                   PROVE  Mints(id) < found.rune.terms.cap
      BY DEF BelowCap
    <3>2. counted.total < found.rune.terms.cap
      BY <3>1 DEF IsRuneMintable
    <3>3. found.rune.terms.cap \in Nat
      <4>1. IsRune(found.rune)
        BY <1>1, <3>1, FoundRuneRow DEF TInv, NumberInv, RunesShaped
      <4> QED
        BY <3>1, <4>1 DEF IsRune, Optional
    <3>4. Mints(id) \in Nat
      BY <2>4
    <3> QED
      BY <1>3, <3>1, <3>2, <3>3, <3>4
  <2> QED
    BY <2>3, <2>5, <2>6 DEF CountedOne
<1> QED
  BY <1>5, <1>6

\* What a mint of either kind does to the tables and the caches.
Minting ==
    \E found \in FindRune(Artifact.mint) :
        /\ rune_cache' = found.cache
        /\ \/ /\ db_tx' = TablesAfter(found.flushed)
              /\ db_cache' = RowsAfter(found.flushed)
              /\ UNCHANGED rune_total_mints_cache
           \/ /\ found.rune # None
              /\ \E counted \in FindTotalMints(Artifact.mint) :
                 LET f == found.flushed \/ counted.flushed
                 IN  /\ db_tx' = TablesAfter(f)
                     /\ \/ /\ db_cache' = RowsAfter(f)
                           /\ rune_total_mints_cache' = counted.cache
                        \/ /\ IsRuneMintable(found.rune, counted.total, tx_cache.location)
                           /\ rune_total_mints_cache' \in
                                  CountedMint(counted.cache, Artifact.mint)
                           /\ \E e : \/ db_cache' = AddMoves(RowsAfter(f), e)
                                     \/ /\ db_cache' = AddMint(RowsAfter(f), e)
                                        /\ e[1].rune = Artifact.mint

\* Both mint handlers are such steps.
LEMMA MintIsMinting == (Mint \/ CenotaphMint) => NothingMinted \/ Minting
<1>1. ASSUME MintWith(ApplyMint, AddMint)
      PROVE  Minting
  <2>1. \A tc, rune : ApplyMint(tc, Artifact.mint, rune).entries[1].rune = Artifact.mint
    BY DEF ApplyMint, OneEntry, Entry
  <2> DEFINE Grown(d, rows) ==
                 \E e : d = AddMint(rows, e) /\ e[1].rune = Artifact.mint
  <2>2. \A d, rows, tc, rune :
            d = AddMint(rows, ApplyMint(tc, Artifact.mint, rune).entries) => Grown(d, rows)
    BY <2>1, Zenon
  <2>3. PICK found \in FindRune(Artifact.mint) :
            /\ rune_cache' = found.cache
            /\ \/ /\ db_tx' = TablesAfter(found.flushed)
                  /\ db_cache' = RowsAfter(found.flushed)
                  /\ UNCHANGED rune_total_mints_cache
               \/ /\ found.rune # None
                  /\ \E counted \in FindTotalMints(Artifact.mint) :
                     LET f == found.flushed \/ counted.flushed
                     IN  /\ db_tx' = TablesAfter(f)
                         /\ \/ /\ db_cache' = RowsAfter(f)
                               /\ rune_total_mints_cache' = counted.cache
                            \/ /\ IsRuneMintable(found.rune, counted.total,
                                                 tx_cache.location)
                               /\ rune_total_mints_cache' \in
                                      CountedMint(counted.cache, Artifact.mint)
                               /\ Grown(db_cache', RowsAfter(f))
    <3> HIDE DEF Grown
    <3> QED
      BY <1>1, <2>2, Zenon DEF MintWith
  <2> QED
    BY <2>3, Zenon DEF Minting
<1>2. ASSUME MintWith(ApplyCenotaphMint, AddMoves)
      PROVE  Minting
  BY <1>2, Zenon DEF MintWith, Minting
<1> QED
  BY <1>1, <1>2 DEF Mint, CenotaphMint

\* A mint of either kind counts one mint at most, and none above the cap.
LEMMA MintCounted == TInv /\ (Mint \/ CenotaphMint) => Uncounted \/ CountedOne
<1> SUFFICES ASSUME TInv, Mint \/ CenotaphMint
             PROVE  Uncounted \/ CountedOne
  OBVIOUS
<1>1. /\ \/ stage = "mint" /\ stage' = "edicts"
         \/ stage = "cenotaph mint" /\ stage' = "end"
      /\ UNCHANGED <<db, block, pos, chain, next_rune_number>>
  BY DEF Mint, CenotaphMint, history
<1>2. AtRunestone' /\ InBlock /\ InBlock'
  BY <1>1 DEF AtRunestone, InBlock
<1>3. LastEtched' >= LastEtched
  BY <1>1, StagesAdvance DEF TInv, IInv, Stages
<1>4. IInv /\ Structure /\ CountInv
  BY DEF TInv, IInv
<1>5. ASSUME NEW f \in BOOLEAN, db_tx' = TablesAfter(f), db_cache' = RowsAfter(f),
             FromRows(rune_cache'), Covers(rune_total_mints_cache')
      PROVE  Uncounted
  <2>1. BlockStep(f, SelfId, 0)
    BY <1>1, <1>2, <1>3, <1>5, QuietStep
  <2>2. /\ \A k : Mints(k)' = Mints(k) + IF k = SelfId THEN 0 ELSE 0
        /\ \A k : Mints(k) \in Nat
    BY <1>4, <2>1, StepCounts DEF BlockStep
  <2>3. \A k : Mints(k)' = Mints(k)
    BY <2>2
  <2>4. Covers(rune_total_mints_cache)'
    BY <1>5, <2>3 DEF Covers
  <2> QED
    BY <2>1, <2>4 DEF Uncounted
<1>6. Covers(rune_total_mints_cache) /\ FromRows(rune_cache)
  BY <1>4 DEF CountInv, FromRows
<1>7. CASE NothingMinted
  <2>1. /\ db_tx' = TablesAfter(FALSE) /\ db_cache' = RowsAfter(FALSE)
        /\ rune_cache' = rune_cache /\ rune_total_mints_cache' = rune_total_mints_cache
    BY <1>7 DEF NothingMinted, TablesAfter, RowsAfter
  <2> QED
    BY <1>5, <1>6, <2>1
<1>8. ASSUME NEW found \in FindRune(Artifact.mint), rune_cache' = found.cache,
             db_tx' = TablesAfter(found.flushed), db_cache' = RowsAfter(found.flushed),
             UNCHANGED rune_total_mints_cache
      PROVE  Uncounted
  <2>1. found.flushed \in BOOLEAN /\ FromRows(found.cache)
    BY <1>4, <1>8, FoundRuneRow
  <2> QED
    BY <1>5, <1>6, <1>8, <2>1
<1>9. ASSUME NEW found \in FindRune(Artifact.mint), rune_cache' = found.cache,
             found.rune # None, NEW counted \in FindTotalMints(Artifact.mint),
             NEW f \in BOOLEAN, db_tx' = TablesAfter(f),
             \/ /\ db_cache' = RowsAfter(f)
                /\ rune_total_mints_cache' = counted.cache
             \/ /\ IsRuneMintable(found.rune, counted.total, tx_cache.location)
                /\ rune_total_mints_cache' \in CountedMint(counted.cache, Artifact.mint)
                /\ \E e : \/ db_cache' = AddMoves(RowsAfter(f), e)
                          \/ /\ db_cache' = AddMint(RowsAfter(f), e)
                             /\ e[1].rune = Artifact.mint
      PROVE  Uncounted \/ CountedOne
  <2>1. FromRows(rune_cache') /\ Covers(counted.cache)
    BY <1>2, <1>4, <1>9, FoundRuneRow, FoundTotalCovers
  <2>2. CASE db_cache' = RowsAfter(f) /\ rune_total_mints_cache' = counted.cache
    BY <1>5, <1>9, <2>1, <2>2
  <2>3. ASSUME IsRuneMintable(found.rune, counted.total, tx_cache.location),
               rune_total_mints_cache' \in CountedMint(counted.cache, Artifact.mint),
               NEW e, db_cache' = AddMoves(RowsAfter(f), e)
                          \/ (db_cache' = AddMint(RowsAfter(f), e)
                                  /\ e[1].rune = Artifact.mint)
        PROVE  Uncounted \/ CountedOne
    BY <1>1, <1>2, <1>3, <1>9, <2>3, MintCounts
  <2> QED
    BY <1>9, <2>2, <2>3
<1>10. \A a, b : (a \/ b) \in BOOLEAN
  BY Zenon
<1>11. NothingMinted \/ Minting
  BY MintIsMinting
<1> QED
  BY <1>7, <1>8, <1>9, <1>10, <1>11, Zenon DEF Minting

-----------------------------------------------------------------------------
(* Every step keeps the invariants *)

\* A quiet step leaves the counts covered.
LEMMA QuietUncounted == TInv /\ IInv' /\ Quiet => Uncounted
  BY QuietKeeps DEF Quiet, Uncounted, TInv, CountInv

\* A step inside a block that adds no rune keeps the invariants.
LEMMA CountingKeeps ==
    ASSUME TInv, IInv', Uncounted \/ CountedOne
    PROVE  TInv'
<1>1. ASSUME NEW f \in BOOLEAN, NEW id, NEW n \in Nat, BlockStep(f, id, n),
             Covers(rune_total_mints_cache)'
      PROVE  TInv'
  <2>1. Structure /\ CountInv /\ IInv /\ NumberInv
    BY DEF TInv, IInv
  <2>2. CountsPending(db_cache)' /\ TotalsAscend'
    BY <1>1, <2>1, StepCounts DEF BlockStep
  <2>3. NumberInv'
    BY <1>1, <2>1, StepNumbers
  <2> QED
    BY <1>1, <2>2, <2>3 DEF TInv, CountInv
<1>2. CASE Uncounted
  BY <1>1, <1>2, 0 \in Nat DEF Uncounted
<1>3. CASE CountedOne
  BY <1>1, <1>3, 1 \in Nat DEF CountedOne
<1> QED
  BY <1>2, <1>3

\* IndexCache::new and the start of a block read the greatest number given.
LEMMA NextNumber ==
    ASSUME RunesInv, Numbered
    PROVE  /\ MaxRuneNumber(db) + 1 \in Nat
           /\ \A r \in db.runes : r.number \in Nat /\ r.number < MaxRuneNumber(db) + 1
<1> DEFINE numbers == {r.number : r \in db.runes}
<1>1. db.runes \subseteq RuneRows /\ GenesisRune \in db.runes
  BY DEF RunesInv, RowsCommitted, RuneRows, RawRows
<1>2. /\ numbers \subseteq Nat /\ numbers # {}
      /\ next_rune_number \in Int /\ \A n \in numbers : n <= next_rune_number
  BY <1>1 DEF Numbered
<1>3. \A r \in db.runes : r.number \in numbers
  OBVIOUS
<1>4. MaxRuneNumber(db) = Max(numbers)
  BY DEF MaxRuneNumber
<1> HIDE DEF numbers
<1>5. Max(numbers) \in numbers /\ \A n \in numbers : n <= Max(numbers)
  BY <1>2, MaxNatural
<1>6. MaxRuneNumber(db) \in Nat /\ \A n \in numbers : n \in Nat /\ n <= MaxRuneNumber(db)
  BY <1>2, <1>4, <1>5
<1>7. \A n \in numbers : n \in Nat /\ n < MaxRuneNumber(db) + 1
  BY <1>6
<1> QED
  BY <1>3, <1>6, <1>7

\* Rows that were there before, with their numbers and a shaped cache, are
\* numbered as they were.
LEMMA FewerRows ==
    ASSUME NumberInv, RuneRows' \subseteq RuneRows, stage' \in {"idle", "next"},
           \A k \in DOMAIN rune_cache' :
               k \in DOMAIN rune_cache /\ rune_cache'[k] = rune_cache[k],
           next_rune_number' \in Nat,
           \A r \in RuneRows' : r.number < next_rune_number'
    PROVE  NumberInv'
<1>1. RunesShaped'
  BY DEF NumberInv, RunesShaped, IsRune
<1>2. AtRunestone'
  BY DEF AtRunestone
<1>3. Numbered' /\ NumbersAscend'
  BY DEF NumberInv, Numbered, NumbersAscend
<1> QED
  BY <1>1, <1>2, <1>3 DEF NumberInv

\* A block starts from the committed tables.
LEMMA BeginBlockTable == TInv /\ IInv' /\ BeginBlock => TInv'
<1> SUFFICES ASSUME TInv, IInv', BeginBlock
             PROVE  TInv'
  OBVIOUS
<1>1. /\ Structure /\ RunesInv /\ CountInv /\ NumberInv
  BY DEF TInv, IInv
<1>2. /\ stage = "idle" /\ stage' = "next" /\ db_tx' = db
      /\ next_rune_number' = MaxRuneNumber(db) + 1
      /\ UNCHANGED <<rune_cache, rune_total_mints_cache, db_cache, db, chain>>
  BY DEF BeginBlock, caches, history
<1>3. db_tx = db /\ db_cache = NoRows
  BY <1>1, <1>2 DEF Structure
<1>4. Height' = Height /\ Height \in Nat /\ Top' = Height
  BY <1>1, <1>2, SizesAssumption DEF Structure, Height, Top, InBlock
<1>5. TotalsAscend'
  <2>1. Height - 1 \in Int /\ Height \in Int /\ Height - 1 <= Height
    BY <1>4
  <2>2. Ascend(db.supply, Height)
    BY <1>1, <2>1, AscendHigher DEF CountInv, TotalsAscend
  <2> QED
    BY <1>1, <1>2, <1>4, <2>2 DEF CountInv, TotalsAscend
<1>6. CountInv'
  <2>1. \A k : Mints(k)' = Mints(k)
    BY <1>2, <1>3 DEF Mints
  <2> QED
    BY <1>1, <1>2, <1>5, <2>1 DEF CountInv, Covers
<1>7. NumberInv'
  <2>1. RuneRows' = db.runes /\ RuneRows = db.runes
    <3>1. DOMAIN NoRows.runes = {}
      BY DEF NoRows
    <3> QED
      BY <1>2, <1>3, <3>1 DEF RuneRows, RawRows
  <2>2. /\ MaxRuneNumber(db) + 1 \in Nat
        /\ \A r \in db.runes : r.number \in Nat /\ r.number < MaxRuneNumber(db) + 1
    BY <1>1, NextNumber DEF NumberInv
  <2> QED
    BY <1>1, <1>2, <2>1, <2>2, FewerRows
<1> QED
  BY <1>6, <1>7 DEF TInv

\* A commit changes nothing the next block would read otherwise.
LEMMA CommitTable == TInv /\ IInv' /\ Commit => TInv'
<1> SUFFICES ASSUME TInv, IInv', Commit
             PROVE  TInv'
  OBVIOUS
<1>1. /\ Structure /\ RunesInv /\ CountInv /\ NumberInv
  BY DEF TInv, IInv
<1>2. /\ stage = "commit" /\ stage' = "idle" /\ db' = db_tx
      /\ chain' = Append(chain, block.txs)
      /\ UNCHANGED <<next_rune_number, rune_cache, rune_total_mints_cache, db_cache,
                     db_tx, block, pos>>
  BY DEF Commit, caches
<1>3. Height' = Height + 1 /\ Height \in Nat
  BY <1>1, <1>2, SizesAssumption DEF Structure, Height
<1>4. TotalsAscend'
  <2>1. Ascend(db_tx.supply, Height)
    BY <1>1, <1>2 DEF CountInv, TotalsAscend, Top, InBlock
  <2>2. Height' - 1 = Height /\ Top' = Height' - 1
    BY <1>2, <1>3 DEF Top, InBlock
  <2> QED
    BY <1>2, <2>1, <2>2 DEF TotalsAscend
<1>5. CountInv'
  <2>1. \A k : Mints(k)' = Mints(k)
    BY <1>2 DEF Mints
  <2> QED
    BY <1>1, <1>2, <1>4, <2>1 DEF CountInv, Covers
<1>6. NumberInv'
  <2>1. RuneRows' = RuneRows
    BY <1>2 DEF RuneRows, RawRows
  <2> QED
    BY <1>1, <1>2, <2>1, FewerRows DEF NumberInv, Numbered
<1> QED
  BY <1>5, <1>6 DEF TInv

\* Without the rows of the tip no rune has more mints, nor another number.
LEMMA RollBackTable == TInv /\ IInv' /\ RollBackBlock => TInv'
<1> SUFFICES ASSUME TInv, IInv', RollBackBlock
             PROVE  TInv'
  OBVIOUS
<1>1. /\ Structure /\ RunesInv /\ CountInv /\ NumberInv
  BY DEF TInv, IInv
<1> DEFINE tip == StartHeight + Len(chain) - 1
<1>2. /\ stage = "idle" /\ stage' = "idle" /\ chain # <<>>
      /\ chain' = Front(chain) /\ db_tx' = db' /\ db' = RollBack(db, tip)
      /\ UNCHANGED <<next_rune_number, rune_cache, rune_total_mints_cache, db_cache>>
  BY Zenon DEF RollBackBlock, caches
<1>3. db_tx = db /\ db_cache = NoRows /\ IsTables(db)
  BY <1>1, <1>2 DEF Structure
<1>4. tip \in Nat /\ Height' = tip /\ Height - 1 = tip /\ Top' = tip - 1 /\ Top = tip
  <2>1. Len(chain') = Len(chain) - 1 /\ Len(chain) \in Nat /\ Len(chain) >= 1
    BY <1>1, <1>2, FrontOfChain DEF Structure
  <2> QED
    BY <1>2, <2>1, SizesAssumption DEF Height, Top, InBlock
<1> HIDE DEF tip
<1>5. /\ db'.supply = WithoutHeight(db.supply, tip)
      /\ db'.runes \subseteq db.runes
  BY <1>2, <1>3, RolledBack
<1>6. Ascend(db.supply, tip)
  BY <1>1, <1>4 DEF CountInv, TotalsAscend
<1>7. TotalsAscend'
  <2>1. Ascend(db'.supply, tip - 1)
    BY <1>4, <1>5, <1>6, WithoutTop
  <2> QED
    BY <1>2, <1>4, <2>1 DEF TotalsAscend
<1>8. ASSUME NEW k
      PROVE  Mints(k)' \in Nat /\ Mints(k)' <= Mints(k)
  <2> DEFINE before == Latest(db.supply, k, NoSupply).total_mints
             after  == Latest(db'.supply, k, NoSupply).total_mints
  <2>1. after \in Nat /\ after <= before
    BY <1>4, <1>5, <1>6, WithoutTop
  <2>2. Mints(k)' = after + Pending(NoRows, k) /\ Mints(k) = before + Pending(NoRows, k)
    BY <1>2, <1>3 DEF Mints, MintsIn, TotalMints
  <2>3. before \in Nat
    BY <1>1, <1>3, MintsNat DEF TotalMints
  <2> HIDE DEF before, after
  <2> QED
    BY <2>1, <2>2, <2>3, DefaultSupply
<1>9. Covers(rune_total_mints_cache)'
  <2>1. \A k : Mints(k) \in Nat
    BY <1>1, MintsNat
  <2> QED
    BY <1>1, <1>2, <1>8, <2>1 DEF CountInv, Covers
<1>10. CountInv'
  BY <1>1, <1>2, <1>7, <1>9 DEF CountInv
<1>11. NumberInv'
  <2>1. RuneRows' = db'.runes /\ RuneRows = db.runes
    <3>1. DOMAIN NoRows.runes = {}
      BY DEF NoRows
    <3> QED
      BY <1>2, <1>3, <3>1 DEF RuneRows, RawRows
  <2> QED
    BY <1>1, <1>2, <1>5, <2>1, FewerRows DEF NumberInv, Numbered
<1> QED
  BY <1>10, <1>11 DEF TInv

\* A restart counts and numbers from the committed tables.
LEMMA RestartTable == TInv /\ IInv' /\ Restart => TInv'
<1> SUFFICES ASSUME TInv, IInv', Restart
             PROVE  TInv'
  OBVIOUS
<1>1. /\ Structure /\ RunesInv /\ CountInv /\ NumberInv
  BY DEF TInv, IInv
<1>2. /\ stage' = "idle" /\ db_tx' = db /\ db_cache' = NoRows
      /\ next_rune_number' = MaxRuneNumber(db) + 1
      /\ rune_cache' = <<>> /\ rune_total_mints_cache' = <<>>
      /\ UNCHANGED <<db, chain>>
  BY DEF Restart, history
<1>3. CountInv'
  <2>1. Height' = Height /\ Top' = Height' - 1
    BY <1>2 DEF Height, Top, InBlock
  <2>2. TotalsAscend'
    BY <1>1, <1>2, <2>1 DEF CountInv, TotalsAscend
  <2>3. Covers(rune_total_mints_cache)'
    BY <1>2 DEF Covers
  <2> QED
    BY <1>2, <2>2, <2>3, DefaultSupply DEF CountInv
<1>4. NumberInv'
  <2>1. RuneRows' = db.runes /\ db.runes \subseteq RuneRows
    <3>1. DOMAIN NoRows.runes = {}
      BY DEF NoRows
    <3> QED
      BY <1>1, <1>2, <3>1 DEF RuneRows, RawRows, RunesInv, RowsCommitted
  <2>2. /\ MaxRuneNumber(db) + 1 \in Nat
        /\ \A r \in db.runes : r.number \in Nat /\ r.number < MaxRuneNumber(db) + 1
    BY <1>1, NextNumber DEF NumberInv
  <2>3. \A k \in DOMAIN rune_cache' :
            k \in DOMAIN rune_cache /\ rune_cache'[k] = rune_cache[k]
    BY <1>2
  <2> QED
    BY <1>1, <1>2, <2>1, <2>2, <2>3, FewerRows
<1> QED
  BY <1>3, <1>4 DEF TInv

\* The first migration counts no mint and numbers one rune.
LEMMA InitTable == Init => TInv
<1> SUFFICES ASSUME Init
             PROVE  TInv
  OBVIOUS
<1>1. IInv
  BY InitInv
<1>2. /\ stage = "idle" /\ db_tx = db /\ db = EmptyDb /\ db_cache = NoRows
      /\ rune_cache = <<>> /\ rune_total_mints_cache = <<>>
      /\ next_rune_number = MaxRuneNumber(db) + 1
  BY DEF Init
<1>3. db.runes = {GenesisRune} /\ DOMAIN db.supply = {}
  BY <1>2 DEF EmptyDb
<1>4. RuneRows = {GenesisRune}
  <2>1. DOMAIN NoRows.runes = {}
    BY DEF NoRows
  <2> QED
    BY <1>2, <1>3, <2>1 DEF RuneRows, RawRows
<1>5. CountInv
  <2>1. TotalsAscend
    BY <1>2, <1>3 DEF TotalsAscend, Ascend
  <2>2. Covers(rune_total_mints_cache)
    BY <1>2 DEF Covers
  <2> QED
    BY <1>2, <2>1, <2>2, DefaultSupply DEF CountInv
<1>6. RunesShaped
  <2>1. /\ GenesisRune.terms.cap \in Optional(Nat)
        /\ GenesisRune.terms.amount \in Optional(Nat)
    BY GenesisAssumption DEF TermsType
  <2>2. IsRune(GenesisRune)
    BY <2>1, GenesisAssumption DEF IsRune
  <2> QED
    BY <1>2, <1>4, <2>2 DEF RunesShaped
<1>7. Numbered
  <2> DEFINE n == GenesisRune.number
  <2>1. n \in Nat
    BY GenesisAssumption
  <2>2. {r.number : r \in db.runes} = {n}
    BY <1>3
  <2> HIDE DEF n
  <2>3. \A m \in {n} : m <= n
    BY <2>1
  <2>4. Max({n}) \in {n}
    BY <2>1, <2>3, MaxNatural
  <2>5. next_rune_number = n + 1
    BY <1>2, <2>2, <2>4 DEF MaxRuneNumber
  <2> QED
    BY <1>4, <2>1, <2>5 DEF Numbered, n
<1>8. NumbersAscend
  <2>1. GenesisRune.id \in Nat \X Nat
    BY GenesisAssumption
  <2>2. ~Before(GenesisRune.id, GenesisRune.id)
    BY <2>1 DEF Before
  <2> QED
    BY <1>4, <2>2 DEF NumbersAscend
<1> QED
  BY <1>1, <1>2, <1>5, <1>6, <1>7, <1>8 DEF TInv, NumberInv, AtRunestone

LEMMA TableStutter == TInv /\ IInv' /\ UNCHANGED vars => TInv'
<1> SUFFICES ASSUME TInv, IInv', UNCHANGED vars
             PROVE  TInv'
  OBVIOUS
<1>1. CountInv /\ NumberInv
  BY DEF TInv
<1>2. UNCHANGED <<next_rune_number, rune_cache, rune_total_mints_cache, tx_cache,
                  db_cache, db_tx, db, block, pos, stage, chain>>
  BY DEF vars, caches, history
<1>3. RuneRows' = RuneRows
  BY <1>2 DEF RuneRows, RawRows
<1>4. \A k : Mints(k)' = Mints(k)
  BY <1>2 DEF Mints
<1>5. CountInv'
  <2>1. Height' = Height /\ Top' = Top
    BY <1>2 DEF Height, Top, InBlock
  <2> QED
    BY <1>1, <1>2, <1>4, <2>1 DEF CountInv, TotalsAscend, Covers
<1>6. NumberInv'
  <2>1. AtRunestone'
    BY <1>1, <1>2 DEF NumberInv, AtRunestone, Artifact, Tx
  <2> QED
    BY <1>1, <1>2, <1>3, <2>1 DEF NumberInv, RunesShaped, Numbered, NumbersAscend
<1> QED
  BY <1>5, <1>6 DEF TInv

LEMMA TableNext == TInv /\ [Next]_vars => TInv'
<1> SUFFICES ASSUME TInv, [Next]_vars
             PROVE  TInv'
  OBVIOUS
<1>1. IInv'
  BY NextInv DEF TInv
<1>2. ASSUME Quiet
      PROVE  TInv'
  BY <1>1, <1>2, QuietUncounted, CountingKeeps
<1>3. ASSUME NEW rune, NumberStep(rune)
      PROVE  TInv'
  BY <1>1, <1>3, NumberStepKeeps
<1>4. CASE BeginBlock
  BY <1>1, <1>4, BeginBlockTable
<1>5. CASE BeginTransaction
  BY <1>2, <1>5, BeginTransactionQuiet
<1>6. CASE ApplyRunestone
  BY <1>2, <1>6, ApplyRunestoneQuiet
<1>7. CASE Etching
  BY <1>2, <1>3, <1>7, EtchingNumbers
<1>8. CASE Mint \/ CenotaphMint
  BY <1>1, <1>8, MintCounted, CountingKeeps
<1>9. CASE Edict
  BY <1>2, <1>9, EdictQuiet
<1>10. CASE ApplyCenotaph
  BY <1>2, <1>10, ApplyCenotaphQuiet
<1>11. CASE CenotaphEtching
  BY <1>2, <1>3, <1>11, CenotaphEtchingNumbers
<1>12. CASE EndTransaction
  BY <1>2, <1>12, EndTransactionQuiet
<1>13. CASE EndBlock
  BY <1>2, <1>13, EndBlockQuiet
<1>14. CASE Commit
  BY <1>1, <1>14, CommitTable
<1>15. CASE Restart
  BY <1>1, <1>15, RestartTable
<1>16. CASE RollBackBlock
  BY <1>1, <1>16, RollBackTable
<1>17. CASE UNCHANGED vars
  BY <1>1, <1>17, TableStutter
<1> QED
  BY <1>4, <1>5, <1>6, <1>7, <1>8, <1>9, <1>10, <1>11, <1>12, <1>13, <1>14, <1>15,
     <1>16, <1>17 DEF Next, Forward, IndexBlock

LEMMA TableInvariance == Spec => []TInv
<1> QED
  BY InitTable, TableNext, PTL DEF Spec

-----------------------------------------------------------------------------
(* Counts and numbers *)

\* What a flush and a commit would leave are rows there are, and their mints.
LEMMA TableMints ==
    ASSUME TInv
    PROVE  Tables.runes \subseteq RuneRows /\ \A k : TotalMints(Tables, k) = Mints(k)
<1>1. Structure /\ CountInv
  BY DEF TInv, IInv
<1>2. CASE stage = "idle"
  <2>1. Tables = db_tx /\ db_cache = NoRows
    BY <1>1, <1>2 DEF Structure, Tables
  <2>2. Tables.runes \subseteq RuneRows
    BY <2>1 DEF RuneRows, RawRows
  <2>3. ASSUME NEW k
        PROVE  TotalMints(Tables, k) = Mints(k)
    <3>1. Pending(NoRows, k) = 0 /\ TotalMints(db_tx, k) \in Nat
      BY <1>1, DefaultSupply, MintsNat
    <3> QED
      BY <2>1, <3>1 DEF Mints, MintsIn
  <2> QED
    BY <2>2, <2>3
<1>3. CASE stage # "idle"
  <2>1. Tables = TablesAfter(TRUE) /\ InBlock
    BY <1>3 DEF Tables, InBlock
  <2> QED
    BY <1>1, <2>1, AfterLookup, LookupMints
<1> QED
  BY <1>2, <1>3

LEMMA InvCover == TInv => CachedMintsCover
<1> SUFFICES ASSUME TInv
             PROVE  CachedMintsCover
  OBVIOUS
<1>1. \A k : TotalMints(Tables, k) = Mints(k)
  BY TableMints
<1> QED
  BY <1>1 DEF TInv, CountInv, Covers, CachedMintsCover

\* No two rows have one place, so the order of places decides between any two.
LEMMA InvOrdered == TInv => RuneNumbersOrdered
<1> SUFFICES ASSUME TInv
             PROVE  RuneNumbersOrdered
  OBVIOUS
<1>1. RunesInv /\ Numbered /\ NumbersAscend
  BY DEF TInv, IInv, NumberInv
<1>2. ASSUME NEW r \in RuneRows
      PROVE  r.id = <<r.id[1], r.id[2]>> /\ r.id[1] \in Nat /\ r.id[2] \in Nat
  <2>1. CASE r = GenesisRune
    BY <2>1, GenesisAssumption
  <2>2. CASE Placed(r)
    BY <2>2 DEF Placed
  <2> QED
    BY <1>1, <2>1, <2>2 DEF RunesInv, RowsPlaced
<1>3. ASSUME NEW a \in RuneRows, NEW b \in RuneRows
      PROVE  a.number < b.number <=> Before(a.id, b.id)
  <2>1. CASE Before(a.id, b.id)
    BY <1>1, <2>1 DEF NumbersAscend
  <2>2. CASE Before(b.id, a.id)
    <3>1. b.number < a.number /\ a.number \in Nat /\ b.number \in Nat
      BY <1>1, <2>2 DEF NumbersAscend, Numbered
    <3>2. ~Before(a.id, b.id)
      BY <1>2, <2>2 DEF Before
    <3> QED
      BY <3>1, <3>2
  <2>3. CASE ~Before(a.id, b.id) /\ ~Before(b.id, a.id)
    <3>1. a.id[1] = b.id[1] /\ a.id[2] = b.id[2]
      BY <1>2, <2>3 DEF Before
    <3>2. a.id = b.id
      BY <1>2, <3>1
    <3>3. a = b /\ a.number \in Nat
      BY <1>1, <3>2 DEF RunesInv, RowsUnique, Numbered
    <3> QED
      BY <2>3, <3>3
  <2> QED
    BY <2>1, <2>2, <2>3
<1>4. Tables.runes \subseteq RuneRows
  BY TableMints
<1> QED
  BY <1>3, <1>4 DEF RuneNumbersOrdered, Before

\* However often a block is flushed, rolled back or lost with the process, the
\* count get_cached_rune_total_mints keeps for a rune is never below the mints
\* its rows and the pending changes hold: none is too small because its rows were
\* inserted by a flush, its entry evicted, or the mints of a block rolled back.
THEOREM CachedMintsAlwaysCover == Spec => []CachedMintsCover
  BY TableInvariance, InvCover, PTL

\* Runes keep the numbers of their places: after reorganisations and restarts
\* next_rune_number continues where the rows end, so no etching can meet the
\* UNIQUE constraint of runes.number, which would stop the indexer.
THEOREM RunesNumberedInOrder == Spec => []RuneNumbersOrdered
  BY TableInvariance, InvOrdered, PTL

-----------------------------------------------------------------------------
(* The cap, on a chain that only grows *)

\* Places whose rune may have been etched: they lie behind the transaction that is
\* indexed. A reorganisation takes the tables back to an earlier place and leaves
\* the runes of later ones in the cache, so this is invariant only without one.
Passed(k) ==
    k \in Nat \X Nat /\ \/ k = SelfId \/ k = GenesisRune.id
                        \/ k[1] < Height
                        \/ InBlock /\ k[1] = Height /\ k[2] <= LastEtched

PassedBefore(k) ==
    k \in Nat \X Nat /\ (k = SelfId \/ k = GenesisRune.id \/ k[1] < Height)

CapOf(r, mints) == r.terms.cap # None => mints <= r.terms.cap

CachePassed == \A k \in DOMAIN rune_cache : Passed(k)

MintsPassed == \A k : Mints(k) # 0 => Passed(k)

CapKept == \A r \in RuneRows : CapOf(r, Mints(r.id))

\* The same of the committed rows, which a restart comes back to.
CommittedCap ==
    /\ \A k : TotalMints(db, k) # 0 => PassedBefore(k)
    /\ \A r \in db.runes : CapOf(r, TotalMints(db, r.id))

CapInv == CachePassed /\ MintsPassed /\ CapKept /\ CommittedCap

\* Every row lies at a place that was passed, and none at 0:0.
LEMMA RowPassed ==
    ASSUME Structure, RunesInv, NEW r \in RuneRows
    PROVE  Passed(r.id) /\ r.id # SelfId
<1>1. CASE r = GenesisRune
  BY <1>1, GenesisAssumption DEF Passed
<1>2. CASE Placed(r)
  <2>1. r.id = <<r.height, r.id[2]>> /\ r.height \in Nat /\ r.id[2] \in Nat \ {0}
    BY <1>2 DEF Placed
  <2>2. r.id \in Nat \X Nat /\ r.id[1] = r.height
    BY <2>1
  <2>3. r.id # SelfId
    BY <2>1 DEF SelfId
  <2> QED
    BY <1>2, <2>2, <2>3 DEF Passed, Placed
<1> QED
  BY <1>1, <1>2 DEF RunesInv, RowsPlaced

\* A rune that is found lies at a place that was passed.
LEMMA FoundPassed ==
    ASSUME TInv, CapInv, NEW id, NEW found \in FindRune(id), found.rune # None
    PROVE  Passed(id)
<1>1. \/ id = SelfId
      \/ id \in DOMAIN rune_cache
      \/ found.rune \in RuneRows /\ found.rune.id = id
  BY FoundRuneRow DEF TInv
<1>2. SelfId \in Nat \X Nat
  BY DEF SelfId
<1> QED
  BY <1>1, <1>2, RowPassed DEF CapInv, CachePassed, Passed, TInv, IInv

\* And has the cap of its row, wherever it was found.
LEMMA FoundCap ==
    ASSUME TInv, NEW id, id # SelfId, NEW found \in FindRune(id), found.rune # None,
           NEW r \in RuneRows, r.id = id
    PROVE  r.terms = found.rune.terms
<1>1. RunesInv /\ RunesShaped /\ IInv
  BY DEF TInv, IInv, NumberInv
<1>2. \/ id \in DOMAIN rune_cache /\ found.rune = rune_cache[id]
      \/ found.rune \in RuneRows /\ found.rune.id = id
  BY <1>1, FoundRuneRow
<1>3. CASE id \in DOMAIN rune_cache /\ found.rune = rune_cache[id]
  <2>1. r = Cleared(rune_cache[id])
    BY <1>1, <1>3 DEF RunesInv, CacheCoherent, Coherent
  <2>2. IsRune(rune_cache[id])
    BY <1>1, <1>3 DEF RunesShaped
  <2>3. Cleared(rune_cache[id]).terms = rune_cache[id].terms
    BY <2>2, ClearedRune
  <2> QED
    BY <1>3, <2>1, <2>3
<1>4. CASE found.rune \in RuneRows /\ found.rune.id = id
  BY <1>1, <1>4 DEF RunesInv, RowsUnique
<1> QED
  BY <1>2, <1>3, <1>4

\* The place the index has reached only moves on.
LEMMA PassedOn ==
    ASSUME Structure, Structure', InBlock', UNCHANGED chain,
           InBlock => LastEtched' >= LastEtched
    PROVE  /\ \A k : Passed(k) => Passed(k)'
           /\ \A k : PassedBefore(k)' <=> PassedBefore(k)
<1>1. Height' = Height /\ Height \in Nat
  BY SizesAssumption DEF Structure, Height
<1>2. LastEtched \in Int /\ LastEtched' \in Int
  <2>1. pos \in Nat /\ pos' \in Nat
    BY DEF Structure
  <2>2. LastEtched = pos \/ LastEtched = pos - 1
    BY DEF LastEtched
  <2>3. LastEtched' = pos' \/ LastEtched' = pos' - 1
    BY DEF LastEtched
  <2> QED
    BY <2>1, <2>2, <2>3
<1> QED
  BY <1>1, <1>2 DEF Passed, PassedBefore

\* A step that adds no rune keeps every rune below its cap.
LEMMA BlockStepCap ==
    ASSUME TInv, CapInv, IInv', NEW f \in BOOLEAN, NEW id, NEW n \in Nat,
           BlockStep(f, id, n), n # 0 => Passed(id),
           \A r \in RuneRows : r.id = id => CapOf(r, Mints(id) + n)
    PROVE  CapInv'
<1>1. Structure /\ RunesInv /\ IInv /\ CountInv /\ NumberInv /\ Structure'
  BY DEF TInv, IInv
<1>2. /\ \A k : Mints(k)' = Mints(k) + IF k = id THEN n ELSE 0
      /\ \A k : Mints(k) \in Nat
  BY <1>1, StepCounts DEF BlockStep
<1>3. RuneRows' \subseteq RuneRows
  BY <1>1, StepNumbers
<1>4. /\ \A k : Passed(k) => Passed(k)'
      /\ \A k : PassedBefore(k)' <=> PassedBefore(k)
  BY <1>1, PassedOn DEF BlockStep, CountStep
<1>5. CachePassed'
  <2>1. \A k \in DOMAIN rune_cache' : Passed(k)
    BY <1>1, RowPassed DEF BlockStep, FromRows, CapInv, CachePassed
  <2> QED
    BY <1>4, <2>1 DEF CachePassed
<1>6. MintsPassed'
  <2>1. SUFFICES ASSUME NEW k, Mints(k)' # 0
                 PROVE  Passed(k)
    BY <1>4 DEF MintsPassed
  <2>2. CASE k = id /\ n # 0
    BY <2>2
  <2>3. CASE ~(k = id /\ n # 0)
    <3>1. Mints(k)' = Mints(k)
      BY <1>2, <2>3
    <3> QED
      BY <2>1, <3>1 DEF CapInv, MintsPassed
  <2> QED
    BY <2>2, <2>3
<1>7. CapKept'
  <2>1. SUFFICES ASSUME NEW r \in RuneRows
                 PROVE  CapOf(r, Mints(r.id)')
    BY <1>3 DEF CapKept, CapOf
  <2>2. CASE r.id = id
    <3>1. Mints(r.id)' = Mints(id) + n
      BY <1>2, <2>2
    <3> QED
      BY <2>2, <3>1
  <2>3. CASE r.id # id
    <3>1. Mints(r.id)' = Mints(r.id)
      BY <1>2, <2>3
    <3> QED
      BY <3>1 DEF CapInv, CapKept
  <2> QED
    BY <2>2, <2>3
<1>8. CommittedCap'
  BY <1>4 DEF CapInv, CommittedCap, BlockStep, CountStep, CapOf
<1> QED
  BY <1>5, <1>6, <1>7, <1>8 DEF CapInv

\* The rune etched here was never minted, so it keeps its cap.
LEMMA NumberStepCap ==
    ASSUME TInv, CapInv, IInv', NEW rune, NumberStep(rune)
    PROVE  CapInv'
<1> DEFINE row == Cleared(rune)
<1>1. Structure /\ RunesInv /\ Structure' /\ CountInv
  BY DEF TInv, IInv
<1>2. /\ InBlock /\ InBlock' /\ Height' = Height
      /\ LastEtched = pos - 1 /\ LastEtched' = pos
      /\ pos \in Nat \ {0} /\ Height \in Nat /\ Height >= StartHeight
      /\ RuneRows' = RuneRows \cup {row}
  BY <1>1, NumberedRow, SizesAssumption DEF Structure, Height
<1>3. /\ rune.id = <<Height, pos>> /\ rune.terms.cap \in Optional(Nat)
      /\ row.id = rune.id /\ row.terms = rune.terms
  BY ClearedRune DEF NumberStep, IsRune
<1> HIDE DEF row
<1>4. \A k : Mints(k)' = Mints(k)
  BY NumberStepKeeps
<1>5. /\ \A k : Passed(k) => Passed(k)'
      /\ \A k : PassedBefore(k)' <=> PassedBefore(k)
  <2>1. LastEtched' >= LastEtched
    BY <1>2
  <2>2. chain' = chain
    BY DEF NumberStep
  <2> QED
    BY <1>1, <1>2, <2>1, <2>2, PassedOn
<1>6. Passed(rune.id)' /\ ~Passed(rune.id)
  <2>1. rune.id[1] = Height /\ rune.id[2] = pos /\ rune.id \in Nat \X Nat
    BY <1>2, <1>3
  <2>2. rune.id # SelfId
    BY <1>2, <2>1 DEF SelfId
  <2>3. rune.id # GenesisRune.id
    <3>1. GenesisRune.id[1] < StartHeight /\ GenesisRune.id[1] \in Nat
      BY GenesisAssumption
    <3> QED
      BY <1>2, <2>1, <3>1, SizesAssumption
  <2>4. rune'.id = rune.id
    OBVIOUS
  <2> QED
    BY <1>2, <2>1, <2>2, <2>3 DEF Passed
<1>7. CachePassed'
  <2>1. \A x \in DOMAIN rune_cache' : x # rune.id => x \in DOMAIN rune_cache
    <3>1. rune_cache' \in LruPut(rune_cache, rune.id, rune)
      BY DEF NumberStep
    <3> QED
      BY <3>1, PutEntries
  <2> QED
    BY <1>5, <1>6, <2>1 DEF CapInv, CachePassed
<1>8. MintsPassed'
  BY <1>4, <1>5 DEF CapInv, MintsPassed
<1>9. CapKept'
  <2>1. \A r \in RuneRows : CapOf(r, Mints(r.id)')
    BY <1>4 DEF CapInv, CapKept
  <2>2. Mints(row.id)' = 0
    BY <1>3, <1>4, <1>6 DEF CapInv, MintsPassed
  <2>3. CapOf(row, 0)
    BY <1>3 DEF CapOf, Optional
  <2> QED
    BY <1>2, <2>1, <2>2, <2>3 DEF CapKept, CapOf
<1>10. CommittedCap'
  BY <1>5 DEF CapInv, CommittedCap, NumberStep, CapOf
<1> QED
  BY <1>7, <1>8, <1>9, <1>10 DEF CapInv

\* A step that counts no mint, and one that counts a mint below the cap.
LEMMA CountingCap ==
    ASSUME TInv, CapInv, IInv', Uncounted \/ CountedOne
    PROVE  CapInv'
<1>1. Structure /\ RunesInv /\ RunesShaped /\ CountInv
  BY DEF TInv, IInv, NumberInv
<1>2. \A k : Mints(k) \in Nat
  BY <1>1, MintsNat
<1>3. \A r \in RuneRows : r.id # SelfId /\ r.terms.cap \in Optional(Nat)
  BY <1>1, RowPassed DEF RunesShaped, IsRune
<1>4. CASE Uncounted
  <2>1. PICK f \in BOOLEAN : BlockStep(f, SelfId, 0)
    BY <1>4 DEF Uncounted
  <2>2. \A r \in RuneRows : r.id = SelfId => CapOf(r, Mints(SelfId) + 0)
    BY <1>3
  <2> QED
    BY <2>1, <2>2, BlockStepCap
<1>5. CASE CountedOne
  <2> DEFINE id == Artifact.mint
  <2>1. PICK f \in BOOLEAN : BlockStep(f, id, 1)
    BY <1>5 DEF CountedOne
  <2>2. id # SelfId =>
            \E found \in FindRune(id) :
                /\ found.rune # None
                /\ found.rune.terms.cap # None => Mints(id) < found.rune.terms.cap
    BY <1>5 DEF CountedOne, BelowCap
  <2> HIDE DEF id
  <2>3. Passed(id)
    <3>1. CASE id = SelfId
      BY <3>1 DEF Passed, SelfId
    <3> QED
      BY <2>2, <3>1, FoundPassed
  <2>4. ASSUME NEW r \in RuneRows, r.id = id
        PROVE  CapOf(r, Mints(id) + 1)
    <3>1. id # SelfId
      BY <1>3, <2>4
    <3>2. PICK found \in FindRune(id) :
              /\ found.rune # None
              /\ found.rune.terms.cap # None => Mints(id) < found.rune.terms.cap
      BY <2>2, <3>1
    <3>3. r.terms = found.rune.terms
      BY <2>4, <3>1, <3>2, FoundCap
    <3> QED
      BY <1>2, <1>3, <3>2, <3>3 DEF CapOf, Optional
  <2> QED
    BY <2>1, <2>3, <2>4, BlockStepCap
<1> QED
  BY <1>4, <1>5

\* A block begins behind the places that were passed.
LEMMA BeginBlockCap ==
    ASSUME TInv, CapInv, IInv', BeginBlock
    PROVE  CapInv'
<1>1. Structure /\ Structure'
  BY DEF TInv, IInv
<1>2. /\ stage = "idle" /\ stage' = "next" /\ db_tx' = db
      /\ UNCHANGED <<rune_cache, db_cache, db, chain>>
  BY DEF BeginBlock, caches, history
<1>3. db_tx' = db_tx
  BY <1>1, <1>2 DEF Structure
<1>4. RuneRows' = RuneRows /\ \A k : Mints(k)' = Mints(k)
  BY <1>2, <1>3 DEF RuneRows, RawRows, Mints
<1>5. ~InBlock /\ InBlock'
  BY <1>2 DEF InBlock
<1>6. /\ \A k : Passed(k) => Passed(k)'
      /\ \A k : PassedBefore(k)' <=> PassedBefore(k)
  BY <1>1, <1>2, <1>5, PassedOn
<1> QED
  BY <1>2, <1>4, <1>6 DEF CapInv, CachePassed, MintsPassed, CapKept, CommittedCap, CapOf

\* A commit passes its block, and its rows and mints are all committed.
LEMMA CommitCap ==
    ASSUME TInv, CapInv, Commit
    PROVE  CapInv'
<1>1. Structure /\ CountInv
  BY DEF TInv, IInv
<1>2. /\ stage = "commit" /\ stage' = "idle" /\ db' = db_tx
      /\ chain' = Append(chain, block.txs)
      /\ UNCHANGED <<rune_cache, db_cache, db_tx>>
  BY DEF Commit, caches
<1>3. Height' = Height + 1 /\ Height \in Nat
  BY <1>1, <1>2, SizesAssumption DEF Structure, Height
<1>4. RuneRows' = RuneRows /\ \A k : Mints(k)' = Mints(k)
  BY <1>2 DEF RuneRows, RawRows, Mints
<1>5. \A k : Passed(k) => Passed(k)' /\ PassedBefore(k)'
  BY <1>3 DEF Passed, PassedBefore
<1>6. ASSUME NEW k
      PROVE  TotalMints(db_tx, k) = Mints(k)
  <2>1. Pending(db_cache, k) = 0 /\ TotalMints(db_tx, k) \in Nat
    BY <1>1, <1>2, DefaultSupply, MintsNat DEF Structure
  <2> QED
    BY <2>1 DEF Mints, MintsIn
<1>7. CommittedCap'
  <2>1. \A k : TotalMints(db_tx, k) # 0 => PassedBefore(k)'
    BY <1>5, <1>6 DEF CapInv, MintsPassed
  <2>2. \A r \in db_tx.runes : CapOf(r, TotalMints(db_tx, r.id))
    BY <1>6 DEF CapInv, CapKept, RuneRows, RawRows
  <2> QED
    BY <1>2, <2>1, <2>2 DEF CommittedCap, CapOf
<1> QED
  BY <1>2, <1>4, <1>5, <1>7 DEF CapInv, CachePassed, MintsPassed, CapKept, CapOf

\* A restart comes back to the committed rows and mints.
LEMMA RestartCap ==
    ASSUME TInv, CapInv, Restart
    PROVE  CapInv'
<1>1. Structure /\ CountInv
  BY DEF TInv, IInv
<1>2. /\ stage' = "idle" /\ db_tx' = db /\ db_cache' = NoRows
      /\ rune_cache' = <<>> /\ UNCHANGED <<db, chain>>
  BY DEF Restart, history
<1>3. Height' = Height
  BY <1>2 DEF Height
<1>4. RuneRows' = db.runes
  <2>1. DOMAIN NoRows.runes = {}
    BY DEF NoRows
  <2> QED
    BY <1>2, <2>1 DEF RuneRows, RawRows
<1>5. ASSUME NEW k
      PROVE  Mints(k)' = TotalMints(db, k)
  <2>1. Height - 1 \in Int
    BY <1>1, SizesAssumption DEF Structure, Height
  <2>2. TotalMints(db, k) \in Nat
    BY <1>1, <2>1, LatestMost DEF CountInv, TotalsAscend, TotalMints
  <2>3. Pending(NoRows, k) = 0
    BY DefaultSupply
  <2>4. Mints(k)' = TotalMints(db, k) + Pending(NoRows, k)
    BY <1>2 DEF Mints, MintsIn
  <2> QED
    BY <2>2, <2>3, <2>4
<1>6. \A k : PassedBefore(k) => Passed(k)' /\ PassedBefore(k)'
  BY <1>3 DEF Passed, PassedBefore
<1>7. CachePassed'
  BY <1>2 DEF CachePassed
<1>8. MintsPassed'
  BY <1>5, <1>6 DEF CapInv, CommittedCap, MintsPassed
<1>9. CapKept'
  BY <1>4, <1>5 DEF CapInv, CommittedCap, CapKept, CapOf
<1>10. CommittedCap'
  BY <1>2, <1>6 DEF CapInv, CommittedCap, CapOf
<1> QED
  BY <1>7, <1>8, <1>9, <1>10 DEF CapInv

LEMMA StutterCap ==
    ASSUME CapInv, UNCHANGED vars
    PROVE  CapInv'
<1>1. UNCHANGED <<rune_cache, db_cache, db_tx, db, block, pos, stage, chain>>
  BY DEF vars, caches, history
<1>2. RuneRows' = RuneRows /\ \A k : Mints(k)' = Mints(k)
  BY <1>1 DEF RuneRows, RawRows, Mints
<1>3. Height' = Height /\ LastEtched' = LastEtched /\ InBlock' = InBlock
  BY <1>1 DEF Height, LastEtched, InBlock
<1>4. \A k : (Passed(k)' <=> Passed(k)) /\ (PassedBefore(k)' <=> PassedBefore(k))
  BY <1>3 DEF Passed, PassedBefore
<1> QED
  BY <1>1, <1>2, <1>4 DEF CapInv, CachePassed, MintsPassed, CapKept, CommittedCap, CapOf

LEMMA InitCap == Init => CapInv
<1> SUFFICES ASSUME Init
             PROVE  CapInv
  OBVIOUS
<1>1. TInv
  BY InitTable
<1>2. /\ stage = "idle" /\ db_tx = db /\ db.runes = {GenesisRune}
      /\ DOMAIN db.supply = {} /\ db_cache = NoRows /\ rune_cache = <<>>
  BY DEF Init, EmptyDb
<1>3. ASSUME NEW k
      PROVE  TotalMints(db, k) = 0 /\ Mints(k) = 0
  <2>1. {h \in {x[2] : x \in DOMAIN db.supply} : <<k, h>> \in DOMAIN db.supply} = {}
    BY <1>2
  <2>2. TotalMints(db, k) = NoSupply.total_mints
    BY <2>1 DEF TotalMints, Latest
  <2>3. NoSupply.total_mints = 0
    BY DEF NoSupply
  <2>4. Pending(NoRows, k) = 0
    BY DefaultSupply
  <2> QED
    BY <1>2, <2>2, <2>3, <2>4 DEF Mints, MintsIn
<1>4. RuneRows = {GenesisRune}
  <2>1. DOMAIN NoRows.runes = {}
    BY DEF NoRows
  <2> QED
    BY <1>2, <2>1 DEF RuneRows, RawRows
<1>5. CapOf(GenesisRune, 0)
  BY GenesisAssumption DEF TermsType, Optional, CapOf
<1>6. CachePassed
  BY <1>2 DEF CachePassed
<1>7. MintsPassed /\ CommittedCap
  BY <1>2, <1>3, <1>5 DEF MintsPassed, CommittedCap
<1>8. CapKept
  BY <1>3, <1>4, <1>5 DEF CapKept
<1> QED
  BY <1>6, <1>7, <1>8 DEF CapInv

LEMMA CapForward == TInv /\ CapInv /\ [Forward]_vars => CapInv'
<1> SUFFICES ASSUME TInv, CapInv, [Forward]_vars
             PROVE  CapInv'
  OBVIOUS
<1>1. IInv'
  BY NextInv DEF TInv, Next
<1>2. ASSUME Quiet
      PROVE  CapInv'
  BY <1>1, <1>2, QuietUncounted, CountingCap
<1>3. ASSUME NEW rune, NumberStep(rune)
      PROVE  CapInv'
  BY <1>1, <1>3, NumberStepCap
<1>4. CASE BeginBlock
  BY <1>1, <1>4, BeginBlockCap
<1>5. CASE BeginTransaction
  BY <1>2, <1>5, BeginTransactionQuiet
<1>6. CASE ApplyRunestone
  BY <1>2, <1>6, ApplyRunestoneQuiet
<1>7. CASE Etching
  BY <1>2, <1>3, <1>7, EtchingNumbers
<1>8. CASE Mint \/ CenotaphMint
  BY <1>1, <1>8, MintCounted, CountingCap
<1>9. CASE Edict
  BY <1>2, <1>9, EdictQuiet
<1>10. CASE ApplyCenotaph
  BY <1>2, <1>10, ApplyCenotaphQuiet
<1>11. CASE CenotaphEtching
  BY <1>2, <1>3, <1>11, CenotaphEtchingNumbers
<1>12. CASE EndTransaction
  BY <1>2, <1>12, EndTransactionQuiet
<1>13. CASE EndBlock
  BY <1>2, <1>13, EndBlockQuiet
<1>14. CASE Commit
  BY <1>14, CommitCap
<1>15. CASE Restart
  BY <1>15, RestartCap
<1>16. CASE UNCHANGED vars
  BY <1>16, StutterCap
<1> QED
  BY <1>4, <1>5, <1>6, <1>7, <1>8, <1>9, <1>10, <1>11, <1>12, <1>13, <1>14, <1>15,
     <1>16 DEF Forward, IndexBlock

LEMMA InvCap == TInv /\ CapInv => RecordedMintsCapped
<1> SUFFICES ASSUME TInv, CapInv
             PROVE  RecordedMintsCapped
  OBVIOUS
<1>1. Tables.runes \subseteq RuneRows /\ \A k : TotalMints(Tables, k) = Mints(k)
  BY TableMints
<1> QED
  BY <1>1 DEF CapInv, CapKept, CapOf, RecordedMintsCapped

\* While the chain only grows, restarts included, the mints of runestones that name
\* a rune's id never exceed its cap: apply_mint compares the cap of the rune it
\* finds, in the cache or in its row, with a count that covers the mints in the
\* rows, in the changes not flushed and in the cache. Mints of cenotaphs and of
\* 0:0, which supply rows do not hold, are not counted here.
THEOREM RecordedMintsStayCapped == ForwardSpec => []RecordedMintsCapped
<1>1. Init => TInv /\ CapInv
  BY InitTable, InitCap
<1>2. TInv /\ CapInv /\ [Forward]_vars => TInv' /\ CapInv'
  BY TableNext, CapForward DEF Next
<1> QED
  BY <1>1, <1>2, InvCap, PTL DEF ForwardSpec
=============================================================================
