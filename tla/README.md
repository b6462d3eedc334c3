# Runehook: TLA+ models, checks and proofs

Runehook is an indexer of Bitcoin runes: it reads blocks from a node, deciphers
runestones, keeps the ledger, balances and supplies of every rune in Postgres,
follows the node's mempool beside that, and serves the tables over a REST API.
This directory holds TLA+ models of its core, configurations that check them with
TLC on small instances, and proofs of their main invariants with TLAPS.

Paths are relative to the repository (`src/db/index.rs` is the indexer's crate,
`crates/ordinals` the vendored codec, `migrations` the SQL).

## 1. Inventory

| Component | State | Operations | Model |
|---|---|---|---|
| Transaction arithmetic, `src/db/cache/transaction_cache.rs`, `utils.rs` | `TransactionCache`: input runes (rune to a deque of balances), eligible outputs, pointer, etching, event index | etching, mint, cenotaph mint and etching, edict, input burn, allocation of the rest | `TransactionCache`, run as a machine by `TransactionIndexer` |
| Block indexer, `src/db/index.rs`, `index_cache.rs` | three LRU caches (runes, mint counts, outputs), the output cache of the block, the next rune number | `index_block` step by step, `roll_back_block` | `IndexCache` |
| `DbCache` and Postgres tables, `db_cache.rs`, `src/db/mod.rs`, migrations V1-V5 | rows not inserted yet; runes, ledger, supply_changes, balance_changes, block_height | flush with ON CONFLICT, reads, deletion by height | `IndexCache` (variables `db_cache`, `db_tx`, `db`) |
| Chain following, `src/service.rs`, `src/scan/bitcoin.rs` | last_scanned_height, the observer's pending message | catch-up loop, scan, start of the observer, roll backs and new blocks of a message | `ChainSync` |
| Mempool follower, `src/mempool.rs`, migration V6 | set of ids shared by two threads, table mempool_ledger, a channel from the indexer | start-up, scan, ZMQ loop, remover | `MempoolSync` |
| Mempool forecast, `src/mempool.rs` from `parse_mempool_tx` on | entries of one pending transaction | a second copy of the rules for edicts, burns and the rest | `MempoolForecast` |
| Runestone codec, `crates/ordinals` | fields, edicts, flaw of a message | `Message::from_integers`, `decipher`, `encipher` | `Runestone` |
| Varints and payload scripts, `varint.rs`, `runestone.rs` | the bytes read so far | search for the output, pushes, decoding byte by byte | `RunestoneScript` |
| Rune names, `rune.rs`, `spaced_rune.rs` | the letters and spacers read so far | `Display`, `FromStr`, `minimum_at_height` | `RuneName` |
| Sats, `sat.rs`, `epoch.rs`, `height.rs`, `degree.rs`, `rarity.rs` | none | height, degree, rarity, charms; notations written and read | `Sats`, in part |
| SQL types, `src/db/types` | none | u128 and u64 to and from NUMERIC | `PgNumeric`, in part |
| Command line, `src/cli.rs` | the heights a command has left | `service start`, `scan start`, `db drop`, maintenance mode | `ChainMaintenance`, in part |
| REST API, `api/src` | none; the client keeps answers with tags | revalidation before every route; queries | `ApiCache`, in part |

How they interact. `start_service` runs the catch-up loop, then starts the mempool
follower and the chainhook observer. The observer sends messages of blocks to roll
back and to apply; the sidecar thread handles them with `roll_back_block` and
`index_block`. `index_block` runs in one Postgres transaction, deciphers each
transaction, drives `TransactionCache` through `IndexCache`, queues rows in
`DbCache`, and sends every transaction's hash over a channel to the follower's
remover. The follower's ZMQ loop and remover share a set of ids and the table.

What is hard here, and what makes each part right:

- *Transaction arithmetic*: amounts taken from balances of several senders, equal
  division with a remainder, burns of what reaches no output. No unit may be made
  up, each sender is charged what was taken, a cenotaph burns everything.
- *Block indexer*: a value may live in an LRU cache, in rows not inserted yet, in
  the open transaction or in the committed tables; any cache may forget it, a flush
  may fall anywhere, the process may stop anywhere, blocks may be rolled back while
  the caches stay. Lookups must not notice.
- *Tables*: supplies and balances are running sums per height; several flushes of
  one block add to one row; a roll back deletes by height and must restore.
- *Chain following*: the tip moves while the scan runs, while the process is down
  and between scan and observer; a reorganisation's roll backs commit one by one.
- *Mempool follower*: four threads of control touch a set and a table at different
  moments; messages are lost; restarts find rows whose transactions are gone.
- *Codec*: deltas, limits that differ by one, payloads that are cenotaphs, integers cut
  anywhere by pushes, the last bits of a u128.
- *Names and sats*: closed formulas and tables that must agree with each other and with
  the chain at every boundary; no text with two readings.
- *Command line*: blocks dropped and scanned one by one, stopped anywhere, beside tables
  of running sums and a height of their own.
- *REST API*: a tag and the data it stands for are two reads of moving tables.

The hazards, each at its line with the property that covers it or the reason why
none does, are in `PROJECT.json`.

## 2. Modules and plan

| Module | Extends | Role |
|---|---|---|
| `TransactionCache` | - | operators of one transaction |
| `TransactionIndexer` | `TransactionCache` | the order of `index_block`, one transaction, every artifact |
| `IndexCache` | `TransactionCache` | blocks, caches, tables, roll back, restart |
| `MempoolForecast` | `TransactionIndexer` | the forecast of a transaction beside its indexing |
| `MempoolSync` | - | the follower's set, table and threads |
| `ChainSync` | - | scan, hand-over, messages of the observer |
| `Runestone` | - | the codec |
| `Ledger` | `TransactionCache` | what the block indexer promises: a block is one step on the tables |
| `IndexCacheLedger` | `IndexCache` | the refinement of `Ledger` by `IndexCache` |
| `ChainMaintenance` | `ChainSync` | `db drop` and `scan start` between runs of the service |
| `RunestoneScript` | `Runestone` | scripts, pushes and varints; implements `Runestone` |
| `RuneName` | - | names written and read, the lowest name of a block |
| `Sats` | - | where sats are mined, rarity, notations |
| `PgNumeric` | - | numbers in a NUMERIC column |
| `ApiCache` | - | revalidation of API answers beside the indexer |
| `MC...` | each of them | values of the constants for TLC |
| `IndexCacheProofs` | `IndexCache`, `TransactionCacheProofs` | theorems about the caches, the mint counts and the rune numbers |
| `MempoolSyncProofs`, `RunestoneProofs`, `ApiCacheProofs` | the module named | theorems |
| `ChainMaintenanceProofs` | `ChainMaintenance` | theorems about `ChainSync` and the commands beside the service |
| `IndexCacheTableProofs` | `IndexCacheProofs` | theorems about whole blocks, roll backs, running totals and the lookup of inputs |
| `TransactionCacheProofs` | `TransactionCache` | what its folds compute: sums, deques, moves |
| `TransactionIndexerProofs` | `MempoolForecast`, `TransactionCacheProofs` | theorems about one transaction, mined and pending |

They were written in this order: the arithmetic, the block indexer above it, the two
halves of the mempool follower, the codec, chain following; then the abstract ledger and
its refinement, the commands beside the service, the scripts below the codec, and the
conversions; then the proofs of the commands, the mint counts, the arithmetic, the
forecast, the API, the blocks as wholes and the running totals. What could be added is in
section 9. Modules that are proved about hold no RECURSIVE operator: recursion is written
with the folds of the community modules.

Two refinements are checked. `IndexCacheLedger!ImplementsLedger`: every commit of the
indexer, with its LRU caches, pending rows, flushes inside a block and stops, is one
step of an indexer that reads nothing but the tables. `RunestoneScript!ImplementsRunestone`:
reading the bytes of a transaction's outputs is what `Runestone` calls a choice of
payload, and for an enciphered runestone the choice is the list of its integers.

Two compositions matter. `MempoolForecast` runs the forecast and the indexer on the
same transaction and compares what they pay. `IndexCache` takes whatever
`Runestone!RunestoneUsable` allows as an artifact (`ArtifactAssumption`), and its
blocks come in the order in which `ChainSync` delivers them: roll backs from the top
down, then blocks going up.

## 3. State and actions beside the code

**TransactionCache, TransactionIndexer.** A rune's deque of `InputRuneBalance` is a
sequence; a balance without an address (a premine, a mint) has address `None`.
`MoveRuneBalance` is `move_rune_balance_to_output`: it returns the new balances, the
amounts taken and the entries, the early stop at `total_sent == amount` included.
`index_block` calls the steps in a fixed order, and so does `stage`. Amounts are
naturals: sums of `u128` that overflow are left out. `HashMap` iteration over input
runes touches the runes independently, so its order is fixed by a fold.

**IndexCache.** One action per call of `index_block`: `BeginBlock`,
`BeginTransaction` (with the lookup of inputs), `ApplyRunestone`, `Etching`, `Mint`,
`Edict`, `ApplyCenotaph`, `CenotaphEtching`, `CenotaphMint`, `EndTransaction`,
`EndBlock` (the move of the block's outputs to the LRU cache), `Commit` (height,
flush, commit). A lookup that misses the cache flushes first, as the code does
(`FindRune`, `FindTotalMints`); one that finds its entry does not. `db_tx` is what the open
Postgres transaction sees, `db` what is committed; `Restart` drops everything but
`db`. An LRU cache's recency is abstracted: when it is full, any other entry may go.
A transaction index counts from 1 because index 0 is the coinbase, which carries no
runestone. `GenesisAssumption` says that the row of the first migration belongs to a
height no roll back reaches. Each block chooses its transactions from a small set whose
order respects their inputs.

**ChainSync.** A block is a model value with its chain. `NewTip` is the node (any
longer chain), `ScanBehind`, `ScanBlock`, `EndScan`, `CaughtUp` the loop of
`start_service`, `StartObserver` the hand-over, `Observe` the observer's message,
`RollBackNext` and `MutateNext` the sidecar. The content of a block is left out:
`times` counts how often a block's rows were added. Since the node only takes longer
chains, the branch that waits for the node to reach the stored height is not needed.
An error of the scan ends the process, which is `Crash`. What the observer's own
store does with a dropped block that becomes part of the chain again is not in this
repository; such a return is left out.

**MempoolSync.** The follower's phases (`start`, `actualize`, `scan`, `scanning`,
`running`) follow `set_up_mempool_sidecar_runloop`. `Receive` puts an id into the set
and `CommitEntries` inserts its rows: between the two everyone else may move. The
node publishes a transaction when it enters the mempool and when a block holds it; a
socket that is replaced loses what waited. The remover's look at the set and its
delete are one step; with ids as the indexer sends them (with their 0x prefix) it
never finds any, so the split would show nothing. The mutant that strips the
prefix shows what lies behind: rows inserted after the remover has been there.

**MempoolForecast.** `collect_input_rune_balances_pg` gathers balances in the order
of a `HashMap`'s values: any order, chosen once. The `Vec` used as a stack is written
top first.

**Runestone.** The payload is a sequence of integers, the widths of the types are
constants. `Message::from_integers` is one action per round of its loop;
`Decipher` is the rest of `decipher`, `Encipher` an operator. Which script carries
the payload is a choice between no payload, an unreadable one and a readable one.

**Ledger, IndexCacheLedger.** `ApplyBlock` folds the transactions of a block over
`[tc, runes, ledger]`, with the operators of `TransactionCache` for the arithmetic. The
refinement maps the committed rows of `db`; the caches and `db_tx` have no counterpart.
How often a rune counts as minted is a choice where a cenotaph has minted it: the
indexer counts the mint in its LRU cache and not in the table, so it depends on
evictions (`MintCounts`). `LedgerAssumption` names the two places where the indexer does
otherwise, a mint of 0:0 and a name etched twice. Forward only: after a roll back the
caches differ from the tables (section 6).

**ChainMaintenance.** A command is the list of heights it has left; `DropNext` is one
`roll_back_block` of `drop_blocks`, `ScanNext` one round of the scan, each a Postgres
transaction of its own, and `StopCommand` may fall between any two. `sums` is the running
total of one rune that every block mints, written as `pg_insert_supply_changes` does,
from the row of greatest height. The operator is external and takes care: drops reach
to the last height, what was dropped is scanned from its lowest height, and the service
waits for that scan to begin. `db drop` leaves last_scanned_height, `scan` sets it back.

**RunestoneScript.** The state is that of `Runestone::payload`, `integers` and
`varint::decode`: the output, the instruction, the byte, the integer so far. A byte is a
number below twice `Radix`, so the high bit is the upper half. `MeaningOf` says what the
bytes mean without any loop, for integers without width; it is the reference.

**RuneName.** A letter is its place in the alphabet. `ReadLetter`, `ReadSpacer`,
`ReadOther`, `EndOfName` are the arms of `SpacedRune::from_str`; the shift of a flag
wraps at the width of u32, as in a build without overflow checks. `MaxRuneName` is the
name the code spells out. `NextHeight` walks through the blocks.

**Sats.** `MineInBlock` and `MineNextBlock` count sats one by one, with a subsidy that is
halved as the chain goes on; the closed formulas of the code are compared with that. The
constants are small and keep their relations: a halving is no multiple of an adjustment
and `CycleEpochs` of them are.

**PgNumeric.** A number is taken apart, sent, added to by Postgres, normalised and put
together again. Postgres is external: `Normal` leaves out groups of zeros at the end.

**ApiCache.** `SetEtag` and `Route` are the two queries of one request; `IndexBlock` and
`RollBackBlock` come between them. The client is external and names the tag it keeps.

## 4. Runs

| Run | Module | States | What it shows |
|---|---|---|---|
| `tx_allocation` | `MCMempoolForecast` | 1,637,588 | every runestone and cenotaph with up to two edicts moves what it must: `NoInflation`, `SendersAccounted`, `CenotaphBurnsAll`, `EdictAllocation`, `RemainderToPointer`; the forecast pays the same: `ForecastMatches`, `ForecastWithinInputs` |
| `block_index` | `MCIndexCacheLedger` | 64,028 | blocks through the caches, any flush and restart: `InputLookupExact`, `SupplyMatchesLedger`, `BalancesMatchLedger`, `OutputsBacked`, `RecordedMintsCapped`, `RuneNumbersOrdered`; every commit is a step of the indexer without caches: `ImplementsLedger` |
| `block_reorg` | `MCIndexCache` | 75,279 | blocks rolled back and others indexed: `RollBackRestores`, `RuneCacheCoherent`, `CachedMintsCover`, `AllOrNothing` |
| `chain_sync` | `MCChainMaintenance` | 201,981 | `OneBlockPerHeight`, `TablesFollowObserver`, `MaintenanceTypeOK`, `MaintenanceExact`, `SumsExact`, `CatchesUp` with two forks, two stops and a drop |
| `mempool_sync` | `MCMempoolSync` | 478,783 | `RowsCached`, `RowsOnce`, `ScanPrunes`, `FollowerStarts` |
| `runestone_codec` | `MCRunestoneScript` | 1,196,524 | `RoundTrip`, `RunestoneUsable`, `CenotaphIffMeaningless` of scripts read byte by byte, with `ReadsWhatIsMeant` and `ImplementsRunestone` |
| `conversions` | `MCConversions` | 155,959 | names: `ReadsNames`, `LengthsOpenInTurn`; sats: `PositionExact`, `RarityOfEvents`, `NotationsExact`; NUMERIC: `ReadsBack` |
| `api_cache` | `MCApiCache` | 13,170 | `NotModifiedTrue` |
| `unrecorded_burn`, `reorg_outputs`, `chain_gap`, `mempool_kept` | | - | section 6 |

Some runs ask the questions of two modules at once, since the larger module extends the
smaller one and its steps contain those of the smaller. `MCMempoolForecast` runs the
forecast beside every choice of `MCTransactionIndexer`; `MCIndexCacheLedger` maps the
states in which it also checks `IndexCache`; `MCChainMaintenance` has the steps of
`ChainSync` and, between runs of the service, those of the commands; `MCRunestoneScript`
reads each payload of `MCRunestone` from a script. `MCConversions` holds three modules
that share nothing, each as an `INSTANCE`; the variable `subject` says which of them
moves, and the others keep their initial states.

Every property of a passing run has a mutant in `PROJECT.json`, a definition changed
as a bug in that code would change it, with which TLC finds the property violated.

Run one with `tlc -config block_reorg.cfg MCIndexCache`, and prove one with
`tlapm ApiCacheProofs.tla`.

### Bounds

- `tx_allocation`: seven input layouts (none to three balances of two senders; the one
  with three of two senders interleaved is there for the forecast, whose six orders are
  all taken), output layouts with an OP_RETURN in the middle, a script without an address
  or no eligible output, amounts to 5, two edicts. Three balances are the fewest in which
  a move ends inside one after emptying another; two edicts the fewest that compete.
  `MCEtchingChoices` has a premine of `Some(0)` beside a mint of the same rune, the one
  layout with a balance of nothing in front of another (`ZeroInFront`), which
  `EdictAllocation` and `RemainderToPointer` except (section 6).
- `block_index`: an etching with a premine and a cap of two, two transactions that mint it
  and one that mints and etches another rune, two cenotaphs that spend its outputs and
  mint it, edicts of the
  own and of a cached rune, a join of two outputs; three blocks of up to three
  transactions, LRU caches of one entry, so that every second put evicts. Outputs are
  spent in the block that made them, in the next one and after a restart.
- `block_reorg`: two blocks of up to two transactions and two roll backs, which reach
  below the first block indexed; the same transactions come back in other blocks and in
  another order. `Word64` is 16.
- `chain_sync`: chains of four, five and six blocks that fork after the first and the
  second, so one message rolls back up to three blocks and a second fork undoes part
  of the first; two stops, of the service or of a command, and one `db drop`, which may
  be stopped and leave a hole that a scan fills, in part, before the next stop.
- `mempool_sync`: a parent, its child and a cenotaph, two messages in the queue, one
  stop. A block holds one transaction: a larger one is the same steps without the
  commit between them.
- `runestone_codec`: integer types of a few values, so that every limit is reached, up
  to three fields or two edicts. Wider payloads repeat the same rounds. Integers have
  three groups of four values, the last one halved, so every limit of `decode` is met at
  its value; pushes take three bytes, so integers are cut. The scripts beside the one with
  the payload are the kinds that the search must tell apart.
- `conversions`, names: an alphabet of two letters, numbers to 20, which end inside a
  length as u128 does, four bits of spacers, so the shift wraps within the longest names
  read; four lengths in intervals of 40 blocks, heights to 200.
- `conversions`, sats: halvings of 16 blocks and adjustments of 12, so that three epochs
  make a cycle; subsidies 40, 20, 10, 5, 2, 1, which round down twice.
- `conversions`, NUMERIC: groups of three values and numbers to 120, five groups.
- `api_cache`: a chain of four blocks, one without rune operations, a fork at the second,
  two blocks rolled back, four requests: enough for a tag to come back.

### Fairness

`MempoolSync!FairSpec` asks that the thread that starts the service goes on
(`WF(Startup)`): nothing else than the end of the process stops it, and each step ends.
Nothing is asked of the node, the ZMQ loop or the remover.
`ChainMaintenance!FairMaintenance` asks that a command that was started goes on
(`WF(Progress)`: its loop has nothing to wait for), and that the service's threads,
taken together, and the observer's reports go on when the service may run
(`WF(ServiceGoesOn)`); the node may stop finding blocks or not, nothing makes the
operator scan what was dropped, and the process stops a bounded number of times.
`CatchesUp` is met only until a block falls between the scan's end and the observer's
start (`skipped`), which is passed on by nobody, and it excepts a hole that the operator
leaves. The conversions and the API have no liveness property.
Deadlock is not checked in any run: the environment has finite supplies (transactions,
blocks, restarts, requests) and a conversion ends, so every system here may stop.

## 5. Proofs

TLC shows a property on one instance; these hold for every value of the constants that
meets the named assumptions. They concern every step of `Next`, so restarts,
reorganisations and losses are part of them.

**IndexCacheProofs** (assumptions: `SizesAssumption`, `GenesisAssumption`,
`ArtifactAssumption`). `TypeCorrect` and `RuneCacheIsCoherent`: a cached rune is the
rune its row describes. The property is not inductive: a rune may be cached before its
row is written, evicted, and etched again by another block at the same place after a
roll back that leaves the cache. The invariant says in addition that every row has the id
of a place the chain has reached (`RowsPlaced`), that ids are unique, that committed
rows lie below the block being indexed, and that pending rows count as rows. From
that an etching finds no row with its id, and a put into the cache overwrites the stale
entry. What the folds of `TransactionCache` compute is not needed here.

In the same module (`GenesisAssumption` says that the first migration's row is rune 0,
minted by nobody, at a place before all blocks and below every roll back)
`RunesNumberedInOrder`, `CachedMintsAlwaysCover` for `Spec`, `RecordedMintsStayCapped`
for `ForwardSpec`. `TInv` adds two parts to that
invariant. `CountInv`: rows of a rune rise with their height and
none is above the block being indexed, so the newest row holds the sum, and a count in
the LRU cache is never below the mints of the rows the open transaction sees plus the
pending ones. `NumberInv`: numbers rise with the places of etchings, over committed,
open and pending rows, and all are below the next number. A roll back takes rows from
the top, so both survive it although the caches stay: a cached count is then too high,
never too low. `CapInv` says that only runes at places the chain has passed are cached
or minted, and that no rune has more mints in its rows than its cap. Its first half is lost in a
reorganisation: the LRU cache keeps runes whose rows are gone, a mint of such a rune is
counted, and a rune etched later at that place would begin with mints. So
`RecordedMintsStayCapped` is about a chain that only grows. It counts what the rows count,
mints of runestones that name the rune's id. With the mints of cenotaphs and of 0:0 the cap
does not hold (`EveryMintCapped`, section 6).

**IndexCacheTableProofs.** `BlocksAreAllOrNothing` and `RollBackRestoresTables`
(the same assumptions, `OutputsAssumption` and `PlacesAssumption` besides: a transaction has finitely many
outputs and spends a list of them, and every place of the chain is a rune's id). Neither
property is inductive: both speak of committed tables alone, and what a commit makes of
them was written by flushes and pending rows many steps before. `BInv` adds those to
`IInv`. `BlockOpen`: away from the height of the block in work the open tables hold the
committed rows, and what they add, with what is pending, is of this block's transactions
at this height; so a flush at any step updates no row of an earlier height, the
running sums of `supply_changes` and `balance_changes` included. `EtchedSoFar`: every
etching up to the transaction in work has its entry in the open ledger or among the
pending ones. `LedgerOfChain` says both of the committed tables, block by block, and
`Undoable` that removing the rows of each height gives the tables before it, all the way down,
which a second roll back needs. `LogOf` is what a step may append to the ledger; it holds of every
entry a move, an edict, the allocation of the rest, a burn, a mint or an
etching returns (`MoveListed`, `EdictListed`, ... in `TransactionCacheProofs`), of which only the
transaction and the height matter here. One lemma (`HandlingKeeps`) carries `BInv` over every
step within a transaction; opening, ending, committing, rolling back and restarting have
their own.

`SuppliesMatchLedger` and `BalancesAlwaysMatchLedger`, in the same module and under the
same assumptions and `RuneIdsAssumption`: the running totals of `supply_changes` and
`balance_changes` are the sums of the ledger, for `Spec`, so with any flushes, roll backs and stops. An
operation adds to rows in memory, a flush adds these to the latest row of the table, two
flushes of one block add to the same row (ON CONFLICT), deductions are written after
increases, and a roll back deletes by height: none of these steps looks at the ledger.
`SInv`, beside `TInv` and `BInv`, says what ties them to it:

- `SumsCommitted` and `SumsOpen`: in `db` and `db_tx` the row of a key at a height is the
  sum over that key's entries up to the height, and an entry that counts has a row of its
  height (`RowsSum`, `Summed`); what is pending is the sum of the pending entries
  (`ChangesSum`, `Awaits`), and the open ledger has none of these yet. Sums are taken
  over sets of weights, one field at a time (`Weight`, `ReceivedOf`, `SentOf`), so one
  lemma about adding changes to rows (`InsertSums`) and one about deleting a height
  (`WithoutSums`) serve all columns and both tables. A balance may go below zero between
  its two updates, so a weight has two sides and its sum is a difference (`Net`).
- `EntriesPassed`: a block holds a transaction once, and the open entries are of
  transactions it has reached, numbered below the next event number of the one in work.
  That makes what an operation writes new, so no entry is counted twice.
- `TransactionTyped` and `OutputsCoined`: the transaction in work, and the caches of
  outputs it takes its inputs from, hold amounts that are natural numbers, of known runes
  and addresses. An amount goes from an entry into a cache and back into another entry.

What an operation adds is then three facts. It returns entries that are numbered on
(`Enters`, from the traces of `TransactionCacheProofs`); as a list of distinct entries
these grow the pending rows by their sums (`MovesGrow`, `MintGrows`, `EtchingGrows`,
`ChangesGrow`); so what is pending stays a sum (`AwaitsMoves`, `AwaitsOne`).

`InputsFoundExactly` (the same assumptions, `ForwardSpec`): `InputLookupExact` for any
size of the LRU cache, any flushes and stops at any step. `LInv`, beside the three
invariants above, reads both caches against the entries written so far, pending ones
included, since a lookup does not flush. An output in a cache is the list the ledger would
give (`Exact`); a receipt of the block in work that is not in the committed table is among
the block's outputs (`ReceiptsKept`), so an output found in neither cache is whole in the
table. The list is in the order of event numbers, and what an operation receives is
appended to it: that gives the same list because a transaction's entries are numbered
once and on from each other (`NewFollow`, `OutputGoesOn`; the order of a set with distinct keys
is unique, `OneOrder`). The outputs of a block are those of its transactions and the LRU
cache has those of mined ones alone (`OutputsPlaced`, `BlockIsNew`), so the end of a
block extends no list a second time. A reorganisation breaks `OutputsPlaced`: the cache keeps the outputs
of transactions that are mined no more, and the run `reorg_outputs` shows what comes of it.

**TransactionCacheProofs** (`RuneIdsAssumption`: ids are a u64 and a u32, so there are
finitely many). The loops of `transaction_cache.rs` are folds, which the prover cannot
unfold for every length. Each fold is replaced by its *trace*, the numbered results
of its rounds (`TakeTrace`, `EachTrace`, and for folds over sets `AllTrace`, `BurnTrace`);
that a trace exists is proved once for each fold by induction over sets of naturals or
subsets of a finite set, and a sum over a set is shown not to depend on the order it is
taken in (`SumInAnyOrder`). `TakenAddsUp`: what `move_rune_balance_to_output` takes from
a deque and what it leaves is what was there, in all and for each set of addresses, and
senders account for no more than is sent. Above it `MoveStep` says what one move keeps
(`Settled`), `EdictSettles`, `AllSettles` and `CenotaphSettles` that an edict with any
shares, the allocation of the rest and the burn of a cenotaph keep it, `OneEntryEntered`
and `AddInputRunesAdds` what an etching or a mint enters. A deque is `Orderly`: senders'
balances, none empty, come before what was minted. Without that a zero balance would
stop the final move early and a sender would never be charged for the rest.

**TransactionIndexerProofs** (`InputsAssumption`, `OutputsAssumption`,
`ArtifactAssumption`). `IndexerTypeCorrect`, `NothingMadeUp`, `SendersPayExactly`,
`CenotaphsBurnAll`: `NoInflation`, `SendersAccounted` and `CenotaphBurnsAll` for any
deques, output layouts, runestones and numbers of edicts. `IndexInv` reads the ledger so
far and the input runes together: what entries pay out of a rune plus what is left is at
most what came in, every sender's charges plus what it has left are what it put in
(`Balanced`), and in a cenotaph, from its first step on, nothing is left, all
entries are burns or the etching, and the burns of each rune are what it brought and what
was minted of it (`AllBurnt`). Steps come in two kinds, with a lemma each:
a move (`SettledKeeps`) and an entry (`EnteredKeeps`). The assumptions are what the rest
of the code gives: inputs are read from the receipts in the ledger
(`src/db/cache/utils.rs:226`, `src/db/mod.rs:493`), so they have an address and an amount
above zero; outputs and pointers are u32; amounts are unsigned; an etching's id is that
of its transaction. The run `tx_allocation` checks the same properties in the machine that has
the forecast beside the indexer; the indexer's part of its steps is `Next`.

`ForecastStaysWithinInputs`, in the same module, is `ForecastWithinInputs` of
`ForecastSpec`, under the same assumptions. A stack of balances is some
order of a deque, and a sum does not depend on it (`DequeRearranged`, by the sums over sets
of `TransactionCacheProofs`), so a forecast begins with what the inputs hold whatever order
the HashMap gives. `ForecastInv` says that what is promised or burned plus what is left on
the stacks is at most what came in, rune by rune (`Forecast`), and that nothing is left
once all was dropped: an edict after one of 0:0 finds no balance to enter. Each
operation of the forecast pays for what it takes by the lemmas of the indexer's
(`EnteringKeeps`), which is how far the two copies of the rules agree.

**MempoolSyncProofs** (`KindAssumption`, `IdAssumption`). `TypeCorrect`,
`RowsAreCached`, `RowsEnteredOnce`, `ScanLeavesTheMempool`. `TypeCorrect` says of the set,
the table, the queue and the channel what they hold, and of each thread when it may have a
transaction in hand. The invariant adds that
the transaction in the ZMQ loop's hands and those the scan has fetched are in the set and
without rows, and that what has rows during a scan is in its snapshot or
among the ids it will delete. The lemma `NoticesMiss` is where `IdAssumption` comes
in: no id of the node begins with 0x, so the remover changes nothing. Were the prefix
removed, `RowsAreCached` would fail, as the mutant of the run shows.

**ChainMaintenanceProofs, the service** (`ChainAssumption`: chains are prefix-closed).
`TypeCorrect`, `HeightsHoldOneBlock`, `TablesFollow`, `TablesAreExact`, all of
`ChainSync`, for every tree of blocks. The last is of `ChainSync!TablesExact`, which the run checks inside `MaintenanceExact`. The
invariant describes a message in work: roll backs go down one by one to the
height of the first new block, the new blocks go up on the observer's chain to its tip,
and only the first may be marked as processed. `Level` is the height below
which nothing is left to apply; no row lies above it once the roll backs are done
(`RowsEnd`), so each block is added to an empty height.

**ChainMaintenanceProofs, the commands** (the same and `NoneAssumption`: no block or command is the
value that stands for none). `MaintenanceTypeCorrect`, `MaintenanceIsExact`,
`SumsAreExact`, `MaintenanceHoldsOneBlock`, for every tree of blocks, all ranges that the commands
may be given and stops between any two of their steps. The first says, among the types,
which heights a command may still have before it. While nothing is missing the service's invariant holds
as it stands. `MInv` says what is left of it while there is a hole (`AtRest`), and
what a command has done and has left to do: a drop goes up to the last height and
leaves nothing behind it, a scan goes up from the first height that is missing
(`DropRises`, `ScanFills`); below the hole the tables are exact, and the running total
at a height is the number of rows up to it (`SumsCount`).

**RunestoneProofs** (`WidthsAssumption`, `PayloadsAssumption`, `NoneAssumption`).
`NextOfDelta`: `RuneId::next` undoes `RuneId::delta` for ids in order, at every width.
They concern `Runestone!Spec`; the run checks the same of
`RunestoneScript!ScriptSpec`, which implements it. `TypeCorrect`: the reader never leaves
the payload, keeps no empty field and no edict beyond the outputs, and returns nothing
before it has ended. `DecipheredIsUsable`: whatever the payload, an edict's id is valid and not before the
previous one, its output and the pointer are within their limits, and the supply of an
etching fits. The invariant says the same of the edicts read so far.

**ApiCacheProofs** (`ChainsAssumption`; `HashAssumption`: a hash names its block and all
blocks before). `NotModifiedIsTrue`, for all chains, any number of requests and roll
backs. The property speaks of an answer and of tables that may have been rolled back and
extended since, so the invariant `ApiInv` keeps the tables of two moments in the past: an
answer that is kept names the tip of the one and holds the rows of the other
(`AnswerExplained`), a request that has its tag names the tip of one (`TagExplained`), and
until a block is rolled back each of them is a beginning of the tables. `SameTip` is what
a hash is worth: two states of the tables with the same tip have the same
rows. `NothingBetween`: if tables grew from the first moment over the second to now and the tip
is back, nothing was added between them, so a tag read before its data does no harm
without a roll back.

Only model-checked:

- liveness (`CatchesUp`, `FollowerStarts`), which is out of the prover's reach;
- `EdictAllocation` and `RemainderToPointer`, which say what each output receives and not
  only that sums agree, a balance of nothing in front of another excepted (section 6);
- `ForecastMatches`: that the forecast pays each output what the indexer pays it relates
  two runs of every loop, round by round;
- `OutputsBacked` and the refinement `ImplementsLedger`: the one adds up what whole
  transactions did to the unspent outputs of the chain, the other compares each block with
  one indexed without caches (section 9);
- the codec and the conversions but for the theorems above: what a reader that loops over
  digits computes for every input is induction over data.

## 6. Where the code differs from what it says

Four runs end in a violation. Each trace is what the code does.

- `unrecorded_burn`: a premine or mint moved to no output leaves `input_runes` with no
  entry, since a burn entry is written only for a balance with an address
  (`src/db/cache/utils.rs:207`). The burned totals miss it.
- `reorg_outputs`: a block that comes back after a reorganisation extends the entries
  its outputs still have in the LRU cache (`src/db/cache/utils.rs:89`), so an input is
  found to hold twice its amount.
- `mempool_kept`: `index_block` sends hashes with the prefix 0x, the set holds ids
  without it, so rows of confirmed transactions stay until the next restart
  (`src/db/index.rs:95`).
- `chain_gap`: the process stops between the roll backs of a reorganisation and its
  first new block; last_scanned_height still names the old top, so the scan after the
  restart begins above the heights rolled back (`src/service.rs:167`).

Others are stated or noted and have no run:

- `ApiCache!HeightNotModifiedTrue`: every route is under one hook whose tag is the hash of
  the highest block in the ledger. `/blocks/height` answers last_scanned_height, which a
  block without rune operations moves too, so a client that revalidates is told nothing
  has changed (`api/src/api/util/cache.ts:8`).
- `TransactionIndexer!AllInputsMoved`: with a premine of `Some(0)` in front of a minted
  amount, `total_sent == amount` stops the allocation of the rest at 0 == 0
  (`utils.rs:221`), and no output receives what was minted, although "all inputs will be
  moved to the output" (`utils.rs:143`). The instance of `tx_allocation` has the case:
  with this as a property of the run TLC finds an etching, a mint and an end.
- `IndexCache!EveryMintCapped`: the mint of a cenotaph adds to the count in the LRU cache,
  but its entry is a burn, which adds nothing to `total_mints` (`index_cache.rs:259`, 368).
  After a restart or an eviction the count starts from the table, and the rune is minted
  beyond its cap, the "maximum number of mints allowed" (`api/src/api/schemas.ts:225`).
  With this as an invariant of `block_index` TLC finds an etching, a cenotaph, a restart
  and as many mints as the cap allows. A mint of 0:0 in the transaction that etches is
  counted under 0:0 (`index_cache.rs:227`) and exceeds the cap by one in the same way.
- `IndexCache!BalancesMatchOutputs`: a burn takes from no balance
  (`index_cache.rs:368`): the balance of an address keeps what a cenotaph burned.
- `IndexCache!OperationsCounted`: `and_modify` adds to a pending balance but not to its
  `total_operations` (`index_cache.rs:396`).
- Without a pointer the forecast burns what the indexer gives to the first output
  (`mempool.rs:383`); `ForecastMatches` asks for a pointer.
- A first start scans from block 1, since the migration stores a height of 0 and the
  fall-back to the genesis height is never taken (`service.rs:25`).
- `db drop` of a range below the last height leaves running totals above it that count
  what was dropped (`cli.rs:211`); `ChainMaintenance` drops up to the last height.
- `from_degree` multiplies a cycle number in u32 (`sat.rs:161`): a large one wraps and is
  read as a low one in a release build. `NotationsExact` leaves these out (`Wraps`).
- An answer of the API carries a tag read before its data. `NotModifiedTrue` shows that a
  client is misled only if a block came between the two and a roll back then brought the
  tag back.
- A reorganisation during the catch-up scan or while the process is down is not
  noticed (`scan/bitcoin.rs:112`): `TablesExact` and `MaintenanceExact` are stated for a
  chain that only grows, and except blocks that nobody passes on (`service.rs:58`).
- A rune of a dropped block stays in the cache, and so does one whose row was dropped for
  its name (`index_cache.rs:297`, `db/mod.rs:127`): a mint finds it although no row has
  it. `RuneCacheCoherent` is about cached runes that have a row.

## 7. Reading a property

The type invariants of `IndexCache`, `MempoolSync`, `ChainSync`, `Runestone` and
`TransactionIndexer` are proved (`TypeCorrect`, `IndexerTypeCorrect`);
`MaintenanceTypeOK`, which contains that of `ChainSync`, is checked and proved. The others
relate two pieces of state: tables and ledger (`SupplyMatchesLedger`,
`BalancesMatchLedger`), cache and row (`RuneCacheCoherent`, `CachedMintsCover`), a
lookup and what the chain says of an output (`InputLookupExact`), a state and the one a
roll back leads to (`RollBackRestores`), the tables and another party's chain
(`TablesFollowObserver`, `MaintenanceExact`), a running sum and the rows it sums up
(`SumsExact`), a set and a table two threads write (`RowsCached`), two copies of one
rule (`ForecastMatches`), an encoder and a decoder, and a reader and the set of all
texts a writer produces (`RoundTrip`, `ReadsNames`, `NotationsExact`, `ReadsBack`), a
closed formula and the process it sums up (`PositionExact`, `RarityOfEvents`), a step's
effect and its reference definition (`EdictAllocation`, `RemainderToPointer`).

## 8. Not modelled

- How the bitcoin crate cuts a script into instructions, and addresses: external code.
- `Rune::commitment`, `is_reserved` and `reserved`, percentiles of sats (floats),
  `SatPoint`, `Outpoint` and charms given by inscriptions: no code of the indexer calls them.
- SQL types other than NUMERIC, which widen an integer and narrow it back.
- The queries of the REST API, their paging and schemas: read-only, without state.
- The parsing of arguments and of the configuration file. Of the commands, a drop of
  heights below the last one and a scan that leaves heights out are the operator's mistakes.
- The floating end block of the scan, which no caller uses, and the predicates'
  actions, which do nothing.
- Overflow of balance sums, timestamps, block hashes, counters for Prometheus.

## 9. What could be added

Models: the return of a dropped block once the observer's promise about it is known; the
codec composed with the indexer, so that `RunestoneUsable` discharges `ArtifactAssumption`;
the follower composed with the API's view of the mempool table.

Theorems: `OutputsBacked`, for which `InputLookupExact` says what the inputs of a
transaction hold and `NothingMadeUp` what it makes of them; `CenotaphIffMeaningless` in one
direction; `DecodeByte`'s limits in `RunestoneScript`; that `Minimum` never rises (half of
`LengthsOpenInTurn`).
