------------------------------ MODULE MempoolSync ------------------------------
(***************************************************************************)
(* The mempool follower of src/mempool.rs: at startup it fills its set of  *)
(* ids from the table mempool_ledger and scans the node's mempool, then    *)
(* two threads share the set and the table: the ZMQ loop adds transactions *)
(* and the remover takes out those the block indexer has met.  Between the *)
(* two touches of a thread the other one may run; the process may stop at  *)
(* any step.  A block is taken to hold one transaction.                    *)
(***************************************************************************)
EXTENDS Integers, Sequences, SequencesExt, FiniteSets

CONSTANTS
    Txs,        \* transactions
    None,       \* Option::None
    Parent,     \* tx -> the transaction whose runes it spends, or None
    Kind,       \* tx -> "plain", "moves" (runes of inputs) or "etches" (a cenotaph)
    MaxQueue,   \* bound: ZMQ messages waiting
    MaxCrashes  \* bound: restarts

ASSUME KindAssumption ==
    /\ Parent \in [Txs -> Txs \cup {None}]
    /\ Kind \in [Txs -> {"plain", "moves", "etches"}]
    /\ None \notin Txs

\* An id as the node prints it never begins with 0x.
ASSUME IdAssumption == \A t \in Txs : <<"0x", t>> \notin Txs

VARIABLES
    mempool,    \* the node's mempool
    mined,      \* transactions in blocks
    zmq,        \* rawtx messages not received yet
    listening,  \* whether the ZMQ socket is connected
    indexed,    \* transactions of blocks the indexer committed
    indexing,   \* the transaction the indexer is at, or None
    requests,   \* the channel from the indexer to the remover
    notified,   \* transactions the indexer has sent since the process started
    cache,      \* mempool_cache, the shared set of ids
    rows,       \* tx -> how often its entries were inserted in mempool_ledger
    zmq_tx,     \* the transaction the ZMQ loop has put into the set, or None
    phase,      \* where start_service is
    snapshot,   \* what get_raw_mempool returned
    stale,      \* ids scan_mempool will delete from the table
    todo,       \* ids of the snapshot it has not looked at
    scanned,    \* transactions whose entries it will insert
    crashes

node    == <<mempool, mined>>
indexer == <<indexed, indexing, requests, notified>>
scan    == <<snapshot, stale, todo, scanned>>
vars == <<node, zmq, listening, indexer, cache, rows, zmq_tx, phase, scan, crashes>>

\* Mutant of SdkId: the indexer strips the prefix before it sends the hash.
SdkIdBare(t) == t

\* The hash the SDK gives a transaction: 0x and the id the node prints.
SdkId(t) == <<"0x", t>>

\* parse_mempool_tx finds something to enter: runes on the inputs, which it
\* looks up in the committed ledger alone, or the etching of a cenotaph.
HasEntries(t) ==
    \/ Kind[t] = "etches"
    \/ Kind[t] = "moves" /\ Parent[t] \in indexed \cup {None}

Init ==
    /\ mempool = {} /\ mined = {} /\ zmq = <<>> /\ listening = FALSE
    /\ indexed = {} /\ indexing = None /\ requests = <<>> /\ notified = {}
    /\ cache = {} /\ rows = [t \in Txs |-> 0] /\ zmq_tx = None
    /\ phase = "start"
    /\ snapshot = {} /\ stale = {} /\ todo = {} /\ scanned = {}
    /\ crashes = 0

-----------------------------------------------------------------------------
(* The node, which publishes a transaction when it enters the mempool and    *)
(* again when a block confirms it                                            *)

Publish(t) ==
    /\ Len(zmq) < MaxQueue
    /\ zmq' = IF listening THEN Append(zmq, t) ELSE zmq

Accept(t) ==
    /\ t \notin mempool \cup mined
    /\ Parent[t] \in mempool \cup mined \cup {None}
    /\ mempool' = mempool \cup {t}
    /\ Publish(t)
    /\ UNCHANGED <<mined, listening, indexer, cache, rows, zmq_tx, phase, scan, crashes>>

Evict(t) ==
    /\ t \in mempool
    /\ \A u \in mempool : Parent[u] # t
    /\ mempool' = mempool \ {t}
    /\ UNCHANGED <<mined, zmq, listening, indexer, cache, rows, zmq_tx, phase, scan,
                   crashes>>

Mine(t) ==
    /\ t \notin mined
    /\ Parent[t] \in mined \cup {None}
    /\ mempool' = mempool \ {t}
    /\ mined' = mined \cup {t}
    /\ Publish(t)
    /\ UNCHANGED <<listening, indexer, cache, rows, zmq_tx, phase, scan, crashes>>

-----------------------------------------------------------------------------
(* Startup *)

\* start_service scans blocks to the tip; index_block has no channel there.
CatchUp ==
    /\ phase = "start"
    /\ phase' = "actualize"
    /\ indexed' = mined
    /\ UNCHANGED <<node, zmq, listening, indexing, requests, notified, cache, rows, zmq_tx,
                   scan, crashes>>

\* Mutant of Actualize: the set starts empty.
ActualizeNothing ==
    /\ phase = "actualize"
    /\ phase' = "scan"
    /\ UNCHANGED <<node, zmq, listening, indexer, cache, rows, zmq_tx, scan, crashes>>

\* pg_actualize_mempool_cache
Actualize ==
    /\ phase = "actualize"
    /\ phase' = "scan"
    /\ cache' = cache \cup {t \in Txs : rows[t] > 0}
    /\ UNCHANGED <<node, zmq, listening, indexer, rows, zmq_tx, scan, crashes>>

\* The ids of the set that are not among those of the node's mempool.
StaleIds(ids) == cache \ ids

BeginScan ==
    /\ phase = "scan"
    /\ phase' = "scanning"
    /\ snapshot' = mempool
    /\ stale' = StaleIds(mempool)
    /\ todo' = mempool
    /\ scanned' = {}
    /\ UNCHANGED <<node, zmq, listening, indexer, cache, rows, zmq_tx, crashes>>

\* get_raw_mempool fails: scan_mempool returns, its DELETE never happened.
ScanFails ==
    /\ phase = "scan"
    /\ phase' = "running"
    /\ UNCHANGED <<node, zmq, listening, indexer, cache, rows, zmq_tx, scan, crashes>>

\* Mutant of ScanTx: an id that is in the set already stays in the list.
ScanTxStuck(t, fetched) ==
    /\ phase = "scanning"
    /\ t \in todo
    /\ todo' = IF t \in cache THEN todo ELSE todo \ {t}
    /\ cache' = cache \cup {t}
    /\ scanned' = IF t \notin cache /\ fetched /\ HasEntries(t)
                  THEN scanned \cup {t} ELSE scanned
    /\ UNCHANGED <<node, zmq, listening, indexer, rows, zmq_tx, phase, snapshot, stale,
                   crashes>>

\* One id of the snapshot: put it into the set and, if it is new, fetch it.
ScanTx(t, fetched) ==
    /\ phase = "scanning"
    /\ t \in todo
    /\ todo' = todo \ {t}
    /\ cache' = cache \cup {t}
    /\ scanned' = IF t \notin cache /\ fetched /\ HasEntries(t)
                  THEN scanned \cup {t} ELSE scanned
    /\ UNCHANGED <<node, zmq, listening, indexer, rows, zmq_tx, phase, snapshot, stale,
                   crashes>>

\* Entries are inserted and stale ones deleted in one Postgres transaction; the
\* stale ids stay in the set.
EndScan ==
    /\ phase = "scanning"
    /\ todo = {}
    /\ phase' = "running"
    /\ rows' = [t \in Txs |-> (IF t \in stale THEN 0 ELSE rows[t])
                              + (IF t \in scanned THEN 1 ELSE 0)]
    /\ UNCHANGED <<node, zmq, listening, indexer, cache, zmq_tx, scan, crashes>>

-----------------------------------------------------------------------------
(* The ZMQ loop *)

Connect ==
    /\ phase = "running"
    /\ ~listening
    /\ listening' = TRUE
    /\ UNCHANGED <<node, zmq, indexer, cache, rows, zmq_tx, phase, scan, crashes>>

\* A failed receive opens a new socket: what waited at the old one is lost.
Reconnect ==
    /\ zmq_tx = None
    /\ zmq # <<>>
    /\ zmq' = <<>>
    /\ UNCHANGED <<node, listening, indexer, cache, rows, zmq_tx, phase, scan, crashes>>

\* Mutant of Receive: a transaction that is in the set already is parsed too.
ReceiveAgain ==
    /\ zmq_tx = None
    /\ zmq # <<>>
    /\ zmq' = Tail(zmq)
    /\ cache' = cache \cup {Head(zmq)}
    /\ zmq_tx' = Head(zmq)
    /\ UNCHANGED <<node, listening, indexer, rows, phase, scan, crashes>>

\* Receive a message and put its id into the set; one that is there is skipped.
Receive ==
    /\ zmq_tx = None
    /\ zmq # <<>>
    /\ zmq' = Tail(zmq)
    /\ cache' = cache \cup {Head(zmq)}
    /\ zmq_tx' = IF Head(zmq) \in cache THEN None ELSE Head(zmq)
    /\ UNCHANGED <<node, listening, indexer, rows, phase, scan, crashes>>

\* Parse it against the ledger and commit its entries.
CommitEntries ==
    /\ zmq_tx # None
    /\ zmq_tx' = None
    /\ rows' = IF HasEntries(zmq_tx) THEN [rows EXCEPT ![zmq_tx] = @ + 1] ELSE rows
    /\ UNCHANGED <<node, zmq, listening, indexer, cache, phase, scan, crashes>>

-----------------------------------------------------------------------------
(* The block indexer and the remover *)

\* index_block meets a transaction: it sends its hash before it indexes it.
NotifyMined(t) ==
    /\ phase = "running"
    /\ indexing = None
    /\ t \in mined \ indexed
    /\ Parent[t] \in indexed \cup {None}
    /\ indexing' = t
    /\ requests' = Append(requests, SdkId(t))
    /\ notified' = notified \cup {t}
    /\ UNCHANGED <<node, zmq, listening, indexed, cache, rows, zmq_tx, phase, scan,
                   crashes>>

CommitBlock ==
    /\ indexing # None
    /\ indexing' = None
    /\ indexed' = indexed \cup {indexing}
    /\ UNCHANGED <<node, zmq, listening, requests, notified, cache, rows, zmq_tx, phase,
                   scan, crashes>>

\* remove_escaped_transactions: rows are deleted if the id was in the set. No id
\* in the set has the prefix, so as the code is the branch is never taken.
RemoveEscaped ==
    /\ requests # <<>>
    /\ requests' = Tail(requests)
    /\ IF Head(requests) \in cache
       THEN /\ cache' = cache \ {Head(requests)}
            /\ rows' = [rows EXCEPT ![Head(requests)] = 0]
       ELSE UNCHANGED <<cache, rows>>
    /\ UNCHANGED <<node, zmq, listening, indexed, indexing, notified, zmq_tx, phase, scan,
                   crashes>>

\* The process stops; the tables stay.
Crash ==
    /\ phase # "start"
    /\ crashes < MaxCrashes
    /\ crashes' = crashes + 1
    /\ phase' = "start"
    /\ listening' = FALSE /\ zmq' = <<>>
    /\ indexing' = None /\ requests' = <<>> /\ notified' = {}
    /\ cache' = {} /\ zmq_tx' = None
    /\ snapshot' = {} /\ stale' = {} /\ todo' = {} /\ scanned' = {}
    /\ UNCHANGED <<node, indexed, rows>>

Startup == CatchUp \/ Actualize \/ BeginScan \/ ScanFails \/ EndScan
           \/ \E t \in Txs, fetched \in BOOLEAN : ScanTx(t, fetched)

Node == \E t \in Txs : Accept(t) \/ Evict(t) \/ Mine(t)

ZmqLoop == Connect \/ Reconnect \/ Receive \/ CommitEntries

Indexer == (\E t \in Txs : NotifyMined(t)) \/ CommitBlock

Next == Node \/ Startup \/ ZmqLoop \/ Indexer \/ RemoveEscaped \/ Crash

Spec == Init /\ [][Next]_vars

\* The thread that starts the service goes on unless the process stops.
FairSpec == Spec /\ WF_vars(Startup)

-----------------------------------------------------------------------------
(* Properties *)

\* The type invariant: the set holds ids as the node prints them and the channel
\* hashes of the SDK; a transaction is in flight, in the ZMQ loop or the indexer,
\* only while the loops run, and the id the ZMQ loop works on is in the set; what
\* a scan inserts is of its snapshot and what it deletes is not.
TypeOK ==
    /\ mempool \subseteq Txs /\ mined \subseteq Txs /\ indexed \subseteq mined
    /\ zmq \in Seq(Txs) /\ (zmq # <<>> => listening)
    /\ listening => phase = "running"
    /\ indexing # None => phase = "running" /\ indexing \in mined
    /\ requests \in Seq({SdkId(t) : t \in Txs}) /\ notified \subseteq mined
    /\ cache \subseteq Txs
    /\ rows \in [Txs -> Nat]
    /\ zmq_tx # None => phase = "running" /\ zmq_tx \in cache
    /\ phase \in {"start", "actualize", "scan", "scanning", "running"}
    /\ snapshot \subseteq Txs /\ stale \subseteq Txs \ snapshot
    /\ todo \subseteq snapshot /\ scanned \subseteq snapshot
    /\ crashes \in Nat

\* Whoever has rows in the table is in the set, once the set is filled: the set
\* is the only way the remover and the next scan find rows to delete. The two
\* are written at different moments by threads that do not wait for each other.
RowsCached ==
    phase \in {"scan", "scanning", "running"} =>
        \A t \in Txs : rows[t] > 0 => t \in cache

\* No transaction is entered twice, whether it reaches the follower from the
\* scan, from the mempool, from a block or again after a restart.
RowsOnce == \A t \in Txs : rows[t] <= 1

\* A scan that succeeds leaves rows of transactions the node has in its mempool
\* and of no other ("removing transaction ids that do not represent current
\* mempool state"), those a stopped process left included.
ScanPrunes ==
    [][phase = "scanning" /\ phase' = "running" =>
        \A t \in Txs : rows'[t] > 0 => t \in snapshot]_vars

\* "notify the mempool service that the transaction could be deleted from the
\* mempool storage": once the remover has handled the notice of a transaction and
\* nothing is in flight, its rows are gone.
ConfirmedRemoved ==
    requests = <<>> /\ zmq_tx = None => \A t \in notified : rows[t] = 0

\* The scan ends, however the mempool changes and whatever cannot be fetched:
\* only then the loops start.
FollowerStarts == phase = "start" ~> phase = "running"
=============================================================================
