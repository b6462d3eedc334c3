-------------------------- MODULE MempoolSyncProofs --------------------------
(***************************************************************************)
(* Theorems about MempoolSync for every set of transactions, every queue   *)
(* and every number of restarts.                                           *)
(***************************************************************************)
EXTENDS MempoolSync, SequenceTheorems, TLAPS

-----------------------------------------------------------------------------
(* The inductive invariant *)

Phases == {"start", "actualize", "scan", "scanning", "running"}

\* What the tables and the node hold, and when the loops may run.
Shape ==
    /\ mempool \subseteq Txs /\ mined \subseteq Txs /\ indexed \subseteq mined
    /\ zmq \in Seq(Txs)
    /\ zmq # <<>> => listening
    /\ listening => phase = "running"
    /\ rows \in [Txs -> Nat]
    /\ cache \subseteq Txs
    /\ phase \in Phases
    /\ indexing # None => phase = "running" /\ indexing \in mined
    /\ requests \in Seq({SdkId(t) : t \in Txs}) /\ notified \subseteq mined
    /\ snapshot \subseteq Txs /\ stale \subseteq Txs \ snapshot
    /\ todo \subseteq snapshot /\ scanned \subseteq snapshot
    /\ crashes \in Nat

SetFilled == phase \in {"scan", "scanning", "running"}

\* A transaction in flight is in the set, so the scan and the loop pass it over,
\* and has no rows.
InFlight ==
    zmq_tx # None =>
        /\ phase = "running"
        /\ zmq_tx \in cache
        /\ rows[zmq_tx] = 0

\* What the scan will insert is in the set and has no rows; what has rows is
\* either in the snapshot or will be deleted.
Scanning ==
    phase = "scanning" =>
        /\ scanned \subseteq cache \cap snapshot
        /\ \A t \in scanned : rows[t] = 0
        /\ \A t \in Txs : rows[t] > 0 => t \in snapshot \cup stale

IInv == Shape /\ RowsCached /\ RowsOnce /\ InFlight /\ Scanning

-----------------------------------------------------------------------------
(* The remover never finds an id *)

\* No notice is in the set, because of the prefix: the remover changes nothing.
LEMMA NoticesMiss ==
    ASSUME Shape, RemoveEscaped
    PROVE  /\ UNCHANGED <<cache, rows>>
           /\ requests' \in Seq({SdkId(t) : t \in Txs})
<1>1. requests # <<>> /\ requests' = Tail(requests)
  BY DEF RemoveEscaped
<1>2. Head(requests) \in {SdkId(t) : t \in Txs}
  BY <1>1 DEF Shape
<1>3. Head(requests) \notin Txs
  BY <1>2, IdAssumption DEF SdkId
<1>4. Head(requests) \notin cache
  BY <1>3 DEF Shape
<1>5. requests' \in Seq({SdkId(t) : t \in Txs})
  BY <1>1 DEF Shape
<1> QED
  BY <1>4, <1>5 DEF RemoveEscaped

-----------------------------------------------------------------------------
(* Every step *)

LEMMA InitInv == Init => IInv
  BY DEF Init, IInv, Shape, Phases, RowsCached, RowsOnce, InFlight, Scanning

\* The node touches neither the set nor the table.
LEMMA NodeInv == IInv /\ Node => IInv'
<1> SUFFICES ASSUME IInv, NEW t \in Txs, Accept(t) \/ Evict(t) \/ Mine(t)
             PROVE  IInv'
  BY DEF Node
<1> USE DEF node, indexer, scan
<1>1. /\ UNCHANGED <<listening, indexer, cache, rows, zmq_tx, phase, scan, crashes>>
      /\ mempool' \subseteq Txs /\ mined' \subseteq Txs /\ mined \subseteq mined'
  BY DEF Accept, Evict, Mine, IInv, Shape
<1>2. zmq' \in Seq(Txs) /\ (zmq' # <<>> => listening')
  <2>1. zmq \in Seq(Txs) /\ (zmq # <<>> => listening) /\ listening' = listening
    BY <1>1 DEF IInv, Shape
  <2>2. CASE Evict(t)
    BY <2>1, <2>2 DEF Evict
  <2>3. CASE Publish(t)
    <3>1. CASE listening
      BY <2>1, <2>3, <3>1 DEF Publish
    <3>2. CASE ~listening
      BY <2>1, <2>3, <3>2 DEF Publish
    <3> QED
      BY <3>1, <3>2
  <2> QED
    BY <2>2, <2>3 DEF Accept, Mine
<1>3. Shape'
  BY <1>1, <1>2 DEF IInv, Shape
<1>4. RowsCached' /\ RowsOnce' /\ InFlight' /\ Scanning'
  BY <1>1 DEF IInv, RowsCached, RowsOnce, InFlight, Scanning
<1> QED
  BY <1>3, <1>4 DEF IInv

\* Before the set is filled nobody reads it; afterwards it holds every id of the
\* table.
LEMMA FillInv == IInv /\ (CatchUp \/ Actualize \/ ScanFails) => IInv'
<1> SUFFICES ASSUME IInv, CatchUp \/ Actualize \/ ScanFails PROVE IInv'
  OBVIOUS
<1> USE DEF node, indexer, scan
<1>1. CASE CatchUp
  BY <1>1 DEF CatchUp, IInv, Shape, Phases, RowsCached, RowsOnce, InFlight, Scanning
<1>2. CASE Actualize
  BY <1>2 DEF Actualize, IInv, Shape, Phases, RowsCached, RowsOnce, InFlight, Scanning
<1>3. CASE ScanFails
  BY <1>3 DEF ScanFails, IInv, Shape, Phases, RowsCached, RowsOnce, InFlight, Scanning
<1> QED
  BY <1>1, <1>2, <1>3

\* The snapshot splits the ids that have rows: in the mempool, or stale.
LEMMA BeginScanInv == IInv /\ BeginScan => IInv'
<1> SUFFICES ASSUME IInv, BeginScan PROVE IInv'
  OBVIOUS
<1> USE DEF node, indexer, scan, BeginScan, IInv
<1>1. Shape'
  BY DEF Shape, Phases, StaleIds
<1>2. RowsCached' /\ RowsOnce' /\ InFlight'
  BY DEF RowsCached, RowsOnce, InFlight
<1>3. Scanning'
  BY DEF Scanning, StaleIds, RowsCached
<1> QED
  BY <1>1, <1>2, <1>3

\* An id is scanned only if it was not in the set, and then it has no rows.
LEMMA ScanTxInv ==
    ASSUME IInv, NEW t \in Txs, NEW fetched \in BOOLEAN, ScanTx(t, fetched)
    PROVE  IInv'
<1> USE DEF node, indexer, scan, ScanTx, IInv
<1>1. Shape'
  BY DEF Shape, Phases
<1>2. RowsCached' /\ RowsOnce' /\ InFlight'
  BY DEF RowsCached, RowsOnce, InFlight
<1>3. t \in snapshot /\ phase = "scanning"
  BY DEF Shape
<1>4. t \notin cache => rows[t] = 0
  BY <1>3 DEF RowsCached, Shape
<1>5. scanned' \subseteq scanned \cup {t} /\ (t \in cache => scanned' = scanned)
  OBVIOUS
<1>6. Scanning'
  BY <1>3, <1>4, <1>5 DEF Scanning
<1> QED
  BY <1>1, <1>2, <1>6

\* One commit deletes the stale rows and inserts the scanned ones, each once.
LEMMA EndScanInv == IInv /\ EndScan => IInv'
<1> SUFFICES ASSUME IInv, EndScan PROVE IInv'
  OBVIOUS
<1> USE DEF node, indexer, scan, EndScan, IInv
<1>1. \A t \in Txs : rows[t] \in Nat
  BY DEF Shape
<1>2. \A t \in Txs : /\ rows'[t] \in Nat
                     /\ t \in scanned => rows'[t] = 1
                     /\ t \notin scanned => rows'[t] <= rows[t]
  BY <1>1 DEF Scanning
<1>3. Shape'
  BY <1>2 DEF Shape, Phases
<1>4. RowsOnce'
  BY <1>1, <1>2 DEF RowsOnce
<1>5. RowsCached'
  BY <1>1, <1>2 DEF RowsCached, Scanning
<1>6. InFlight' /\ Scanning'
  BY DEF InFlight, Scanning
<1> QED
  BY <1>3, <1>4, <1>5, <1>6

LEMMA StartupInv == IInv /\ Startup => IInv'
  BY FillInv, BeginScanInv, ScanTxInv, EndScanInv DEF Startup

\* A message whose id is new has no rows yet; only then it is in flight.
LEMMA ReceiveInv == IInv /\ Receive => IInv'
<1> SUFFICES ASSUME IInv, Receive PROVE IInv'
  OBVIOUS
<1> USE DEF node, indexer, scan, Receive, IInv
<1>1. Head(zmq) \in Txs /\ zmq' \in Seq(Txs) /\ phase = "running" /\ listening
  BY DEF Shape
<1>2. Shape'
  BY <1>1 DEF Shape
<1>3. RowsCached' /\ RowsOnce' /\ Scanning'
  BY <1>1 DEF RowsCached, RowsOnce, Scanning
<1>4. Head(zmq) \notin cache => rows[Head(zmq)] = 0
  BY <1>1 DEF RowsCached, Shape
<1>5. InFlight'
  BY <1>1, <1>4 DEF InFlight
<1> QED
  BY <1>2, <1>3, <1>5

LEMMA CommitEntriesInv == IInv /\ CommitEntries => IInv'
<1> SUFFICES ASSUME IInv, CommitEntries PROVE IInv'
  OBVIOUS
<1> USE DEF node, indexer, scan, CommitEntries, IInv
<1>1. zmq_tx \in Txs /\ zmq_tx \in cache /\ rows[zmq_tx] = 0 /\ phase = "running"
  BY DEF Shape, InFlight
<1>2. \A t \in Txs : /\ rows'[t] \in Nat
                     /\ t # zmq_tx => rows'[t] = rows[t]
                     /\ t = zmq_tx => rows'[t] <= 1
  BY <1>1 DEF Shape
<1>3. Shape'
  BY <1>2 DEF Shape
<1>4. RowsCached'
  BY <1>1, <1>2 DEF RowsCached
<1>5. RowsOnce'
  BY <1>2 DEF RowsOnce
<1>6. InFlight' /\ Scanning'
  BY <1>1 DEF InFlight, Scanning
<1> QED
  BY <1>3, <1>4, <1>5, <1>6

LEMMA ZmqLoopInv == IInv /\ ZmqLoop => IInv'
<1> SUFFICES ASSUME IInv, ZmqLoop PROVE IInv'
  OBVIOUS
<1> USE DEF node, indexer, scan
<1>1. CASE Connect
  BY <1>1 DEF Connect, IInv, Shape, RowsCached, RowsOnce, InFlight, Scanning
<1>2. CASE Reconnect
  BY <1>2 DEF Reconnect, IInv, Shape, RowsCached, RowsOnce, InFlight, Scanning
<1> QED
  BY <1>1, <1>2, ReceiveInv, CommitEntriesInv DEF ZmqLoop

\* The indexer writes the channel and the ledger, the set and the table never.
LEMMA IndexerInv == IInv /\ Indexer => IInv'
<1> SUFFICES ASSUME IInv, Indexer PROVE IInv'
  OBVIOUS
<1> USE DEF node, indexer, scan
<1>1. CASE CommitBlock
  BY <1>1 DEF CommitBlock, IInv, Shape, RowsCached, RowsOnce, InFlight, Scanning
<1>2. ASSUME NEW t \in Txs, NotifyMined(t) PROVE IInv'
  <2>1. requests' \in Seq({SdkId(u) : u \in Txs})
    BY <1>2 DEF NotifyMined, IInv, Shape
  <2>2. Shape'
    BY <1>2, <2>1 DEF NotifyMined, IInv, Shape
  <2> QED
    BY <1>2, <2>2 DEF NotifyMined, IInv, RowsCached, RowsOnce, InFlight, Scanning
<1> QED
  BY <1>1, <1>2 DEF Indexer

LEMMA RemoverInv == IInv /\ RemoveEscaped => IInv'
<1> SUFFICES ASSUME IInv, RemoveEscaped PROVE IInv'
  OBVIOUS
<1> USE DEF node, indexer, scan
<1>1. UNCHANGED <<cache, rows>> /\ requests' \in Seq({SdkId(t) : t \in Txs})
  BY NoticesMiss DEF IInv
<1>2. UNCHANGED <<node, zmq, listening, indexed, indexing, notified, zmq_tx, phase, scan,
                  crashes>>
  BY DEF RemoveEscaped
<1> QED
  BY <1>1, <1>2 DEF IInv, Shape, RowsCached, RowsOnce, InFlight, Scanning

\* A stop empties the set and what is in flight; the table stays.
LEMMA CrashInv == IInv /\ Crash => IInv'
  BY DEF Crash, IInv, Shape, Phases, RowsCached, RowsOnce, InFlight, Scanning,
         node, indexer, scan

LEMMA StutterInv == IInv /\ UNCHANGED vars => IInv'
  BY DEF vars, node, indexer, scan, IInv, Shape, RowsCached, RowsOnce, InFlight, Scanning

LEMMA NextInv == IInv /\ [Next]_vars => IInv'
  BY NodeInv, StartupInv, ZmqLoopInv, IndexerInv, RemoverInv, CrashInv, StutterInv
  DEF Next

LEMMA Invariance == Spec => []IInv
<1>1. Init => IInv
  BY InitInv
<1>2. IInv /\ [Next]_vars => IInv'
  BY NextInv
<1> QED
  BY <1>1, <1>2, PTL DEF Spec

-----------------------------------------------------------------------------
(* Theorems *)

\* The set holds ids of transactions, the table counts of theirs, the queue and the
\* channel hold transactions and their hashes; what the ZMQ loop or the indexer is at
\* is there only while the loops run, and the id of the former is in the set; what a
\* scan inserts is of its snapshot and what it deletes is not.
THEOREM TypeCorrect == Spec => []TypeOK
<1>1. IInv => TypeOK
  BY DEF IInv, Shape, Phases, InFlight, TypeOK
<1> QED
  BY <1>1, Invariance, PTL

\* Once the set is filled it holds every transaction that has rows in
\* mempool_ledger, whatever the scan, the ZMQ loop, the remover and the indexer do
\* in between.
THEOREM RowsAreCached == Spec => []RowsCached
<1>1. IInv => RowsCached
  BY DEF IInv
<1> QED
  BY <1>1, Invariance, PTL

\* parse_mempool_tx is committed at most once for a transaction, from the scan or
\* from the ZMQ loop, restarts included.
THEOREM RowsEnteredOnce == Spec => []RowsOnce
<1>1. IInv => RowsOnce
  BY DEF IInv
<1> QED
  BY <1>1, Invariance, PTL

\* A scan that succeeds leaves rows of transactions of the node's mempool only.
THEOREM ScanLeavesTheMempool == Spec => ScanPrunes
<1> DEFINE Prunes == phase = "scanning" /\ phase' = "running" =>
                        \A t \in Txs : rows'[t] > 0 => t \in snapshot
<1>1. IInv /\ [Next]_vars => [Prunes]_vars
  <2> SUFFICES ASSUME IInv, Next, phase = "scanning", phase' = "running", NEW t \in Txs,
                      rows'[t] > 0
               PROVE  t \in snapshot
    OBVIOUS
  <2>1. EndScan
    BY DEF Next, Node, Startup, ZmqLoop, Indexer, Accept, Evict, Mine, CatchUp, Actualize,
           BeginScan, ScanFails, ScanTx, Connect, Reconnect, Receive, CommitEntries,
           NotifyMined, CommitBlock, RemoveEscaped, Crash, Shape, IInv
  <2>2. rows[t] \in Nat /\ (t \in scanned \/ (t \notin stale /\ rows[t] > 0))
    BY <2>1 DEF EndScan, IInv, Shape
  <2> QED
    BY <2>2 DEF IInv, Scanning
<1>2. Spec => [][Next]_vars
  BY DEF Spec
<1> QED
  BY <1>1, <1>2, Invariance, PTL DEF ScanPrunes
=============================================================================
