------------------------------- MODULE ChainSync -------------------------------
(***************************************************************************)
(* How the service follows the chain (src/service.rs, src/scan/bitcoin.rs, *)
(* roll_back_block and index_block of src/db/index.rs): it scans by height *)
(* up to the node's tip, sets up the mempool follower, and then applies    *)
(* what the chainhook observer passes on.  Each block is indexed or rolled *)
(* back in a Postgres transaction of its own, which is one step here; the  *)
(* process may stop between any two.                                       *)
(*                                                                         *)
(* The observer is external: it is told nothing of the tables, starts from *)
(* the tip the node has then, and passes on every later change of it.      *)
(***************************************************************************)
EXTENDS Integers, Sequences, SequencesExt

CONSTANTS
    Blocks,
    None,       \* Option::None
    Chain,      \* block -> the blocks from height 1 up to it
    First,      \* the node's tip at the beginning
    MaxCrashes  \* bound: restarts

ASSUME ChainAssumption ==
    /\ Chain \in [Blocks -> Seq(Blocks)]
    /\ First \in Blocks
    /\ None \notin Blocks
    /\ \A b \in Blocks :
        /\ Chain[b] # <<>>
        /\ Last(Chain[b]) = b
        /\ \A h \in DOMAIN Chain[b] : Chain[Chain[b][h]] = SubSeq(Chain[b], 1, h)

VARIABLES
    tip,        \* the node's best block
    dropped,    \* blocks a reorganisation took out
    last,       \* last_scanned_height
    times,      \* block -> how often its rows are in the tables
    phase,      \* "start", "scan", "setup" or "listen"
    todo,       \* heights the scan has not reached
    sdk,        \* the observer's tip, or None
    rollback,   \* block_ids_to_rollback, as heights, not done yet
    apply,      \* blocks_to_mutate, [block, processed_by_sidecar], not done yet
    base,       \* the lowest height above which the observer passed all blocks
    skipped,    \* whether blocks came between the scan's end and the observer
    crashes

tables == <<last, times>>
message == <<rollback, apply>>
vars == <<tip, dropped, tables, phase, todo, sdk, message, base, skipped, crashes>>

Height(b) == Len(Chain[b])

\* The chain of a leaves that of the longer b after height c.
ForksAfter(a, b, c) == \A h \in 1..Height(a) : h <= c <=> Chain[a][h] = Chain[b][h]

Init ==
    /\ tip = First /\ dropped = {}
    /\ last = 0
    /\ times = [b \in Blocks |-> 0]
    /\ phase = "start"
    /\ todo = <<>>
    /\ sdk = None /\ rollback = <<>> /\ apply = <<>>
    /\ base = 0 /\ skipped = FALSE
    /\ crashes = 0

\* The node takes the longer chain. A block that was dropped does not come back:
\* what the observer's store says of it then is not in this repository.
NewTip(b) ==
    /\ Height(b) > Height(tip)
    /\ ToSet(Chain[b]) \cap dropped = {}
    /\ tip' = b
    /\ dropped' = dropped \cup (ToSet(Chain[tip]) \ ToSet(Chain[b]))
    /\ UNCHANGED <<tables, phase, todo, sdk, message, base, skipped, crashes>>

\* index_block, the height included; roll_back_block leaves the height.
IndexBlock(b) ==
    /\ times' = [times EXCEPT ![b] = @ + 1]
    /\ last' = Height(b)

RollBackBlock(h) ==
    /\ times' = [b \in Blocks |-> IF Height(b) = h THEN 0 ELSE times[b]]
    /\ UNCHANGED last

-----------------------------------------------------------------------------
(* The catch-up loop of start_service *)

Heights(from, to) == [i \in 1..(to - from + 1) |-> from + i - 1]

\* Mutant of ScanBehind: the range ends before the tip.
ScanBehindExclusive ==
    /\ phase = "start"
    /\ Height(tip) > last
    /\ todo' = Heights(last + 1, Height(tip) - 1)
    /\ phase' = "scan"
    /\ UNCHANGED <<tip, dropped, tables, sdk, message, base, skipped, crashes>>

ScanBehind ==
    /\ phase = "start"
    /\ Height(tip) > last
    /\ todo' = Heights(last + 1, Height(tip))
    /\ phase' = "scan"
    /\ UNCHANGED <<tip, dropped, tables, sdk, message, base, skipped, crashes>>

\* The block the node has at that height now.
ScanBlock ==
    /\ phase = "scan"
    /\ todo # <<>>
    /\ todo' = Tail(todo)
    /\ IndexBlock(Chain[tip][Head(todo)])
    /\ UNCHANGED <<tip, dropped, phase, sdk, message, base, skipped, crashes>>

EndScan ==
    /\ phase = "scan"
    /\ todo = <<>>
    /\ phase' = "start"
    /\ UNCHANGED <<tip, dropped, tables, todo, sdk, message, base, skipped, crashes>>

CaughtUp ==
    /\ phase = "start"
    /\ Height(tip) = last
    /\ phase' = "setup"
    /\ UNCHANGED <<tip, dropped, tables, todo, sdk, message, base, skipped, crashes>>

-----------------------------------------------------------------------------
(* The observer and chainhook_sidecar_mutate_blocks *)

\* start_event_observer, after the mempool was scanned.
StartObserver ==
    /\ phase = "setup"
    /\ phase' = "listen"
    /\ sdk' = tip
    /\ base' = Height(tip)
    /\ skipped' = (skipped \/ Height(tip) # last)
    /\ UNCHANGED <<tip, dropped, tables, todo, message, crashes>>

\* The observer passes on how its tip changed. It may pass a block it passed
\* before once more, with its mark.
Observe(again) ==
    /\ phase = "listen"
    /\ rollback = <<>> /\ apply = <<>>
    /\ sdk # tip
    /\ \E common \in 0..Height(sdk) :
        /\ ForksAfter(sdk, tip, common)
        /\ again => common = Height(sdk) /\ common > base
        /\ rollback' = Reverse(Heights(common + 1, Height(sdk)))
        /\ apply' = (IF again THEN <<[block |-> sdk, processed |-> TRUE]>> ELSE <<>>)
               \o [i \in 1..(Height(tip) - common) |->
                      [block |-> Chain[tip][common + i], processed |-> FALSE]]
        /\ base' = IF common < base THEN common ELSE base
    /\ sdk' = tip
    /\ UNCHANGED <<tip, dropped, tables, phase, todo, skipped, crashes>>

\* Mutant of RollBackNext: only the first of the ids is rolled back.
RollBackNextOnly ==
    /\ rollback # <<>>
    /\ rollback' = <<>>
    /\ RollBackBlock(Head(rollback))
    /\ UNCHANGED <<tip, dropped, phase, todo, sdk, apply, base, skipped, crashes>>

RollBackNext ==
    /\ rollback # <<>>
    /\ rollback' = Tail(rollback)
    /\ RollBackBlock(Head(rollback))
    /\ UNCHANGED <<tip, dropped, phase, todo, sdk, apply, base, skipped, crashes>>

\* Mutant of MutateNext: the mark is not looked at.
MutateNextMarked ==
    /\ rollback = <<>> /\ apply # <<>>
    /\ apply' = Tail(apply)
    /\ IndexBlock(Head(apply).block)
    /\ UNCHANGED <<tip, dropped, phase, todo, sdk, rollback, base, skipped, crashes>>

MutateNext ==
    /\ rollback = <<>> /\ apply # <<>>
    /\ apply' = Tail(apply)
    /\ IF Head(apply).processed THEN UNCHANGED tables ELSE IndexBlock(Head(apply).block)
    /\ UNCHANGED <<tip, dropped, phase, todo, sdk, rollback, base, skipped, crashes>>

\* The process stops; the tables stay.
Crash ==
    /\ crashes < MaxCrashes
    /\ crashes' = crashes + 1
    /\ phase' = "start"
    /\ todo' = <<>>
    /\ sdk' = None /\ rollback' = <<>> /\ apply' = <<>>
    /\ base' = 0
    /\ UNCHANGED <<tip, dropped, tables, skipped>>

Service ==
    \/ ScanBehind \/ ScanBlock \/ EndScan \/ CaughtUp
    \/ StartObserver \/ \E again \in BOOLEAN : Observe(again)
    \/ RollBackNext \/ MutateNext

Next == (\E b \in Blocks : NewTip(b)) \/ Service \/ Crash

Spec == Init /\ [][Next]_vars

-----------------------------------------------------------------------------
(* Properties *)

RowsAt(h) == {b \in Blocks : Height(b) = h /\ times[b] > 0}

\* The type invariant: the height is one the node had, the scan goes on from it,
\* and there is a message only while the service listens.
TypeOK ==
    /\ tip \in Blocks \ dropped /\ dropped \subseteq Blocks
    /\ last \in 0..Height(tip)
    /\ times \in [Blocks -> Nat]
    /\ phase \in {"start", "scan", "setup", "listen"}
    /\ todo # <<>> => phase = "scan" /\ Head(todo) = last + 1
    /\ phase = "listen" <=> sdk # None
    /\ rollback # <<>> \/ apply # <<>> => phase = "listen"

\* No height ever holds the rows of two blocks, or of one block twice: their
\* balances and supplies would add up.
OneBlockPerHeight ==
    \A a, b \in Blocks : Height(a) = Height(b) /\ times[a] > 0 /\ times[b] > 0 =>
        a = b /\ times[a] = 1

Settled == phase = "listen" /\ rollback = <<>> /\ apply = <<>>

\* Whatever forks the observer reports, once a message is done the tables hold its
\* chain from the lowest height it touched, and no row of a block it dropped.
TablesFollowObserver ==
    Settled => \A h \in (base + 1)..Height(sdk) : RowsAt(h) = {Chain[sdk][h]}

\* While the chain only grows and no block falls between scan and observer, the
\* tables hold the node's blocks up to last_scanned_height and nothing above,
\* wherever the process stops.
TablesExact ==
    dropped = {} /\ ~skipped =>
        \A h \in 1..Height(tip) : RowsAt(h) = IF h <= last THEN {Chain[tip][h]} ELSE {}

\* "Start chainhook event observer, we're at chain tip": every height up to the
\* last scanned one has its block.
AtChainTip ==
    phase = "setup" /\ ~skipped => \A h \in 1..last : RowsAt(h) # {}
=============================================================================
