--------------------------- MODULE ChainMaintenance ---------------------------
(***************************************************************************)
(* The commands an operator runs beside the service, while it is stopped   *)
(* or in maintenance mode: `db drop` and `scan start` (src/cli.rs, with    *)
(* drop_blocks and scan_blocks of src/scan/bitcoin.rs).  Each block is     *)
(* dropped or indexed in a Postgres transaction of its own, and a command  *)
(* may be stopped between two of them.                                     *)
(*                                                                         *)
(* To what ChainSync knows of the tables this adds one running total, the  *)
(* rows of a rune's supply when every block mints it once.                 *)
(*                                                                         *)
(* The operator is external and takes care: drops reach up to the last     *)
(* height, what was dropped is scanned from its lowest height on, and the  *)
(* service is not started before that scan has begun.                      *)
(***************************************************************************)
EXTENDS ChainSync, FiniteSetsExt

CONSTANT MaxDrops   \* bound: drop commands

ASSUME MaxDropsAssumption == MaxDrops \in Nat

\* A height is told from none.
ASSUME NoneAssumption == None \notin Nat

VARIABLES
    sums,       \* height -> the running total in the row of that height
    command,    \* the command that runs, [kind, heights]
    hole,       \* the lowest height dropped and not scanned again, or None
    cleared,    \* whether the drop of these heights ran to its end
    drops       \* how many drops were begun

maintenance == <<command, hole, cleared, drops>>
allVars == <<vars, sums, maintenance>>

NoCommand == [kind |-> "none", heights |-> <<>>]

InitMaintenance ==
    /\ Init
    /\ sums = <<>>
    /\ command = NoCommand
    /\ hole = None
    /\ cleared = FALSE
    /\ drops = 0

\* The total in the row of greatest height, which the next row adds to.
LatestSum == IF DOMAIN sums = {} THEN 0 ELSE sums[Max(DOMAIN sums)]

\* Mutant of SumAt: only a row that is there is written.
SumAtUpdate(h) == [g \in DOMAIN sums |-> IF g = h THEN LatestSum + 1 ELSE sums[g]]

\* Mutant of SumAt: the sum starts from the row below the height.
SumAtFromBelow(h) ==
    LET below == {g \in DOMAIN sums : g < h}
    IN  [g \in DOMAIN sums \cup {h} |->
            IF g = h THEN 1 + (IF below = {} THEN 0 ELSE sums[Min(below)]) ELSE sums[g]]

\* The row a block at height h writes, one there already included.
SumAt(h) ==
    [g \in DOMAIN sums \cup {h} |-> IF g = h THEN LatestSum + 1 ELSE sums[g]]

\* The running total goes with the rows of its block.
SumsFollow ==
    LET indexed == {b \in Blocks : times'[b] > times[b]}
        kept    == {h \in DOMAIN sums : \E b \in Blocks : Height(b) = h /\ times'[b] > 0}
    IN  sums' = IF indexed # {} THEN SumAt(Height(CHOOSE b \in indexed : TRUE))
                ELSE [h \in kept |-> sums[h]]

-----------------------------------------------------------------------------
(* Commands *)

Idle == phase = "start" /\ command = NoCommand

\* drop_blocks: start_block..=end_block
DropHeights(from, to) == Heights(from, to)

StartDrop ==
    /\ Idle
    /\ drops < MaxDrops
    /\ drops' = drops + 1
    /\ \E from \in 1..last :
        /\ hole # None => from <= hole
        /\ hole' = from
        /\ command' = [kind |-> "drop", heights |-> DropHeights(from, last)]
    /\ cleared' = FALSE
    /\ UNCHANGED <<vars, sums>>

\* Mutant of ScanHeights: a list is scanned as it was written.
ScanHeightsAsGiven(given) == given

\* get_sorted_entries of what --interval or --blocks says: the i-th height is the
\* one that has i of them up to it.
ScanHeights(given) ==
    LET heights == ToSet(given)
    IN  [i \in DOMAIN given |->
            CHOOSE h \in heights : Cardinality({g \in heights : g <= h}) = i]

StartScan ==
    /\ Idle
    /\ hole # None => cleared
    /\ LET from == IF hole = None THEN last + 1 ELSE hole
       IN  \E to \in from..Height(tip) :
            \E given \in {Heights(from, to), Reverse(Heights(from, to))} :
                command' = [kind |-> "scan", heights |-> ScanHeights(given)]
    /\ UNCHANGED <<vars, sums, hole, cleared, drops>>

NextHeight == Head(command.heights)

Advance ==
    /\ command.heights # <<>>
    /\ command' = [command EXCEPT !.heights = Tail(@)]
    /\ UNCHANGED <<tip, dropped, phase, todo, sdk, message, base, skipped, crashes, cleared,
                   drops>>

DropNext ==
    /\ command.kind = "drop"
    /\ Advance
    /\ RollBackBlock(NextHeight)
    /\ SumsFollow
    /\ UNCHANGED hole

ScanNext ==
    /\ command.kind = "scan"
    /\ Advance
    /\ IndexBlock(Chain[tip][NextHeight])
    /\ SumsFollow
    /\ hole' = None

EndCommand ==
    /\ command # NoCommand
    /\ command.heights = <<>>
    /\ command' = NoCommand
    /\ cleared' = (cleared \/ command.kind = "drop")
    /\ UNCHANGED <<vars, sums, hole, drops>>

\* The command stops between two blocks.
StopCommand ==
    /\ command # NoCommand
    /\ crashes < MaxCrashes
    /\ crashes' = crashes + 1
    /\ command' = NoCommand
    /\ UNCHANGED <<tip, dropped, tables, phase, todo, sdk, message, base, skipped, sums,
                   hole, cleared, drops>>

-----------------------------------------------------------------------------
(* The service, the node and the commands *)

\* The service runs when no command does and nothing dropped is missing.
Serve ==
    /\ command = NoCommand
    /\ hole = None
    /\ Service \/ Crash
    /\ SumsFollow
    /\ UNCHANGED maintenance

Mine ==
    /\ \E b \in Blocks : NewTip(b)
    /\ UNCHANGED <<sums, maintenance>>

Progress == DropNext \/ ScanNext \/ EndCommand

NextMaintenance == Mine \/ Serve \/ StartDrop \/ StartScan \/ Progress \/ StopCommand

ServiceGoesOn ==
    /\ command = NoCommand
    /\ hole = None
    /\ Service
    /\ SumsFollow
    /\ UNCHANGED maintenance

MaintenanceSpec == InitMaintenance /\ [][NextMaintenance]_allVars

\* A command that was started goes on, and so does the service.
FairMaintenance ==
    /\ MaintenanceSpec
    /\ WF_allVars(Progress)
    /\ WF_allVars(ServiceGoesOn)

-----------------------------------------------------------------------------
(* Properties *)

\* The type invariant, with that of ChainSync: a row of the total wherever there
\* are rows, a hole only at a height that was scanned, and a command only while the
\* service is stopped. The heights a drop has left lie between the hole and
\* last_scanned_height, those of a scan between the first one missing and the tip.
MaintenanceTypeOK ==
    /\ TypeOK
    /\ DOMAIN sums = {h \in 1..Height(tip) : RowsAt(h) # {}}
    /\ hole # None => hole \in 1..last
    /\ command.kind \in {"none", "drop", "scan"}
    /\ command # NoCommand => phase = "start"
    /\ command.kind = "drop" =>
           hole # None /\ \A i \in DOMAIN command.heights : command.heights[i] \in hole..last
    /\ command.kind = "scan" =>
           \A i \in DOMAIN command.heights :
               command.heights[i] \in (IF hole = None THEN last + 1 ELSE hole)..Height(tip)

\* Blocks dropped and scanned again leave no trace: as soon as the scan has begun,
\* wherever it is stopped and whoever goes on, each height up to
\* last_scanned_height has its block once and there is none above.
MaintenanceExact == hole = None => TablesExact

\* The running total of every height counts each block up to it once, however
\* often the blocks were dropped and in whatever order they were named.
SumsExact ==
    hole = None /\ dropped = {} /\ ~skipped => \A h \in DOMAIN sums : sums[h] = h

\* After maintenance the service reaches the tip, from wherever the last scan
\* was stopped.
CatchesUp == []<>(skipped \/ hole # None \/ last = Height(tip))
=============================================================================
