--------------------------------- MODULE Sats ---------------------------------
(***************************************************************************)
(* Ordinal numbers (sat.rs, epoch.rs, height.rs, degree.rs, decimal_sat.rs,*)
(* rarity.rs and charm.rs of crates/ordinals): where a sat was mined, what *)
(* makes it rare, and the notations it is written in and read from.        *)
(*                                                                         *)
(* Mining goes on sat by sat beside the code's closed formulas, as their   *)
(* reference. A notation is the tuple of its numbers, a name the sequence  *)
(* of its letters. The percentile, a float, is left out.                   *)
(***************************************************************************)
EXTENDS Integers, Sequences, SequencesExt

CONSTANTS
    None,
    FirstSubsidy,       \* 50 bitcoins
    Halving,            \* SUBSIDY_HALVING_INTERVAL
    Adjustment,         \* DIFFCHANGE_INTERVAL
    CycleEpochs,        \* CYCLE_EPOCHS
    FirstPostSubsidy,   \* the first epoch without a subsidy
    Coin,               \* COIN_VALUE
    Base,               \* letters of the alphabet
    Word32,             \* how many values a u32 has; arithmetic wraps there
    Inputs              \* notations that are read, [kind, of]

Increment == Halving % Adjustment

\* Each halving shifts the adjustments by Increment, and a cycle brings them back.
CycleAssumption ==
    /\ Halving \in Nat \ {0} /\ Adjustment \in Nat \ {0} /\ Increment > 0
    /\ Adjustment = Increment * CycleEpochs
    /\ FirstSubsidy \div 2 ^ (FirstPostSubsidy - 1) = 1
    /\ FirstPostSubsidy * Halving + Halving < Word32

VARIABLES
    sat,        \* the sat just mined
    height,     \* its block
    offset,     \* its place in the block
    subsidy,    \* the subsidy of that block
    supply,     \* sats mined before this epoch
    input,      \* a notation
    result      \* what it was read as, or None before

vars == <<sat, height, offset, subsidy, supply, input, result>>

-----------------------------------------------------------------------------
(* Epochs and heights *)

\* Mutant of SubsidyOf: halving rounds up.
SubsidyOfRoundedUp(epoch) ==
    IF epoch < FirstPostSubsidy
    THEN (FirstSubsidy + 2 ^ epoch - 1) \div 2 ^ epoch ELSE 0

SubsidyOf(epoch) ==
    IF epoch < FirstPostSubsidy THEN FirstSubsidy \div 2 ^ epoch ELSE 0

\* STARTING_SATS, which the code spells out; its last entry is SUPPLY.
StartingSats[epoch \in Nat] ==
    IF epoch = 0 THEN 0
    ELSE StartingSats[epoch - 1] + Halving * (FirstSubsidy \div 2 ^ (epoch - 1))

Supply == StartingSats[FirstPostSubsidy]

StartingSat(epoch) ==
    IF epoch <= FirstPostSubsidy THEN StartingSats[epoch] ELSE Supply

EpochOf(s) ==
    CHOOSE e \in 0..FirstPostSubsidy :
        /\ StartingSats[e] <= s
        /\ e = FirstPostSubsidy \/ s < StartingSats[e + 1]

EpochOfHeight(h) == h \div Halving

SubsidyAt(h) == SubsidyOf(EpochOfHeight(h))

StartingSatAt(h) ==
    LET epoch == EpochOfHeight(h)
    IN  StartingSat(epoch) + (h - epoch * Halving) * SubsidyOf(epoch)

EpochPosition(s) == s - StartingSat(EpochOf(s))

HeightOf(s) == EpochOf(s) * Halving + EpochPosition(s) \div SubsidyOf(EpochOf(s))

Third(s) == EpochPosition(s) % SubsidyOf(EpochOf(s))

-----------------------------------------------------------------------------
(* Degrees, rarities and charms *)

Cycle(s) == EpochOf(s) \div CycleEpochs

Degree(s) ==
    [hour   |-> HeightOf(s) \div (CycleEpochs * Halving),
     minute |-> HeightOf(s) % Halving,
     second |-> HeightOf(s) % Adjustment,
     third  |-> Third(s)]

\* Mutant of Rarity: the halving is not asked for a legendary sat.
RarityLoose(s) ==
    LET d == Degree(s)
    IN  CASE d.third # 0 -> "common"
          [] d.hour = 0 /\ d.minute = 0 /\ d.second = 0 /\ d.third = 0 -> "mythic"
          [] d.second = 0 /\ d.third = 0 /\ d.hour > 0 -> "legendary"
          [] d.minute = 0 /\ d.third = 0 -> "epic"
          [] d.second = 0 /\ d.third = 0 -> "rare"
          [] OTHER -> "uncommon"

Rarity(s) ==
    LET d == Degree(s)
    IN  IF d.third # 0 THEN "common"
        ELSE IF d.minute = 0 /\ d.second = 0
             THEN IF d.hour = 0 THEN "mythic" ELSE "legendary"
        ELSE IF d.minute = 0 THEN "epic"
        ELSE IF d.second = 0 THEN "rare" ELSE "uncommon"

\* Sat::common, said to be the fast way to ask for Rarity::Common.
IsCommon(s) == (s - StartingSat(EpochOf(s))) % SubsidyOf(EpochOf(s)) # 0

CharmFlag == [coin |-> 0, epic |-> 2, legendary |-> 3, nineball |-> 5, rare |-> 6,
              uncommon |-> 9, mythic |-> 11]

Nineball(s) == s >= FirstSubsidy * 9 /\ s < FirstSubsidy * 10

\* Sat::charms, as the set of bits it sets.
Charms(s) ==
    (IF Nineball(s) THEN {CharmFlag.nineball} ELSE {})
        \cup (IF s % Coin = 0 THEN {CharmFlag.coin} ELSE {})
        \cup (IF Rarity(s) = "common" THEN {} ELSE {CharmFlag[Rarity(s)]})

-----------------------------------------------------------------------------
(* Notations, written and read *)

\* The letters of a number, counted from the last sat.
Letters[n \in Nat] ==
    IF n = 0 THEN <<>> ELSE Append(Letters[(n - 1) \div Base], (n - 1) % Base)

NameOf(s) == Letters[Supply - s]

DegreeTuple(s) == LET d == Degree(s) IN <<d.hour, d.minute, d.second, d.third>>

Kinds == {"name", "degree", "decimal", "integer"}

Notation(kind, s) ==
    CASE kind = "name" -> NameOf(s)
      [] kind = "degree" -> DegreeTuple(s)
      [] kind = "decimal" -> <<HeightOf(s), Third(s)>>
      [] kind = "integer" -> <<s>>

Read(s) == [ok |-> TRUE, sat |-> s]
Error(kind) == [ok |-> FALSE, kind |-> kind]

\* from_name: out of range as soon as the number so far is.
FromName(name) ==
    LET Add(x, letter) ==
            IF x = None \/ x * Base + letter + 1 > Supply THEN None
            ELSE x * Base + letter + 1
        x == FoldLeft(Add, 0, name)
    IN  IF x = None THEN Error("NameRange") ELSE Read(Supply - x)

\* Mutant of EpochsSinceCycleStart: the relationship as it was before the fix.
EpochsSinceCycleStartUnshifted(minute, second) ==
    IF second >= minute % Adjustment
    THEN (second - (minute % Adjustment)) \div Increment
    ELSE 0

\* The relationship between the two offsets grows by Increment every halving.
EpochsSinceCycleStart(minute, second) ==
    ((second + Halving * CycleEpochs - minute) % Adjustment) \div Increment

FromDegree(hour, minute, second, third) ==
    LET epoch == (hour * CycleEpochs + EpochsSinceCycleStart(minute, second)) % Word32
        h     == (epoch * Halving + minute) % Word32
    IN  IF minute >= Halving THEN Error("EpochOffset")
        ELSE IF second >= Adjustment THEN Error("PeriodOffset")
        ELSE IF (second + Halving * CycleEpochs - minute) % Increment # 0
             THEN Error("EpochPeriodMismatch")
        ELSE IF third >= SubsidyAt(h) THEN Error("BlockOffset")
        ELSE Read(StartingSatAt(h) + third)

FromDecimal(h, third) ==
    IF third >= SubsidyAt(h) THEN Error("BlockOffset") ELSE Read(StartingSatAt(h) + third)

FromInteger(n) == IF n > Supply - 1 THEN Error("IntegerRange") ELSE Read(n)

\* A degree may leave out its last number.
Complete(notation) ==
    IF notation.kind = "degree" /\ Len(notation.of) = 3
    THEN Append(notation.of, 0) ELSE notation.of

FromStr(notation) ==
    LET n == Complete(notation)
    IN  CASE notation.kind = "name" -> FromName(n)
          [] notation.kind = "degree" -> FromDegree(n[1], n[2], n[3], n[4])
          [] notation.kind = "decimal" -> FromDecimal(n[1], n[2])
          [] notation.kind = "integer" -> FromInteger(n[1])

-----------------------------------------------------------------------------
(* Sats as they are mined, and notations as they are read *)

InitMine ==
    /\ sat = 0 /\ height = 0 /\ offset = 0
    /\ subsidy = FirstSubsidy
    /\ supply = 0
    /\ input = None /\ result = None

MineInBlock ==
    /\ offset + 1 < subsidy
    /\ sat' = sat + 1
    /\ offset' = offset + 1
    /\ UNCHANGED <<height, subsidy, supply, input, result>>

\* The next block, after each Halving of them with half the subsidy.
MineNextBlock ==
    /\ offset + 1 = subsidy
    /\ LET halves == (height + 1) % Halving = 0
       IN  /\ subsidy' = IF halves THEN subsidy \div 2 ELSE subsidy
           /\ supply' = IF halves THEN sat + 1 ELSE supply
    /\ subsidy' > 0
    /\ sat' = sat + 1
    /\ height' = height + 1
    /\ offset' = 0
    /\ UNCHANGED <<input, result>>

MineSpec == InitMine /\ [][MineInBlock \/ MineNextBlock]_vars

InitParse ==
    /\ sat = 0 /\ height = 0 /\ offset = 0 /\ subsidy = FirstSubsidy /\ supply = 0
    /\ input \in Inputs
    /\ result = None

Parse ==
    /\ result = None
    /\ result' = FromStr(input)
    /\ UNCHANGED <<sat, height, offset, subsidy, supply, input>>

ParseSpec == InitParse /\ [][Parse]_vars

-----------------------------------------------------------------------------
(* Properties *)

\* The table of starting sats and the divisions by a subsidy that was rounded down
\* at each halving find the block and the place where the sat was mined.
PositionExact ==
    /\ HeightOf(sat) = height /\ Third(sat) = offset
    /\ EpochOf(sat) = height \div Halving
    /\ StartingSat(EpochOf(sat)) = supply
    /\ StartingSatAt(height) + offset = sat
    /\ Cycle(sat) = Degree(sat).hour
    /\ sat < Supply

\* What makes a sat rare is the block it is first in: four numbers that count from
\* different starts single out the blocks where a halving, an adjustment or both
\* meet, the charms follow them, and the sats called nineballs are those of block 9.
RarityOfEvents ==
    LET halves  == height % Halving = 0
        adjusts == height % Adjustment = 0
        rarity  == IF offset > 0 THEN "common"
                   ELSE IF sat = 0 THEN "mythic"
                   ELSE IF halves /\ adjusts THEN "legendary"
                   ELSE IF halves THEN "epic"
                   ELSE IF adjusts THEN "rare" ELSE "uncommon"
    IN  /\ Rarity(sat) = rarity
        /\ IsCommon(sat) <=> rarity = "common"
        /\ \A charm \in DOMAIN CharmFlag \ {"coin", "nineball"} :
               CharmFlag[charm] \in Charms(sat) <=> charm = rarity
        /\ CharmFlag.nineball \in Charms(sat) <=> height = 9

\* A cycle number so high that the height of its epochs has no room in a u32.
Wraps == input.kind = "degree" /\ (input.of[1] + 1) * CycleEpochs * Halving > Word32

\* Each notation of a sat is read back as that sat, a degree too, which does not say
\* the epoch; and nothing else is read: what from_str takes is a notation of the sat
\* it returns.
NotationsExact ==
    /\ \A kind \in Kinds :
        FromStr([kind |-> kind, of |-> Notation(kind, sat)]) = Read(sat)
    /\ result # None /\ result.ok /\ ~Wraps =>
        /\ result.sat \in 0..(Supply - 1)
        /\ Notation(input.kind, result.sat) = Complete(input)
=============================================================================
