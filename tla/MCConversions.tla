---------------------------- MODULE MCConversions ----------------------------
(***************************************************************************)
(* Small instances of the conversions, which share no state: rune names    *)
(* (RuneName), sats (Sats) and NUMERIC columns (PgNumeric).  A behaviour   *)
(* is one of a single conversion, the variables of the others stay as they *)
(* are at first.                                                           *)
(*                                                                         *)
(* Names have two letters and numbers go up to 20, which takes four of     *)
(* them; strings have up to six characters, one more than the bits of a    *)
(* spacer can tell apart.  The chain halves every 16 blocks and adjusts    *)
(* every 12, with cycles of three epochs, in six epochs of 40, 20, 10, 5,  *)
(* 2 and 1 sats a block.  Columns have up to five groups of three digits.  *)
(***************************************************************************)
EXTENDS Integers, Sequences

CONSTANTS None, Spacer, Other

VARIABLES
    subject,    \* the conversion of this behaviour
    source, string, pos, letters, spacers, parsed, height,
    sat, block, offset, subsidy, supply, notation, read,
    num, digits, adds, column, meant, got

nameVars == <<source, string, pos, letters, spacers, parsed, height>>
satVars == <<sat, block, offset, subsidy, supply, notation, read>>
numericVars == <<num, digits, adds, column, meant, got>>
vars == <<subject, nameVars, satVars, numericVars>>

Strings == UNION {[1..n -> {0, 1, Spacer, Other}] : n \in 0..6}

Names == INSTANCE RuneName WITH
    Base <- 2, MaxRune <- 20, MaxRuneName <- <<0, 1, 1, 0>>, SpacerBits <- 4,
    Interval <- 40, Lengths <- 4, FirstHeight <- 30, MaxHeight <- 200,
    Inputs <- Strings, input <- string, result <- parsed

Written(kind, tuples) == {[kind |-> kind, of |-> t] : t \in tuples}

WrittenSats ==
    Written("degree", (0..2) \X (0..16) \X (0..12) \X {0, 1, 4, 5, 39, 40})
        \cup Written("degree", (0..1) \X (0..16) \X (0..12))
        \cup Written("decimal", (0..100) \X {0, 1, 2, 9, 10, 39, 40})
        \cup Written("integer", {<<n>> : n \in {0, 1, 1247, 1248, 1249}})
        \cup Written("name", UNION {[1..n -> 0..3] : n \in 1..5} \cup [1..6 -> {0, 3}])

Ordinals == INSTANCE Sats WITH
    FirstSubsidy <- 40, Halving <- 16, Adjustment <- 12, CycleEpochs <- 3,
    FirstPostSubsidy <- 6, Coin <- 8, Base <- 4, Word32 <- 256,
    Inputs <- WrittenSats, height <- block, input <- notation, result <- read

Numeric == INSTANCE PgNumeric WITH Radix <- 3, MaxNumber <- 120

ASSUME ConversionsAssumption ==
    /\ Names!NamesAssumption
    /\ Ordinals!CycleAssumption
    /\ Numeric!NumericAssumption

Init ==
    \/ subject = "read name" /\ Names!InitRead /\ Ordinals!InitMine /\ Numeric!Init
    \/ subject = "minimum" /\ Names!InitHeight /\ Ordinals!InitMine /\ Numeric!Init
    \/ subject = "mine" /\ Names!InitHeight /\ Ordinals!InitMine /\ Numeric!Init
    \/ subject = "read sat" /\ Names!InitHeight /\ Ordinals!InitParse /\ Numeric!Init
    \/ subject = "numeric" /\ Names!InitHeight /\ Ordinals!InitMine /\ Numeric!Init

NameStep ==
    /\ \/ subject = "read name" /\ Names!NextRead
       \/ subject = "minimum" /\ Names!NextHeight
    /\ UNCHANGED <<subject, satVars, numericVars>>

SatStep ==
    /\ \/ subject = "mine" /\ (Ordinals!MineInBlock \/ Ordinals!MineNextBlock)
       \/ subject = "read sat" /\ Ordinals!Parse
    /\ UNCHANGED <<subject, nameVars, numericVars>>

NumericStep ==
    /\ subject = "numeric" /\ Numeric!Next
    /\ UNCHANGED <<subject, nameVars, satVars>>

Next == NameStep \/ SatStep \/ NumericStep

Spec == Init /\ [][Next]_vars

-----------------------------------------------------------------------------
(* Properties of the modules *)

\* Rune::from_str reads exactly what Display writes.
ReadsNames == Names!ReadsNames

\* Rune::minimum_at_height opens one length of names after the other.
LengthsOpenInTurn == Names!LengthsOpenInTurn

\* The closed formulas of sat.rs find the block and the place of a sat.
PositionExact == Ordinals!PositionExact

\* What makes a sat rare is the block it is first in (Rarity, Charm).
RarityOfEvents == Ordinals!RarityOfEvents

\* Sat::from_str reads exactly the notations of sats.
NotationsExact == Ordinals!NotationsExact

\* What is read from a NUMERIC column is what was set or added up.
ReadsBack == Numeric!ReadsBack
=============================================================================
