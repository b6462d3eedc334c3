------------------------------- MODULE RuneName -------------------------------
(***************************************************************************)
(* Names of runes (rune.rs and spaced_rune.rs of crates/ordinals): how a   *)
(* number is written with letters and spacers, how a name is read back,    *)
(* character by character, and the lowest name a block may etch.           *)
(*                                                                         *)
(* A letter is its place in the alphabet, a spacer and any other character *)
(* are values of their own.  A build without overflow checks is modelled:  *)
(* a shift by more than the width of u32 wraps.                            *)
(***************************************************************************)
EXTENDS Integers, Sequences, SequencesExt

CONSTANTS
    None,
    Base,           \* letters of the alphabet, 26
    MaxRune,        \* u128::MAX
    MaxRuneName,    \* the name the code spells out for it
    SpacerBits,     \* bits of u32
    Spacer, Other,  \* '.' or the bullet; any other character
    Inputs,         \* strings that are read
    Interval,       \* blocks until a name may be one letter shorter
    Lengths,        \* 12: how many such intervals there are
    FirstHeight,    \* first_rune_height
    MaxHeight       \* u32::MAX

NamesAssumption ==
    /\ Base \in Nat \ {0, 1} /\ MaxRune \in Nat /\ SpacerBits \in Nat \ {0}
    /\ Spacer \notin 0..(Base - 1) /\ Other \notin 0..(Base - 1)

VARIABLES
    source,     \* the spaced rune that was written, or None
    input,      \* the string that is read
    pos,        \* its next character
    letters,    \* the letters so far
    spacers,    \* the bits set so far
    result,     \* what from_str returned, or None before
    height      \* the block asked for its lowest name

vars == <<source, input, pos, letters, spacers, result, height>>

-----------------------------------------------------------------------------
(* Writing: Display of Rune and of SpacedRune *)

\* The letters of n - 1 in bijective base 26.
Letters[n \in Nat] ==
    IF n = 0 THEN <<>>
    ELSE Append(Letters[(n - 1) \div Base], (n - 1) % Base)

Name(rune) == IF rune = MaxRune THEN MaxRuneName ELSE Letters[rune + 1]

\* A spacer after each letter but the last whose bit is set.
SpacedName(rune, bits) ==
    LET name == Name(rune)
    IN  FlattenSeq([i \in DOMAIN name |->
            IF i < Len(name) /\ i - 1 \in bits THEN <<name[i], Spacer>>
            ELSE <<name[i]>>])

-----------------------------------------------------------------------------
(* Reading: from_str *)

\* Mutant of ParseRune: the step to the next length is not checked.
ParseRuneUnchecked(name) ==
    LET Add(x, i) == ((IF i > 1 THEN x + 1 ELSE x) * Base + name[i]) % (MaxRune + 1)
    IN  FoldLeft(Add, 0, [i \in DOMAIN name |-> i])

\* Rune::from_str, letter by letter with checked arithmetic.
ParseRune(name) ==
    LET Checked(x) == IF x = None \/ x > MaxRune THEN None ELSE x
        Add(x, i) ==
            LET next == IF i = 1 \/ x = None THEN x ELSE Checked(x + 1)
                up   == IF next = None THEN None ELSE Checked(next * Base)
            IN  IF up = None THEN None ELSE Checked(up + name[i])
    IN  FoldLeft(Add, 0, [i \in DOMAIN name |-> i])

Error(what) == [error |-> what]
Parsed(rune, bits) == [error |-> None, rune |-> rune, spacers |-> bits]

InitRead ==
    /\ source \in {None} \cup [rune : 0..MaxRune, spacers : SUBSET (0..(SpacerBits - 2))]
    /\ input \in IF source = None THEN Inputs
                 ELSE {SpacedName(source.rune, source.spacers)}
    /\ pos = 1
    /\ letters = <<>>
    /\ spacers = {}
    /\ result = None
    /\ height = 0

AtCharacter == result = None /\ pos <= Len(input)

ReadLetter ==
    /\ AtCharacter
    /\ input[pos] \in 0..(Base - 1)
    /\ letters' = Append(letters, input[pos])
    /\ pos' = pos + 1
    /\ UNCHANGED <<source, input, spacers, result, height>>

\* 1 << (rune.len() - 1)
Flag == (Len(letters) - 1) % SpacerBits

ReadSpacer ==
    /\ AtCharacter
    /\ input[pos] = Spacer
    /\ pos' = pos + 1
    /\ \/ letters = <<>> /\ result' = Error("LeadingSpacer") /\ UNCHANGED spacers
       \/ /\ letters # <<>> /\ Flag \in spacers
          /\ result' = Error("DoubleSpacer") /\ UNCHANGED spacers
       \/ /\ letters # <<>> /\ Flag \notin spacers
          /\ spacers' = spacers \cup {Flag} /\ UNCHANGED result
    /\ UNCHANGED <<source, input, letters, height>>

ReadOther ==
    /\ AtCharacter
    /\ input[pos] = Other
    /\ result' = Error("Character")
    /\ UNCHANGED <<source, input, pos, letters, spacers, height>>

\* The highest bit, counted from one, reaches the last letter; of no letters, any does.
SpacerTrails == letters = <<>> \/ \E bit \in spacers : bit + 1 >= Len(letters)

EndOfName ==
    /\ result = None
    /\ pos > Len(input)
    /\ result' = IF SpacerTrails THEN Error("TrailingSpacer")
                 ELSE IF ParseRune(letters) = None THEN Error("Range")
                 ELSE Parsed(ParseRune(letters), spacers)
    /\ UNCHANGED <<source, input, pos, letters, spacers, height>>

NextRead == ReadLetter \/ ReadSpacer \/ ReadOther \/ EndOfName

ReadSpec == InitRead /\ [][NextRead]_vars

-----------------------------------------------------------------------------
(* Rune::minimum_at_height *)

\* STEPS: the first rune whose name has more than n letters.
Steps[n \in Nat] == IF n = 0 THEN 0 ELSE (Steps[n - 1] + 1) * Base

\* Mutant of Minimum: the range is not shifted when a length opens.
MinimumSameRange(h) ==
    LET offset   == IF h < MaxHeight THEN h + 1 ELSE h
        progress == offset - FirstHeight
        length   == Lengths - progress \div Interval
    IN  IF offset < FirstHeight THEN Steps[Lengths]
        ELSE IF offset >= FirstHeight + Lengths * Interval THEN 0
        ELSE Steps[length]
                 - (Steps[length] * (progress % Interval)) \div Interval

\* The lowest rune a block may etch: from one length to the next lower one in a
\* straight line, the block after it counted.
Minimum(h) ==
    LET offset   == IF h < MaxHeight THEN h + 1 ELSE h
        progress == offset - FirstHeight
        length   == Lengths - progress \div Interval
        end      == Steps[length - 1]
        start    == Steps[length]
    IN  IF offset < FirstHeight THEN Steps[Lengths]
        ELSE IF offset >= FirstHeight + Lengths * Interval THEN 0
        ELSE start - ((start - end) * (progress % Interval)) \div Interval

InitHeight ==
    /\ source = None /\ input = <<>> /\ pos = 1
    /\ letters = <<>> /\ spacers = {} /\ result = None
    /\ height = 0

NextHeight ==
    /\ height < MaxHeight
    /\ height' = height + 1
    /\ UNCHANGED <<source, input, pos, letters, spacers, result>>

HeightSpec == InitHeight /\ [][NextHeight]_vars

-----------------------------------------------------------------------------
(* Properties *)

\* Exactly the names are read.  What a string is read as is written like it: no name
\* has two readings, no overflow is missed at any length, and spacers count only
\* between letters.  What was written is read back, whatever bits an etching sets
\* beyond its name.
ReadsNames ==
    result # None =>
        /\ result.error = None => /\ result.rune \in 0..MaxRune
                                 /\ SpacedName(result.rune, result.spacers) = input
        /\ source # None =>
            result = Parsed(source.rune,
                            {b \in source.spacers : b + 1 < Len(Name(source.rune))})

\* One length opens after the other: with the k-th interval of blocks names of
\* Lengths - k + 1 letters begin to open, down to the shortest, and none before; and a
\* name that may be etched stays so.
LengthsOpenInTurn ==
    height < MaxHeight =>
        LET begun == IF height + 1 < FirstHeight THEN 0
                     ELSE 1 + (height + 1 - FirstHeight) \div Interval
        IN  /\ Minimum(height + 1) <= Minimum(height)
            /\ IF begun = 0 THEN Minimum(height) = Steps[Lengths]
               ELSE IF begun > Lengths THEN Minimum(height) = 0
               ELSE Minimum(height) \in Steps[Lengths - begun]..Steps[Lengths - begun + 1]
=============================================================================
