------------------------------- MODULE Runestone -------------------------------
(***************************************************************************)
(* The runestone codec of crates/ordinals: Runestone::decipher with        *)
(* Message::from_integers, one action per round of its loops, and          *)
(* Runestone::encipher.  A payload is the sequence of its integers: the    *)
(* script that carries it and the varints are left out.                    *)
(***************************************************************************)
EXTENDS Integers, Sequences, SequencesExt, FiniteSetsExt

CONSTANTS
    None,                       \* Option::None
    MaxU128, MaxU64, MaxU32,    \* the largest values of the integer types
    MaxDivisibility, MaxSpacers,
    Chars,                      \* the integers that are Unicode characters
    Payloads,   \* sequences of integers a transaction may carry
    Runestones, \* runestones that are enciphered
    Outputs     \* how many outputs the transaction may have

ASSUME WidthsAssumption ==
    /\ MaxU32 \in Nat /\ MaxU64 \in Nat /\ MaxU128 \in Nat
    /\ MaxU32 <= MaxU64 /\ MaxU64 <= MaxU128
    /\ Outputs \subseteq Nat

Body == 0
Flags == 2
Rune == 4
Premine == 6
Cap == 8
Amount == 10
HeightStart == 12
HeightEnd == 14
OffsetStart == 16
OffsetEnd == 18
Mint == 20
Pointer == 22
Divisibility == 1
Spacers == 3
Symbol == 5

VARIABLES
    source,     \* the runestone the payload was enciphered from, or None
    integers,   \* the payload
    pos,        \* the next integer to read
    outputs,    \* how many outputs the transaction has
    fields,     \* tag -> the values that came with it
    edicts,
    flaw,       \* the first flaw found
    stage,      \* "payload", "fields", "body", "decipher" or "done"
    artifact

vars == <<source, integers, pos, outputs, fields, edicts, flaw, stage, artifact>>

-----------------------------------------------------------------------------
(* Rune ids and their deltas *)

Valid(id) == id[1] = 0 => id[2] = 0

\* Mutant of NextId: the transaction index is relative in a later block too.
NextIdRelative(id, block, tx) ==
    LET next == <<id[1] + block, id[2] + tx>>
    IN  IF next[1] <= MaxU64 /\ next[2] <= MaxU32 /\ Valid(next) THEN next ELSE None

\* RuneId::next: a delta of zero blocks makes the transaction index relative.
NextId(id, block, tx) ==
    LET next == <<id[1] + block, IF block = 0 THEN id[2] + tx ELSE tx>>
    IN  IF next[1] <= MaxU64 /\ next[2] <= MaxU32 /\ Valid(next) THEN next ELSE None

\* RuneId::delta, for an id that does not come before.
Delta(id, next) ==
    <<next[1] - id[1], IF next[1] = id[1] THEN next[2] - id[2] ELSE next[2]>>

Before(a, b) == a[1] < b[1] \/ (a[1] = b[1] /\ a[2] < b[2])

-----------------------------------------------------------------------------
(* Runestone::encipher *)

Field(tag, value) == IF value = None THEN <<>> ELSE <<tag, value>>

EncipherTerms(t) ==
    Field(Amount, t.amount) \o Field(Cap, t.cap)
        \o Field(HeightStart, t.height_start) \o Field(HeightEnd, t.height_end)
        \o Field(OffsetStart, t.offset_start) \o Field(OffsetEnd, t.offset_end)

EncipherEtching(e) ==
    <<Flags, 1 + (IF e.terms = None THEN 0 ELSE 2) + (IF e.turbo THEN 4 ELSE 0)>>
        \o Field(Rune, e.rune) \o Field(Divisibility, e.divisibility)
        \o Field(Spacers, e.spacers) \o Field(Symbol, e.symbol)
        \o Field(Premine, e.premine)
        \o (IF e.terms = None THEN <<>> ELSE EncipherTerms(e.terms))

\* The edicts by id; those of one id stay in their order.
Sorted(list) ==
    LET order == SetToSortSeq(DOMAIN list, LAMBDA i, j :
                     Before(list[i].id, list[j].id)
                         \/ (list[i].id = list[j].id /\ i < j))
    IN  [i \in DOMAIN list |-> list[order[i]]]

EncipherEdicts(list) ==
    LET sorted == Sorted(list)
        Previous(i) == IF i = 1 THEN <<0, 0>> ELSE sorted[i - 1].id
    IN  IF list = <<>> THEN <<>>
        ELSE <<Body>> \o FlattenSeq([i \in DOMAIN sorted |->
                 Delta(Previous(i), sorted[i].id)
                     \o <<sorted[i].amount, sorted[i].output>>])

Encipher(r) ==
    (IF r.etching = None THEN <<>> ELSE EncipherEtching(r.etching))
        \o (IF r.mint = None THEN <<>> ELSE <<Mint, r.mint[1], Mint, r.mint[2]>>)
        \o Field(Pointer, r.pointer)
        \o EncipherEdicts(r.edicts)

\* Payloads are sequences of u128, and so is what is enciphered.
ASSUME PayloadsAssumption ==
    /\ \A p \in Payloads : p \in Seq(0..MaxU128)
    /\ \A r \in Runestones : Encipher(r) \in Seq(0..MaxU128)

-----------------------------------------------------------------------------
(* Taking fields *)

Values(tag) == IF tag \in DOMAIN fields THEN fields[tag] ELSE <<>>

FlagBits == IF Values(Flags) = <<>> THEN 0 ELSE Values(Flags)[1]

HasFlag(bit) == (FlagBits \div bit) % 2 = 1

Etches == HasFlag(1)
WithTerms == Etches /\ HasFlag(2)

\* The tags decipher asks for: those of an etching only if the flag is set.
Wanted ==
    {Flags, Pointer}
        \cup (IF Etches THEN {Divisibility, Premine, Rune, Spacers, Symbol} ELSE {})
        \cup (IF WithTerms
              THEN {Cap, HeightStart, HeightEnd, Amount, OffsetStart, OffsetEnd} ELSE {})

ValidValues(tag) ==
    CASE tag = Divisibility -> 0..MaxDivisibility
      [] tag = Spacers -> 0..MaxSpacers
      [] tag = Symbol -> Chars
      [] tag \in {HeightStart, HeightEnd, OffsetStart, OffsetEnd} -> 0..MaxU64
      [] tag = Pointer -> {p \in 0..MaxU32 : p < outputs}
      [] OTHER -> 0..MaxU128

\* Tag::take for one value: an invalid one stays where it is.
Take(tag) ==
    IF tag \in Wanted /\ Values(tag) # <<>> /\ Values(tag)[1] \in ValidValues(tag)
    THEN Values(tag)[1] ELSE None

\* Tag::take for the two values of a mint.
TakeMint ==
    LET v == Values(Mint)
    IN  IF Len(v) >= 2 /\ v[1] <= MaxU64 /\ v[2] <= MaxU32 /\ Valid(<<v[1], v[2]>>)
        THEN <<v[1], v[2]>> ELSE None

\* Mutant of Leftover: a tag that was taken is gone with all its values.
LeftoverNone ==
    {tag \in DOMAIN fields : (IF tag = Mint THEN TakeMint ELSE Take(tag)) = None}

\* The tags with values nobody took.
Leftover ==
    {tag \in DOMAIN fields :
        Len(fields[tag]) > (IF tag = Mint THEN IF TakeMint = None THEN 0 ELSE 2
                            ELSE IF Take(tag) = None THEN 0 ELSE 1)}

TakeTerms ==
    [cap |-> Take(Cap), amount |-> Take(Amount),
     height_start |-> Take(HeightStart), height_end |-> Take(HeightEnd),
     offset_start |-> Take(OffsetStart), offset_end |-> Take(OffsetEnd)]

TakeEtching ==
    IF ~Etches THEN None
    ELSE [divisibility |-> Take(Divisibility), premine |-> Take(Premine),
          rune |-> Take(Rune), spacers |-> Take(Spacers), symbol |-> Take(Symbol),
          terms |-> IF WithTerms THEN TakeTerms ELSE None, turbo |-> HasFlag(4)]

OrZero(v) == IF v = None THEN 0 ELSE v

\* Etching::supply fits a u128.
SupplyFits(e) ==
    OrZero(e.premine) + (IF e.terms = None THEN 0
                         ELSE OrZero(e.terms.cap) * OrZero(e.terms.amount)) <= MaxU128

\* Bits that no flag took: turbo and terms count only beside the etching flag.
UnknownFlags == IF Etches THEN FlagBits >= 8 ELSE FlagBits # 0

FlawNames == {"EdictOutput", "EdictRuneId", "InvalidScript", "Opcode", "SupplyOverflow",
              "TrailingIntegers", "TruncatedField", "UnrecognizedEvenTag",
              "UnrecognizedFlag", "Varint"}

ASSUME NoneAssumption == None \notin FlawNames

\* The flaw reported: the first of the message, then in this order.
FirstFlaw ==
    IF flaw # None THEN flaw
    ELSE IF Etches /\ ~SupplyFits(TakeEtching) THEN "SupplyOverflow"
    ELSE IF UnknownFlags THEN "UnrecognizedFlag"
    ELSE IF \E tag \in Leftover : tag % 2 = 0 THEN "UnrecognizedEvenTag"
    ELSE None

-----------------------------------------------------------------------------

Init ==
    /\ outputs \in Outputs
    /\ source \in Runestones \cup {None}
    /\ integers \in IF source = None THEN Payloads ELSE {Encipher(source)}
    /\ pos = 1
    /\ fields = <<>>
    /\ edicts = <<>>
    /\ flaw = None
    /\ stage = "payload"
    /\ artifact = None

Cenotaph(f, mint, rune) == [kind |-> "cenotaph", flaw |-> f, mint |-> mint, rune |-> rune]

\* No output carries a payload; what encipher wrote is always found and readable.
NoPayload ==
    /\ stage = "payload"
    /\ source = None
    /\ stage' = "done"
    /\ UNCHANGED <<source, integers, pos, outputs, fields, edicts, flaw, artifact>>

\* The script or a varint cannot be read.
UnreadablePayload(f) ==
    /\ stage = "payload"
    /\ source = None
    /\ stage' = "done"
    /\ artifact' = Cenotaph(f, None, None)
    /\ UNCHANGED <<source, integers, pos, outputs, fields, edicts, flaw>>

ReadPayload ==
    /\ stage = "payload"
    /\ stage' = "fields"
    /\ UNCHANGED <<source, integers, pos, outputs, fields, edicts, flaw, artifact>>

Left == Len(integers) - pos + 1

ReadField ==
    /\ stage = "fields"
    /\ Left >= 2
    /\ integers[pos] # Body
    /\ LET tag == integers[pos]
       IN  fields' = [t \in DOMAIN fields \cup {tag} |->
               IF t = tag THEN Append(Values(tag), integers[pos + 1]) ELSE fields[t]]
    /\ pos' = pos + 2
    /\ UNCHANGED <<source, integers, outputs, edicts, flaw, stage, artifact>>

TruncatedField ==
    /\ stage = "fields"
    /\ Left = 1
    /\ integers[pos] # Body
    /\ flaw' = "TruncatedField"
    /\ stage' = "decipher"
    /\ UNCHANGED <<source, integers, pos, outputs, fields, edicts, artifact>>

BeginBody ==
    /\ stage = "fields"
    /\ Left >= 1
    /\ integers[pos] = Body
    /\ pos' = pos + 1
    /\ stage' = "body"
    /\ UNCHANGED <<source, integers, outputs, fields, edicts, flaw, artifact>>

LastId == IF edicts = <<>> THEN <<0, 0>> ELSE edicts[Len(edicts)].id

\* Mutant of ValidOutput: one output too many.
ValidOutputLoose(output) == output <= MaxU32 /\ output <= outputs + 1

\* Edict::from_integers: an output equal to their number means all of them.
ValidOutput(output) == output <= MaxU32 /\ output <= outputs

NextEdict == NextId(LastId, integers[pos], integers[pos + 1])

ReadEdict ==
    /\ stage = "body"
    /\ Left >= 4
    /\ NextEdict # None
    /\ ValidOutput(integers[pos + 3])
    /\ edicts' = Append(edicts, [id |-> NextEdict, amount |-> integers[pos + 2],
                                 output |-> integers[pos + 3]])
    /\ pos' = pos + 4
    /\ UNCHANGED <<source, integers, outputs, fields, flaw, stage, artifact>>

\* A chunk that is no edict ends the body.
BadEdict ==
    /\ stage = "body"
    /\ Left >= 1
    /\ \/ Left < 4 /\ flaw' = "TrailingIntegers"
       \/ Left >= 4 /\ NextEdict = None /\ flaw' = "EdictRuneId"
       \/ Left >= 4 /\ NextEdict # None /\ ~ValidOutput(integers[pos + 3])
             /\ flaw' = "EdictOutput"
    /\ stage' = "decipher"
    /\ UNCHANGED <<source, integers, pos, outputs, fields, edicts, artifact>>

EndOfPayload ==
    /\ stage \in {"fields", "body"}
    /\ Left = 0
    /\ stage' = "decipher"
    /\ UNCHANGED <<source, integers, pos, outputs, fields, edicts, flaw, artifact>>

Decipher ==
    /\ stage = "decipher"
    /\ stage' = "done"
    /\ artifact' =
           IF FirstFlaw # None
           THEN Cenotaph(FirstFlaw, TakeMint,
                         IF Etches THEN TakeEtching.rune ELSE None)
           ELSE [kind |-> "runestone", etching |-> TakeEtching, mint |-> TakeMint,
                 pointer |-> Take(Pointer), edicts |-> edicts]
    /\ UNCHANGED <<source, integers, pos, outputs, fields, edicts, flaw>>

Next ==
    \/ NoPayload
    \/ \E f \in {"Opcode", "InvalidScript", "Varint"} : UnreadablePayload(f)
    \/ ReadPayload
    \/ ReadField \/ TruncatedField \/ BeginBody
    \/ ReadEdict \/ BadEdict \/ EndOfPayload
    \/ Decipher

Spec == Init /\ [][Next]_vars

-----------------------------------------------------------------------------
(* Properties *)

\* The type invariant: the reader stays in the payload, keeps no field without a
\* value and no edict for an output that is not there, and returns nothing before it
\* has ended, and then a runestone, a cenotaph or nothing.
TypeOK ==
    /\ stage \in {"payload", "fields", "body", "decipher", "done"}
    /\ outputs \in Nat
    /\ integers \in Seq(Nat)
    /\ pos \in 1..(Len(integers) + 1)
    /\ \A t \in DOMAIN fields : t # Body /\ fields[t] \in Seq(Nat) /\ fields[t] # <<>>
    /\ \A i \in DOMAIN edicts :
           /\ edicts[i].id \in (0..MaxU64) \X (0..MaxU32)
           /\ edicts[i].output \in 0..outputs
    /\ stage # "done" => artifact = None
    /\ artifact # None => artifact.kind \in {"runestone", "cenotaph"}

IsRunestone == artifact # None /\ artifact.kind = "runestone"

\* The pointer and the edicts name outputs the transaction has; the supply fits a u128.
Fits(r) ==
    /\ r.pointer = None \/ r.pointer < outputs
    /\ \A i \in DOMAIN r.edicts : r.edicts[i].output <= outputs
    /\ r.etching = None \/ SupplyFits(r.etching)

\* What encipher writes decipher reads again, with the edicts in the order of their
\* ids, if the runestone fits the transaction.
RoundTrip ==
    stage = "done" /\ source # None /\ Fits(source) =>
        artifact = [kind |-> "runestone", etching |-> source.etching,
                    mint |-> source.mint, pointer |-> source.pointer,
                    edicts |-> Sorted(source.edicts)]

\* The indexer may rely on this: edicts come in the order of their ids, no id is
\* 0:n but 0:0, every output an edict or the pointer names exists or, for an
\* edict, means all of them, and an etching's supply fits a u128.
RunestoneUsable ==
    IsRunestone =>
        /\ \A i \in DOMAIN artifact.edicts :
            /\ Valid(artifact.edicts[i].id)
            /\ artifact.edicts[i].output \in 0..outputs
            /\ i > 1 => ~Before(artifact.edicts[i].id, artifact.edicts[i - 1].id)
        /\ artifact.pointer = None \/ artifact.pointer \in 0..(outputs - 1)
        /\ artifact.mint = None \/ Valid(artifact.mint)
        /\ artifact.etching = None \/ SupplyFits(artifact.etching)

(* When a payload is a runestone, said of the whole payload at once *)

BodyAt ==
    LET zeros == {k \in DOMAIN integers : k % 2 = 1 /\ integers[k] = Body}
    IN  IF zeros = {} THEN Len(integers) + 1 ELSE Min(zeros)

Occurrences(tag) == {k \in 1..(BodyAt - 1) : k % 2 = 1 /\ integers[k] = tag}

\* Each even tag is a known one, comes as often as it has values, and counts only
\* beside the flag it belongs to.
EvenTagsKnown ==
    \A k \in 1..(BodyAt - 1) : k % 2 = 1 /\ integers[k] % 2 = 0 =>
        LET tag == integers[k]
        IN  /\ tag \in Wanted \cup {Mint}
            /\ Cardinality(Occurrences(tag)) = IF tag = Mint THEN 2 ELSE 1
            /\ tag # Mint => integers[k + 1] \in ValidValues(tag)

MintKnown ==
    \A j, k \in Occurrences(Mint) : j < k =>
        /\ integers[j + 1] <= MaxU64
        /\ integers[k + 1] <= MaxU32
        /\ Valid(<<integers[j + 1], integers[k + 1]>>)

Chunks == (Len(integers) - BodyAt) \div 4

\* The i-th integer of the k-th edict.
Chunk(k, i) == integers[BodyAt + 4 * (k - 1) + i]

BlockOf(k) == MapThenSumSet(LAMBDA j : Chunk(j, 1), 1..k)

\* Indexes add up from the last edict that moved on to another block.
TxOf(k) == MapThenSumSet(LAMBDA j : Chunk(j, 2),
               {j \in 1..k : \A m \in (j + 1)..k : Chunk(m, 1) = 0})

EdictsKnown ==
    BodyAt <= Len(integers) =>
        /\ (Len(integers) - BodyAt) % 4 = 0
        /\ \A k \in 1..Chunks :
            /\ BlockOf(k) <= MaxU64 /\ TxOf(k) <= MaxU32
            /\ Valid(<<BlockOf(k), TxOf(k)>>)
            /\ Chunk(k, 4) <= outputs

\* A payload that is read to the end is a runestone exactly if every integer of
\* it has a meaning; otherwise it is a cenotaph, whose runes are burned.
CenotaphIffMeaningless ==
    stage = "done" /\ pos > 1 =>
        (IsRunestone <=>
            /\ BodyAt <= Len(integers) \/ Len(integers) % 2 = 0
            /\ EvenTagsKnown /\ MintKnown /\ EdictsKnown
            /\ ~UnknownFlags
            /\ Etches => SupplyFits(TakeEtching))
=============================================================================
