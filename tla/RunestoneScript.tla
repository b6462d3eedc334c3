--------------------------- MODULE RunestoneScript ---------------------------
(***************************************************************************)
(* How the integers of a runestone travel: varint.rs, Runestone::payload,  *)
(* Runestone::integers and the end of Runestone::encipher.  The outputs of *)
(* a transaction are scripts, a script is a sequence of instructions; one  *)
(* action is one round of the loops over outputs, instructions and bytes.  *)
(* With the integers read, the actions of Runestone follow.                *)
(*                                                                         *)
(* A byte has one bit that says whether another follows and a value below  *)
(* Radix (2^7 in the code); u128 is MaxGroups (19) of them, the last one   *)
(* below TopRadix (2^2).                                                   *)
(***************************************************************************)
EXTENDS Runestone

CONSTANTS
    Radix, TopRadix, MaxGroups,
    ChunkSize,      \* MAX_STACK_ELEMENT_SIZE
    Transactions,   \* outputs of transactions nobody enciphered
    Neighbours      \* <<outputs before, outputs after>> that of a runestone

ASSUME GroupsAssumption ==
    /\ Radix \in Nat \ {0, 1} /\ TopRadix \in 1..Radix
    /\ MaxGroups \in Nat \ {0} /\ ChunkSize \in Nat \ {0}
    /\ MaxU128 + 1 = Radix ^ (MaxGroups - 1) * TopRadix

VARIABLES
    transaction,    \* the scripts of the outputs
    output,         \* the output looked at
    instruction,    \* the next instruction of its script
    phase,          \* "search", "pushes" or "varints"
    payload,        \* the bytes of the pushes
    byte,           \* the next byte to decode
    value, group,   \* the integer so far and the bytes it has had
    meant           \* what the outputs mean, for the properties

carrier == <<transaction, output, instruction, phase, payload, byte, value, group, meant>>
scriptVars == <<vars, carrier>>

-----------------------------------------------------------------------------
(* varint::encode and the script that encipher builds *)

\* The low groups first, each but the last with the bit that another follows.
Encode[n \in Nat] ==
    IF n \div Radix > 0 THEN <<(n % Radix) + Radix>> \o Encode[n \div Radix]
    ELSE <<n>>

OpReturn == [op |-> "OP_RETURN"]
MagicNumber == [op |-> "OP_PUSHNUM_13"]
Push(bytes) == [op |-> "push", bytes |-> bytes]
OtherOp == [op |-> "another opcode"]
BadOp == [op |-> "error"]

\* Mutant of Pushes: what does not fill a chunk is left out.
PushesExact(bytes) ==
    [k \in 1..(Len(bytes) \div ChunkSize) |->
        Push(SubSeq(bytes, (k - 1) * ChunkSize + 1, k * ChunkSize))]

Pushes(bytes) ==
    [k \in 1..((Len(bytes) + ChunkSize - 1) \div ChunkSize) |->
        Push(SubSeq(bytes, (k - 1) * ChunkSize + 1, Min({k * ChunkSize, Len(bytes)})))]

ScriptOf(list) ==
    <<OpReturn, MagicNumber>> \o Pushes(FlattenSeq([i \in DOMAIN list |-> Encode[list[i]]]))

EncipherScript(r) == ScriptOf(Encipher(r))

-----------------------------------------------------------------------------
(* What the outputs mean, said of all their bytes at once *)

\* The bytes cut after each byte that ends an integer, and what a piece means
\* when integers have no width.
Pieces(bytes) ==
    FoldLeft(LAMBDA pieces, b :
                 Append(Front(pieces), Append(Last(pieces), b))
                     \o (IF b < Radix THEN <<<<>>>> ELSE <<>>),
             <<<<>>>>, bytes)

Meaning(piece) ==
    MapThenSumSet(LAMBDA i : (piece[i] % Radix) * Radix ^ (i - 1), DOMAIN piece)

Nothing == [kind |-> "nothing", integers |-> <<>>]
Unclear == [kind |-> "unreadable", integers |-> <<>>]

\* The integers, or Unclear when no reader could take the bytes for integers.
MeaningOf(bytes) ==
    LET pieces == Pieces(bytes)
        whole  == Front(pieces)
    IN  IF /\ Last(pieces) = <<>>
           /\ \A k \in DOMAIN whole :
                Len(whole[k]) <= MaxGroups /\ Meaning(whole[k]) <= MaxU128
        THEN [kind |-> "integers", integers |-> [k \in DOMAIN whole |-> Meaning(whole[k])]]
        ELSE Unclear

\* Of the first output with the prefix of a runestone; no output, no flaw.
MeaningOfOutputs(scripts) ==
    LET carriers == {o \in DOMAIN scripts : /\ Len(scripts[o]) >= 2
                        /\ SubSeq(scripts[o], 1, 2) = <<OpReturn, MagicNumber>>}
        rest     == SubSeq(scripts[Min(carriers)], 3, Len(scripts[Min(carriers)]))
    IN  IF carriers = {} THEN Nothing
        ELSE IF \E i \in DOMAIN rest : rest[i].op # "push" THEN Unclear
        ELSE MeaningOf(FlattenSeq([i \in DOMAIN rest |-> rest[i].bytes]))

InitScript ==
    /\ source \in Runestones \cup {None}
    /\ transaction \in
           IF source = None THEN Transactions
           ELSE {n[1] \o <<EncipherScript(source)>> \o n[2] : n \in Neighbours}
    /\ outputs = Len(transaction)
    /\ meant = MeaningOfOutputs(transaction)
    /\ output = 1 /\ instruction = 1 /\ phase = "search"
    /\ payload = <<>> /\ byte = 1 /\ value = 0 /\ group = 0
    /\ integers = <<>> /\ pos = 1
    /\ fields = <<>> /\ edicts = <<>> /\ flaw = None
    /\ stage = "payload" /\ artifact = None

-----------------------------------------------------------------------------
(* Runestone::payload *)

CarriesRunestone(script) ==
    Len(script) >= 2 /\ script[1] = OpReturn /\ script[2] = MagicNumber

In(p) == stage = "payload" /\ phase = p

Reading == <<source, pos, outputs, fields, edicts, flaw, meant>>

NextOutput ==
    /\ In("search")
    /\ output <= Len(transaction)
    /\ ~CarriesRunestone(transaction[output])
    /\ output' = output + 1
    /\ UNCHANGED <<Reading, integers, stage, artifact, transaction, instruction, phase,
                   payload, byte, value, group>>

NoOutput ==
    /\ In("search")
    /\ output > Len(transaction)
    /\ stage' = "done"
    /\ UNCHANGED <<Reading, integers, artifact, carrier>>

FindOutput ==
    /\ In("search")
    /\ output <= Len(transaction)
    /\ CarriesRunestone(transaction[output])
    /\ phase' = "pushes"
    /\ instruction' = 3
    /\ UNCHANGED <<Reading, integers, stage, artifact, transaction, output, payload, byte,
                   value, group>>

Script == transaction[output]

Unreadable(f) ==
    /\ stage' = "done"
    /\ artifact' = Cenotaph(f, None, None)
    /\ UNCHANGED <<Reading, integers, carrier>>

ReadPush ==
    /\ In("pushes")
    /\ instruction <= Len(Script)
    /\ Script[instruction].op = "push"
    /\ payload' = payload \o Script[instruction].bytes
    /\ instruction' = instruction + 1
    /\ UNCHANGED <<Reading, integers, stage, artifact, transaction, output, phase, byte,
                   value, group>>

BadInstruction ==
    /\ In("pushes")
    /\ instruction <= Len(Script)
    /\ Script[instruction].op # "push"
    /\ Unreadable(IF Script[instruction] = BadOp THEN "InvalidScript" ELSE "Opcode")

EndOfScript ==
    /\ In("pushes")
    /\ instruction > Len(Script)
    /\ phase' = "varints"
    /\ UNCHANGED <<Reading, integers, stage, artifact, transaction, output, instruction,
                   payload, byte, value, group>>

-----------------------------------------------------------------------------
(* Runestone::integers and varint::decode *)

AtByte == In("varints") /\ byte <= Len(payload)

\* The seven bits of a byte, and whether another one follows.
Bits == payload[byte] % Radix
More == payload[byte] >= Radix

\* Mutant of TooLarge: the bits of the last byte are not looked at.
TooLargeOverlong == group >= MaxGroups

\* Overlong or Overflow.
TooLarge == group >= MaxGroups \/ (group = MaxGroups - 1 /\ Bits >= TopRadix)

\* n |= value << (7 * i), of which u128 keeps the low bits.
WithBits == (value + Bits * Radix ^ group) % (MaxU128 + 1)

DecodeByte ==
    /\ AtByte
    /\ ~TooLarge
    /\ byte' = byte + 1
    /\ IF More
       THEN value' = WithBits /\ group' = group + 1 /\ UNCHANGED integers
       ELSE value' = 0 /\ group' = 0 /\ integers' = Append(integers, WithBits)
    /\ UNCHANGED <<Reading, stage, artifact, transaction, output, instruction, phase,
                   payload>>

BadVarint ==
    /\ \/ AtByte /\ TooLarge
       \/ In("varints") /\ byte > Len(payload) /\ group > 0     \* Unterminated
    /\ Unreadable("Varint")

EndOfIntegers ==
    /\ In("varints")
    /\ byte > Len(payload)
    /\ group = 0
    /\ stage' = "fields"
    /\ UNCHANGED <<Reading, integers, artifact, carrier>>

FromIntegers ==
    /\ \/ ReadField \/ TruncatedField \/ BeginBody
       \/ ReadEdict \/ BadEdict \/ EndOfPayload
       \/ Decipher
    /\ UNCHANGED carrier

NextScript ==
    \/ NextOutput \/ NoOutput \/ FindOutput
    \/ ReadPush \/ BadInstruction \/ EndOfScript
    \/ DecodeByte \/ BadVarint \/ EndOfIntegers
    \/ FromIntegers

ScriptSpec == InitScript /\ [][NextScript]_scriptVars

-----------------------------------------------------------------------------
(* Properties *)

\* The bytes are read as what they mean, or not at all: no bit of an integer is lost
\* at its last byte, none is refused that has room, and it does not matter how the
\* bytes were cut into pushes.
ReadsWhatIsMeant ==
    stage # "payload" =>
        CASE meant = Nothing -> artifact = None
          [] meant = Unclear -> artifact # None /\ artifact.kind = "cenotaph"
                             /\ artifact.flaw \in {"Opcode", "InvalidScript", "Varint"}
          [] OTHER -> integers = meant.integers

\* The payload of Runestone: what was enciphered, or what the bytes mean.
Expected == IF source # None THEN Encipher(source) ELSE meant.integers

R == INSTANCE Runestone WITH
         Payloads <- Seq(0..MaxU128), Outputs <- Nat,
         integers <- IF pos = 1 THEN Expected ELSE integers

\* The script and the varints do what Runestone takes for granted of them: an
\* enciphered runestone is found behind any other outputs and its integers are
\* read back, cut into pushes anywhere; other payloads are read or refused.
ImplementsRunestone == R!Spec
=============================================================================
