---------------------------- MODULE RunestoneProofs ----------------------------
(***************************************************************************)
(* Theorems about Runestone for every payload and every width of the       *)
(* integer types.                                                          *)
(***************************************************************************)
EXTENDS Runestone, SequenceTheorems, TLAPS

-----------------------------------------------------------------------------
(* Rune ids *)

Ids == {id \in (0..MaxU64) \X (0..MaxU32) : Valid(id)}

\* RuneId::next undoes RuneId::delta: an id that does not come before another is
\* found again from the other and the difference of the two.
THEOREM NextOfDelta ==
    ASSUME NEW id \in Ids, NEW next \in Ids, ~Before(next, id)
    PROVE  /\ Delta(id, next)[1] \in Nat /\ Delta(id, next)[2] \in Nat
           /\ NextId(id, Delta(id, next)[1], Delta(id, next)[2]) = next
<1> DEFINE b == Delta(id, next)[1]
           t == Delta(id, next)[2]
<1>1. /\ id[1] \in Nat /\ id[2] \in Nat /\ next[1] \in Nat /\ next[2] \in Nat
      /\ next[1] <= MaxU64 /\ next[2] <= MaxU32
      /\ next = <<next[1], next[2]>> /\ Valid(next)
  BY WidthsAssumption DEF Ids
<1>2. next[1] > id[1] \/ (next[1] = id[1] /\ next[2] >= id[2])
  BY <1>1 DEF Before
<1>3. b = next[1] - id[1] /\ t = IF next[1] = id[1] THEN next[2] - id[2] ELSE next[2]
  BY DEF Delta
<1>4. b \in Nat /\ t \in Nat
  BY <1>1, <1>2, <1>3
<1>5. id[1] + b = next[1] /\ (IF b = 0 THEN id[2] + t ELSE t) = next[2]
  BY <1>1, <1>2, <1>3
<1> HIDE DEF b, t
<1>6. NextId(id, b, t) = next
  BY <1>1, <1>5 DEF NextId
<1> QED
  BY <1>4, <1>6 DEF b, t

\* RuneId::next finds a valid id that does not come before the last one.
LEMMA NextIsLater ==
    ASSUME NEW id \in Ids, NEW b \in Nat, NEW t \in Nat,
           NEW next, next = NextId(id, b, t), next # None
    PROVE  next \in Ids /\ ~Before(next, id)
<1>1. id[1] \in Nat /\ id[2] \in Nat /\ MaxU64 \in Nat /\ MaxU32 \in Nat
  BY WidthsAssumption DEF Ids
<1> DEFINE n1 == id[1] + b
           n2 == IF b = 0 THEN id[2] + t ELSE t
<1>2. next = <<n1, n2>> /\ n1 <= MaxU64 /\ n2 <= MaxU32 /\ Valid(<<n1, n2>>)
  BY DEF NextId
<1>3. n1 \in Nat /\ n2 \in Nat /\ n1 >= id[1] /\ (n1 = id[1] => n2 >= id[2])
  BY <1>1
<1> HIDE DEF n1, n2
<1>4. next[1] = n1 /\ next[2] = n2
  BY <1>2
<1>5. next \in Ids
  BY <1>1, <1>2, <1>3 DEF Ids
<1>6. ~Before(next, id)
  BY <1>1, <1>3, <1>4 DEF Before
<1> QED
  BY <1>5, <1>6

-----------------------------------------------------------------------------
(* The inductive invariant *)

\* The reader stays inside the payload, and every field it met has a value.
Reading ==
    /\ stage \in {"payload", "fields", "body", "decipher", "done"}
    /\ outputs \in Nat
    /\ integers \in Seq(Nat)
    /\ pos \in 1..(Len(integers) + 1)
    /\ \A t \in DOMAIN fields : t # Body /\ fields[t] \in Seq(Nat) /\ fields[t] # <<>>
    /\ stage # "done" => artifact = None
    /\ artifact # None => artifact.kind \in {"runestone", "cenotaph"}

GoodEdict(e) ==
    /\ e.id \in Ids
    /\ e.output \in 0..outputs

\* The edicts read so far name valid ids, in order, and outputs that exist.
EdictsInOrder ==
    /\ edicts \in Seq(ToSet(edicts))
    /\ \A i \in 1..Len(edicts) : GoodEdict(edicts[i])
    /\ \A i \in 2..Len(edicts) : ~Before(edicts[i].id, edicts[i - 1].id)

IInv == Reading /\ EdictsInOrder /\ RunestoneUsable

-----------------------------------------------------------------------------
(* Steps *)

LEMMA InitInv == Init => IInv
<1> SUFFICES ASSUME Init PROVE IInv
  OBVIOUS
<1>1. integers \in Seq(0..MaxU128)
  BY PayloadsAssumption DEF Init
<1>2. 0..MaxU128 \subseteq Nat
  BY WidthsAssumption
<1>3. integers \in Seq(Nat) /\ Len(integers) \in Nat
  <2>1. integers \in Seq(Nat)
    BY <1>1, <1>2, SeqMonotonic
  <2> QED
    BY <2>1
<1>4. Reading
  BY <1>3, WidthsAssumption DEF Init, Reading
<1>5. EdictsInOrder
  BY DEF Init, EdictsInOrder, ToSet
<1>6. RunestoneUsable
  BY DEF Init, RunestoneUsable, IsRunestone
<1> QED
  BY <1>4, <1>5, <1>6 DEF IInv

\* Before the end there is no artifact.
LEMMA NotYet ==
    ASSUME IInv, stage # "done", artifact' = artifact
    PROVE  RunestoneUsable'
  BY DEF IInv, Reading, RunestoneUsable, IsRunestone

LEMMA SameEdicts ==
    ASSUME IInv, UNCHANGED <<edicts, outputs>>
    PROVE  EdictsInOrder'
  BY DEF IInv, EdictsInOrder, GoodEdict

\* The payload is not found, cannot be read, or is handed to the reader.
LEMMA PayloadInv ==
    ASSUME IInv, \/ NoPayload \/ ReadPayload
                 \/ \E f \in {"Opcode", "InvalidScript", "Varint"} : UnreadablePayload(f)
    PROVE  IInv'
<1>1. /\ UNCHANGED <<integers, pos, outputs, fields, edicts>>
      /\ stage = "payload" /\ stage' \in {"fields", "done"}
      /\ artifact' = artifact \/ artifact'.kind = "cenotaph"
      /\ stage' # "done" => artifact' = artifact
  BY DEF NoPayload, ReadPayload, UnreadablePayload, Cenotaph
<1>2. Reading'
  BY <1>1 DEF IInv, Reading
<1>3. EdictsInOrder'
  BY <1>1, SameEdicts
<1>4. RunestoneUsable'
  BY <1>1, NotYet DEF RunestoneUsable, IsRunestone
<1> QED
  BY <1>2, <1>3, <1>4 DEF IInv

LEMMA ReadFieldInv == IInv /\ ReadField => IInv'
<1> SUFFICES ASSUME IInv, ReadField PROVE IInv'
  OBVIOUS
<1> DEFINE tag == integers[pos]
           value == integers[pos + 1]
<1>1. /\ pos + 1 \in 1..Len(integers) /\ pos \in 1..Len(integers)
      /\ integers \in Seq(Nat) /\ tag # Body /\ value \in Nat
  BY DEF ReadField, Left, IInv, Reading
<1>2. Values(tag) \in Seq(Nat)
  BY DEF Values, IInv, Reading
<1>3. /\ Append(Values(tag), value) \in Seq(Nat)
      /\ Append(Values(tag), value) # <<>>
  BY <1>1, <1>2
<1>4. \A t \in DOMAIN fields' : t # Body /\ fields'[t] \in Seq(Nat) /\ fields'[t] # <<>>
  BY <1>1, <1>3 DEF ReadField, IInv, Reading
<1>5. Reading'
  <2>1. pos' = pos + 2 /\ UNCHANGED <<integers, outputs, stage, artifact>>
    BY DEF ReadField
  <2>2. pos' \in 1..(Len(integers') + 1)
    BY <1>1, <2>1
  <2> QED
    BY <1>4, <2>1, <2>2 DEF IInv, Reading
<1>6. EdictsInOrder'
  BY SameEdicts DEF ReadField
<1>7. RunestoneUsable'
  BY NotYet DEF ReadField
<1> QED
  BY <1>5, <1>6, <1>7 DEF IInv

\* A step that only moves on in the payload, or gives it up.
LEMMA MovesOnInv == IInv /\ (TruncatedField \/ BeginBody \/ BadEdict \/ EndOfPayload) => IInv'
<1> SUFFICES ASSUME IInv, TruncatedField \/ BeginBody \/ BadEdict \/ EndOfPayload
             PROVE  IInv'
  OBVIOUS
<1>1. /\ UNCHANGED <<integers, outputs, fields, edicts, artifact>>
      /\ stage \in {"fields", "body"} /\ stage' \in {"body", "decipher"}
  BY DEF TruncatedField, BeginBody, BadEdict, EndOfPayload
<1>2. pos' \in 1..(Len(integers) + 1)
  BY DEF TruncatedField, BeginBody, BadEdict, EndOfPayload, Left, IInv, Reading
<1>3. Reading'
  BY <1>1, <1>2 DEF IInv, Reading
<1>4. EdictsInOrder' /\ RunestoneUsable'
  BY <1>1, SameEdicts, NotYet
<1> QED
  BY <1>3, <1>4 DEF IInv

LEMMA LastIdIsId == IInv => LastId \in Ids
<1> SUFFICES ASSUME IInv PROVE LastId \in Ids
  OBVIOUS
<1>1. <<0, 0>> \in Ids
  BY WidthsAssumption DEF Ids, Valid
<1>2. CASE edicts # <<>>
  <2>1. Len(edicts) \in 1..Len(edicts)
    BY <1>2 DEF IInv, EdictsInOrder
  <2> QED
    BY <1>2, <2>1 DEF LastId, IInv, EdictsInOrder, GoodEdict
<1> QED
  BY <1>1, <1>2 DEF LastId

\* An edict read adds to the end, and its id does not come before the last one.
LEMMA ReadEdictInv == IInv /\ ReadEdict => IInv'
<1> SUFFICES ASSUME IInv, ReadEdict PROVE IInv'
  OBVIOUS
<1> DEFINE e == [id |-> NextEdict, amount |-> integers[pos + 2],
                 output |-> integers[pos + 3]]
<1>1. /\ integers \in Seq(Nat)
      /\ pos \in 1..Len(integers) /\ pos + 1 \in 1..Len(integers)
      /\ pos + 3 \in 1..Len(integers)
  <2>1. integers \in Seq(Nat) /\ pos \in 1..(Len(integers) + 1) /\ Len(integers) \in Nat
    BY DEF IInv, Reading
  <2>2. Len(integers) - pos + 1 >= 4
    BY DEF ReadEdict, Left
  <2> QED
    BY <2>1, <2>2
<1>2. integers[pos] \in Nat /\ integers[pos + 1] \in Nat /\ integers[pos + 3] \in Nat
  BY <1>1
<1>3. e.id \in Ids /\ ~Before(e.id, LastId)
  BY <1>2, LastIdIsId, NextIsLater DEF ReadEdict, NextEdict
<1>4. e.output \in 0..outputs
  BY <1>2 DEF ReadEdict, ValidOutput, IInv, Reading
<1> HIDE DEF e
<1>5. edicts' = Append(edicts, e)
  BY DEF ReadEdict, e
<1>6. UNCHANGED <<outputs, integers, fields, stage, artifact>> /\ pos' = pos + 4
      /\ stage = "body"
  BY DEF ReadEdict
<1>7. /\ edicts' \in Seq(ToSet(edicts) \cup {e})
      /\ Len(edicts') = Len(edicts) + 1
      /\ Len(edicts) \in Nat
      /\ \A i \in 1..Len(edicts) : edicts'[i] = edicts[i]
      /\ edicts'[Len(edicts) + 1] = e
  BY <1>5 DEF IInv, EdictsInOrder
<1>8. (\A i \in 1..Len(edicts) : GoodEdict(edicts[i]))'
  <2>1. \A i \in 1..Len(edicts) : edicts'[i].id \in Ids /\ edicts'[i].output \in 0..outputs
    BY <1>7 DEF IInv, EdictsInOrder, GoodEdict
  <2>2. \A i \in 1..Len(edicts') : edicts'[i].id \in Ids /\ edicts'[i].output \in 0..outputs
    BY <1>3, <1>4, <1>7, <2>1
  <2>3. outputs' = outputs
    BY <1>6
  <2> QED
    BY <2>2, <2>3 DEF GoodEdict
<1>9. \A i \in 2..Len(edicts') : ~Before(edicts'[i].id, edicts'[i - 1].id)
  <2> SUFFICES ASSUME NEW i \in 2..Len(edicts')
               PROVE  ~Before(edicts'[i].id, edicts'[i - 1].id)
    OBVIOUS
  <2>1. CASE i \in 2..Len(edicts)
    BY <1>7, <2>1 DEF IInv, EdictsInOrder
  <2>2. CASE i = Len(edicts) + 1
    <3>1. edicts # <<>> /\ i - 1 = Len(edicts) /\ i - 1 \in 1..Len(edicts)
      BY <1>7, <2>2
    <3>2. LastId = edicts'[i - 1].id
      BY <1>7, <3>1 DEF LastId
    <3> QED
      BY <1>3, <1>7, <2>2, <3>2
  <2> QED
    BY <1>7, <2>1, <2>2
<1>10. edicts' \in Seq(ToSet(edicts'))
  <2>1. DOMAIN edicts' = 1..Len(edicts')
    BY <1>7
  <2>2. \A i \in 1..Len(edicts') : edicts'[i] \in ToSet(edicts')
    BY <2>1 DEF ToSet
  <2> QED
    BY <1>7, <2>2
<1>11. EdictsInOrder'
  BY <1>8, <1>9, <1>10 DEF EdictsInOrder
<1>12. Reading'
  <2>1. pos' \in 1..(Len(integers') + 1)
    BY <1>1, <1>6
  <2> QED
    BY <1>6, <2>1 DEF IInv, Reading
<1>13. RunestoneUsable'
  BY <1>6, NotYet
<1> QED
  BY <1>11, <1>12, <1>13 DEF IInv

\* What decipher returns without a flaw: the fields taken are valid ones.
LEMMA DecipherInv == IInv /\ Decipher => IInv'
<1> SUFFICES ASSUME IInv, Decipher PROVE IInv'
  OBVIOUS
<1>1. /\ UNCHANGED <<integers, pos, outputs, fields, edicts>> /\ stage' = "done"
      /\ artifact'.kind \in {"runestone", "cenotaph"}
  BY DEF Decipher, Cenotaph
<1>2. Reading'
  BY <1>1 DEF IInv, Reading
<1>3. EdictsInOrder'
  BY <1>1, SameEdicts
<1>4. CASE FirstFlaw # None
  <2>1. artifact'.kind = "cenotaph"
    BY <1>4 DEF Decipher, Cenotaph
  <2> QED
    BY <1>2, <1>3, <2>1 DEF IInv, RunestoneUsable, IsRunestone
<1>5. CASE FirstFlaw = None
  <2>1. /\ artifact'.etching = TakeEtching /\ artifact'.mint = TakeMint
        /\ artifact'.pointer = Take(Pointer) /\ artifact'.edicts = edicts
    BY <1>5 DEF Decipher
  <2>2. TakeEtching = None \/ SupplyFits(TakeEtching)
    <3>1. ~(Etches /\ ~SupplyFits(TakeEtching))
      BY <1>5, NoneAssumption DEF FirstFlaw, FlawNames
    <3> QED
      BY <3>1 DEF TakeEtching
  <2>3. TakeMint = None \/ Valid(TakeMint)
    BY DEF TakeMint
  <2>4. Take(Pointer) = None \/ Take(Pointer) \in 0..(outputs - 1)
    <3>1. ValidValues(Pointer) = {p \in 0..MaxU32 : p < outputs}
      BY DEF ValidValues, Pointer, Divisibility, Spacers, Symbol, HeightStart, HeightEnd,
             OffsetStart, OffsetEnd
    <3>2. ValidValues(Pointer) \subseteq 0..(outputs - 1)
      BY <3>1, WidthsAssumption DEF IInv, Reading
    <3> QED
      BY <3>2 DEF Take
  <2>5. \A i \in DOMAIN edicts :
            /\ Valid(edicts[i].id)
            /\ edicts[i].output \in 0..outputs
            /\ i > 1 => ~Before(edicts[i].id, edicts[i - 1].id)
    BY DEF IInv, EdictsInOrder, GoodEdict, Ids
  <2>6. RunestoneUsable'
    BY <1>1, <2>1, <2>2, <2>3, <2>4, <2>5 DEF RunestoneUsable, SupplyFits, OrZero, Valid,
       Before
  <2> QED
    BY <1>2, <1>3, <2>6 DEF IInv
<1> QED
  BY <1>4, <1>5

LEMMA StutterInv == IInv /\ UNCHANGED vars => IInv'
  BY DEF vars, IInv, Reading, EdictsInOrder, GoodEdict, RunestoneUsable, IsRunestone,
         SupplyFits, OrZero

LEMMA NextInv == IInv /\ [Next]_vars => IInv'
  BY PayloadInv, ReadFieldInv, MovesOnInv, ReadEdictInv, DecipherInv, StutterInv
  DEF Next

LEMMA Invariance == Spec => []IInv
<1>1. Init => IInv
  BY InitInv
<1>2. IInv /\ [Next]_vars => IInv'
  BY NextInv
<1> QED
  BY <1>1, <1>2, PTL DEF Spec

-----------------------------------------------------------------------------
(* Theorems *)

\* Message::from_integers never reads past the end of a payload, and keeps no field
\* without a value and no edict for an output that is not there. Nothing is returned
\* before the end, and then a runestone, a cenotaph or nothing.
THEOREM TypeCorrect == Spec => []TypeOK
<1>1. ASSUME IInv PROVE TypeOK
  <2>1. Reading
    BY <1>1 DEF IInv
  <2>2. \A i \in DOMAIN edicts : GoodEdict(edicts[i])
    BY <1>1 DEF IInv, EdictsInOrder
  <2> QED
    BY <2>1, <2>2 DEF Reading, GoodEdict, Ids, TypeOK
<1> QED
  BY <1>1, Invariance, PTL

\* Whatever integers a payload holds, a runestone decipher returns names outputs
\* that exist, valid ids in their order, and a supply that fits a u128.
THEOREM DecipheredIsUsable == Spec => []RunestoneUsable
<1>1. IInv => RunestoneUsable
  BY DEF IInv
<1> QED
  BY <1>1, Invariance, PTL
=============================================================================
