------------------------ MODULE ChainMaintenanceProofs ------------------------
(***************************************************************************)
(* Theorems about ChainSync, and about ChainMaintenance, which runs the    *)
(* commands beside it, for every tree of blocks, every number of restarts  *)
(* and every number of drops.  What is shown of the service uses nothing   *)
(* of ChainMaintenance; what is shown of the commands rests on it, for     *)
(* between commands the invariant of the service holds.                    *)
(***************************************************************************)
EXTENDS ChainMaintenance, FiniteSetTheorems, SequenceTheorems, TLAPS

-----------------------------------------------------------------------------
(* The service: its inductive invariant *)

\* The rows a table holds at a height and whether it ends there.
At(rows, h) == {b \in Blocks : Height(b) = h /\ rows[b] > 0}
UpTo(rows, h) == \A b \in Blocks : rows[b] > 0 => Height(b) <= h
OneEach(rows) ==
    \A a, b \in Blocks : Height(a) = Height(b) /\ rows[a] > 0 /\ rows[b] > 0 =>
        a = b /\ rows[a] = 1

Step == [block : Blocks, processed : BOOLEAN]

Shape ==
    /\ TypeOK
    /\ sdk \in Blocks \cup {None}
    /\ base \in Nat
    /\ skipped \in BOOLEAN
    /\ todo \in Seq(Nat)
    /\ rollback \in Seq(Nat)
    /\ apply \in Seq(Step)

\* The node's chain has only grown since the observer looked at it.
TipAhead == sdk # None => sdk = tip \/ Height(sdk) < Height(tip)

\* The scan goes up one by one and not beyond the node's tip.
ScanRises ==
    /\ \A i \in 1..Len(todo) : todo[i] = last + i
    /\ last + Len(todo) <= Height(tip)

\* Roll backs go down one by one, to the height of the first block to apply.
RollBackFalls ==
    \A i \in 1..Len(rollback) :
        /\ rollback[i] = rollback[1] - i + 1
        /\ apply # <<>>
        /\ ~apply[1].processed
        /\ rollback[Len(rollback)] = Height(apply[1].block)

\* The blocks to apply go up one by one on the observer's chain to its tip.
ApplyRises ==
    \A i \in 1..Len(apply) :
        /\ i > 1 => ~apply[i].processed
        /\ Height(apply[i].block) = Height(apply[1].block) + i - 1
        /\ apply[i].block = Chain[sdk][Height(apply[i].block)]
        /\ Height(apply[Len(apply)].block) = Height(sdk)

\* The height below which nothing is left to apply.
Level ==
    IF apply = <<>> THEN Height(sdk)
    ELSE IF apply[1].processed THEN Height(apply[1].block)
    ELSE Height(apply[1].block) - 1

\* Above what was scanned, not yet rolled back or already applied there are no rows.
RowsEnd ==
    /\ UpTo(times, last)
    /\ rollback # <<>> => UpTo(times, rollback[1])
    /\ phase = "listen" /\ rollback = <<>> => UpTo(times, Level)

Followed ==
    phase = "listen" =>
        /\ base <= Level
        /\ \A h \in (base + 1)..Level : At(times, h) = {Chain[sdk][h]}

Exact ==
    dropped = {} /\ ~skipped =>
        /\ \A h \in 1..last : At(times, h) = {Chain[tip][h]}
        /\ phase = "listen" =>
            /\ rollback = <<>>
            /\ last = Level
            /\ \A h \in 1..Height(sdk) : Chain[sdk][h] = Chain[tip][h]

IInv ==
    /\ Shape /\ TipAhead /\ ScanRises /\ RollBackFalls /\ ApplyRises
    /\ OneEach(times) /\ RowsEnd /\ Followed /\ Exact

-----------------------------------------------------------------------------
(* Blocks, their heights and the two changes of the tables *)

LEMMA ChainFacts ==
  ASSUME NEW b \in Blocks
  PROVE  /\ Chain[b] \in Seq(Blocks)
         /\ Height(b) \in Nat
         /\ Height(b) > 0
         /\ Chain[b][Height(b)] = b
         /\ \A h \in 1..Height(b) : Chain[b][h] \in Blocks /\ Height(Chain[b][h]) = h
<1>1. Chain[b] \in Seq(Blocks) /\ Chain[b] # <<>> /\ Chain[b][Len(Chain[b])] = b
  BY ChainAssumption DEF Last
<1>2. Len(Chain[b]) \in Nat /\ Len(Chain[b]) > 0 /\ DOMAIN Chain[b] = 1..Len(Chain[b])
  BY <1>1
<1>3. ASSUME NEW h \in 1..Len(Chain[b])
      PROVE  Chain[b][h] \in Blocks /\ Len(Chain[Chain[b][h]]) = h
  <2>1. Chain[b][h] \in Blocks
    BY <1>1, <1>2
  <2>2. Chain[Chain[b][h]] = SubSeq(Chain[b], 1, h)
    BY <1>2, ChainAssumption
  <2>3. Len(SubSeq(Chain[b], 1, h)) = h
    BY <1>1, <1>2
  <2> QED
    BY <2>1, <2>2, <2>3
<1> QED
  BY <1>1, <1>2, <1>3 DEF Height

\* A block of a chain is the one at its own height.
LEMMA InChain ==
  ASSUME NEW b \in Blocks, NEW x \in ToSet(Chain[b])
  PROVE  Height(x) \in 1..Height(b) /\ Chain[b][Height(x)] = x
<1>1. PICK h \in DOMAIN Chain[b] : x = Chain[b][h]
  BY DEF ToSet
<1>2. h \in 1..Height(b)
  BY <1>1, ChainFacts DEF Height
<1> QED
  BY <1>1, <1>2, ChainFacts

LEMMA HeightsRise ==
  ASSUME NEW low \in Nat, NEW high \in Nat, low <= high
  PROVE  /\ Heights(low + 1, high) \in Seq(Nat)
         /\ Len(Heights(low + 1, high)) = high - low
         /\ \A i \in 1..(high - low) : Heights(low + 1, high)[i] = low + i
<1>1. high - (low + 1) + 1 = high - low /\ high - low \in Nat
  OBVIOUS
<1>2. Heights(low + 1, high) = [i \in 1..(high - low) |-> low + 1 + i - 1]
  BY <1>1 DEF Heights
<1>3. \A i \in 1..(high - low) : low + 1 + i - 1 = low + i /\ low + i \in Nat
  OBVIOUS
<1>4. Heights(low + 1, high) = [i \in 1..(high - low) |-> low + i]
  BY <1>2, <1>3, Zenon
<1> QED
  BY <1>1, <1>3, <1>4

LEMMA IndexRows ==
  ASSUME NEW b \in Blocks, NEW rows \in [Blocks -> Nat], NEW new \in [Blocks -> Nat],
         \A x \in Blocks : new[x] = IF x = b THEN rows[x] + 1 ELSE rows[x],
         OneEach(rows), UpTo(rows, Height(b) - 1)
  PROVE  /\ OneEach(new)
         /\ UpTo(new, Height(b))
         /\ At(new, Height(b)) = {b}
         /\ \A h \in Int : h # Height(b) => At(new, h) = At(rows, h)
<1>1. \A x \in Blocks : Height(x) \in Nat
  BY ChainFacts
<1>2. \A x \in Blocks : Height(x) = Height(b) => rows[x] = 0
  BY <1>1 DEF UpTo
<1>3. new[b] = 1 /\ \A x \in Blocks : x # b => new[x] = rows[x]
  BY <1>2
<1>4. OneEach(new)
  BY <1>1, <1>2, <1>3 DEF OneEach
<1>5. UpTo(new, Height(b))
  BY <1>1, <1>3 DEF UpTo
<1>6. At(new, Height(b)) = {b}
  BY <1>2, <1>3 DEF At
<1>7. \A h \in Int : h # Height(b) => At(new, h) = At(rows, h)
  BY <1>3 DEF At
<1> QED
  BY <1>4, <1>5, <1>6, <1>7

LEMMA RollBackRows ==
  ASSUME NEW h \in Nat, NEW rows \in [Blocks -> Nat], NEW new \in [Blocks -> Nat],
         \A x \in Blocks : new[x] = IF Height(x) = h THEN 0 ELSE rows[x],
         OneEach(rows)
  PROVE  /\ OneEach(new)
         /\ UpTo(rows, h) => UpTo(new, h - 1)
         /\ \A k \in Nat : UpTo(rows, k) => UpTo(new, k)
         /\ \A k \in Int : k # h => At(new, k) = At(rows, k)
<1>1. \A x \in Blocks : Height(x) \in Nat
  BY ChainFacts
<1>2. OneEach(new)
  BY DEF OneEach
<1>3. UpTo(rows, h) => UpTo(new, h - 1)
  BY <1>1 DEF UpTo
<1>4. \A k \in Nat : UpTo(rows, k) => UpTo(new, k)
  BY DEF UpTo
<1>5. \A k \in Int : k # h => At(new, k) = At(rows, k)
  BY DEF At
<1> QED
  BY <1>2, <1>3, <1>4, <1>5

-----------------------------------------------------------------------------
(* The first state and the actions that leave the tables *)

LEMMA Begins == Init => IInv
<1> SUFFICES ASSUME Init
             PROVE  IInv
  OBVIOUS
<1>1. \A b \in Blocks : Height(b) \in Nat
  BY ChainFacts
<1>2. First \in Blocks /\ None \notin Blocks
  BY ChainAssumption
<1>3. <<>> \in Seq(Nat) /\ <<>> \in Seq(Step)
  OBVIOUS
<1>4. Shape
  <2>1. TypeOK
    BY <1>1, <1>2 DEF Init, TypeOK
  <2> QED
    BY <1>3, <2>1 DEF Init, Shape
<1> QED
  BY <1>1, <1>2, <1>4 DEF Init, IInv, TipAhead, ScanRises, RollBackFalls, ApplyRises, OneEach,
     RowsEnd, UpTo, Followed, Exact

LEMMA TipGrows ==
  ASSUME IInv, NEW b \in Blocks, NewTip(b)
  PROVE  IInv'
<1> USE DEF NewTip, IInv, tables, message
<1>1. tip \in Blocks /\ last \in 0..Height(tip) /\ sdk \in Blocks \cup {None}
      /\ last \in Nat /\ (phase = "listen" <=> sdk # None)
  BY ChainFacts DEF Shape, TypeOK
<1>2. \A x \in Blocks : Height(x) \in Nat
  BY ChainFacts
<1>3. b \in ToSet(Chain[b])
  <2>1. Height(b) \in DOMAIN Chain[b] /\ Chain[b][Height(b)] = b
    BY ChainFacts DEF Height
  <2> QED
    BY <2>1 DEF ToSet
<1>4. ToSet(Chain[tip]) \subseteq Blocks
  BY <1>1, ChainFacts DEF ToSet, Height
<1>5. Shape'
  BY <1>1, <1>2, <1>3, <1>4 DEF Shape, TypeOK
<1>6. TipAhead' /\ ScanRises'
  BY <1>1, <1>2 DEF TipAhead, ScanRises, Shape
<1>7. RollBackFalls' /\ ApplyRises' /\ OneEach(times)' /\ RowsEnd' /\ Followed'
  BY DEF RollBackFalls, ApplyRises, OneEach, RowsEnd, UpTo, Followed, Level, At
<1>8. Exact'
  <2> SUFFICES ASSUME dropped' = {}, ~skipped
               PROVE  Exact'
    BY DEF Exact
  <2>1. dropped = {} /\ ToSet(Chain[tip]) \subseteq ToSet(Chain[b])
    OBVIOUS
  <2>2. ASSUME NEW h \in 1..Height(tip)
        PROVE  Chain[b][h] = Chain[tip][h]
    <3>1. Chain[tip][h] \in ToSet(Chain[tip]) /\ Height(Chain[tip][h]) = h
      BY <1>1, ChainFacts DEF ToSet, Height
    <3> QED
      BY <2>1, <3>1, InChain
  <2>3. \A h \in 1..last : At(times, h) = {Chain[b][h]}
    BY <1>1, <1>2, <2>1, <2>2 DEF Exact
  <2>4. phase = "listen" => \A h \in 1..Height(sdk) : Chain[sdk][h] = Chain[b][h]
    BY <1>1, <1>2, <2>1, <2>2 DEF Exact, TipAhead
  <2> QED
    BY <2>1, <2>3, <2>4 DEF Exact, Level, At
<1> QED
  BY <1>5, <1>6, <1>7, <1>8

LEMMA ScanBegins ==
  ASSUME IInv, ScanBehind
  PROVE  IInv'
<1> USE DEF ScanBehind, IInv, tables, message
<1>1. tip \in Blocks /\ last \in Nat /\ Height(tip) \in Nat
  BY ChainFacts DEF Shape, TypeOK
<1>2. /\ todo' \in Seq(Nat)
      /\ Len(todo') = Height(tip) - last
      /\ \A i \in 1..Len(todo') : todo'[i] = last + i
  <2> DEFINE top == Height(tip)
             up  == Heights(last + 1, top)
  <2>1. todo' = up /\ top \in Nat /\ last <= top
    BY <1>1
  <2> HIDE DEF top
  <2>2. up \in Seq(Nat) /\ Len(up) = top - last /\ \A i \in 1..(top - last) : up[i] = last + i
    BY <1>1, <2>1, HeightsRise
  <2> HIDE DEF up
  <2> QED
    BY <2>1, <2>2 DEF top
<1>3. Shape'
  <2>1. Head(todo') = last + 1
    BY <1>1, <1>2
  <2> QED
    BY <1>1, <1>2, <2>1 DEF Shape, TypeOK
<1>4. TipAhead' /\ ScanRises'
  BY <1>1, <1>2 DEF TipAhead, ScanRises, Shape, TypeOK
<1>5. RollBackFalls' /\ ApplyRises' /\ OneEach(times)' /\ RowsEnd' /\ Followed' /\ Exact'
  BY DEF RollBackFalls, ApplyRises, OneEach, RowsEnd, UpTo, Followed, Level, At, Exact
<1> QED
  BY <1>3, <1>4, <1>5

LEMMA ScanEnds ==
  ASSUME IInv, EndScan \/ CaughtUp
  PROVE  IInv'
<1> USE DEF EndScan, CaughtUp, IInv, tables, message
<1>1. Shape'
  BY DEF Shape, TypeOK
<1>2. TipAhead' /\ ScanRises'
  BY DEF TipAhead, ScanRises
<1>3. RollBackFalls' /\ ApplyRises' /\ OneEach(times)' /\ RowsEnd' /\ Followed' /\ Exact'
  BY DEF RollBackFalls, ApplyRises, OneEach, RowsEnd, UpTo, Followed, Level, At, Exact
<1> QED
  BY <1>1, <1>2, <1>3

LEMMA ObserverStarts ==
  ASSUME IInv, StartObserver
  PROVE  IInv'
<1> USE DEF StartObserver, IInv, tables, message
<1>1. tip \in Blocks /\ last \in 0..Height(tip) /\ last \in Nat /\ Height(tip) \in Nat
      /\ sdk = None /\ None \notin Blocks /\ rollback = <<>> /\ apply = <<>>
      /\ skipped \in BOOLEAN
  BY ChainFacts, ChainAssumption DEF Shape, TypeOK
<1>2. Shape'
  BY <1>1 DEF Shape, TypeOK
<1>3. TipAhead' /\ ScanRises' /\ RollBackFalls' /\ ApplyRises' /\ OneEach(times)'
  BY <1>1 DEF TipAhead, ScanRises, RollBackFalls, ApplyRises, OneEach
<1>4. RowsEnd'
  <2>1. UpTo(times, Height(tip))
    BY <1>1, ChainFacts DEF RowsEnd, UpTo
  <2> QED
    BY <1>1, <2>1 DEF RowsEnd, UpTo, Level
<1>5. Followed'
  BY <1>1 DEF Followed, Level
<1>6. Exact'
  BY <1>1 DEF Exact, Level, At
<1> QED
  BY <1>2, <1>3, <1>4, <1>5, <1>6

LEMMA Restarts ==
  ASSUME IInv, Crash
  PROVE  IInv'
<1> USE DEF Crash, IInv, tables
<1>0. <<>> \in Seq(Nat) /\ <<>> \in Seq(Step)
  OBVIOUS
<1>1. Shape'
  BY <1>0 DEF Shape, TypeOK
<1>2. TipAhead' /\ ScanRises' /\ RollBackFalls' /\ ApplyRises' /\ OneEach(times)'
  BY DEF TipAhead, ScanRises, RollBackFalls, ApplyRises, OneEach, Shape, TypeOK
<1>3. RowsEnd' /\ Followed' /\ Exact'
  BY DEF RowsEnd, UpTo, Followed, Exact, At
<1> QED
  BY <1>1, <1>2, <1>3

-----------------------------------------------------------------------------
(* The actions that change the tables, and the observer's message *)

LEMMA ScanGoesOn ==
  ASSUME IInv, ScanBlock
  PROVE  IInv'
<1> DEFINE b == Chain[tip][last + 1]
<1> USE DEF IInv
<1>1. /\ tip \in Blocks /\ last \in Nat /\ times \in [Blocks -> Nat]
      /\ phase = "scan" /\ sdk = None /\ rollback = <<>> /\ apply = <<>>
      /\ todo \in Seq(Nat) /\ todo # <<>>
  BY DEF Shape, TypeOK, ScanBlock
<1>2. Len(todo) \in Nat /\ Len(todo) > 0 /\ Head(todo) = last + 1
  BY <1>1 DEF Shape, TypeOK
<1>3. Height(tip) \in Nat /\ last + 1 \in 1..Height(tip)
  BY <1>1, <1>2, ChainFacts DEF ScanRises
<1>4. b \in Blocks /\ Height(b) = last + 1
  BY <1>1, <1>3, ChainFacts
<1>5. /\ times' = [times EXCEPT ![b] = @ + 1] /\ last' = last + 1 /\ todo' = Tail(todo)
      /\ UNCHANGED <<tip, dropped, phase, sdk, rollback, apply, base, skipped, crashes>>
  BY <1>2, <1>4 DEF ScanBlock, IndexBlock, message
<1>6. /\ times' \in [Blocks -> Nat] /\ OneEach(times') /\ UpTo(times', last + 1)
      /\ At(times', last + 1) = {b}
      /\ \A h \in Int : h # last + 1 => At(times', h) = At(times, h)
  <2>1. UpTo(times, Height(b) - 1)
    BY <1>1, <1>4 DEF RowsEnd
  <2>2. b \in Blocks /\ Height(b) = last + 1 /\ OneEach(times)
    BY <1>1, <1>4, <1>5
  <2> HIDE DEF b, IInv
  <2>3. /\ times' \in [Blocks -> Nat]
        /\ \A x \in Blocks : times'[x] = IF x = b THEN times[x] + 1 ELSE times[x]
    BY <1>1, <1>5, <2>2
  <2>4. /\ OneEach(times') /\ UpTo(times', Height(b))
        /\ At(times', Height(b)) = {b}
        /\ \A h \in Int : h # Height(b) => At(times', h) = At(times, h)
    <3> DEFINE rows == times
               new  == times'
    <3>1. /\ b \in Blocks /\ rows \in [Blocks -> Nat] /\ new \in [Blocks -> Nat]
          /\ \A x \in Blocks : new[x] = IF x = b THEN rows[x] + 1 ELSE rows[x]
          /\ OneEach(rows) /\ UpTo(rows, Height(b) - 1)
      BY <1>1, <2>1, <2>2, <2>3
    <3> HIDE DEF rows, new
    <3>2. /\ OneEach(new) /\ UpTo(new, Height(b)) /\ At(new, Height(b)) = {b}
          /\ \A h \in Int : h # Height(b) => At(new, h) = At(rows, h)
      BY <3>1, IndexRows
    <3> QED
      BY <3>2 DEF rows, new
  <2> QED
    BY <2>2, <2>3, <2>4
<1>7. /\ todo' \in Seq(Nat) /\ Len(todo') = Len(todo) - 1
      /\ \A i \in 1..Len(todo') : todo'[i] = last' + i
  <2>1. todo' \in Seq(Nat) /\ Len(todo') = Len(todo) - 1
    BY <1>1, <1>5
  <2>2. \A i \in 1..Len(todo') : todo'[i] = todo[i + 1] /\ i + 1 \in 1..Len(todo)
    BY <1>1, <1>2, <1>5
  <2> QED
    BY <1>1, <1>2, <1>5, <2>1, <2>2 DEF ScanRises
<1>8. Shape'
  <2>1. todo' # <<>> => Head(todo') = last' + 1
    BY <1>7
  <2> QED
    BY <1>1, <1>3, <1>5, <1>6, <1>7, <2>1 DEF Shape, TypeOK
<1>9. TipAhead' /\ ScanRises' /\ RollBackFalls' /\ ApplyRises'
  BY <1>1, <1>2, <1>3, <1>5, <1>7 DEF TipAhead, ScanRises, RollBackFalls, ApplyRises
<1>10. OneEach(times)' /\ RowsEnd' /\ Followed'
  BY <1>1, <1>5, <1>6 DEF OneEach, RowsEnd, UpTo, Followed
<1>11. Exact'
  <2> SUFFICES ASSUME dropped = {}, ~skipped, NEW h \in 1..(last + 1)
               PROVE  At(times', h) = {Chain[tip][h]}
    BY <1>1, <1>5 DEF Exact, At
  <2>1. CASE h = last + 1
    BY <1>6, <2>1
  <2>2. CASE h # last + 1
    <3>1. h \in 1..last
      BY <1>1, <2>2
    <3> QED
      BY <1>6, <2>2, <3>1 DEF Exact
  <2> QED
    BY <2>1, <2>2
<1> QED
  BY <1>6, <1>8, <1>9, <1>10, <1>11

LEMMA RollsBack ==
  ASSUME IInv, RollBackNext
  PROVE  IInv'
<1> DEFINE h == rollback[1]
<1> DEFINE n == Len(rollback)
<1> USE DEF IInv
<1>1. /\ tip \in Blocks /\ last \in Nat /\ times \in [Blocks -> Nat] /\ phase = "listen"
      /\ sdk \in Blocks /\ base \in Nat
      /\ rollback \in Seq(Nat) /\ rollback # <<>> /\ apply \in Seq(Step)
  BY DEF Shape, TypeOK, RollBackNext
<1>2. n \in Nat /\ n > 0 /\ h \in Nat /\ \A i \in 1..n : rollback[i] = h - i + 1
  BY <1>1 DEF RollBackFalls
<1>3. apply # <<>> /\ ~apply[1].processed /\ Height(apply[1].block) = rollback[n]
  BY <1>2 DEF RollBackFalls
<1>4. /\ times' = [b \in Blocks |-> IF Height(b) = h THEN 0 ELSE times[b]]
      /\ rollback' = Tail(rollback)
      /\ UNCHANGED <<tip, dropped, last, phase, todo, sdk, apply, base, skipped, crashes>>
  BY <1>1 DEF RollBackNext, RollBackBlock
<1>5. /\ times' \in [Blocks -> Nat] /\ OneEach(times') /\ UpTo(times', h - 1)
      /\ UpTo(times', last) /\ \A k \in Int : k # h => At(times', k) = At(times, k)
  <2>1. UpTo(times, h) /\ UpTo(times, last)
    BY <1>1 DEF RowsEnd
  <2>2. OneEach(times)
    OBVIOUS
  <2> HIDE DEF h, IInv
  <2>3. /\ times' \in [Blocks -> Nat]
        /\ \A x \in Blocks : times'[x] = IF Height(x) = h THEN 0 ELSE times[x]
    BY <1>1, <1>4
  <2> QED
    BY <1>1, <1>2, <2>1, <2>2, <2>3, RollBackRows
<1>6. /\ rollback' \in Seq(Nat) /\ Len(rollback') = n - 1
      /\ \A i \in 1..(n - 1) : rollback'[i] = rollback[i + 1] /\ i + 1 \in 1..n
  BY <1>1, <1>2, <1>4
<1>7. Shape'
  BY <1>1, <1>4, <1>5, <1>6 DEF Shape, TypeOK
<1>8. TipAhead' /\ ScanRises' /\ ApplyRises'
  BY <1>4 DEF TipAhead, ScanRises, ApplyRises
<1>9. RollBackFalls'
  <2>1. \A i \in 1..(n - 1) : rollback'[i] = h - i
    BY <1>2, <1>6
  <2> QED
    BY <1>2, <1>3, <1>4, <1>6, <2>1 DEF RollBackFalls
<1>10. Level = h - n /\ Level' = Level
  BY <1>2, <1>3, <1>4 DEF Level
<1>11. RowsEnd'
  <2>1. CASE n = 1
    <3>1. rollback' = <<>>
      BY <1>6, <2>1
    <3>2. UpTo(times', Level')
      BY <1>5, <1>10, <2>1
    <3> QED
      BY <1>4, <1>5, <3>1, <3>2 DEF RowsEnd, UpTo
  <2>2. CASE n # 1
    <3>1. rollback' # <<>> /\ rollback'[1] = h - 1
      BY <1>2, <1>6, <2>2
    <3> QED
      BY <1>4, <1>5, <3>1 DEF RowsEnd, UpTo
  <2> QED
    BY <2>1, <2>2
<1>12. Followed'
  <2>1. \A k \in (base + 1)..Level : k # h /\ k \in Int
    BY <1>1, <1>2, <1>10
  <2>2. \A k \in (base + 1)..Level : At(times', k) = {Chain[sdk][k]}
    BY <1>1, <1>5, <2>1 DEF Followed
  <2> QED
    BY <1>1, <1>4, <1>10, <2>2 DEF Followed, At
<1>13. Exact'
  BY <1>1, <1>4 DEF Exact
<1> QED
  BY <1>4, <1>5, <1>7, <1>8, <1>9, <1>11, <1>12, <1>13 DEF OneEach

LEMMA BlockApplied ==
  ASSUME IInv, MutateNext
  PROVE  IInv'
<1> DEFINE b == apply[1].block
<1> DEFINE n == Len(apply)
<1> USE DEF IInv
<1>1. /\ tip \in Blocks /\ last \in Nat /\ times \in [Blocks -> Nat] /\ phase = "listen"
      /\ sdk \in Blocks /\ base \in Nat /\ todo = <<>>
      /\ rollback = <<>> /\ apply \in Seq(Step) /\ apply # <<>>
  BY DEF Shape, TypeOK, MutateNext
<1>2. n \in Nat /\ n > 0 /\ apply[1] \in Step /\ apply[n] \in Step /\ Head(apply) = apply[1]
  BY <1>1
<1>3. b \in Blocks /\ apply[1].processed \in BOOLEAN
  BY <1>2 DEF Step
<1>4. /\ apply' = Tail(apply)
      /\ IF apply[1].processed THEN UNCHANGED tables ELSE IndexBlock(b)
      /\ UNCHANGED <<tip, dropped, phase, todo, sdk, rollback, base, skipped, crashes>>
  <2>1. IF apply[1].processed THEN UNCHANGED tables ELSE IndexBlock(b)
    BY <1>2 DEF MutateNext
  <2> QED
    BY <1>2, <2>1 DEF MutateNext
<1>5. \A i \in 1..n :
        /\ i > 1 => ~apply[i].processed
        /\ Height(apply[i].block) = Height(b) + i - 1
        /\ apply[i].block = Chain[sdk][Height(apply[i].block)]
        /\ Height(apply[n].block) = Height(sdk)
  BY DEF ApplyRises
<1>6. /\ Height(b) \in Nat /\ Height(b) > 0 /\ Height(tip) \in Nat /\ Height(sdk) \in Nat
      /\ Height(sdk) = Height(b) + n - 1
  BY <1>1, <1>2, <1>3, <1>5, ChainFacts
<1>7. b = Chain[sdk][Height(b)]
  BY <1>2, <1>5
<1>8. Height(sdk) <= Height(tip)
  <2>1. sdk # None
    BY <1>1, ChainAssumption
  <2>2. sdk = tip \/ Height(sdk) < Height(tip)
    BY <2>1 DEF TipAhead
  <2> QED
    BY <1>6, <2>2
<1>9. /\ apply' \in Seq(Step) /\ Len(apply') = n - 1
      /\ \A i \in 1..(n - 1) : apply'[i] = apply[i + 1] /\ i + 1 \in 1..n
  BY <1>1, <1>2, <1>4
<1>10. Level = IF apply[1].processed THEN Height(b) ELSE Height(b) - 1
  BY <1>1 DEF Level
<1>11. Level' = Height(b)
  <2>1. CASE n = 1
    <3>1. apply' = <<>>
      BY <1>9, <2>1
    <3> QED
      BY <1>4, <1>6, <2>1, <3>1 DEF Level
  <2>2. CASE n # 1
    <3>1. apply' # <<>> /\ apply'[1] = apply[2] /\ 2 \in 1..n
      BY <1>2, <1>9, <2>2
    <3>2. ~apply[2].processed /\ Height(apply[2].block) = Height(b) + 1
      BY <1>5, <1>6, <3>1
    <3> QED
      BY <1>6, <3>1, <3>2 DEF Level
  <2> QED
    BY <2>1, <2>2
<1>12. ApplyRises'
  <2>1. ASSUME NEW i \in 1..(n - 1)
        PROVE  /\ ~apply'[i].processed
               /\ Height(apply'[i].block) = Height(b) + i
               /\ apply'[i].block = Chain[sdk][Height(apply'[i].block)]
               /\ apply'[n - 1] = apply[n]
    <3>1. apply'[i] = apply[i + 1] /\ i + 1 \in 1..n /\ i + 1 > 1
      BY <1>9
    <3>2. n - 1 \in 1..(n - 1) /\ n - 1 + 1 = n
      BY <1>2
    <3>3. apply'[n - 1] = apply[n]
      BY <1>9, <3>2
    <3> QED
      BY <1>5, <1>6, <3>1, <3>3
  <2>2. ASSUME NEW i \in 1..(n - 1)
        PROVE  Height(apply'[1].block) = Height(b) + 1
    BY <1>2, <2>1
  <2>3. ASSUME NEW i \in 1..(n - 1)
        PROVE  /\ i > 1 => ~apply'[i].processed
               /\ Height(apply'[i].block) = Height(apply'[1].block) + i - 1
               /\ apply'[i].block = Chain[sdk][Height(apply'[i].block)]
               /\ Height(apply'[n - 1].block) = Height(sdk)
    <3>1. i \in Int /\ Height(b) + i = Height(b) + 1 + i - 1
      BY <1>6
    <3>2. Height(apply[n].block) = Height(sdk)
      BY <1>2, <1>5
    <3> HIDE DEF b, n, IInv
    <3> QED
      BY <2>1, <2>2, <3>1, <3>2
  <2> QED
    BY <1>4, <1>9, <2>3 DEF ApplyRises
<1>13. /\ times' \in [Blocks -> Nat] /\ OneEach(times')
       /\ UpTo(times', Height(b))
       /\ last' \in 0..Height(tip) /\ UpTo(times', last')
       /\ \A h \in (base + 1)..Height(b) : At(times', h) = {Chain[sdk][h]}
       /\ base <= Height(b)
       /\ dropped = {} /\ ~skipped =>
             last' = Height(b) /\ \A h \in 1..Height(b) : At(times', h) = {Chain[tip][h]}
  <2>1. /\ OneEach(times) /\ UpTo(times, Level) /\ UpTo(times, last)
        /\ last \in 0..Height(tip) /\ base <= Level
        /\ \A h \in (base + 1)..Level : At(times, h) = {Chain[sdk][h]}
    BY <1>1 DEF Shape, TypeOK, RowsEnd, Followed
  <2>2. dropped = {} /\ ~skipped =>
             /\ last = Level
             /\ \A h \in 1..last : At(times, h) = {Chain[tip][h]}
             /\ b = Chain[tip][Height(b)]
    <3>1. Height(b) \in 1..Height(sdk)
      BY <1>2, <1>6
    <3> QED
      BY <1>1, <1>7, <3>1 DEF Exact
  <2>3. CASE apply[1].processed
    <3>1. times' = times /\ last' = last
      BY <1>4, <2>3 DEF tables
    <3> HIDE DEF b, n, IInv
    <3> QED
      BY <1>1, <1>6, <1>10, <2>1, <2>2, <2>3, <3>1
  <2>4. CASE ~apply[1].processed
    <3>1. times' = [times EXCEPT ![b] = @ + 1] /\ last' = Height(b)
      BY <1>4, <2>4 DEF IndexBlock
    <3>2. Level = Height(b) - 1
      BY <1>10, <2>4
    <3>3. last' \in 0..Height(tip)
      BY <1>2, <1>6, <1>8, <3>1
    <3> HIDE DEF b, n, IInv
    <3>4. /\ times' \in [Blocks -> Nat]
          /\ \A x \in Blocks : times'[x] = IF x = b THEN times[x] + 1 ELSE times[x]
      BY <1>1, <1>3, <3>1
    <3>5. /\ OneEach(times') /\ UpTo(times', Height(b)) /\ At(times', Height(b)) = {b}
          /\ \A h \in Int : h # Height(b) => At(times', h) = At(times, h)
      <4>1. b \in Blocks /\ times \in [Blocks -> Nat] /\ OneEach(times)
            /\ UpTo(times, Height(b) - 1)
        BY <1>1, <1>3, <2>1, <3>2
      <4> QED
        BY <3>4, <4>1, IndexRows
    <3>6. \A h \in (base + 1)..Height(b) : h \in Int /\ (h # Height(b) => h \in (base + 1)..Level)
      BY <1>1, <1>6, <3>2
    <3>7. \A h \in (base + 1)..Height(b) : At(times', h) = {Chain[sdk][h]}
      BY <1>7, <2>1, <3>5, <3>6
    <3>8. base <= Height(b)
      BY <1>1, <1>6, <2>1, <3>2
    <3>9. ASSUME dropped = {}, ~skipped, NEW h \in 1..Height(b)
          PROVE  At(times', h) = {Chain[tip][h]}
      <4>1. h \in Int /\ (h # Height(b) => h \in 1..last)
        BY <1>1, <1>6, <2>2, <3>2, <3>9
      <4> QED
        BY <2>2, <3>5, <3>9, <4>1
    <3> QED
      BY <3>1, <3>3, <3>4, <3>5, <3>7, <3>8, <3>9
  <2> QED
    BY <1>3, <2>3, <2>4
<1>14. Shape'
  BY <1>1, <1>4, <1>9, <1>13 DEF Shape, TypeOK
<1>15. TipAhead' /\ ScanRises' /\ RollBackFalls'
  BY <1>1, <1>4, <1>13 DEF TipAhead, ScanRises, RollBackFalls
<1>16. RowsEnd' /\ Followed'
  BY <1>1, <1>4, <1>11, <1>13 DEF RowsEnd, UpTo, Followed, At
<1>17. Exact'
  <2>1. dropped = {} /\ ~skipped => \A h \in 1..Height(sdk) : Chain[sdk][h] = Chain[tip][h]
    BY <1>1 DEF Exact
  <2> QED
    BY <1>1, <1>4, <1>11, <1>13, <2>1 DEF Exact, At
<1> QED
  BY <1>12, <1>13, <1>14, <1>15, <1>16, <1>17 DEF OneEach

LEMMA Prepended ==
  ASSUME NEW S, NEW x \in S, NEW s \in Seq(S)
  PROVE  /\ <<x>> \o s \in Seq(S)
         /\ Len(<<x>> \o s) = Len(s) + 1
         /\ (<<x>> \o s)[1] = x
         /\ \A i \in 2..(Len(s) + 1) : (<<x>> \o s)[i] = s[i - 1]
<1>1. <<x>> \in Seq(S) /\ Len(<<x>>) = 1 /\ <<x>>[1] = x
  OBVIOUS
<1>2. Len(s) \in Nat
  OBVIOUS
<1>3. <<x>> \o s \in Seq(S)
  BY <1>1
<1>4. Len(<<x>> \o s) = Len(s) + 1
  BY <1>1, <1>2
<1>5. \A i \in 1..(Len(s) + 1) : (<<x>> \o s)[i] = IF i <= 1 THEN <<x>>[i] ELSE s[i - 1]
  BY <1>1, <1>2
<1> QED
  BY <1>1, <1>2, <1>3, <1>4, <1>5

\* The blocks of a chain above a height, none of them marked.
Unmarked(s, t, c) ==
    \A i \in 1..Len(s) : s[i].block = Chain[t][c + i] /\ ~s[i].processed

LEMMA IsSequence ==
  ASSUME NEW S, NEW k \in Nat, NEW f \in [1..k -> S]
  PROVE  f \in Seq(S) /\ Len(f) = k
OBVIOUS

LEMMA NewBlocks ==
  ASSUME NEW t \in Blocks, NEW c \in Nat, c < Height(t), NEW fresh,
         fresh = [i \in 1..(Height(t) - c) |->
                    [block |-> Chain[t][c + i], processed |-> FALSE]]
  PROVE  /\ fresh \in Seq(Step) /\ fresh # <<>>
         /\ Len(fresh) = Height(t) - c
         /\ Unmarked(fresh, t, c)
<1> DEFINE k == Height(t) - c
<1>1. k \in Nat /\ k > 0 /\ Height(t) \in Nat
  BY ChainFacts
<1>2. \A i \in 1..k : c + i \in 1..Height(t) /\ Chain[t][c + i] \in Blocks
  <2>1. \A i \in 1..k : c + i \in 1..Height(t)
    BY <1>1
  <2> QED
    BY <2>1, ChainFacts
<1> DEFINE Fresh(i) == [block |-> Chain[t][c + i], processed |-> FALSE]
<1>3. \A i \in 1..k : Fresh(i) \in Step /\ Fresh(i).block = Chain[t][c + i] /\ ~Fresh(i).processed
  BY <1>2 DEF Step
<1>4. fresh = [i \in 1..k |-> Fresh(i)]
  OBVIOUS
<1> HIDE DEF Fresh
<1>5. fresh \in [1..k -> Step] /\ \A i \in 1..k : fresh[i] = Fresh(i)
  BY <1>3, <1>4, Zenon
<1>6. fresh \in Seq(Step) /\ Len(fresh) = k
  BY <1>1, <1>5, IsSequence, Zenon
<1>7. fresh # <<>>
  BY <1>1, <1>6
<1> QED
  BY <1>3, <1>5, <1>6, <1>7 DEF Unmarked

\* The blocks with the marked one in front.
MarkedFirst(a, first, t, c) ==
    /\ a \in Seq(Step) /\ Len(a) = Height(t) - (c - 1) /\ a[1] = first
    /\ \A i \in 1..Len(a) :
          a[i].block = Chain[t][c - 1 + i] /\ (i > 1 => ~a[i].processed)

LEMMA MarkedInFront ==
  ASSUME NEW t \in Blocks, NEW c \in Nat, c > 0,
         NEW first \in Step, first.block = Chain[t][c],
         NEW fresh \in Seq(Step), Len(fresh) = Height(t) - c, Unmarked(fresh, t, c)
  PROVE  MarkedFirst(<<first>> \o fresh, first, t, c)
<1> DEFINE k == Len(fresh)
<1> DEFINE a == <<first>> \o fresh
<1>1. k \in Nat /\ Height(t) \in Nat
  BY ChainFacts
<1>2. /\ a \in Seq(Step) /\ Len(a) = k + 1 /\ a[1] = first
      /\ \A i \in 2..(k + 1) : a[i] = fresh[i - 1]
  BY Prepended
<1> HIDE DEF a
<1>3. Height(t) - (c - 1) = k + 1
  BY <1>1
<1>4. ASSUME NEW i \in 1..(k + 1)
      PROVE  a[i].block = Chain[t][c - 1 + i] /\ (i > 1 => ~a[i].processed)
  <2>1. CASE i = 1
    <3>1. c - 1 + i = c
      BY <2>1
    <3> QED
      BY <1>2, <2>1, <3>1
  <2>2. CASE i # 1
    <3>1. i \in 2..(k + 1) /\ c + (i - 1) = c - 1 + i /\ i - 1 \in 1..k
      BY <1>1, <2>2
    <3>2. a[i] = fresh[i - 1]
      BY <1>2, <3>1
    <3> QED
      BY <3>1, <3>2 DEF Unmarked
  <2> QED
    BY <2>1, <2>2
<1>5. MarkedFirst(a, first, t, c)
  BY <1>2, <1>3, <1>4 DEF MarkedFirst
<1> QED
  BY <1>5 DEF a

LEMMA Reversed ==
  ASSUME NEW low \in Nat, NEW high \in Nat, low <= high, NEW r,
         r = Reverse(Heights(low + 1, high))
  PROVE  /\ r \in Seq(Nat)
         /\ Len(r) = high - low
         /\ \A i \in 1..(high - low) : r[i] = high - i + 1
<1> DEFINE k == high - low
<1> DEFINE up == Heights(low + 1, high)
<1>1. k \in Nat /\ up \in Seq(Nat) /\ Len(up) = k /\ \A i \in 1..k : up[i] = low + i
  BY HeightsRise
<1> HIDE DEF up
<1>2. r = [i \in 1..k |-> up[(k - i) + 1]]
  BY <1>1 DEF Reverse, up
<1>3. \A i \in 1..k : k - i + 1 \in 1..k /\ low + (k - i + 1) = high - i + 1 /\ high - i + 1 \in Nat
  BY <1>1
<1>4. \A i \in 1..k : up[k - i + 1] = high - i + 1 /\ high - i + 1 \in Nat
  BY <1>1, <1>3
<1>5. r = [i \in 1..k |-> high - i + 1]
  BY <1>2, <1>4, Zenon
<1> QED
  <2> HIDE DEF k
  <2>1. k \in Nat /\ \A i \in 1..k : high - i + 1 \in Nat
    BY <1>1, <1>4
  <2>2. r \in Seq(Nat)
    BY <1>5, <2>1
  <2>3. Len(r) = k /\ \A i \in 1..k : r[i] = high - i + 1
    BY <1>5, <2>1
  <2> QED
    BY <2>2, <2>3 DEF k

LEMMA TipReported ==
  ASSUME IInv, NEW again \in BOOLEAN, Observe(again)
  PROVE  IInv'
<1> DEFINE top == Height(sdk)
<1> USE DEF IInv
<1>1. /\ tip \in Blocks /\ last \in Nat /\ times \in [Blocks -> Nat] /\ phase = "listen"
      /\ sdk \in Blocks /\ base \in Nat /\ todo = <<>>
      /\ rollback = <<>> /\ apply = <<>> /\ sdk # tip
  BY DEF Shape, TypeOK, Observe
<1>2. top \in Nat /\ top > 0 /\ Height(tip) \in Nat /\ top < Height(tip)
      /\ Chain[sdk][top] = sdk
  <2>1. sdk # None
    BY <1>1, ChainAssumption
  <2> QED
    BY <1>1, <2>1, ChainFacts DEF TipAhead
<1>3. PICK c \in 0..top :
        /\ ForksAfter(sdk, tip, c)
        /\ again => c = top /\ c > base
        /\ rollback' = Reverse(Heights(c + 1, top))
        /\ apply' = (IF again THEN <<[block |-> sdk, processed |-> TRUE]>> ELSE <<>>)
               \o [i \in 1..(Height(tip) - c) |->
                      [block |-> Chain[tip][c + i], processed |-> FALSE]]
        /\ base' = IF c < base THEN c ELSE base
  BY DEF Observe
<1>4. sdk' = tip /\ UNCHANGED <<tip, dropped, last, times, phase, todo, skipped, crashes>>
  BY DEF Observe, tables
<1>5. c \in Nat /\ c <= top /\ c < Height(tip)
  BY <1>2, <1>3
<1>6. \A h \in 1..top : h <= c <=> Chain[sdk][h] = Chain[tip][h]
  BY <1>3 DEF ForksAfter
<1> DEFINE d == IF again THEN c - 1 ELSE c
<1>7. d \in Nat /\ d < Height(tip) /\ (again => c = top /\ c > 0)
  BY <1>2, <1>3, <1>5
<1>8. /\ apply' \in Seq(Step) /\ apply' # <<>>
      /\ Len(apply') = Height(tip) - d
      /\ \A i \in 1..Len(apply') :
            /\ apply'[i].block = Chain[tip][d + i]
            /\ apply'[i].processed <=> again /\ i = 1
  <2> DEFINE first == [block |-> sdk, processed |-> TRUE]
  <2> DEFINE fresh == [i \in 1..(Height(tip) - c) |->
                         [block |-> Chain[tip][c + i], processed |-> FALSE]]
  <2>1. first \in Step /\ first.processed /\ first.block = sdk
    BY <1>1 DEF Step
  <2>2. apply' = IF again THEN <<first>> \o fresh ELSE <<>> \o fresh
    BY <1>3
  <2>3. /\ fresh \in Seq(Step) /\ fresh # <<>> /\ Len(fresh) = Height(tip) - c
        /\ Unmarked(fresh, tip, c)
    <3>1. fresh = [i \in 1..(Height(tip) - c) |->
                     [block |-> Chain[tip][c + i], processed |-> FALSE]]
      OBVIOUS
    <3> HIDE DEF fresh
    <3> QED
      BY <1>1, <1>5, <3>1, NewBlocks
  <2> HIDE DEF fresh
  <2>4. CASE again
    <3>1. c > 0 /\ sdk = Chain[tip][c] /\ d = c - 1
      BY <1>2, <1>6, <1>7, <2>4
    <3>2. apply' = <<first>> \o fresh
      BY <2>2, <2>4
    <3> HIDE DEF d, first, IInv
    <3>3. /\ apply' \in Seq(Step) /\ Len(apply') = Height(tip) - (c - 1) /\ apply'[1] = first
          /\ \A i \in 1..Len(apply') :
               apply'[i].block = Chain[tip][c - 1 + i] /\ (i > 1 => ~apply'[i].processed)
      <4>1. c \in Nat /\ c > 0 /\ first \in Step /\ first.block = Chain[tip][c]
        BY <1>5, <2>1, <3>1
      <4>2. tip \in Blocks
        BY <1>1
      <4>3. MarkedFirst(<<first>> \o fresh, first, tip, c)
        BY <2>3, <4>1, <4>2, MarkedInFront
      <4> QED
        BY <3>2, <4>3 DEF MarkedFirst
    <3>4. apply' # <<>>
      BY <1>2, <1>5, <3>3
    <3>5. apply'[1].processed
      BY <2>1, <3>3
    <3>6. ASSUME NEW i \in 1..Len(apply')
          PROVE  apply'[i].processed <=> again /\ i = 1
      BY <2>4, <3>3, <3>5
    <3> QED
      BY <3>1, <3>3, <3>4, <3>6
  <2>5. CASE ~again
    <3>1. apply' = fresh /\ d = c
      BY <2>2, <2>3, <2>5
    <3> HIDE DEF d, IInv
    <3> QED
      BY <2>3, <2>5, <3>1 DEF Unmarked
  <2> QED
    BY <2>4, <2>5
<1>9. /\ rollback' \in Seq(Nat) /\ Len(rollback') = top - c
      /\ \A i \in 1..(top - c) : rollback'[i] = top - i + 1
  <2> HIDE DEF top, IInv
  <2>1. c \in Nat /\ top \in Nat /\ c <= top /\ rollback' = Reverse(Heights(c + 1, top))
    BY <1>2, <1>3, <1>5
  <2> QED
    BY <2>1, Reversed
<1>10. \A i \in 1..Len(apply') : Height(apply'[i].block) = d + i
  <2> HIDE DEF d
  <2>1. \A i \in 1..Len(apply') : d + i \in 1..Height(tip)
    BY <1>2, <1>7, <1>8
  <2>2. \A h \in 1..Height(tip) : Height(Chain[tip][h]) = h
    BY <1>1, ChainFacts
  <2> QED
    BY <1>8, <2>1, <2>2
<1>11. 1 \in 1..Len(apply') /\ Len(apply') \in 1..Len(apply')
  BY <1>2, <1>7, <1>8
<1>12. Level' = c
  <2>1. Height(apply'[1].block) = d + 1 /\ (apply'[1].processed <=> again)
    BY <1>8, <1>10, <1>11
  <2> QED
    BY <1>5, <1>8, <2>1 DEF Level
<1>13. Shape'
  <2>1. base' \in Nat
    BY <1>1, <1>3, <1>5
  <2>2. sdk' # None
    BY <1>1, <1>4, ChainAssumption
  <2>3. TypeOK'
    BY <1>1, <1>4, <2>2 DEF Shape, TypeOK
  <2> QED
    BY <1>1, <1>4, <1>8, <1>9, <2>1, <2>3 DEF Shape
<1>14. TipAhead' /\ ScanRises'
  BY <1>1, <1>4 DEF TipAhead, ScanRises
<1>15. RollBackFalls'
  <2> SUFFICES ASSUME NEW i \in 1..(top - c)
               PROVE  /\ rollback'[i] = rollback'[1] - i + 1
                      /\ ~apply'[1].processed
                      /\ rollback'[top - c] = Height(apply'[1].block)
    BY <1>8, <1>9 DEF RollBackFalls
  <2>1. ~again /\ d = c
    BY <1>2, <1>5, <1>7
  <2>2. 1 \in 1..(top - c) /\ top - c \in 1..(top - c) /\ top - (top - c) + 1 = c + 1
    BY <1>2, <1>5
  <2>3. rollback'[1] = top /\ rollback'[i] = top - i + 1 /\ rollback'[top - c] = c + 1
    BY <1>2, <1>9, <2>2
  <2>4. ~apply'[1].processed /\ Height(apply'[1].block) = c + 1
    BY <1>8, <1>10, <1>11, <2>1
  <2> QED
    BY <2>3, <2>4
<1>16. ApplyRises'
  <2> SUFFICES ASSUME NEW i \in 1..Len(apply')
               PROVE  /\ i > 1 => ~apply'[i].processed
                      /\ Height(apply'[i].block) = Height(apply'[1].block) + i - 1
                      /\ apply'[i].block = Chain[tip][Height(apply'[i].block)]
                      /\ Height(apply'[Len(apply')].block) = Height(tip)
    BY <1>4 DEF ApplyRises
  <2>1. Height(apply'[1].block) = d + 1 /\ Height(apply'[i].block) = d + i
        /\ Height(apply'[Len(apply')].block) = d + Len(apply')
    BY <1>10, <1>11
  <2>2. d + i = d + 1 + i - 1 /\ d + Len(apply') = Height(tip)
    BY <1>2, <1>7, <1>8
  <2>3. i > 1 => ~apply'[i].processed
    BY <1>8
  <2> QED
    BY <1>8, <2>1, <2>2, <2>3
<1>17. UpTo(times, top) /\ base <= top /\ \A h \in (base + 1)..top : At(times, h) = {Chain[sdk][h]}
  BY <1>1 DEF RowsEnd, Followed, Level
<1>18. RowsEnd'
  <2>1. rollback' # <<>> => rollback'[1] = top
    BY <1>2, <1>5, <1>9
  <2>2. rollback' = <<>> => c = top
    BY <1>2, <1>5, <1>9
  <2> QED
    BY <1>1, <1>4, <1>12, <1>17, <2>1, <2>2 DEF RowsEnd, UpTo
<1>19. Followed'
  <2>1. base' <= c
    BY <1>1, <1>3, <1>5
  <2>2. ASSUME NEW h \in (base' + 1)..c
        PROVE  At(times, h) = {Chain[tip][h]}
    <3>1. base' = base /\ h \in (base + 1)..top /\ h \in 1..top /\ h <= c
      BY <1>1, <1>2, <1>3, <1>5
    <3> QED
      BY <1>6, <1>17, <3>1
  <2> QED
    BY <1>4, <1>12, <2>1, <2>2 DEF Followed, At
<1>20. Exact'
  <2> SUFFICES ASSUME dropped = {}, ~skipped
               PROVE  Exact'
    BY <1>4 DEF Exact
  <2>1. /\ \A h \in 1..last : At(times, h) = {Chain[tip][h]}
        /\ last = top
        /\ \A h \in 1..top : Chain[sdk][h] = Chain[tip][h]
    BY <1>1 DEF Exact, Level
  <2>2. c = top
    BY <1>2, <1>5, <1>6, <2>1
  <2>3. rollback' = <<>>
    BY <1>2, <1>9, <2>2
  <2> QED
    BY <1>4, <1>12, <2>1, <2>2, <2>3 DEF Exact, At
<1> QED
  BY <1>4, <1>13, <1>14, <1>15, <1>16, <1>18, <1>19, <1>20 DEF OneEach

-----------------------------------------------------------------------------
(* The theorems *)

LEMMA Invariance == Spec => []IInv
<1>1. IInv /\ [Next]_vars => IInv'
  <2> SUFFICES ASSUME IInv, [Next]_vars
               PROVE  IInv'
    OBVIOUS
  <2>1. CASE Next
    BY <2>1, TipGrows, ScanBegins, ScanGoesOn, ScanEnds, ObserverStarts, TipReported,
       RollsBack, BlockApplied, Restarts DEF Next, Service
  <2>2. CASE UNCHANGED vars
    BY <2>2 DEF vars, tables, message, IInv, Shape, TypeOK, TipAhead, ScanRises,
       RollBackFalls, ApplyRises, OneEach, RowsEnd, UpTo, Followed, At, Exact, Level
  <2> QED
    BY <2>1, <2>2
<1> QED
  BY <1>1, Begins, PTL DEF Spec

\* The scan, the observer's messages and the restarts keep their shape: the scan
\* goes on from last_scanned_height, and that is never above the node's tip.
THEOREM TypeCorrect == Spec => []TypeOK
<1>1. IInv => TypeOK
  BY DEF IInv, Shape
<1> QED
  BY <1>1, Invariance, PTL

\* index_block never adds a block's rows to a height that has rows, whatever the
\* scan, the reorganisations and the stops do before it.
THEOREM HeightsHoldOneBlock == Spec => []OneBlockPerHeight
<1>1. IInv => OneBlockPerHeight
  BY DEF IInv, OneEach, OneBlockPerHeight
<1> QED
  BY <1>1, Invariance, PTL

\* After chainhook_sidecar_mutate_blocks the tables hold the observer's chain
\* from the lowest height it has touched.
THEOREM TablesFollow == Spec => []TablesFollowObserver
<1>1. IInv => TablesFollowObserver
  <2> SUFFICES ASSUME IInv, Settled, NEW h \in (base + 1)..Height(sdk)
               PROVE  RowsAt(h) = {Chain[sdk][h]}
    BY DEF TablesFollowObserver
  <2>1. RowsAt(h) = At(times, h)
    BY DEF RowsAt, At
  <2> QED
    BY <2>1 DEF IInv, Followed, Level, Settled
<1> QED
  BY <1>1, Invariance, PTL

\* On a chain that only grows the tables hold the node's blocks up to
\* last_scanned_height, however often start_service begins again.
THEOREM TablesAreExact == Spec => []TablesExact
<1>1. IInv => TablesExact
  <2> SUFFICES ASSUME IInv, dropped = {}, ~skipped, NEW h \in 1..Height(tip)
               PROVE  RowsAt(h) = IF h <= last THEN {Chain[tip][h]} ELSE {}
    BY DEF TablesExact
  <2>1. RowsAt(h) = At(times, h)
    BY DEF RowsAt, At
  <2>2. last \in Nat /\ h \in Nat /\ h >= 1 /\ \A b \in Blocks : Height(b) \in Nat
    BY ChainFacts DEF IInv, Shape, TypeOK
  <2>3. CASE h <= last
    BY <2>1, <2>2, <2>3 DEF IInv, Exact
  <2>4. CASE h > last
    BY <2>1, <2>2, <2>4 DEF IInv, RowsEnd, UpTo, At
  <2> QED
    BY <2>2, <2>3, <2>4
<1> QED
  BY <1>1, Invariance, PTL

-----------------------------------------------------------------------------
(* The commands: what they leave of it *)

\* What the commands leave of the service's invariant.
AtRest == Shape /\ OneEach(times) /\ UpTo(times, last)

\* The height up to which nothing is missing.
Floor == IF hole = None THEN last ELSE hole - 1

CommandShape ==
    /\ command \in [kind : {"none", "drop", "scan"}, heights : Seq(Nat)]
    /\ command.kind = "none" => command = NoCommand
    /\ hole # None => hole \in 1..last
    /\ cleared \in BOOLEAN
    /\ hole # None \/ command # NoCommand => phase = "start"

Exactly(n) ==
    dropped = {} /\ ~skipped => \A h \in 1..n : At(times, h) = {Chain[tip][h]}

Remaining == Len(command.heights)

\* A drop goes up one by one to last_scanned_height, and what it has passed is gone.
DropRises ==
    command.kind = "drop" =>
        /\ hole # None
        /\ Remaining <= last - hole + 1
        /\ \A i \in 1..Remaining : command.heights[i] = last - Remaining + i
        /\ \A b \in Blocks :
            times[b] > 0 => Height(b) < hole \/ Height(b) > last - Remaining

\* A scan goes up one by one from the first height that is missing.
ScanFills ==
    command.kind = "scan" =>
        /\ hole # None => cleared
        /\ Floor + Remaining <= Height(tip)
        /\ \A i \in 1..Remaining : command.heights[i] = Floor + i

\* A drop that ran to its end has left nothing above the hole.
DropEnds == hole # None /\ cleared => UpTo(times, Floor)

Totals == DOMAIN sums = {h \in 1..Height(tip) : At(times, h) # {}}

SumsCount ==
    dropped = {} /\ ~skipped => \A h \in DOMAIN sums : h <= Floor => sums[h] = h

MInv ==
    /\ AtRest /\ CommandShape /\ Exactly(Floor)
    /\ hole = None => IInv
    /\ DropRises /\ ScanFills /\ DropEnds
    /\ Totals /\ SumsCount

-----------------------------------------------------------------------------
(* The running totals *)

\* A step that adds no rows keeps the totals of the heights that still have rows.
LEMMA TotalsStay ==
  ASSUME Totals, SumsFollow, NEW new, new = times',
         \A b \in Blocks : times[b] \in Nat /\ new[b] \in Nat /\ new[b] <= times[b],
         UpTo(times, Height(tip)), Height(tip) \in Nat,
         Height(tip') \in Nat, Height(tip) <= Height(tip')
  PROVE  /\ Totals'
         /\ \A h \in DOMAIN sums' : h \in DOMAIN sums /\ sums'[h] = sums[h]
<1> DEFINE kept == {h \in DOMAIN sums : \E b \in Blocks : Height(b) = h /\ new[b] > 0}
<1>1. \A b \in Blocks : ~(new[b] > times[b])
  OBVIOUS
<1>2. sums' = [h \in kept |-> sums[h]]
  BY <1>1 DEF SumsFollow
<1>3. DOMAIN sums' = kept /\ \A h \in kept : sums'[h] = sums[h]
  BY <1>2
<1>4. kept = {h \in 1..Height(tip') : At(new, h) # {}}
  <2>1. \A b \in Blocks : Height(b) \in Nat /\ (new[b] > 0 => times[b] > 0 /\ Height(b) <= Height(tip))
    BY ChainFacts DEF UpTo
  <2>2. \A h \in DOMAIN sums : h \in 1..Height(tip) /\ h \in 1..Height(tip')
    BY DEF Totals
  <2>3. \A h : (\E b \in Blocks : Height(b) = h /\ new[b] > 0) <=> At(new, h) # {}
    BY DEF At
  <2>4. ASSUME NEW h \in 1..Height(tip'), At(new, h) # {}
        PROVE  h \in DOMAIN sums
    <3>1. PICK b \in Blocks : Height(b) = h /\ new[b] > 0
      BY <2>3, <2>4
    <3>2. b \in At(times, h) /\ h \in 1..Height(tip)
      BY <2>1, <3>1 DEF At
    <3> QED
      BY <3>2 DEF Totals
  <2> QED
    BY <2>2, <2>3, <2>4
<1> QED
  BY <1>3, <1>4 DEF Totals

\* A block that is indexed gets the total in the row of its height.
LEMMA TotalWritten ==
  ASSUME Totals, SumsFollow, NEW b \in Blocks, times \in [Blocks -> Nat],
         NEW new, new = times', new = [times EXCEPT ![b] = @ + 1],
         tip' = tip, tip \in Blocks, Height(b) <= Height(tip)
  PROVE  /\ Totals'
         /\ DOMAIN sums' = DOMAIN sums \cup {Height(b)}
         /\ sums'[Height(b)] = LatestSum + 1
         /\ \A h \in DOMAIN sums : h # Height(b) => sums'[h] = sums[h]
<1>1. /\ new[b] > times[b]
      /\ \A x \in Blocks : x # b => new[x] = times[x]
      /\ new[b] > 0
  OBVIOUS
<1>2. {x \in Blocks : new[x] > times[x]} = {b}
  BY <1>1
<1>3. sums' = SumAt(Height(b))
  BY <1>2 DEF SumsFollow
<1>4. /\ DOMAIN sums' = DOMAIN sums \cup {Height(b)}
      /\ sums'[Height(b)] = LatestSum + 1
      /\ \A h \in DOMAIN sums : h # Height(b) => sums'[h] = sums[h]
  BY <1>3 DEF SumAt
<1>5. Height(b) \in 1..Height(tip) /\ Height(tip) \in Nat
  BY ChainFacts
<1>6. \A h : h # Height(b) => At(new, h) = At(times, h)
  BY <1>1 DEF At
<1>7. b \in At(new, Height(b))
  BY <1>1 DEF At
<1>8. Totals'
  BY <1>4, <1>5, <1>6, <1>7 DEF Totals
<1> QED
  BY <1>4, <1>8

\* With a row at every height up to n and none above, the last total is that of n.
LEMMA LatestIs ==
  ASSUME NEW n \in Nat, DOMAIN sums = 1..n, \A h \in 1..n : sums[h] = h
  PROVE  LatestSum = n
<1>1. CASE n = 0
  BY <1>1 DEF LatestSum
<1>2. CASE n # 0
  <2>1. n \in 1..n /\ \A y \in 1..n : n >= y
    BY <1>2
  <2>2. Max(1..n) = n
    <3>1. Max(1..n) \in 1..n /\ \A y \in 1..n : Max(1..n) >= y
      BY <2>1 DEF Max
    <3> QED
      BY <2>1, <3>1
  <2> QED
    BY <2>1, <2>2 DEF LatestSum
<1> QED
  BY <1>1, <1>2

LEMMA RowsBelow ==
  ASSUME Totals, NEW n \in Nat, n <= Height(tip), Height(tip) \in Nat, UpTo(times, n),
         \A h \in 1..n : At(times, h) # {}
  PROVE  DOMAIN sums = 1..n
<1>1. \A h \in 1..Height(tip) : At(times, h) # {} => h \in 1..n
  BY DEF At, UpTo
<1> QED
  BY <1>1 DEF Totals

\* The next block of an exact table adds one to a total that counts each block once.
LEMMA CountGoesOn ==
  ASSUME NEW n \in Nat, NEW b \in Blocks, Height(b) = n + 1, Height(b) <= Height(tip),
         Totals, SumsFollow, times \in [Blocks -> Nat],
         times' = [times EXCEPT ![b] = @ + 1], tip' = tip, tip \in Blocks,
         UpTo(times, n), \A h \in 1..n : At(times, h) # {},
         \A h \in DOMAIN sums : h <= n => sums[h] = h
  PROVE  \A h \in DOMAIN sums' : sums'[h] = h
<1>1. Height(tip) \in Nat /\ n <= Height(tip)
  BY ChainFacts
<1>2. DOMAIN sums = 1..n
  BY <1>1, RowsBelow
<1>3. LatestSum = n
  BY <1>2, LatestIs
<1>4. /\ DOMAIN sums' = DOMAIN sums \cup {Height(b)}
      /\ sums'[Height(b)] = LatestSum + 1
      /\ \A h \in DOMAIN sums : h # Height(b) => sums'[h] = sums[h]
  BY TotalWritten
<1> QED
  BY <1>2, <1>3, <1>4

-----------------------------------------------------------------------------
(* Between the commands and the service *)

LEMMA RestFacts ==
  ASSUME AtRest
  PROVE  /\ tip \in Blocks /\ Height(tip) \in Nat
         /\ last \in Nat /\ last <= Height(tip)
         /\ times \in [Blocks -> Nat]
         /\ UpTo(times, Height(tip))
<1>1. tip \in Blocks /\ last \in 0..Height(tip) /\ times \in [Blocks -> Nat]
  BY DEF AtRest, Shape, TypeOK
<1>2. \A b \in Blocks : Height(b) \in Nat
  BY ChainFacts
<1> QED
  BY <1>1, <1>2 DEF AtRest, UpTo

LEMMA FloorFacts ==
  ASSUME AtRest, CommandShape
  PROVE  /\ Floor \in Nat /\ Floor <= last
         /\ hole # None => hole \in Nat /\ Floor + 1 = hole
<1>1. last \in Nat
  BY RestFacts
<1>2. hole = None => Floor = last
  BY DEF Floor
<1>3. hole # None => hole \in 1..last /\ Floor = hole - 1
  BY DEF CommandShape, Floor
<1> QED
  BY <1>1, <1>2, <1>3

\* While nothing is missing and the service is stopped, tables that are exact as
\* far as they go are all that its invariant asks for.
LEMMA ServiceMayStart ==
  ASSUME AtRest', (phase = "start")', Exactly(last)'
  PROVE  IInv'
<1>1. /\ todo' = <<>> /\ rollback' = <<>> /\ apply' = <<>> /\ sdk' = None
      /\ last' \in 0..Height(tip') /\ tip' \in Blocks
  BY DEF AtRest, Shape, TypeOK
<1>2. Height(tip') \in Nat
  BY <1>1, ChainFacts
<1> QED
  BY <1>1, <1>2 DEF AtRest, Exactly, IInv, TipAhead, ScanRises, RollBackFalls, ApplyRises,
     RowsEnd, Followed, Exact

LEMMA MaintenanceBegins == InitMaintenance => MInv
<1> SUFFICES ASSUME InitMaintenance
             PROVE  MInv
  OBVIOUS
<1>1. IInv /\ hole = None /\ command = NoCommand /\ sums = <<>> /\ cleared = FALSE
  BY Begins DEF InitMaintenance
<1>2. \A b \in Blocks : times[b] = 0
  BY DEF InitMaintenance, Init
<1>3. AtRest /\ CommandShape
  <2>1. AtRest
    BY <1>1 DEF IInv, AtRest, RowsEnd
  <2>2. <<>> \in Seq(Nat)
    OBVIOUS
  <2>3. command \in [kind : {"none", "drop", "scan"}, heights : Seq(Nat)]
    BY <1>1, <2>2 DEF NoCommand
  <2> QED
    BY <1>1, <2>1, <2>3 DEF CommandShape
<1>4. Exactly(Floor)
  BY <1>1 DEF IInv, Exact, Exactly, Floor
<1>5. \A h : At(times, h) = {}
  BY <1>2 DEF At
<1>6. DOMAIN sums = {}
  BY <1>1
<1> QED
  BY <1>1, <1>3, <1>4, <1>5, <1>6
     DEF MInv, NoCommand, DropRises, ScanFills, DropEnds, Totals, SumsCount

LEMMA MineStep ==
  ASSUME MInv, Mine
  PROVE  MInv'
<1> PICK b \in Blocks : NewTip(b)
  BY DEF Mine
<1>1. /\ UNCHANGED <<last, times, phase, todo, sdk, rollback, apply, base, skipped, sums,
                     command, hole, cleared>>
      /\ tip' = b /\ Height(b) > Height(tip)
      /\ dropped' = dropped \cup (ToSet(Chain[tip]) \ ToSet(Chain[b]))
      /\ ToSet(Chain[b]) \cap dropped = {}
  BY DEF NewTip, Mine, tables, message, maintenance
<1>2. /\ AtRest /\ CommandShape
      /\ tip \in Blocks /\ Height(tip) \in Nat /\ Height(b) \in Nat
      /\ last \in Nat /\ last <= Height(tip) /\ UpTo(times, Height(tip))
  BY RestFacts, ChainFacts DEF MInv
<1>3. AtRest'
  <2>1. Chain[b][Height(b)] = b /\ Height(b) \in DOMAIN Chain[b]
    BY ChainFacts DEF Height
  <2>2. b \in ToSet(Chain[b])
    BY <2>1 DEF ToSet
  <2>3. ToSet(Chain[tip]) \subseteq Blocks
    BY <1>2, ChainFacts DEF ToSet, Height
  <2>4. Shape'
    BY <1>1, <1>2, <2>2, <2>3 DEF AtRest, Shape, TypeOK
  <2> QED
    BY <1>1, <1>2, <2>4 DEF AtRest, OneEach, UpTo
<1>4. CommandShape'
  BY <1>1, <1>2 DEF CommandShape, NoCommand
<1>5. Floor' = Floor /\ Floor \in Nat /\ Floor <= Height(tip)
  BY <1>1, <1>2, FloorFacts DEF Floor
<1>6. Exactly(Floor)'
  <2> SUFFICES ASSUME dropped' = {}, ~skipped, NEW h \in 1..Floor
               PROVE  At(times, h) = {Chain[b][h]}
    BY <1>1, <1>5 DEF Exactly, At
  <2>1. dropped = {} /\ ToSet(Chain[tip]) \subseteq ToSet(Chain[b])
    BY <1>1
  <2>2. Chain[tip][h] \in ToSet(Chain[tip]) /\ Height(Chain[tip][h]) = h
    BY <1>2, <1>5, ChainFacts DEF ToSet, Height
  <2>3. Chain[b][h] = Chain[tip][h]
    BY <2>1, <2>2, InChain
  <2> QED
    BY <2>1, <2>3 DEF MInv, Exactly
<1>7. hole' = None => IInv'
  BY <1>1, TipGrows DEF MInv
<1>8. DropRises' /\ ScanFills' /\ DropEnds'
  <2>1. Remaining' = Remaining /\ Remaining \in Nat
    BY <1>1, <1>2 DEF Remaining, CommandShape
  <2>2. DropRises'
    BY <1>1, <2>1 DEF MInv, DropRises
  <2>3. ScanFills'
    BY <1>1, <1>2, <1>5, <2>1 DEF MInv, ScanFills
  <2>4. DropEnds'
    BY <1>1, <1>5 DEF MInv, DropEnds, UpTo
  <2> QED
    BY <2>2, <2>3, <2>4
<1>9. Totals'
  BY <1>1, <1>2 DEF MInv, Totals, At, UpTo
<1>10. SumsCount'
  BY <1>1, <1>5 DEF MInv, SumsCount
<1> QED
  BY <1>3, <1>4, <1>6, <1>7, <1>8, <1>9, <1>10 DEF MInv

-----------------------------------------------------------------------------
(* The commands *)

LEMMA StayAtRest ==
  ASSUME MInv, UNCHANGED <<tip, dropped, last, times, phase, todo, sdk, rollback, apply,
                           base, skipped>>
  PROVE  /\ AtRest' /\ UpTo(times, last)'
         /\ \A n : Exactly(n) => Exactly(n)'
         /\ IInv => IInv'
         /\ \A h : At(times', h) = At(times, h)
<1>1. AtRest' /\ UpTo(times, last)'
  BY DEF MInv, AtRest, Shape, TypeOK, OneEach, UpTo
<1>2. \A h : At(times', h) = At(times, h)
  BY DEF At
<1>3. \A n : Exactly(n) => Exactly(n)'
  BY <1>2 DEF Exactly
<1>4. IInv => IInv'
  BY <1>2 DEF IInv, Shape, TypeOK, TipAhead, ScanRises, RollBackFalls, ApplyRises, OneEach,
     RowsEnd, UpTo, Followed, At, Exact, Level
<1> QED
  BY <1>1, <1>2, <1>3, <1>4

LEMMA DropStarts ==
  ASSUME MInv, StartDrop
  PROVE  MInv'
<1>1. PICK from \in 1..last :
        /\ hole # None => from <= hole
        /\ hole' = from
        /\ command' = [kind |-> "drop", heights |-> Heights(from, last)]
  BY DEF StartDrop, DropHeights
<1>2. /\ UNCHANGED <<tip, dropped, last, times, phase, todo, sdk, rollback, apply, base,
                     skipped, sums>>
      /\ phase = "start" /\ cleared' = FALSE
  BY DEF StartDrop, Idle, vars, tables, message
<1>3. /\ last \in Nat /\ AtRest /\ CommandShape /\ Floor \in Nat /\ Floor <= last
      /\ hole # None => hole \in Nat /\ Floor + 1 = hole
  BY RestFacts, FloorFacts DEF MInv
<1>4. /\ hole' # None /\ hole' = from /\ from \in Nat /\ from - 1 \in Nat
      /\ from <= last /\ Floor' = from - 1 /\ from - 1 <= Floor
  <2>1. from \in Nat /\ from <= last /\ from - 1 \in Nat
    BY <1>3
  <2>2. hole' # None
    BY <1>1, <2>1, NoneAssumption
  <2>3. Floor' = from - 1
    BY <1>1, <2>2 DEF Floor
  <2>4. hole = None => Floor = last
    BY DEF Floor
  <2> QED
    BY <1>1, <1>3, <2>1, <2>2, <2>3, <2>4
<1>5. /\ command'.kind = "drop" /\ command' # NoCommand
      /\ command'.heights \in Seq(Nat)
      /\ Remaining' = last - from + 1
      /\ \A i \in 1..Remaining' : command'.heights[i] = from - 1 + i
  <2> DEFINE low == from - 1
  <2>1. low \in Nat /\ low + 1 = from /\ low <= last
    BY <1>3, <1>4
  <2>2. Heights(from, last) = Heights(low + 1, last)
    BY <2>1
  <2>3. command'.kind = "drop" /\ command'.heights = Heights(low + 1, last)
    BY <1>1, <2>2
  <2> HIDE DEF low
  <2>4. /\ command'.heights \in Seq(Nat) /\ Len(command'.heights) = last - low
        /\ \A i \in 1..(last - low) : command'.heights[i] = low + i
    BY <1>3, <2>1, <2>3, HeightsRise
  <2>5. last - low = last - from + 1
    BY <1>3, <1>4, <2>1
  <2>6. low = from - 1
    BY DEF low
  <2> QED
    BY <2>3, <2>4, <2>5, <2>6 DEF Remaining, NoCommand
<1>6. AtRest' /\ Exactly(Floor)' /\ Totals'
  <2>1. Exactly(Floor)'
    BY <1>2, <1>3, <1>4 DEF MInv, Exactly, At
  <2>2. Totals'
    BY <1>2 DEF MInv, Totals, At
  <2> QED
    BY <1>2, <2>1, <2>2, StayAtRest
<1>7. CommandShape'
  <2>1. command' \in [kind : {"none", "drop", "scan"}, heights : Seq(Nat)]
    BY <1>1, <1>5
  <2>2. hole' \in 1..last'
    BY <1>1, <1>2
  <2> QED
    BY <1>2, <1>5, <2>1, <2>2 DEF CommandShape
<1>8. DropRises'
  <2>0. Remaining' <= last - from + 1 /\ last - Remaining' = from - 1
    BY <1>3, <1>4, <1>5
  <2>1. /\ Remaining' <= last - from + 1
        /\ \A i \in 1..Remaining' : command'.heights[i] = last - Remaining' + i
    BY <1>5, <2>0
  <2>2. \A b \in Blocks : Height(b) \in Nat
    BY ChainFacts
  <2>3. \A b \in Blocks : Height(b) < from \/ Height(b) > last - Remaining'
    BY <1>3, <1>4, <1>5, <2>2
  <2> QED
    BY <1>1, <1>2, <1>4, <2>1, <2>3 DEF DropRises
<1>9. ScanFills' /\ DropEnds'
  BY <1>2, <1>5 DEF ScanFills, DropEnds
<1>10. SumsCount'
  <2>1. \A h \in DOMAIN sums : h \in Nat
    BY DEF MInv, Totals
  <2> QED
    BY <1>2, <1>3, <1>4, <2>1 DEF MInv, SumsCount
<1> QED
  BY <1>4, <1>6, <1>7, <1>8, <1>9, <1>10 DEF MInv

\* Heights named in either order are scanned from the lowest on.
LEMMA ScannedInOrder ==
  ASSUME NEW low \in Nat, NEW high \in Nat, low <= high, NEW sorted,
         NEW given \in {Heights(low + 1, high), Reverse(Heights(low + 1, high))},
         sorted = ScanHeights(given)
  PROVE  /\ sorted \in Seq(Nat)
         /\ Len(sorted) = high - low
         /\ \A i \in 1..(high - low) : sorted[i] = low + i
<1> DEFINE k == high - low
<1>0. /\ k \in Nat /\ given \in Seq(Nat) /\ Len(given) = k
      /\ \/ \A i \in 1..k : given[i] = low + i
         \/ \A i \in 1..k : given[i] = high - i + 1
  <2>1. CASE given = Heights(low + 1, high)
    BY <2>1, HeightsRise, SMTT(30)
  <2>2. CASE given = Reverse(Heights(low + 1, high))
    <3>1. /\ given \in Seq(Nat) /\ Len(given) = high - low
          /\ \A i \in 1..(high - low) : given[i] = high - i + 1
      BY <2>2, Reversed, Zenon
    <3>2. high - low \in Nat
      OBVIOUS
    <3> QED
      BY <3>1, <3>2, Zenon
  <2> QED
    BY <2>1, <2>2
<1> DEFINE heights == ToSet(given)
           Below(h) == {g \in heights : g <= h}
           At_(i) == CHOOSE h \in heights : Cardinality(Below(h)) = i
<1>1. DOMAIN given = 1..k
  BY <1>0
<1>2. heights = (low + 1)..high
  <2>1. ASSUME NEW h \in (low + 1)..high
        PROVE  \E i \in 1..k : given[i] = h
    <3>1. CASE \A i \in 1..k : given[i] = low + i
      <4>1. h - low \in 1..k /\ low + (h - low) = h
        OBVIOUS
      <4> QED
        BY <3>1, <4>1
    <3>2. CASE \A i \in 1..k : given[i] = high - i + 1
      <4>1. high - h + 1 \in 1..k /\ high - (high - h + 1) + 1 = h
        OBVIOUS
      <4> QED
        BY <3>2, <4>1
    <3> QED
      BY <1>0, <3>1, <3>2
  <2>2. \A i \in 1..k : low + i \in (low + 1)..high /\ high - i + 1 \in (low + 1)..high
    OBVIOUS
  <2>3. \A i \in 1..k : given[i] \in (low + 1)..high
    BY <1>0, <2>2
  <2> QED
    BY <1>1, <2>1, <2>3 DEF ToSet
<1> HIDE DEF heights
<1>3. ASSUME NEW h \in heights
      PROVE  Cardinality(Below(h)) = h - low
  <2>1. Below(h) = (low + 1)..h
    BY <1>2
  <2>2. h \in Int /\ low + 1 \in Int /\ h >= low + 1
    BY <1>2
  <2>3. Cardinality((low + 1)..h) = h - (low + 1) + 1
    BY <2>2, FS_Interval
  <2> HIDE DEF Below
  <2> QED
    BY <2>1, <2>2, <2>3
<1> HIDE DEF Below
<1>4. ASSUME NEW i \in 1..k
      PROVE  At_(i) = low + i
  <2>1. low + i \in heights /\ Cardinality(Below(low + i)) = i
    BY <1>2, <1>3
  <2>2. At_(i) \in heights /\ Cardinality(Below(At_(i))) = i
    BY <2>1
  <2> HIDE DEF At_
  <2>3. Cardinality(Below(At_(i))) = At_(i) - low
    BY <1>3, <2>2
  <2>4. At_(i) \in Int
    BY <1>2, <2>2
  <2> QED
    BY <2>2, <2>3, <2>4
<1>5. ScanHeights(given) = [i \in 1..k |-> At_(i)]
  BY <1>1 DEF ScanHeights, heights, Below
<1> HIDE DEF At_
<1>6. \A i \in 1..k : At_(i) \in Nat
  BY <1>4
<1>7. sorted \in [1..k -> Nat] /\ \A i \in 1..k : sorted[i] = At_(i)
  BY <1>5, <1>6
<1> QED
  BY <1>0, <1>4, <1>7, IsSequence

LEMMA ScanStarts ==
  ASSUME MInv, StartScan
  PROVE  MInv'
<1>1. /\ UNCHANGED <<tip, dropped, last, times, phase, todo, sdk, rollback, apply, base,
                     skipped, sums, hole, cleared>>
      /\ phase = "start" /\ command = NoCommand
      /\ hole # None => cleared
  BY DEF StartScan, Idle, vars, tables, message
<1>2. /\ last \in Nat /\ AtRest /\ CommandShape /\ Floor \in Nat /\ Floor <= last
      /\ Height(tip) \in Nat
      /\ hole # None => hole \in Nat /\ Floor + 1 = hole
  BY RestFacts, FloorFacts DEF MInv
<1>3. PICK to \in (Floor + 1)..Height(tip) :
        \E given \in {Heights(Floor + 1, to), Reverse(Heights(Floor + 1, to))} :
            command' = [kind |-> "scan", heights |-> ScanHeights(given)]
  <2>1. (IF hole = None THEN last + 1 ELSE hole) = Floor + 1
    BY <1>2 DEF Floor
  <2> QED
    BY <2>1 DEF StartScan
<1>4. to \in Nat /\ Floor <= to /\ to <= Height(tip)
  BY <1>2
<1>5. /\ command'.kind = "scan" /\ command' # NoCommand
      /\ command'.heights \in Seq(Nat)
      /\ Remaining' = to - Floor
      /\ \A i \in 1..Remaining' : command'.heights[i] = Floor + i
  <2> PICK given \in {Heights(Floor + 1, to), Reverse(Heights(Floor + 1, to))} :
             command' = [kind |-> "scan", heights |-> ScanHeights(given)]
    BY <1>3
  <2>1. command'.kind = "scan" /\ command'.heights = ScanHeights(given)
    OBVIOUS
  <2> HIDE DEF Floor
  <2>2. /\ command'.heights \in Seq(Nat)
        /\ Len(command'.heights) = to - Floor
        /\ \A i \in 1..(to - Floor) : command'.heights[i] = Floor + i
    <3>1. Floor \in Nat /\ to \in Nat /\ Floor <= to
      BY <1>2, <1>4
    <3> QED
      BY <2>1, <3>1, ScannedInOrder, Zenon
  <2> QED
    BY <2>1, <2>2 DEF Remaining, NoCommand
<1>6. Floor' = Floor
  BY <1>1 DEF Floor
<1>7. AtRest' /\ Exactly(Floor)' /\ Totals'
  <2>1. Exactly(Floor)'
    BY <1>1, <1>6 DEF MInv, Exactly, At
  <2>2. Totals'
    BY <1>1 DEF MInv, Totals, At
  <2> QED
    BY <1>1, <2>1, <2>2, StayAtRest
<1>8. CommandShape'
  <2>1. command' \in [kind : {"none", "drop", "scan"}, heights : Seq(Nat)]
    BY <1>3, <1>5
  <2> QED
    BY <1>1, <1>2, <1>5, <2>1 DEF CommandShape
<1>9. hole' = None => IInv'
  BY <1>1, StayAtRest DEF MInv
<1>10. DropRises'
  BY <1>5 DEF DropRises
<1>11. ScanFills'
  BY <1>1, <1>2, <1>4, <1>5, <1>6 DEF ScanFills
<1>12. DropEnds'
  BY <1>1, <1>6 DEF MInv, DropEnds, UpTo
<1>13. SumsCount'
  BY <1>1, <1>6 DEF MInv, SumsCount
<1> QED
  BY <1>7, <1>8, <1>9, <1>10, <1>11, <1>12, <1>13 DEF MInv

LEMMA CommandGoesOn ==
  ASSUME MInv, Advance
  PROVE  /\ phase = "start" /\ command # NoCommand
         /\ UNCHANGED <<tip, dropped, phase, todo, sdk, rollback, apply, base, skipped,
                        cleared>>
         /\ Remaining \in Nat /\ Remaining > 0 /\ NextHeight = command.heights[1]
         /\ command' \in [kind : {"none", "drop", "scan"}, heights : Seq(Nat)]
         /\ command'.kind = command.kind
         /\ Remaining' = Remaining - 1
         /\ \A i \in 1..Remaining' :
              i + 1 \in 1..Remaining /\ command'.heights[i] = command.heights[i + 1]
<1>1. /\ command \in [kind : {"none", "drop", "scan"}, heights : Seq(Nat)]
      /\ command # NoCommand => phase = "start"
  BY DEF MInv, CommandShape
<1> DEFINE s == command.heights
<1>2. s \in Seq(Nat) /\ s # <<>> /\ command' = [command EXCEPT !.heights = Tail(s)]
  BY <1>1 DEF Advance
<1>3. command'.kind = command.kind /\ command'.heights = Tail(s)
      /\ command' \in [kind : {"none", "drop", "scan"}, heights : Seq(Nat)]
  <2>1. Tail(s) \in Seq(Nat)
    BY <1>2
  <2> QED
    BY <1>1, <1>2, <2>1
<1>4. command # NoCommand
  BY <1>2 DEF NoCommand
<1>5. Len(s) \in Nat /\ Len(s) > 0 /\ Head(s) = s[1] /\ Len(Tail(s)) = Len(s) - 1
      /\ \A i \in 1..(Len(s) - 1) : i + 1 \in 1..Len(s) /\ Tail(s)[i] = s[i + 1]
  BY <1>2
<1>6. UNCHANGED <<tip, dropped, phase, todo, sdk, rollback, apply, base, skipped, cleared>>
  BY DEF Advance, message
<1> QED
  BY <1>1, <1>3, <1>4, <1>5, <1>6 DEF Remaining, NextHeight

LEMMA DropGoesOn ==
  ASSUME MInv, DropNext
  PROVE  MInv'
<1> DEFINE n == Remaining
<1> DEFINE h == last - n + 1
<1>1. Advance /\ SumsFollow /\ command.kind = "drop" /\ hole' = hole
  BY DEF DropNext
<1>2. /\ phase = "start" /\ command # NoCommand
      /\ UNCHANGED <<tip, dropped, phase, todo, sdk, rollback, apply, base, skipped,
                     cleared>>
      /\ n \in Nat /\ n > 0 /\ NextHeight = command.heights[1]
      /\ command' \in [kind : {"none", "drop", "scan"}, heights : Seq(Nat)]
      /\ command'.kind = "drop"
      /\ Remaining' = n - 1
      /\ \A i \in 1..(n - 1) :
           i + 1 \in 1..n /\ command'.heights[i] = command.heights[i + 1]
  BY <1>1, CommandGoesOn
<1>3. /\ last \in Nat /\ last <= Height(tip) /\ AtRest /\ CommandShape
      /\ Height(tip) \in Nat /\ tip \in Blocks
      /\ times \in [Blocks -> Nat] /\ UpTo(times, last) /\ UpTo(times, Height(tip))
      /\ OneEach(times)
  BY RestFacts DEF MInv, AtRest
<1>4. /\ hole # None /\ hole \in Nat /\ hole \in 1..last /\ Floor = hole - 1 /\ n <= last - hole + 1
      /\ \A i \in 1..n : command.heights[i] = last - n + i
      /\ \A b \in Blocks : times[b] > 0 => Height(b) < hole \/ Height(b) > last - n
  BY <1>1, <1>3, FloorFacts DEF MInv, DropRises, CommandShape, Floor
<1>5. NextHeight = h /\ h \in Nat /\ h >= hole
  <2>1. 1 \in 1..n
    BY <1>2
  <2>2. command.heights[1] = last - n + 1
    BY <1>4, <2>1
  <2>3. h \in Nat /\ h >= hole
    BY <1>2, <1>3, <1>4
  <2> QED
    BY <1>2, <2>2, <2>3
<1>6. times' = [b \in Blocks |-> IF Height(b) = h THEN 0 ELSE times[b]] /\ last' = last
  BY <1>5 DEF DropNext, RollBackBlock
<1>7. /\ times' \in [Blocks -> Nat]
      /\ \A b \in Blocks : times'[b] = IF Height(b) = h THEN 0 ELSE times[b]
      /\ \A b \in Blocks : Height(b) \in Nat
  BY <1>3, <1>6, ChainFacts
<1> HIDE DEF h, n
<1>8. /\ OneEach(times')
      /\ UpTo(times', last)
      /\ \A k \in Int : k # h => At(times', k) = At(times, k)
  BY <1>3, <1>5, <1>7, RollBackRows
<1>9. AtRest'
  <2>1. Shape'
    BY <1>2, <1>3, <1>6, <1>7 DEF AtRest, Shape, TypeOK
  <2> QED
    BY <1>6, <1>8, <2>1 DEF AtRest
<1>10. CommandShape'
  BY <1>1, <1>2, <1>3, <1>6 DEF CommandShape
<1>11. Floor' = Floor /\ Floor < h /\ Floor \in Nat
  BY <1>1, <1>4, <1>5 DEF Floor
<1>12. Exactly(Floor)'
  <2>1. \A k \in 1..Floor : k \in Int /\ k # h
    BY <1>5, <1>11
  <2>2. \A k \in 1..Floor : At(times', k) = At(times, k)
    BY <1>8, <2>1
  <2> QED
    BY <1>2, <1>11, <2>2 DEF MInv, Exactly, At
<1>13. DropRises'
  <2>1. last - n + 1 = h /\ last - (n - 1) = h /\ n - 1 <= last - hole + 1
    BY <1>2, <1>3, <1>4 DEF h
  <2>2. \A i \in 1..(n - 1) : command'.heights[i] = last - (n - 1) + i
    <3>1. ASSUME NEW i \in 1..(n - 1)
          PROVE  command'.heights[i] = last - (n - 1) + i
      <4>1. command'.heights[i] = last - n + (i + 1)
        BY <1>2, <1>4
      <4>2. last - n + (i + 1) = last - (n - 1) + i
        BY <1>2, <1>3
      <4> QED
        BY <4>1, <4>2
    <3> QED
      BY <3>1
  <2>3. \A b \in Blocks : times'[b] > 0 => Height(b) < hole \/ Height(b) > last - (n - 1)
    <3>1. ASSUME NEW b \in Blocks, times'[b] > 0
          PROVE  Height(b) < hole \/ Height(b) > h
      <4>1. Height(b) # h /\ times[b] > 0 /\ Height(b) \in Nat
        BY <1>7, <3>1
      <4>2. Height(b) < hole \/ Height(b) > last - n
        BY <1>4, <4>1
      <4> QED
        BY <1>2, <1>3, <1>5, <2>1, <4>1, <4>2
    <3> QED
      BY <2>1, <3>1
  <2> QED
    BY <1>1, <1>2, <1>4, <1>6, <2>1, <2>2, <2>3 DEF DropRises
<1>14. DropEnds'
  <2> SUFFICES ASSUME cleared PROVE UpTo(times', Floor)
    BY <1>1, <1>2, <1>4, <1>11 DEF DropEnds
  <2> QED
    BY <1>4, <1>7 DEF MInv, DropEnds, UpTo
<1>15. /\ Totals'
       /\ \A k \in DOMAIN sums' : k \in DOMAIN sums /\ sums'[k] = sums[k]
  <2>1. \A b \in Blocks : times[b] \in Nat /\ times'[b] \in Nat /\ times'[b] <= times[b]
    BY <1>3, <1>7
  <2>2. tip' = tip /\ Totals
    BY <1>2 DEF MInv
  <2> QED
    BY <1>1, <1>3, <2>1, <2>2, TotalsStay
<1>16. SumsCount'
  BY <1>2, <1>11, <1>15 DEF MInv, SumsCount
<1> QED
  BY <1>1, <1>2, <1>4, <1>9, <1>10, <1>12, <1>13, <1>14, <1>15, <1>16 DEF MInv, ScanFills

LEMMA FillGoesOn ==
  ASSUME MInv, ScanNext
  PROVE  MInv'
<1> DEFINE n == Remaining
<1> DEFINE h == Floor + 1
<1> DEFINE b == Chain[tip][h]
<1>1. Advance /\ SumsFollow /\ command.kind = "scan" /\ hole' = None
  BY DEF ScanNext
<1>2. /\ phase = "start" /\ command # NoCommand
      /\ UNCHANGED <<tip, dropped, phase, todo, sdk, rollback, apply, base, skipped,
                     cleared>>
      /\ n \in Nat /\ n > 0 /\ NextHeight = command.heights[1]
      /\ command' \in [kind : {"none", "drop", "scan"}, heights : Seq(Nat)]
      /\ command'.kind = "scan"
      /\ Remaining' = n - 1
      /\ \A i \in 1..(n - 1) :
           i + 1 \in 1..n /\ command'.heights[i] = command.heights[i + 1]
  BY <1>1, CommandGoesOn
<1>3. /\ last \in Nat /\ last <= Height(tip) /\ AtRest /\ CommandShape
      /\ Height(tip) \in Nat /\ tip \in Blocks
      /\ times \in [Blocks -> Nat] /\ UpTo(times, last)
      /\ OneEach(times)
      /\ Floor \in Nat /\ Floor <= last
  BY RestFacts, FloorFacts DEF MInv, AtRest
<1>4. /\ Floor + n <= Height(tip)
      /\ \A i \in 1..n : command.heights[i] = Floor + i
      /\ hole # None => cleared
  BY <1>1 DEF MInv, ScanFills
<1>5. UpTo(times, Floor)
  <2>1. CASE hole = None
    BY <1>3, <2>1 DEF Floor
  <2>2. CASE hole # None
    BY <1>4, <2>2 DEF MInv, DropEnds
  <2> QED
    BY <2>1, <2>2
<1> HIDE DEF n
<1>6. NextHeight = h /\ h \in Nat /\ h \in 1..Height(tip)
  <2>1. 1 \in 1..n
    BY <1>2
  <2> QED
    BY <1>2, <1>3, <1>4, <2>1
<1> HIDE DEF h
<1>7. b \in Blocks /\ Height(b) = h
  BY <1>3, <1>6, ChainFacts
<1>8. times' = [times EXCEPT ![b] = @ + 1] /\ last' = h
  BY <1>6, <1>7 DEF ScanNext, IndexBlock
<1>9. Floor' = h /\ h = Floor + 1
  BY <1>1, <1>8 DEF Floor, h
<1>10. /\ times' \in [Blocks -> Nat] /\ OneEach(times') /\ UpTo(times', h)
       /\ At(times', h) = {b}
       /\ \A k \in Int : k # h => At(times', k) = At(times, k)
  <2>1. Height(b) - 1 = Floor
    BY <1>3, <1>7, <1>9
  <2>2. UpTo(times, Height(b) - 1)
    BY <1>5, <2>1
  <2> HIDE DEF b
  <2>3. /\ times' \in [Blocks -> Nat]
        /\ \A x \in Blocks : times'[x] = IF x = b THEN times[x] + 1 ELSE times[x]
    BY <1>3, <1>7, <1>8
  <2>4. /\ OneEach(times') /\ UpTo(times', Height(b))
        /\ At(times', Height(b)) = {b}
        /\ \A k \in Int : k # Height(b) => At(times', k) = At(times, k)
    BY <1>3, <1>7, <2>2, <2>3, IndexRows
  <2> QED
    BY <1>7, <2>3, <2>4
<1>11. AtRest'
  <2>1. Shape'
    BY <1>2, <1>3, <1>6, <1>8, <1>10 DEF AtRest, Shape, TypeOK
  <2> QED
    BY <1>8, <1>10, <2>1 DEF AtRest
<1>12. CommandShape'
  BY <1>1, <1>2, <1>3 DEF CommandShape
<1>13. Exactly(last)'
  <2> SUFFICES ASSUME dropped = {}, ~skipped, NEW k \in 1..h
               PROVE  At(times', k) = {Chain[tip][k]}
    BY <1>2, <1>8 DEF Exactly, At
  <2>1. CASE k = h
    BY <1>10, <2>1
  <2>2. CASE k # h
    <3>1. k \in 1..Floor /\ k \in Int
      BY <1>3, <1>9, <2>2
    <3>2. At(times', k) = At(times, k)
      BY <1>10, <2>2, <3>1
    <3> QED
      BY <3>1, <3>2 DEF MInv, Exactly
  <2> QED
    BY <2>1, <2>2
<1>14. IInv' /\ Exactly(Floor)'
  <2>1. Exactly(Floor)'
    BY <1>8, <1>9, <1>13 DEF Exactly
  <2> QED
    BY <1>2, <1>11, <1>13, <2>1, ServiceMayStart
<1>15. ScanFills'
  <2>1. Floor' + (n - 1) <= Height(tip)
    BY <1>2, <1>3, <1>4, <1>9
  <2>2. ASSUME NEW i \in 1..(n - 1)
        PROVE  command'.heights[i] = Floor' + i
    <3>1. command'.heights[i] = Floor + (i + 1)
      BY <1>2, <1>4
    <3> QED
      BY <1>2, <1>3, <1>9, <3>1
  <2> QED
    BY <1>1, <1>2, <2>1, <2>2 DEF ScanFills
<1>16. DropRises' /\ DropEnds'
  BY <1>1, <1>2 DEF DropRises, DropEnds
<1>17. Height(b) <= Height(tip) /\ Totals
  BY <1>3, <1>6, <1>7 DEF MInv
<1>18. Totals'
  <2> HIDE DEF b
  <2> QED
    BY <1>1, <1>2, <1>3, <1>7, <1>8, <1>17, TotalWritten
<1>19. SumsCount'
  <2> SUFFICES ASSUME dropped = {}, ~skipped
               PROVE  \A k \in DOMAIN sums' : sums'[k] = k
    BY <1>2 DEF SumsCount
  <2>1. \A k \in 1..Floor : At(times, k) # {}
    BY DEF MInv, Exactly
  <2>2. \A k \in DOMAIN sums : k <= Floor => sums[k] = k
    BY DEF MInv, SumsCount
  <2>3. Height(b) = Floor + 1
    BY <1>7, <1>9
  <2> HIDE DEF b, Floor
  <2> QED
    BY <1>1, <1>2, <1>3, <1>5, <1>7, <1>8, <1>17, <2>1, <2>2, <2>3, CountGoesOn
<1> QED
  BY <1>11, <1>12, <1>14, <1>15, <1>16, <1>18, <1>19 DEF MInv

LEMMA CommandEnds ==
  ASSUME MInv, EndCommand
  PROVE  MInv'
<1>1. /\ UNCHANGED <<tip, dropped, last, times, phase, todo, sdk, rollback, apply, base,
                     skipped, sums, hole>>
      /\ command # NoCommand /\ command.heights = <<>>
      /\ command' = NoCommand /\ cleared' = (cleared \/ command.kind = "drop")
  BY DEF EndCommand, vars, tables, message
<1>2. Floor' = Floor /\ CommandShape /\ phase = "start"
  BY <1>1 DEF MInv, Floor, CommandShape
<1>3. AtRest' /\ Exactly(Floor)' /\ Totals' /\ (hole' = None => IInv')
  <2>1. Exactly(Floor)'
    BY <1>1, <1>2 DEF MInv, Exactly, At
  <2>2. Totals'
    BY <1>1 DEF MInv, Totals, At
  <2>3. hole' = None => IInv'
    BY <1>1, StayAtRest DEF MInv
  <2> QED
    BY <1>1, <2>1, <2>2, <2>3, StayAtRest
<1>4. CommandShape'
  <2>1. NoCommand \in [kind : {"none", "drop", "scan"}, heights : Seq(Nat)]
    <3>1. <<>> \in Seq(Nat)
      OBVIOUS
    <3> QED
      BY <3>1 DEF NoCommand
  <2> QED
    BY <1>1, <1>2, <2>1 DEF CommandShape, NoCommand
<1>5. DropRises' /\ ScanFills'
  BY <1>1 DEF DropRises, ScanFills, NoCommand
<1>6. DropEnds'
  <2> SUFFICES ASSUME hole # None, cleared \/ command.kind = "drop"
               PROVE  UpTo(times, Floor)
    BY <1>1, <1>2 DEF DropEnds, UpTo
  <2>1. CASE cleared
    BY <2>1 DEF MInv, DropEnds
  <2>2. CASE command.kind = "drop"
    <3>1. Remaining = 0
      BY <1>1 DEF Remaining
    <3>2. \A b \in Blocks : times[b] > 0 => Height(b) < hole \/ Height(b) > last
      <4>1. \A b \in Blocks :
              times[b] > 0 => Height(b) < hole \/ Height(b) > last - Remaining
        BY <2>2 DEF MInv, DropRises
      <4>2. last - Remaining = last
        BY <3>1, RestFacts DEF MInv
      <4> QED
        BY <4>1, <4>2
    <3>3. \A b \in Blocks : Height(b) \in Nat /\ (times[b] > 0 => Height(b) <= last)
      BY ChainFacts DEF MInv, AtRest, UpTo
    <3>4. last \in Nat /\ hole \in Nat /\ Floor = hole - 1
      BY RestFacts, FloorFacts DEF MInv, Floor
    <3> QED
      BY <3>2, <3>3, <3>4 DEF UpTo
  <2> QED
    BY <2>1, <2>2
<1>7. SumsCount'
  BY <1>1, <1>2 DEF MInv, SumsCount
<1> QED
  BY <1>3, <1>4, <1>5, <1>6, <1>7 DEF MInv

LEMMA CommandStops ==
  ASSUME MInv, StopCommand
  PROVE  MInv'
<1>1. /\ UNCHANGED <<tip, dropped, last, times, phase, todo, sdk, rollback, apply, base,
                     skipped, sums, hole, cleared>>
      /\ command' = NoCommand
  BY DEF StopCommand, tables, message
<1>2. Floor' = Floor /\ CommandShape
  BY <1>1 DEF MInv, Floor
<1>3. AtRest' /\ Exactly(Floor)' /\ Totals' /\ (hole' = None => IInv')
  <2>1. Exactly(Floor)'
    BY <1>1, <1>2 DEF MInv, Exactly, At
  <2>2. Totals'
    BY <1>1 DEF MInv, Totals, At
  <2>3. hole' = None => IInv'
    BY <1>1, StayAtRest DEF MInv
  <2> QED
    BY <1>1, <2>1, <2>2, <2>3, StayAtRest
<1>4. CommandShape'
  <2>1. NoCommand \in [kind : {"none", "drop", "scan"}, heights : Seq(Nat)]
    <3>1. <<>> \in Seq(Nat)
      OBVIOUS
    <3> QED
      BY <3>1 DEF NoCommand
  <2> QED
    BY <1>1, <1>2, <2>1 DEF CommandShape, NoCommand
<1>5. DropRises' /\ ScanFills' /\ DropEnds'
  BY <1>1, <1>2 DEF MInv, DropRises, ScanFills, DropEnds, NoCommand, UpTo
<1>6. SumsCount'
  BY <1>1, <1>2 DEF MInv, SumsCount
<1> QED
  BY <1>3, <1>4, <1>5, <1>6 DEF MInv

-----------------------------------------------------------------------------
(* The service *)

\* A block the service indexes on top of tables that are exact so far.
LEMMA ServiceIndexes ==
  ASSUME MInv, IInv, IInv', hole = None, hole' = None, SumsFollow, tip' = tip, dropped' = dropped,
         skipped' = skipped, NEW b \in Blocks, IndexBlock(b),
         dropped = {} /\ ~skipped => Height(b) = last + 1
  PROVE  Totals' /\ SumsCount'
<1>1. /\ times \in [Blocks -> Nat] /\ tip \in Blocks /\ last \in Nat /\ UpTo(times, last)
      /\ Totals
  BY RestFacts DEF MInv, AtRest
<1>2. times' = [times EXCEPT ![b] = @ + 1] /\ last' = Height(b)
  BY DEF IndexBlock
<1>3. Height(b) <= Height(tip)
  <2>1. last' \in 0..Height(tip')
    BY DEF IInv, Shape, TypeOK
  <2>2. Height(tip) \in Nat
    BY <1>1, ChainFacts
  <2> QED
    BY <1>2, <2>1, <2>2
<1>4. Totals'
  BY <1>1, <1>2, <1>3, TotalWritten
<1>5. SumsCount'
  <2> SUFFICES ASSUME dropped = {}, ~skipped
               PROVE  \A k \in DOMAIN sums' : sums'[k] = k
    BY DEF SumsCount
  <2>1. \A k \in 1..last : At(times, k) # {}
    BY DEF IInv, Exact
  <2>2. \A k \in DOMAIN sums : k <= last => sums[k] = k
    BY DEF MInv, SumsCount, Floor
  <2>3. Height(b) = last + 1
    OBVIOUS
  <2> QED
    BY <1>1, <1>2, <1>3, <2>1, <2>2, <2>3, CountGoesOn
<1> QED
  BY <1>4, <1>5

\* A step of the service that adds no rows.
LEMMA ServiceLeaves ==
  ASSUME MInv, IInv', hole = None, hole' = None, SumsFollow, tip' = tip, dropped' = dropped,
         skipped => skipped', last' = last, skipped \in BOOLEAN, skipped' \in BOOLEAN,
         \A b \in Blocks : times'[b] <= times[b]
  PROVE  Totals' /\ SumsCount'
<1>1. /\ \A b \in Blocks : times[b] \in Nat
      /\ Height(tip) \in Nat /\ UpTo(times, Height(tip)) /\ Totals
  BY RestFacts DEF MInv
<1>2. \A b \in Blocks : times'[b] \in Nat
  BY DEF IInv, Shape, TypeOK
<1>3. Height(tip') \in Nat /\ Height(tip) <= Height(tip')
  BY <1>1
<1>4. /\ Totals'
      /\ \A h \in DOMAIN sums' : h \in DOMAIN sums /\ sums'[h] = sums[h]
  BY <1>1, <1>2, <1>3, TotalsStay
<1>5. Floor' = Floor
  BY DEF Floor
<1> QED
  BY <1>4, <1>5 DEF MInv, SumsCount

LEMMA ServeStep ==
  ASSUME MInv, Serve
  PROVE  MInv'
<1>1. /\ command = NoCommand /\ hole = None /\ SumsFollow
      /\ UNCHANGED <<command, hole, cleared>>
      /\ IInv
  BY DEF Serve, maintenance, MInv
<1>2. IInv'
  BY <1>1, ScanBegins, ScanGoesOn, ScanEnds, ObserverStarts, TipReported, RollsBack,
     BlockApplied, Restarts DEF Serve, Service
<1>3. UNCHANGED <<tip, dropped>>
  BY DEF Serve, Service, ScanBehind, ScanBlock, EndScan, CaughtUp, StartObserver, Observe,
     RollBackNext, MutateNext, Crash
<1>4. Totals' /\ SumsCount'
  <2>1. /\ skipped \in BOOLEAN /\ skipped' \in BOOLEAN /\ tip \in Blocks /\ last \in Nat
        /\ times \in [Blocks -> Nat] /\ todo \in Seq(Nat) /\ apply \in Seq(Step)
    BY <1>1, <1>2, RestFacts DEF MInv, IInv, Shape
  <2>2. CASE ScanBlock
    <3>1. todo # <<>> /\ skipped' = skipped
      BY <2>2 DEF ScanBlock
    <3>2. Head(todo) = last + 1 /\ last + 1 \in 1..Height(tip)
      BY <1>1, <2>1, <3>1, ChainFacts DEF IInv, Shape, TypeOK, ScanRises
    <3>3. Chain[tip][last + 1] \in Blocks /\ Height(Chain[tip][last + 1]) = last + 1
      BY <2>1, <3>2, ChainFacts
    <3>4. IndexBlock(Chain[tip][last + 1])
      BY <2>2, <3>2 DEF ScanBlock
    <3> QED
      BY <1>1, <1>2, <1>3, <3>1, <3>3, <3>4, ServiceIndexes
  <2>3. CASE MutateNext /\ ~Head(apply).processed
    <3>1. /\ apply # <<>> /\ skipped' = skipped /\ phase = "listen"
          /\ IndexBlock(Head(apply).block)
      BY <1>1, <2>3 DEF MutateNext, IInv, Shape, TypeOK
    <3>2. Head(apply) = apply[1] /\ Head(apply) \in Step
      BY <2>1, <3>1
    <3>3. Head(apply).block \in Blocks /\ Height(Head(apply).block) \in Nat
      BY <3>2, ChainFacts DEF Step
    <3>4. dropped = {} /\ ~skipped => Height(Head(apply).block) = last + 1
      BY <1>1, <2>1, <2>3, <3>1, <3>2, <3>3 DEF IInv, Exact, Level
    <3> QED
      BY <1>1, <1>2, <1>3, <3>1, <3>3, <3>4, ServiceIndexes
  <2>4. CASE RollBackNext
    <3>1. last' = last /\ skipped' = skipped
          /\ times' = [b \in Blocks |-> IF Height(b) = Head(rollback) THEN 0 ELSE times[b]]
      BY <2>4 DEF RollBackNext, RollBackBlock
    <3>2. \A b \in Blocks : times'[b] <= times[b]
      BY <2>1, <3>1
    <3> QED
      BY <1>1, <1>2, <1>3, <2>1, <3>1, <3>2, ServiceLeaves
  <2>5. CASE ~ScanBlock /\ ~(MutateNext /\ ~Head(apply).processed) /\ ~RollBackNext
    <3>1. last' = last /\ times' = times
      BY <2>5 DEF Serve, Service, ScanBehind, EndScan, CaughtUp, StartObserver, Observe,
         MutateNext, Crash, tables
    <3>2. skipped => skipped'
      <4>1. CASE StartObserver
        BY <4>1 DEF StartObserver
      <4>2. CASE ~StartObserver
        <5>1. skipped' = skipped
          BY <2>5, <4>2 DEF Serve, Service, ScanBehind, EndScan, CaughtUp, Observe,
             MutateNext, Crash
        <5> QED
          BY <5>1
      <4> QED
        BY <4>1, <4>2
    <3>3. \A b \in Blocks : times'[b] <= times[b]
      BY <2>1, <3>1
    <3> QED
      BY <1>1, <1>2, <1>3, <2>1, <3>1, <3>2, <3>3, ServiceLeaves
  <2> QED
    BY <2>2, <2>3, <2>4, <2>5
<1>5. AtRest' /\ Exactly(Floor)'
  <2>1. Floor' = last'
    BY <1>1 DEF Floor
  <2> QED
    BY <1>2, <2>1 DEF IInv, AtRest, RowsEnd, Exact, Exactly
<1>6. CommandShape'
  BY <1>1 DEF MInv, CommandShape, NoCommand
<1>7. DropRises' /\ ScanFills' /\ DropEnds'
  BY <1>1 DEF DropRises, ScanFills, DropEnds, NoCommand
<1> QED
  BY <1>1, <1>2, <1>4, <1>5, <1>6, <1>7 DEF MInv

-----------------------------------------------------------------------------
(* The theorems *)

LEMMA MaintenanceInvariance == MaintenanceSpec => []MInv
<1>1. MInv /\ [NextMaintenance]_allVars => MInv'
  <2> SUFFICES ASSUME MInv, [NextMaintenance]_allVars
               PROVE  MInv'
    OBVIOUS
  <2>1. CASE NextMaintenance
    BY <2>1, MineStep, ServeStep, DropStarts, ScanStarts, DropGoesOn, FillGoesOn,
       CommandEnds, CommandStops DEF NextMaintenance, Progress
  <2>2. CASE UNCHANGED allVars
    <3>1. UNCHANGED <<tip, dropped, last, times, phase, todo, sdk, rollback, apply, base,
                      skipped, sums, command, hole, cleared>>
      BY <2>2 DEF allVars, vars, tables, message, maintenance
    <3>2. /\ AtRest' /\ (IInv => IInv') /\ Floor' = Floor
          /\ \A h : At(times', h) = At(times, h)
      BY <3>1, StayAtRest DEF Floor
    <3>3. Exactly(Floor)' /\ Totals' /\ SumsCount' /\ (hole' = None => IInv')
      BY <3>1, <3>2 DEF MInv, Exactly, Totals, SumsCount
    <3>4. CommandShape' /\ DropRises' /\ ScanFills' /\ DropEnds'
      BY <3>1, <3>2 DEF MInv, CommandShape, DropRises, ScanFills, DropEnds, Remaining,
         NoCommand, UpTo
    <3> QED
      BY <3>2, <3>3, <3>4 DEF MInv
  <2> QED
    BY <2>1, <2>2
<1> QED
  BY <1>1, MaintenanceBegins, PTL DEF MaintenanceSpec

\* Beside the types of the service: drop_blocks and scan_blocks leave a running total
\* wherever there are rows, and what is missing begins no higher than
\* last_scanned_height. A drop never goes below the first missing height or above
\* last_scanned_height, and a scan goes from the first missing height to the tip.
THEOREM MaintenanceTypeCorrect == MaintenanceSpec => []MaintenanceTypeOK
<1>1. MInv => MaintenanceTypeOK
  <2> SUFFICES ASSUME MInv
               PROVE  MaintenanceTypeOK
    OBVIOUS
  <2>1. TypeOK
    BY DEF MInv, AtRest, Shape
  <2>2. \A h : RowsAt(h) = At(times, h)
    BY DEF RowsAt, At
  <2>3. DOMAIN sums = {h \in 1..Height(tip) : RowsAt(h) # {}}
    BY <2>2 DEF MInv, Totals
  <2>4. /\ DOMAIN command.heights = 1..Remaining /\ Remaining \in Nat
        /\ last \in Nat /\ Height(tip) \in Nat /\ Floor \in Nat
        /\ hole # None => hole \in 1..last
    <3>1. command.heights \in Seq(Nat) /\ (hole # None => hole \in 1..last)
      BY DEF MInv, CommandShape
    <3>2. last \in Nat /\ Height(tip) \in Nat
      BY <2>1, ChainFacts DEF TypeOK
    <3> QED
      BY <3>1, <3>2 DEF Remaining, Floor
  <2>5. ASSUME command.kind = "drop"
        PROVE  /\ hole # None
               /\ \A i \in DOMAIN command.heights : command.heights[i] \in hole..last
    <3>1. /\ hole # None /\ Remaining <= last - hole + 1
          /\ \A i \in 1..Remaining : command.heights[i] = last - Remaining + i
      BY <2>5 DEF MInv, DropRises
    <3> QED
      BY <2>4, <3>1
  <2>6. ASSUME command.kind = "scan"
        PROVE  \A i \in DOMAIN command.heights :
                   command.heights[i] \in (IF hole = None THEN last + 1 ELSE hole)..Height(tip)
    <3>1. /\ Floor + Remaining <= Height(tip)
          /\ \A i \in 1..Remaining : command.heights[i] = Floor + i
      BY <2>6 DEF MInv, ScanFills
    <3>2. Floor + 1 = IF hole = None THEN last + 1 ELSE hole
      BY <2>4 DEF Floor
    <3>3. \A i \in 1..Remaining : command.heights[i] \in (Floor + 1)..Height(tip)
      BY <2>4, <3>1
    <3> QED
      BY <2>4, <3>2, <3>3
  <2> QED
    BY <2>1, <2>3, <2>5, <2>6 DEF MInv, CommandShape, MaintenanceTypeOK
<1> QED
  BY <1>1, MaintenanceInvariance, PTL

\* drop_blocks and scan_blocks, stopped wherever it may be and begun again as often
\* as the operator likes, put back exactly the blocks they took out.
THEOREM MaintenanceIsExact == MaintenanceSpec => []MaintenanceExact
<1>1. MInv => MaintenanceExact
  <2> SUFFICES ASSUME MInv, hole = None, dropped = {}, ~skipped, NEW h \in 1..Height(tip)
               PROVE  RowsAt(h) = IF h <= last THEN {Chain[tip][h]} ELSE {}
    BY DEF MaintenanceExact, TablesExact
  <2>1. RowsAt(h) = At(times, h)
    BY DEF RowsAt, At
  <2>2. last \in Nat /\ Floor = last /\ h \in Nat /\ h >= 1
    BY RestFacts DEF MInv, Floor
  <2>3. CASE h <= last
    BY <2>1, <2>2, <2>3 DEF MInv, Exactly
  <2>4. CASE h > last
    BY <2>1, <2>2, <2>4 DEF MInv, AtRest, UpTo, At
  <2> QED
    BY <2>2, <2>3, <2>4
<1> QED
  BY <1>1, MaintenanceInvariance, PTL

\* The running total insert_supply_changes adds to is that of the block below, so
\* every height counts each block once, whatever was dropped and scanned again.
THEOREM SumsAreExact == MaintenanceSpec => []SumsExact
<1>1. MInv => SumsExact
  <2> SUFFICES ASSUME MInv, hole = None, dropped = {}, ~skipped, NEW h \in DOMAIN sums
               PROVE  sums[h] = h
    BY DEF SumsExact
  <2>1. last \in Nat /\ Floor = last /\ UpTo(times, last)
    BY RestFacts DEF MInv, AtRest, Floor
  <2>2. h \in Nat /\ At(times, h) # {}
    BY DEF MInv, Totals
  <2>3. h <= last
    BY <2>1, <2>2 DEF UpTo, At
  <2> QED
    BY <2>1, <2>3 DEF MInv, SumsCount
<1> QED
  BY <1>1, MaintenanceInvariance, PTL

\* Nor do the commands ever put a second block's rows at a height: a scan indexes
\* only heights that hold none.
THEOREM MaintenanceHoldsOneBlock == MaintenanceSpec => []OneBlockPerHeight
<1>1. MInv => OneBlockPerHeight
  BY DEF MInv, AtRest, OneEach, OneBlockPerHeight
<1> QED
  BY <1>1, MaintenanceInvariance, PTL
=============================================================================
