------------------------ MODULE TransactionIndexerProofs ------------------------
(***************************************************************************)
(* Theorems about TransactionIndexer, for every layout of inputs and       *)
(* outputs, every runestone and every number of edicts: types, that no     *)
(* unit is made up, that senders pay for exactly what left their inputs,   *)
(* and that a cenotaph burns all; and about the forecast of a pending      *)
(* transaction that MempoolForecast puts beside it.                        *)
(*                                                                         *)
(* Each operation of index_block either moves runes (Settled, a lemma of   *)
(* TransactionCacheProofs for each of them) or enters an amount and one    *)
(* ledger entry (Entered). The invariant is what the ledger so far and the *)
(* input runes say together; both kinds of step keep it.                   *)
(***************************************************************************)
EXTENDS MempoolForecast, TransactionCacheProofs, TLAPS

-----------------------------------------------------------------------------
(* The addresses and places of the ledger *)

Holders ==
    UNION {UNION {{in[r][i].address : i \in DOMAIN in[r]} : r \in DOMAIN in} :
              in \in InputChoices}

Receivers == UNION {{out.outputs[o] : o \in DOMAIN out.outputs} : out \in OutputChoices}

Addresses == {None} \cup Holders \cup Receivers

InOrder(outputs) == SetToSortSeq(DOMAIN outputs, <)

\* What an entry may name as its output.
Places ==
    Optional(Nat) \cup UNION {{InOrder(out.outputs)[k] : k \in Nat} : out \in OutputChoices}

Written == Logs(Location, Addresses, Places)

\* What the entries of l put into outputs or burn of a rune, and charge a sender for.
PaidFor(l, r) == Paid(l, PaidOut(Written, r))
ChargedTo(l, r, a) == Paid(l, Charged(Written, r, a))

\* The least of a set of naturals.
LEMMA MinNatural ==
    ASSUME NEW T, T \subseteq Nat, T # {}
    PROVE  Min(T) \in T
<1>1. \E n \in T : \A m \in T : n <= m
  BY LeastNatural
<1> QED
  BY <1>1 DEF Min

LEMMA InputsAreDeques ==
    \A in \in InputChoices :
        /\ in \in [RuneKeys -> Deques(Addresses)]
        /\ \A r \in RuneKeys : Orderly(in[r])
<1> SUFFICES ASSUME NEW in \in InputChoices
             PROVE  /\ in \in [RuneKeys -> Deques(Addresses)]
                    /\ \A r \in RuneKeys : Orderly(in[r])
  OBVIOUS
<1> DEFINE B == [address : Holders \ {None}, amount : Nat \ {0}]
           D == [address : Addresses, amount : Nat]
<1>1. in \in [RuneKeys -> Seq(B)]
  BY InputsAssumption DEF InputsAssumption, Holders
<1>2. \A b \in B : b \in D /\ b.address # None /\ b.amount > 0
  BY DEF Addresses
<1> HIDE DEF B, D
<1>3. \A l \in Seq(B) : l \in Seq(D) /\ Orderly(l)
  <2> SUFFICES ASSUME NEW l \in Seq(B)
               PROVE  l \in Seq(D) /\ Orderly(l)
    OBVIOUS
  <2>1. \A i \in DOMAIN l : l[i] \in B
    OBVIOUS
  <2>2. l \in Seq(D)
    BY <1>2, <2>1
  <2>3. Orderly(l)
    BY <1>2, <2>1 DEF Orderly
  <2> QED
    BY <2>2, <2>3
<1>4. in \in [RuneKeys -> Seq(D)] /\ \A r \in RuneKeys : Orderly(in[r])
  BY <1>1, <1>3
<1> QED
  BY <1>4 DEF Deques, D

LEMMA OutputsAreOrdered ==
    \A out \in OutputChoices :
        /\ IsFiniteSet(DOMAIN out.outputs)
        /\ FirstEligible(out.outputs) \in Places
        /\ \A o \in DOMAIN out.outputs : out.outputs[o] \in Addresses
        /\ \A t : t.eligible_outputs = out.outputs =>
              \A k \in Nat : EligibleInOrder(t)[k] \in Places
<1> SUFFICES ASSUME NEW out \in OutputChoices
             PROVE  /\ IsFiniteSet(DOMAIN out.outputs)
                    /\ FirstEligible(out.outputs) \in Places
                    /\ \A o \in DOMAIN out.outputs : out.outputs[o] \in Addresses
                    /\ \A t : t.eligible_outputs = out.outputs =>
                          \A k \in Nat : EligibleInOrder(t)[k] \in Places
  OBVIOUS
<1>1. IsFiniteSet(DOMAIN out.outputs) /\ DOMAIN out.outputs \subseteq Nat
  BY OutputsAssumption DEF OutputsAssumption
<1>2. FirstEligible(out.outputs) \in Optional(Nat)
  BY <1>1, MinNatural DEF FirstEligible, Optional
<1>3. \A o \in DOMAIN out.outputs : out.outputs[o] \in Addresses
  BY DEF Addresses, Receivers
<1>4. ASSUME NEW t, t.eligible_outputs = out.outputs, NEW k \in Nat
      PROVE  EligibleInOrder(t)[k] \in Places
  <2>1. EligibleInOrder(t) = InOrder(out.outputs)
    BY <1>4, Zenon DEF EligibleInOrder, InOrder
  <2>2. InOrder(out.outputs)[k] \in Places
    <3> HIDE DEF InOrder
    <3> QED
      BY DEF Places
  <2> QED
    BY <2>1, <2>2, Zenon
<1> QED
  BY <1>1, <1>2, <1>3, <1>4 DEF Places

-----------------------------------------------------------------------------
(* The invariant *)

\* What every step keeps of the transaction cache t.
Kept(t) ==
    /\ Carries(t, Addresses)
    /\ t.location = Location
    /\ \E out \in OutputChoices : t.eligible_outputs = out.outputs
    /\ t.output_pointer \in Places
    /\ t.etching # None =>
          t.etching.id = RuneIdOf(Location) /\ t.etching.terms.amount \in Optional(Nat)

EventsInOrder(l) == \A i \in DOMAIN l : l[i].event = i - 1

\* The ledger l and the transaction cache t that wrote it.
Booked(t, l) ==
    /\ l \in Seq(Written)
    /\ t.next_event_index = Len(l)
    /\ EventsInOrder(l)
    /\ \A r \in RuneKeys : Orderly(t.input_runes[r])

Typed(in, credit, burn) ==
    /\ in \in [RuneKeys -> Deques(Addresses)]
    /\ credit \in [RuneKeys -> Nat]
    /\ burn \in [RuneKeys -> Nat]

\* What was paid out and what is left is covered by what came in, and each sender
\* is charged for what it no longer has.
Balanced(t, l, in, credit, burn) ==
    \A r \in RuneKeys :
        /\ PaidFor(l, r) + AmountOf(t.input_runes[r]) <= AmountOf(in[r]) + credit[r] + burn[r]
        /\ \A a \in Addresses \ {None} :
              ChargedTo(l, r, a) + AmountFrom(t.input_runes[r], {a}) = AmountFrom(in[r], {a})

CenotaphStages == {"cenotaph etching", "cenotaph mint", "cenotaph end", "cenotaph done"}

\* The ledger l of a cenotaph: burns of all the inputs in, and of what it minted.
AllBurnt(t, l, in, burn) ==
    /\ t.input_runes = [r \in RuneKeys |-> <<>>]
    /\ \A i \in DOMAIN l : l[i].op \in {"burn", "etching"}
    /\ \A r \in RuneKeys : PaidFor(l, r) = AmountOf(in[r]) + burn[r]

\* No cenotaph has minted.
NoMint == [r \in RuneKeys |-> 0]

IndexInv ==
    /\ stage \in Stages
    /\ Kept(tc)
    /\ Booked(tc, ledger)
    /\ Typed(inputs, credited, burned_mint)
    /\ Balanced(tc, ledger, inputs, credited, burned_mint)
    /\ stage = "decipher" => ledger = <<>> /\ tc.input_runes = inputs
    /\ stage \notin {"cenotaph end", "cenotaph done"} => burned_mint = NoMint
    /\ stage \in CenotaphStages => AllBurnt(tc, ledger, inputs, burned_mint)

-----------------------------------------------------------------------------
(* Writing entries *)

LEMMA PlacesHave ==
    /\ None \in Places /\ Nat \subseteq Places
    /\ None \in Addresses
BY DEF Places, Addresses, Optional

\* The amounts the invariant speaks of are naturals.
LEMMA AmountsAreNat ==
    /\ \A l \in Deques(Addresses) : AmountOf(l) \in Nat /\ \A Q : AmountFrom(l, Q) \in Nat
    /\ \A l \in Seq(Written) : \A r : PaidFor(l, r) \in Nat /\ \A a : ChargedTo(l, r, a) \in Nat
<1>1. ASSUME NEW l \in Deques(Addresses)
      PROVE  AmountOf(l) \in Nat /\ \A Q : AmountFrom(l, Q) \in Nat
  BY AmountOfIsSum, AmountFromPart
<1>2. ASSUME NEW l \in Seq(Written), NEW r
      PROVE  PaidFor(l, r) \in Nat /\ \A a : ChargedTo(l, r, a) \in Nat
  <2>1. HasAmounts(PaidOut(Written, r)) /\ \A a : HasAmounts(Charged(Written, r, a))
    BY ChargesHaveAmounts DEF Written
  <2>2. PaidFor(l, r) \in Nat
    BY <2>1, PaidIsNat DEF PaidFor
  <2>3. ASSUME NEW a
        PROVE  ChargedTo(l, r, a) \in Nat
    BY <2>1, PaidIsNat DEF ChargedTo
  <2> QED
    BY <2>2, <2>3
<1> QED
  BY <1>1, <1>2

\* The ledger new is l with the entries m after it.
Joined(l, m, new) ==
    /\ new \in Seq(Written) /\ Len(new) = Len(l) + Len(m)
    /\ EventsInOrder(new)
    /\ \A r : /\ PaidFor(new, r) = PaidFor(l, r) + PaidFor(m, r)
              /\ \A a : ChargedTo(new, r, a) = ChargedTo(l, r, a) + ChargedTo(m, r, a)
    /\ \A i \in DOMAIN new : (\E j \in DOMAIN l : new[i] = l[j]) \/ (\E j \in DOMAIN m : new[i] = m[j])

\* Entries that are numbered on from the ledger join it.
LEMMA LedgerGrows ==
    ASSUME NEW l \in Seq(Written), EventsInOrder(l), NEW m \in Seq(Written),
           \A i \in DOMAIN m : m[i].event = Len(l) + i - 1
    PROVE  Joined(l, m, l \o m)
<1>1. l \o m \in Seq(Written) /\ Len(l \o m) = Len(l) + Len(m)
  OBVIOUS
<1>2. \A i \in DOMAIN (l \o m) :
          (l \o m)[i] = IF i <= Len(l) THEN l[i] ELSE m[i - Len(l)]
  OBVIOUS
<1>3. \A i \in DOMAIN (l \o m) :
          \/ i \in DOMAIN l /\ (l \o m)[i] = l[i]
          \/ i - Len(l) \in DOMAIN m /\ (l \o m)[i] = m[i - Len(l)]
  BY <1>1, <1>2
<1>4. EventsInOrder(l \o m)
  <2> SUFFICES ASSUME NEW i \in DOMAIN (l \o m)
               PROVE  (l \o m)[i].event = i - 1
    BY DEF EventsInOrder
  <2>1. CASE i \in DOMAIN l /\ (l \o m)[i] = l[i]
    BY <2>1 DEF EventsInOrder
  <2>2. CASE i - Len(l) \in DOMAIN m /\ (l \o m)[i] = m[i - Len(l)]
    <3>1. i \in Int /\ Len(l) \in Int
      BY <1>1
    <3> QED
      BY <2>2, <3>1
  <2> QED
    BY <1>3, <2>1, <2>2
<1>5. ASSUME NEW r
      PROVE  /\ PaidFor(l \o m, r) = PaidFor(l, r) + PaidFor(m, r)
             /\ \A a : ChargedTo(l \o m, r, a) = ChargedTo(l, r, a) + ChargedTo(m, r, a)
  <2>1. HasAmounts(PaidOut(Written, r)) /\ \A a : HasAmounts(Charged(Written, r, a))
    BY ChargesHaveAmounts DEF Written
  <2>2. PaidFor(l \o m, r) = PaidFor(l, r) + PaidFor(m, r)
    BY <2>1, PaidConcat DEF PaidFor
  <2>3. ASSUME NEW a
        PROVE  ChargedTo(l \o m, r, a) = ChargedTo(l, r, a) + ChargedTo(m, r, a)
    BY <2>1, PaidConcat DEF ChargedTo
  <2> QED
    BY <2>2, <2>3
<1> QED
  BY <1>1, <1>3, <1>4, <1>5 DEF Joined

\* A move keeps the books: what it pays out it takes from the input runes.
Keeps(t, l, in, credit, burn, new, entries) ==
    /\ Kept(new)
    /\ Booked(new, l \o entries)
    /\ Balanced(new, l \o entries, in, credit, burn)
    /\ Joined(l, entries, l \o entries)

LEMMA SettledKeeps ==
    ASSUME NEW t, Kept(t), NEW l, Booked(t, l), NEW in, NEW credit, NEW burn,
           Typed(in, credit, burn), Balanced(t, l, in, credit, burn),
           NEW res, Settled(Addresses, Places, t, res)
    PROVE  Keeps(t, l, in, credit, burn, res.tc, res.entries)
<1> DEFINE new == res.tc
           m   == res.entries
<1>1. t.location = Location /\ Carries(t, Addresses)
  BY DEF Kept
<1>2. /\ Carries(new, Addresses) /\ SameTransaction(t, new)
      /\ m \in Seq(Written)
      /\ new.next_event_index = t.next_event_index + Len(m)
      /\ \A i \in DOMAIN m : m[i].event = t.next_event_index + i - 1
      /\ \A r \in RuneKeys :
            Accounted(Addresses, Written, r, t.input_runes[r], new.input_runes[r], m)
  BY <1>1 DEF Settled, Written
<1>3. l \in Seq(Written) /\ EventsInOrder(l) /\ t.next_event_index = Len(l)
  BY DEF Booked
<1> HIDE DEF new, m
<1>4. Joined(l, m, l \o m)
  BY <1>2, <1>3, LedgerGrows
<1>5. Kept(new)
  BY <1>1, <1>2 DEF Kept, SameTransaction
<1>6. Booked(new, l \o m)
  <2>1. \A r \in RuneKeys : Orderly(new.input_runes[r])
    BY <1>2 DEF Booked, Accounted
  <2> QED
    BY <1>2, <1>3, <1>4, <2>1 DEF Booked, Joined
<1>7. Balanced(new, l \o m, in, credit, burn)
  <2> SUFFICES ASSUME NEW r \in RuneKeys
               PROVE  /\ PaidFor(l \o m, r) + AmountOf(new.input_runes[r])
                             <= AmountOf(in[r]) + credit[r] + burn[r]
                      /\ \A a \in Addresses \ {None} :
                            ChargedTo(l \o m, r, a) + AmountFrom(new.input_runes[r], {a})
                                = AmountFrom(in[r], {a})
    BY DEF Balanced
  <2> DEFINE old  == t.input_runes[r]
             left == new.input_runes[r]
  <2>1. /\ in[r] \in Deques(Addresses) /\ old \in Deques(Addresses)
        /\ left \in Deques(Addresses) /\ credit[r] \in Nat /\ burn[r] \in Nat
    BY <1>1, <1>2 DEF Carries, Typed
  <2>2. /\ PaidFor(m, r) \in Nat
        /\ PaidFor(m, r) + AmountOf(left) <= AmountOf(old)
        /\ \A a \in Addresses \ {None} :
              ChargedTo(m, r, a) + AmountFrom(left, {a}) = AmountFrom(old, {a})
    BY <1>2 DEF Accounted, PaidFor, ChargedTo
  <2>3. /\ PaidFor(l, r) + AmountOf(old) <= AmountOf(in[r]) + credit[r] + burn[r]
        /\ \A a \in Addresses \ {None} :
              ChargedTo(l, r, a) + AmountFrom(old, {a}) = AmountFrom(in[r], {a})
    BY DEF Balanced
  <2>4. /\ PaidFor(l \o m, r) = PaidFor(l, r) + PaidFor(m, r)
        /\ \A a : ChargedTo(l \o m, r, a) = ChargedTo(l, r, a) + ChargedTo(m, r, a)
    BY <1>4 DEF Joined
  <2> HIDE DEF old, left
  <2>5. /\ AmountOf(in[r]) \in Nat /\ AmountOf(old) \in Nat /\ AmountOf(left) \in Nat
        /\ PaidFor(l, r) \in Nat
        /\ \A a : /\ ChargedTo(l, r, a) \in Nat /\ ChargedTo(m, r, a) \in Nat
                  /\ AmountFrom(in[r], {a}) \in Nat /\ AmountFrom(old, {a}) \in Nat
                  /\ AmountFrom(left, {a}) \in Nat
    BY <1>2, <1>3, <2>1, AmountsAreNat
  <2>6. PaidFor(l \o m, r) + AmountOf(left) <= AmountOf(in[r]) + credit[r] + burn[r]
    BY <2>1, <2>2, <2>3, <2>4, <2>5
  <2>7. ASSUME NEW a \in Addresses \ {None}
        PROVE  ChargedTo(l \o m, r, a) + AmountFrom(left, {a}) = AmountFrom(in[r], {a})
    <3> DEFINE c1 == ChargedTo(l, r, a)
               c2 == ChargedTo(m, r, a)
               f1 == AmountFrom(old, {a})
               f2 == AmountFrom(left, {a})
               f0 == AmountFrom(in[r], {a})
               c  == ChargedTo(l \o m, r, a)
    <3>1. /\ c1 \in Nat /\ c2 \in Nat /\ f0 \in Nat /\ f1 \in Nat /\ f2 \in Nat
          /\ c2 + f2 = f1 /\ c1 + f1 = f0 /\ c = c1 + c2
      BY <2>2, <2>3, <2>4, <2>5
    <3> HIDE DEF c1, c2, f0, f1, f2, c
    <3>2. c + f2 = f0
      BY <3>1
    <3> QED
      BY <3>2 DEF c, f0, f2
  <2> QED
    BY <2>6, <2>7 DEF left
<1> QED
  BY <1>4, <1>5, <1>6, <1>7 DEF Keeps, new, m

\* An amount comes into the input runes of the transaction cache t.
Grown(t, rune, amount, mid) ==
    /\ mid.next_event_index = t.next_event_index
    /\ \A r \in RuneKeys :
          /\ AmountOf(mid.input_runes[r])
                 = AmountOf(t.input_runes[r]) + IF r = rune THEN amount ELSE 0
          /\ \A a \in Addresses \ {None} :
                AmountFrom(mid.input_runes[r], {a}) = AmountFrom(t.input_runes[r], {a})
          /\ Orderly(t.input_runes[r]) => Orderly(mid.input_runes[r])

\* An etching or a mint keeps the books when what it enters is credited, or counted
\* as burned.
LEMMA EnteredKeeps ==
    ASSUME NEW t, Kept(t), NEW l, Booked(t, l), NEW in, NEW credit, NEW burn,
           Typed(in, credit, burn), Balanced(t, l, in, credit, burn),
           NEW mid, Kept(mid), NEW rune, NEW amount \in Nat, Grown(t, rune, amount, mid),
           NEW res, NEW id, NEW sum, NEW op, Entered(Addresses, Places, mid, id, sum, op, res),
           op = "burn" => sum \in Nat,
           NEW after, NEW burnt, Typed(in, after, burnt),
           \A r \in RuneKeys : after[r] = credit[r] + IF r = rune THEN amount ELSE 0,
           \A r \in RuneKeys :
               burnt[r] = burn[r] + IF op = "burn" /\ r = id THEN sum ELSE 0
    PROVE  /\ Keeps(t, l, in, after, burnt, res.tc, res.entries)
           /\ res.tc.input_runes = mid.input_runes
           /\ Len(res.entries) = 1 /\ res.entries[1].op = op
           /\ \A r \in RuneKeys :
                 PaidFor(res.entries, r) = IF op = "burn" /\ r = id THEN sum ELSE 0
<1> DEFINE new == res.tc
           m   == res.entries
<1>1. /\ t.location = Location /\ Carries(t, Addresses)
      /\ mid.location = Location /\ Carries(mid, Addresses)
  BY DEF Kept
<1>2. /\ Carries(new, Addresses) /\ SameTransaction(mid, new)
      /\ new.input_runes = mid.input_runes
      /\ new.next_event_index = mid.next_event_index + 1
      /\ m \in Seq(Written) /\ Len(m) = 1
      /\ m[1].op = op /\ m[1].event = mid.next_event_index
      /\ \A r \in RuneKeys :
            /\ PaidFor(m, r) = IF op = "burn" /\ r = id THEN sum ELSE 0
            /\ \A a \in Addresses \ {None} : ChargedTo(m, r, a) = 0
  BY <1>1 DEF Entered, Written, PaidFor, ChargedTo
<1>3. l \in Seq(Written) /\ EventsInOrder(l) /\ t.next_event_index = Len(l)
  BY DEF Booked
<1>4. mid.next_event_index = Len(l)
  BY <1>3 DEF Grown
<1> HIDE DEF new, m
<1>5. Joined(l, m, l \o m)
  <2>1. \A i \in DOMAIN m : i = 1
    BY <1>2
  <2>2. \A i \in DOMAIN m : m[i].event = Len(l) + i - 1
    BY <1>2, <1>3, <1>4, <2>1
  <2> QED
    BY <1>2, <1>3, <2>2, LedgerGrows
<1>6. Kept(new)
  BY <1>1, <1>2 DEF Kept, SameTransaction
<1>7. Booked(new, l \o m)
  <2>1. \A r \in RuneKeys : Orderly(new.input_runes[r])
    BY <1>2 DEF Booked, Grown
  <2> QED
    BY <1>2, <1>3, <1>4, <1>5, <2>1 DEF Booked, Joined
<1>8. Balanced(new, l \o m, in, after, burnt)
  <2> SUFFICES ASSUME NEW r \in RuneKeys
               PROVE  /\ PaidFor(l \o m, r) + AmountOf(new.input_runes[r])
                             <= AmountOf(in[r]) + after[r] + burnt[r]
                      /\ \A a \in Addresses \ {None} :
                            ChargedTo(l \o m, r, a) + AmountFrom(new.input_runes[r], {a})
                                = AmountFrom(in[r], {a})
    BY DEF Balanced
  <2> DEFINE old  == t.input_runes[r]
             left == new.input_runes[r]
  <2>1. /\ in[r] \in Deques(Addresses) /\ old \in Deques(Addresses)
        /\ left \in Deques(Addresses) /\ credit[r] \in Nat /\ burn[r] \in Nat
    BY <1>1, <1>2 DEF Carries, Typed
  <2>2. /\ AmountOf(left) = AmountOf(old) + IF r = rune THEN amount ELSE 0
        /\ \A a \in Addresses \ {None} : AmountFrom(left, {a}) = AmountFrom(old, {a})
    BY <1>2 DEF Grown
  <2>3. /\ PaidFor(l, r) + AmountOf(old) <= AmountOf(in[r]) + credit[r] + burn[r]
        /\ \A a \in Addresses \ {None} :
              ChargedTo(l, r, a) + AmountFrom(old, {a}) = AmountFrom(in[r], {a})
    BY DEF Balanced
  <2>4. /\ PaidFor(l \o m, r) = PaidFor(l, r) + PaidFor(m, r)
        /\ \A a : ChargedTo(l \o m, r, a) = ChargedTo(l, r, a) + ChargedTo(m, r, a)
    BY <1>5 DEF Joined
  <2>5. /\ AmountOf(in[r]) \in Nat /\ AmountOf(old) \in Nat
        /\ PaidFor(l, r) \in Nat /\ \A a : ChargedTo(l, r, a) \in Nat
    BY <1>3, <2>1, AmountsAreNat
  <2>6. /\ after[r] = credit[r] + IF r = rune THEN amount ELSE 0
        /\ burnt[r] = burn[r] + IF op = "burn" /\ r = id THEN sum ELSE 0
    OBVIOUS
  <2>7. PaidFor(m, r) = IF op = "burn" /\ r = id THEN sum ELSE 0
    BY <1>2
  <2>8. \A a \in Addresses \ {None} : ChargedTo(m, r, a) = 0
    BY <1>2
  <2> HIDE DEF old, left
  <2>9. PaidFor(l \o m, r) + AmountOf(left) <= AmountOf(in[r]) + after[r] + burnt[r]
    BY <2>1, <2>2, <2>3, <2>4, <2>5, <2>6, <2>7
  <2>10. ASSUME NEW a \in Addresses \ {None}
         PROVE  ChargedTo(l \o m, r, a) + AmountFrom(left, {a}) = AmountFrom(in[r], {a})
    <3> DEFINE c1 == ChargedTo(l, r, a)
               c  == ChargedTo(l \o m, r, a)
    <3>1. c1 \in Nat /\ c = c1 + 0
      BY <2>4, <2>5, <2>8
    <3>2. c1 + AmountFrom(old, {a}) = AmountFrom(in[r], {a})
      BY <2>3
    <3> HIDE DEF c1, c
    <3>3. c = c1
      BY <3>1
    <3>4. AmountFrom(left, {a}) = AmountFrom(old, {a})
      BY <2>2
    <3> QED
      BY <3>2, <3>3, <3>4 DEF c
  <2> QED
    BY <2>9, <2>10 DEF left
<1> QED
  BY <1>2, <1>5, <1>6, <1>7, <1>8 DEF Keeps, new, m

-----------------------------------------------------------------------------
(* The steps *)

LEMMA InitKeeps == Init => IndexInv
<1> SUFFICES ASSUME Init PROVE IndexInv
  OBVIOUS
<1>1. PICK in \in InputChoices, out \in OutputChoices :
        /\ tc = NewTransactionCache(Location, in, out.outputs,
                                    FirstEligible(out.outputs), out.total)
        /\ inputs = in
        /\ ledger = <<>>
        /\ stage = "decipher"
        /\ credited = [r \in RuneKeys |-> 0]
        /\ burned_mint = NoMint
  BY DEF Init, NoMint
<1>2. /\ in \in [RuneKeys -> Deques(Addresses)]
      /\ \A r \in RuneKeys : Orderly(in[r])
  BY InputsAreDeques
<1>3. /\ tc.location = Location /\ tc.next_event_index = 0 /\ tc.etching = None
      /\ tc.output_pointer = FirstEligible(out.outputs) /\ tc.input_runes = in
      /\ tc.eligible_outputs = out.outputs /\ tc.total_outputs = out.total
      /\ IsTransaction(tc)
  BY <1>1 DEF NewTransactionCache, IsTransaction
<1>4. Kept(tc)
  <2>1. /\ FirstEligible(out.outputs) \in Places
        /\ \A o \in DOMAIN out.outputs : out.outputs[o] \in Addresses
    BY OutputsAreOrdered
  <2>2. Carries(tc, Addresses)
    BY <1>2, <1>3, <2>1, PlacesHave DEF Carries
  <2> QED
    BY <1>3, <2>1, <2>2 DEF Kept
<1>5. Booked(tc, ledger)
  BY <1>1, <1>2, <1>3 DEF Booked, EventsInOrder
<1>6. Typed(inputs, credited, burned_mint)
  BY <1>1, <1>2 DEF Typed, NoMint
<1>7. Balanced(tc, ledger, inputs, credited, burned_mint)
  <2> SUFFICES ASSUME NEW r \in RuneKeys
               PROVE  /\ PaidFor(<<>>, r) + AmountOf(in[r])
                             <= AmountOf(in[r]) + credited[r] + burned_mint[r]
                      /\ \A a \in Addresses \ {None} :
                            ChargedTo(<<>>, r, a) + AmountFrom(in[r], {a})
                                = AmountFrom(in[r], {a})
    BY <1>1, <1>3 DEF Balanced
  <2>1. HasAmounts(PaidOut(Written, r)) /\ \A a : HasAmounts(Charged(Written, r, a))
    BY ChargesHaveAmounts DEF Written
  <2>2. PaidFor(<<>>, r) = 0 /\ \A a : ChargedTo(<<>>, r, a) = 0
    BY <2>1, PaidOne DEF PaidFor, ChargedTo
  <2>3. AmountOf(in[r]) \in Nat /\ \A a : AmountFrom(in[r], {a}) \in Nat
    BY <1>2, AmountsAreNat
  <2>4. credited[r] = 0 /\ burned_mint[r] = 0
    BY <1>1 DEF NoMint
  <2>5. PaidFor(<<>>, r) + AmountOf(in[r]) <= AmountOf(in[r]) + credited[r] + burned_mint[r]
    BY <2>2, <2>3, <2>4
  <2>6. ASSUME NEW a
        PROVE  ChargedTo(<<>>, r, a) + AmountFrom(in[r], {a}) = AmountFrom(in[r], {a})
    <3> DEFINE f == AmountFrom(in[r], {a})
    <3>1. f \in Nat /\ ChargedTo(<<>>, r, a) = 0
      BY <2>2, <2>3
    <3> HIDE DEF f
    <3>2. ChargedTo(<<>>, r, a) + f = f
      BY <3>1
    <3> QED
      BY <3>2 DEF f
  <2> QED
    BY <2>5, <2>6
<1> QED
  BY <1>1, <1>3, <1>4, <1>5, <1>6, <1>7 DEF IndexInv, Stages, CenotaphStages

\* Nothing comes in.
LEMMA NothingGrown ==
    ASSUME NEW t, Kept(t), NEW mid, mid.next_event_index = t.next_event_index,
           mid.input_runes = t.input_runes, NEW rune
    PROVE  Grown(t, rune, 0, mid)
<1>1. \A r \in RuneKeys : AmountOf(t.input_runes[r]) \in Nat
  BY AmountsAreNat DEF Kept, Carries
<1> QED
  BY <1>1 DEF Grown

\* The rune cache knows a rune's terms, and the transaction those of its own rune.
LEMMA MintedTerms ==
    Kept(tc) => \A id : MintedRune(id) # None => MintedRune(id).terms.amount \in Optional(Nat)
BY ArtifactAssumption DEF ArtifactAssumption, MintedRune, Kept

\* What is mintable has an amount, and the stages before had burned nothing.
LEMMA MintableAmount ==
    ASSUME NEW rune, rune.terms.amount \in Optional(Nat), NEW total,
           IsRuneMintable(rune, total, Location)
    PROVE  rune.terms.amount \in Nat
BY DEF IsRuneMintable, Optional

LEMMA NoArtifactKeeps ==
    ASSUME IndexInv, NoArtifact
    PROVE  IndexInv'
<1>1. stage = "decipher" /\ stage' = "plain end"
  BY DEF NoArtifact
<1>2. UNCHANGED <<tc, ledger, inputs, credited, burned_mint>>
  BY DEF NoArtifact
<1>3. burned_mint = NoMint
  BY <1>1 DEF IndexInv
<1>4. /\ Kept(tc) /\ Booked(tc, ledger) /\ Typed(inputs, credited, burned_mint)
      /\ Balanced(tc, ledger, inputs, credited, burned_mint)
  BY DEF IndexInv
<1>5. /\ Kept(tc') /\ Booked(tc', ledger') /\ Typed(inputs', credited', burned_mint')
      /\ Balanced(tc', ledger', inputs', credited', burned_mint')
  BY <1>2, <1>4
<1> QED
  BY <1>1, <1>2, <1>3, <1>5 DEF IndexInv, Stages, CenotaphStages

LEMMA ApplyRunestoneKeeps ==
    ASSUME IndexInv, NEW p \in PointerChoices, ApplyRunestone(p)
    PROVE  IndexInv'
<1>1. stage = "decipher" /\ stage' = "etching"
  BY DEF ApplyRunestone
<1>2. UNCHANGED <<ledger, inputs, credited, burned_mint>>
  BY DEF ApplyRunestone
<1>3. tc' = tc \/ tc' = [tc EXCEPT !.output_pointer = p]
  BY DEF ApplyRunestone
<1>4. /\ Kept(tc) /\ Booked(tc, ledger) /\ Typed(inputs, credited, burned_mint)
      /\ Balanced(tc, ledger, inputs, credited, burned_mint)
      /\ burned_mint = NoMint
  BY <1>1 DEF IndexInv
<1>5. p \in Places
  BY OutputsAssumption DEF OutputsAssumption, Places
<1>6. /\ tc'.location = tc.location /\ tc'.etching = tc.etching
      /\ tc'.eligible_outputs = tc.eligible_outputs
      /\ tc'.input_runes = tc.input_runes
      /\ tc'.next_event_index = tc.next_event_index
      /\ tc'.output_pointer \in Places
      /\ IsTransaction(tc')
  <2>1. IsTransaction(tc) /\ tc.output_pointer \in Places
    BY <1>4 DEF Kept, Carries
  <2>2. CASE tc' = tc
    BY <2>1, <2>2
  <2>3. CASE tc' = [tc EXCEPT !.output_pointer = p]
    <3> DEFINE new == [tc EXCEPT !.output_pointer = p]
    <3>1. /\ IsTransaction(new) /\ new.output_pointer = p
          /\ new.location = tc.location /\ new.etching = tc.etching
          /\ new.eligible_outputs = tc.eligible_outputs
          /\ new.input_runes = tc.input_runes
          /\ new.next_event_index = tc.next_event_index
      BY <2>1, PointerField
    <3> HIDE DEF new
    <3>2. tc' = new
      BY <2>3 DEF new
    <3> QED
      BY <1>5, <3>1, <3>2
  <2> QED
    BY <1>3, <2>2, <2>3
<1>7. Kept(tc')
  BY <1>4, <1>6 DEF Kept, Carries
<1>8. Booked(tc', ledger') /\ Typed(inputs', credited', burned_mint')
  BY <1>2, <1>4, <1>6 DEF Booked
<1>9. Balanced(tc', ledger', inputs', credited', burned_mint')
  BY <1>2, <1>4, <1>6 DEF Balanced
<1> QED
  BY <1>1, <1>2, <1>4, <1>7, <1>8, <1>9 DEF IndexInv, Stages, CenotaphStages

\* The transaction cache with the premine of an etching among its input runes.
Premined(t, etching, number) ==
    LET etched == [t EXCEPT !.etching = DbRuneFromEtching(etching, number, t.location)]
    IN  IF etching.premine = None THEN etched
        ELSE AddInputRunes(etched, RuneIdOf(t.location), etching.premine)

Premine(etching) == IF etching.premine = None THEN 0 ELSE etching.premine

LEMMA PremineGrown ==
    ASSUME NEW t, Kept(t), NEW e \in EtchingChoices \ {None}, NEW number
    PROVE  /\ Premine(e) \in Nat
           /\ Kept(Premined(t, e, number))
           /\ Grown(t, RuneIdOf(Location), Premine(e), Premined(t, e, number))
<1> DEFINE id     == RuneIdOf(Location)
           rune   == DbRuneFromEtching(e, number, t.location)
           etched == [t EXCEPT !.etching = rune]
           mid    == Premined(t, e, number)
<1>1. /\ e.premine \in Optional(Nat) /\ id \in RuneKeys
      /\ e.terms # None => e.terms.amount \in Optional(Nat)
  BY ArtifactAssumption DEF ArtifactAssumption, RuneKeys
<1>2. t.location = Location /\ Carries(t, Addresses) /\ IsTransaction(t)
  BY DEF Kept, Carries
<1>3. rune.id = id /\ rune.terms.amount \in Optional(Nat)
  <2>1. rune.id = id
    BY <1>2 DEF DbRuneFromEtching
  <2>2. rune.terms = IF e.terms = None THEN NoTerms ELSE e.terms
    BY DEF DbRuneFromEtching
  <2>3. NoTerms.amount = None
    BY DEF NoTerms
  <2> QED
    BY <1>1, <2>1, <2>2, <2>3 DEF Optional
<1> HIDE DEF rune
<1>4. /\ etched.etching = rune /\ etched.location = t.location
      /\ etched.output_pointer = t.output_pointer
      /\ etched.eligible_outputs = t.eligible_outputs
      /\ etched.input_runes = t.input_runes
      /\ etched.next_event_index = t.next_event_index
      /\ IsTransaction(etched)
  BY <1>2, EtchingField
<1>5. mid = IF e.premine = None THEN etched ELSE AddInputRunes(etched, id, e.premine)
  BY <1>2 DEF Premined, rune
<1> HIDE DEF etched, id, mid
<1>6. Kept(etched)
  <2>1. Carries(etched, Addresses)
    BY <1>2, <1>4 DEF Carries
  <2>2. etched.etching.id = RuneIdOf(Location)
    BY <1>3, <1>4 DEF id
  <2> QED
    BY <1>2, <1>3, <1>4, <2>1, <2>2 DEF Kept
<1>7. Carries(etched, Addresses)
  BY <1>6 DEF Kept
<1>8. CASE e.premine = None
  <2>1. Grown(t, id, 0, etched)
    BY <1>4, NothingGrown
  <2> QED
    BY <1>5, <1>6, <1>8, <2>1 DEF Premine, mid, id
<1>9. CASE e.premine # None
  <2>1. e.premine \in Nat
    BY <1>1, <1>9 DEF Optional
  <2>2. Added(Addresses, etched, id, e.premine, mid)
    BY <1>1, <1>5, <1>7, <1>9, <2>1, AddInputRunesAdds
  <2>3. Kept(mid)
    BY <1>6, <2>2 DEF Kept, Added, SameTransaction
  <2>4. Grown(t, id, e.premine, mid)
    BY <1>4, <2>2 DEF Grown, Added
  <2> QED
    BY <1>9, <2>1, <2>3, <2>4 DEF Premine, mid, id
<1> QED
  BY <1>8, <1>9

LEMMA EtchingKeeps ==
    ASSUME IndexInv, Etching
    PROVE  IndexInv'
<1>1. stage = "etching" /\ stage' = "mint"
  BY DEF Etching
<1>2. UNCHANGED <<inputs, burned_mint>>
  BY DEF Etching
<1>3. /\ Kept(tc) /\ Booked(tc, ledger) /\ Typed(inputs, credited, burned_mint)
      /\ Balanced(tc, ledger, inputs, credited, burned_mint)
      /\ burned_mint = NoMint
  BY <1>1 DEF IndexInv
<1>4. /\ Kept(tc') /\ Booked(tc', ledger') /\ Typed(inputs', credited', burned_mint')
      /\ Balanced(tc', ledger', inputs', credited', burned_mint')
  <2>1. PICK e \in EtchingChoices :
            IF e = None THEN UNCHANGED <<tc, ledger, credited>>
            ELSE /\ Record(ApplyEtching(tc, e, 1))
                 /\ credited' = [credited EXCEPT ![RuneIdOf(Location)] = @ + Premine(e)]
    BY DEF Etching, Premine
  <2>2. CASE e = None
    BY <1>2, <1>3, <2>1, <2>2
  <2>3. CASE e # None
    <3> DEFINE id  == RuneIdOf(Location)
               mid == Premined(tc, e, 1)
               res == OneEntry(mid, id, None, "etching")
    <3>1. id \in RuneKeys
      BY ArtifactAssumption DEF ArtifactAssumption, RuneKeys
    <3>2. Premine(e) \in Nat /\ Kept(mid) /\ Grown(tc, id, Premine(e), mid)
      BY <1>3, <2>3, PremineGrown
    <3>3. tc.location = Location /\ Carries(mid, Addresses)
      BY <1>3, <3>2 DEF Kept
    <3>4. ApplyEtching(tc, e, 1) = res
      BY <3>3 DEF ApplyEtching, Premined
    <3>5. Entered(Addresses, Places, mid, id, None, "etching", res)
      BY <3>1, <3>3, OneEntryEntered, PlacesHave
    <3>6. Record(res) /\ credited' = [credited EXCEPT ![id] = @ + Premine(e)]
      BY <2>1, <2>3, <3>4
    <3> HIDE DEF id, mid, res
    <3>7. /\ Typed(inputs, credited', burned_mint)
          /\ \A r \in RuneKeys :
                credited'[r] = credited[r] + IF r = id THEN Premine(e) ELSE 0
      BY <1>3, <3>1, <3>2, <3>6 DEF Typed
    <3>8. Keeps(tc, ledger, inputs, credited', burned_mint, res.tc, res.entries)
      <4>1. \A r \in RuneKeys :
                burned_mint[r] = burned_mint[r]
                                     + IF "etching" = "burn" /\ r = id THEN None ELSE 0
        BY <1>3 DEF NoMint
      <4>2. "etching" = "burn" => None \in Nat
        OBVIOUS
      <4> QED
        BY <1>3, <3>2, <3>5, <3>7, <4>1, <4>2, EnteredKeeps
    <3> QED
      BY <1>2, <3>6, <3>7, <3>8 DEF Keeps, Record
  <2> QED
    BY <2>2, <2>3
<1> QED
  BY <1>1, <1>2, <1>3, <1>4 DEF IndexInv, Stages, CenotaphStages

LEMMA MintKeeps ==
    ASSUME IndexInv, Mint
    PROVE  IndexInv'
<1>1. stage = "mint" /\ stage' = "edicts"
  BY DEF Mint
<1>2. UNCHANGED <<inputs, burned_mint>>
  BY DEF Mint
<1>3. /\ Kept(tc) /\ Booked(tc, ledger) /\ Typed(inputs, credited, burned_mint)
      /\ Balanced(tc, ledger, inputs, credited, burned_mint)
      /\ burned_mint = NoMint
  BY <1>1 DEF IndexInv
<1>4. /\ Kept(tc') /\ Booked(tc', ledger') /\ Typed(inputs', credited', burned_mint')
      /\ Balanced(tc', ledger', inputs', credited', burned_mint')
  <2>1. PICK id \in MintChoices, total \in MintTotals :
            IF MintedRune(id) # None /\ IsRuneMintable(MintedRune(id), total, Location)
            THEN /\ Record(ApplyMint(tc, id, MintedRune(id)))
                 /\ credited' = [credited EXCEPT ![id] = @ + MintedRune(id).terms.amount]
            ELSE UNCHANGED <<tc, ledger, credited>>
    BY DEF Mint
  <2> DEFINE minted == MintedRune(id) # None /\ IsRuneMintable(MintedRune(id), total, Location)
             amount == MintedRune(id).terms.amount
             mid    == AddInputRunes(tc, id, amount)
             res    == OneEntry(mid, id, amount, "mint")
  <2>2. CASE ~minted
    BY <1>2, <1>3, <2>1, <2>2
  <2>3. CASE minted
    <3>1. id \in RuneKeys
      BY ArtifactAssumption DEF ArtifactAssumption
    <3>2. amount \in Nat
      BY <1>3, <2>3, MintedTerms, MintableAmount
    <3>3. Record(res) /\ credited' = [credited EXCEPT ![id] = @ + amount]
      BY <2>1, <2>3 DEF ApplyMint
    <3>4. Carries(tc, Addresses)
      BY <1>3 DEF Kept
    <3> HIDE DEF amount
    <3>5. Added(Addresses, tc, id, amount, mid)
      BY <3>1, <3>2, <3>4, AddInputRunesAdds
    <3> HIDE DEF mid
    <3>6. Kept(mid) /\ Grown(tc, id, amount, mid) /\ Carries(mid, Addresses)
      BY <1>3, <3>5 DEF Kept, Added, SameTransaction, Grown
    <3>7. Entered(Addresses, Places, mid, id, amount, "mint", res)
      BY <3>1, <3>2, <3>6, OneEntryEntered, PlacesHave
    <3> HIDE DEF res
    <3>8. /\ Typed(inputs, credited', burned_mint)
          /\ \A r \in RuneKeys : credited'[r] = credited[r] + IF r = id THEN amount ELSE 0
      BY <1>3, <3>1, <3>2, <3>3 DEF Typed
    <3>9. Keeps(tc, ledger, inputs, credited', burned_mint, res.tc, res.entries)
      <4>1. \A r \in RuneKeys :
                burned_mint[r] = burned_mint[r]
                                     + IF "mint" = "burn" /\ r = id THEN amount ELSE 0
        BY <1>3 DEF NoMint
      <4> QED
        BY <1>3, <3>2, <3>6, <3>7, <3>8, <4>1, EnteredKeeps
    <3> QED
      BY <1>2, <3>3, <3>8, <3>9 DEF Keeps, Record
  <2> QED
    BY <2>2, <2>3
<1> QED
  BY <1>1, <1>2, <1>3, <1>4 DEF IndexInv, Stages, CenotaphStages

LEMMA EdictKeeps ==
    ASSUME IndexInv, Edict
    PROVE  IndexInv'
<1>1. stage = "edicts" /\ stage' = "edicts"
  BY DEF Edict
<1>2. UNCHANGED <<inputs, credited, burned_mint>>
  BY DEF Edict
<1>3. /\ Kept(tc) /\ Booked(tc, ledger) /\ Typed(inputs, credited, burned_mint)
      /\ Balanced(tc, ledger, inputs, credited, burned_mint)
      /\ burned_mint = NoMint
  BY <1>1 DEF IndexInv
<1>4. PICK e \in EdictChoices : Record(ApplyEdict(tc, e))
  BY DEF Edict
<1> DEFINE res == ApplyEdict(tc, e)
<1>5. Settled(Addresses, Places, tc, res)
  <2>1. e.id \in RuneKeys /\ e.amount \in Nat /\ e.output \in Nat
    BY ArtifactAssumption DEF ArtifactAssumption
  <2>2. PICK out \in OutputChoices : tc.eligible_outputs = out.outputs
    BY <1>3 DEF Kept
  <2>3. /\ IsFiniteSet(DOMAIN tc.eligible_outputs)
        /\ \A k \in Nat : EligibleInOrder(tc)[k] \in Places
    BY <2>2, OutputsAreOrdered
  <2>4. tc.etching # None => tc.etching.id \in RuneKeys
    BY <1>3, ArtifactAssumption DEF Kept, ArtifactAssumption, RuneKeys
  <2>5. Carries(tc, Addresses)
    BY <1>3 DEF Kept
  <2> QED
    BY <2>1, <2>3, <2>4, <2>5, EdictSettles, PlacesHave
<1> HIDE DEF res
<1>6. Keeps(tc, ledger, inputs, credited, burned_mint, res.tc, res.entries)
  BY <1>3, <1>5, SettledKeeps
<1>7. tc' = res.tc /\ ledger' = ledger \o res.entries
  BY <1>4 DEF Record, res
<1>8. /\ Kept(tc') /\ Booked(tc', ledger') /\ Typed(inputs', credited', burned_mint')
      /\ Balanced(tc', ledger', inputs', credited', burned_mint')
  BY <1>2, <1>3, <1>6, <1>7 DEF Keeps
<1> QED
  BY <1>1, <1>2, <1>3, <1>8 DEF IndexInv, Stages, CenotaphStages

LEMMA ApplyCenotaphKeeps ==
    ASSUME IndexInv, ApplyCenotaph
    PROVE  IndexInv'
<1>1. stage = "decipher" /\ stage' = "cenotaph etching"
  BY DEF ApplyCenotaph
<1>2. UNCHANGED <<inputs, credited, burned_mint>>
  BY DEF ApplyCenotaph
<1>3. /\ Kept(tc) /\ Booked(tc, ledger) /\ Typed(inputs, credited, burned_mint)
      /\ Balanced(tc, ledger, inputs, credited, burned_mint)
      /\ burned_mint = NoMint /\ ledger = <<>> /\ tc.input_runes = inputs
  BY <1>1 DEF IndexInv
<1> DEFINE res == ApplyCenotaphInputBurn(tc)
<1>4. /\ Settled(Addresses, Places, tc, res)
      /\ res.tc.input_runes = [r \in RuneKeys |-> <<>>]
      /\ \A i \in DOMAIN res.entries : res.entries[i].op = "burn"
      /\ \A r \in RuneKeys : PaidFor(res.entries, r) = AmountOf(tc.input_runes[r])
  <2>1. Carries(tc, Addresses) /\ tc.location = Location
    BY <1>3 DEF Kept
  <2>2. BurntOut(Addresses, Places, tc, res)
    BY <2>1, CenotaphSettles, PlacesHave
  <2> HIDE DEF res
  <2> QED
    BY <2>1, <2>2 DEF BurntOut, PaidFor, Written
<1>5. tc' = res.tc /\ ledger' = ledger \o res.entries
  BY DEF ApplyCenotaph, Record
<1> HIDE DEF res
<1>6. Keeps(tc, ledger, inputs, credited, burned_mint, res.tc, res.entries)
  BY <1>3, <1>4, SettledKeeps
<1>7. /\ Kept(tc') /\ Booked(tc', ledger') /\ Typed(inputs', credited', burned_mint')
      /\ Balanced(tc', ledger', inputs', credited', burned_mint')
  BY <1>2, <1>3, <1>5, <1>6 DEF Keeps
<1>8. ledger' = res.entries
  <2>1. res.entries \in Seq(Written)
    BY <1>3, <1>4 DEF Settled, Kept, Written
  <2> QED
    BY <1>3, <1>5, <2>1
<1>9. AllBurnt(tc', ledger', inputs', burned_mint')
  <2>1. \A r \in RuneKeys : AmountOf(inputs[r]) \in Nat
    BY <1>3, AmountsAreNat DEF Typed
  <2>2. \A r \in RuneKeys : PaidFor(res.entries, r) = AmountOf(inputs[r])
    BY <1>3, <1>4
  <2>3. \A r \in RuneKeys : PaidFor(res.entries, r) = AmountOf(inputs[r]) + NoMint[r]
    BY <2>1, <2>2 DEF NoMint
  <2> QED
    BY <1>2, <1>3, <1>4, <1>5, <1>8, <2>3 DEF AllBurnt
<1> QED
  BY <1>1, <1>2, <1>3, <1>7, <1>9 DEF IndexInv, Stages, CenotaphStages

\* Etching as a cenotaph leaves a rune that has no amount to mint.
LEMMA CenotaphEtched ==
    ASSUME NEW t, Kept(t), NEW name, NEW number,
           NEW rune, rune = DbRuneFromCenotaphEtching(name, number, t.location)
    PROVE  /\ Kept([t EXCEPT !.etching = rune])
           /\ Grown(t, RuneIdOf(Location), 0, [t EXCEPT !.etching = rune])
<1> DEFINE etched == [t EXCEPT !.etching = rune]
<1>1. t.location = Location /\ Carries(t, Addresses) /\ IsTransaction(t)
  BY DEF Kept, Carries
<1>2. rune.id = RuneIdOf(Location) /\ rune.terms.amount \in Optional(Nat)
  BY <1>1 DEF DbRuneFromCenotaphEtching, NoTerms, Optional
<1>3. /\ etched.etching = rune /\ etched.location = t.location
      /\ etched.output_pointer = t.output_pointer
      /\ etched.eligible_outputs = t.eligible_outputs
      /\ etched.input_runes = t.input_runes
      /\ etched.next_event_index = t.next_event_index
      /\ IsTransaction(etched)
  BY <1>1, EtchingField
<1> HIDE DEF etched
<1>4. Carries(etched, Addresses)
  BY <1>1, <1>3 DEF Carries
<1>5. Kept(etched)
  BY <1>1, <1>2, <1>3, <1>4 DEF Kept
<1>6. Grown(t, RuneIdOf(Location), 0, etched)
  BY <1>3, NothingGrown
<1> QED
  BY <1>5, <1>6 DEF etched

\* One more entry of a cenotaph.
LEMMA AllBurntGrows ==
    ASSUME NEW t, NEW l \in Seq(Written), NEW in, NEW burn \in [RuneKeys -> Nat],
           AllBurnt(t, l, in, burn),
           in \in [RuneKeys -> Deques(Addresses)],
           NEW new, new.input_runes = t.input_runes,
           NEW m, Joined(l, m, l \o m), Len(m) = 1, m \in Seq(Written),
           m[1].op \in {"burn", "etching"}, NEW burnt \in [RuneKeys -> Nat],
           \A r \in RuneKeys : PaidFor(m, r) \in Nat /\ burnt[r] = burn[r] + PaidFor(m, r)
    PROVE  AllBurnt(new, l \o m, in, burnt)
<1>1. \A i \in DOMAIN (l \o m) : (l \o m)[i].op \in {"burn", "etching"}
  <2>1. \A j \in DOMAIN m : j = 1
    OBVIOUS
  <2>2. \A i \in DOMAIN l : l[i].op \in {"burn", "etching"}
    BY DEF AllBurnt
  <2>3. \A i \in DOMAIN (l \o m) :
            (\E j \in DOMAIN l : (l \o m)[i] = l[j]) \/ (\E j \in DOMAIN m : (l \o m)[i] = m[j])
    BY DEF Joined
  <2> QED
    BY <2>1, <2>2, <2>3
<1>2. ASSUME NEW r \in RuneKeys
      PROVE  PaidFor(l \o m, r) = AmountOf(in[r]) + burnt[r]
  <2>1. AmountOf(in[r]) \in Nat /\ PaidFor(l, r) \in Nat
    BY AmountsAreNat
  <2>2. PaidFor(l, r) = AmountOf(in[r]) + burn[r] /\ burn[r] \in Nat
    BY DEF AllBurnt
  <2>3. PaidFor(l \o m, r) = PaidFor(l, r) + PaidFor(m, r)
    BY DEF Joined
  <2>4. PaidFor(m, r) \in Nat /\ burnt[r] = burn[r] + PaidFor(m, r)
    OBVIOUS
  <2> QED
    BY <2>1, <2>2, <2>3, <2>4
<1> QED
  BY <1>1, <1>2 DEF AllBurnt

LEMMA CenotaphEtchingKeeps ==
    ASSUME IndexInv, CenotaphEtching
    PROVE  IndexInv'
<1>1. stage = "cenotaph etching" /\ stage' = "cenotaph mint"
  BY DEF CenotaphEtching
<1>2. UNCHANGED <<inputs, credited, burned_mint>>
  BY DEF CenotaphEtching
<1>3. /\ Kept(tc) /\ Booked(tc, ledger) /\ Typed(inputs, credited, burned_mint)
      /\ Balanced(tc, ledger, inputs, credited, burned_mint)
      /\ burned_mint = NoMint /\ AllBurnt(tc, ledger, inputs, NoMint)
  BY <1>1 DEF IndexInv, CenotaphStages
<1>4. /\ Kept(tc') /\ Booked(tc', ledger')
      /\ Balanced(tc', ledger', inputs, credited, burned_mint)
      /\ AllBurnt(tc', ledger', inputs, NoMint)
  <2>1. PICK e \in EtchingChoices :
            IF e = None THEN UNCHANGED <<tc, ledger>>
            ELSE Record(ApplyCenotaphEtching(tc, e.name, 1))
    BY DEF CenotaphEtching
  <2>2. CASE e = None
    BY <1>3, <2>1, <2>2
  <2>3. CASE e # None
    <3> DEFINE id     == RuneIdOf(Location)
               rune   == DbRuneFromCenotaphEtching(e.name, 1, tc.location)
               etched == [tc EXCEPT !.etching = rune]
               res    == OneEntry(etched, id, None, "etching")
    <3>1. id \in RuneKeys
      BY ArtifactAssumption DEF ArtifactAssumption, RuneKeys
    <3>2. Kept(etched) /\ Grown(tc, id, 0, etched)
      BY <1>3, CenotaphEtched
    <3>3. tc.location = Location /\ Carries(etched, Addresses)
      BY <1>3, <3>2 DEF Kept
    <3>4. ApplyCenotaphEtching(tc, e.name, 1) = res
      BY <3>3 DEF ApplyCenotaphEtching
    <3>5. etched.input_runes = tc.input_runes
      <4>1. IsTransaction(tc)
        BY <1>3 DEF Kept, Carries
      <4> QED
        BY <4>1, EtchingField
    <3> HIDE DEF etched, id, rune
    <3>6. Entered(Addresses, Places, etched, id, None, "etching", res)
      BY <3>1, <3>3, OneEntryEntered, PlacesHave
    <3>7. Record(res)
      BY <2>1, <2>3, <3>4
    <3> HIDE DEF res
    <3>8. \A r \in RuneKeys : credited[r] = credited[r] + IF r = id THEN 0 ELSE 0
      BY <1>3 DEF Typed
    <3>9. \A r \in RuneKeys :
              burned_mint[r] = burned_mint[r]
                                   + IF "etching" = "burn" /\ r = id THEN None ELSE 0
      BY <1>3 DEF NoMint
    <3>10. "etching" = "burn" => None \in Nat
      OBVIOUS
    <3>11. /\ Keeps(tc, ledger, inputs, credited, burned_mint, res.tc, res.entries)
           /\ res.tc.input_runes = etched.input_runes
           /\ Len(res.entries) = 1 /\ res.entries[1].op = "etching"
           /\ \A r \in RuneKeys :
                 PaidFor(res.entries, r) = IF "etching" = "burn" /\ r = id THEN None ELSE 0
      BY <1>3, <3>2, <3>6, <3>8, <3>9, <3>10, EnteredKeeps
    <3>12. res.entries \in Seq(Written)
      BY <3>2, <3>6 DEF Entered, Kept, Written
    <3>13. AllBurnt(res.tc, ledger \o res.entries, inputs, NoMint)
      <4>1. /\ NoMint \in [RuneKeys -> Nat]
            /\ \A r \in RuneKeys : /\ PaidFor(res.entries, r) \in Nat
                                  /\ NoMint[r] = NoMint[r] + PaidFor(res.entries, r)
        BY <3>11 DEF NoMint
      <4>2. Joined(ledger, res.entries, ledger \o res.entries)
        BY <3>11 DEF Keeps
      <4>3. ledger \in Seq(Written) /\ inputs \in [RuneKeys -> Deques(Addresses)]
        BY <1>3 DEF Booked, Typed
      <4>4. res.tc.input_runes = tc.input_runes
        BY <3>5, <3>11
      <4> QED
        BY <1>3, <3>11, <3>12, <4>1, <4>2, <4>3, <4>4, AllBurntGrows
    <3> QED
      BY <3>7, <3>11, <3>13 DEF Keeps, Record
  <2> QED
    BY <2>2, <2>3
<1> QED
  BY <1>1, <1>2, <1>3, <1>4 DEF IndexInv, Stages, CenotaphStages

LEMMA CenotaphMintKeeps ==
    ASSUME IndexInv, CenotaphMint
    PROVE  IndexInv'
<1>1. stage = "cenotaph mint" /\ stage' = "cenotaph end"
  BY DEF CenotaphMint
<1>2. UNCHANGED <<inputs, credited>>
  BY DEF CenotaphMint
<1>3. /\ Kept(tc) /\ Booked(tc, ledger) /\ Typed(inputs, credited, burned_mint)
      /\ Balanced(tc, ledger, inputs, credited, burned_mint)
      /\ burned_mint = NoMint /\ AllBurnt(tc, ledger, inputs, NoMint)
  BY <1>1 DEF IndexInv, CenotaphStages
<1>4. /\ Kept(tc') /\ Booked(tc', ledger') /\ burned_mint' \in [RuneKeys -> Nat]
      /\ Balanced(tc', ledger', inputs, credited, burned_mint')
      /\ AllBurnt(tc', ledger', inputs, burned_mint')
  <2>1. PICK id \in MintChoices, total \in MintTotals :
            IF MintedRune(id) # None /\ IsRuneMintable(MintedRune(id), total, Location)
            THEN /\ Record(ApplyCenotaphMint(tc, id, MintedRune(id)))
                 /\ burned_mint' = [burned_mint EXCEPT ![id] = @ + MintedRune(id).terms.amount]
            ELSE UNCHANGED <<tc, ledger, burned_mint>>
    BY DEF CenotaphMint
  <2> DEFINE minted == MintedRune(id) # None /\ IsRuneMintable(MintedRune(id), total, Location)
             amount == MintedRune(id).terms.amount
             res    == OneEntry(tc, id, amount, "burn")
  <2>2. CASE ~minted
    <3>1. UNCHANGED <<tc, ledger, burned_mint>>
      BY <2>1, <2>2
    <3>2. burned_mint \in [RuneKeys -> Nat] /\ AllBurnt(tc, ledger, inputs, burned_mint)
      BY <1>3 DEF Typed
    <3> QED
      BY <1>3, <3>1, <3>2
  <2>3. CASE minted
    <3>1. id \in RuneKeys
      BY ArtifactAssumption DEF ArtifactAssumption
    <3>2. amount \in Nat
      BY <1>3, <2>3, MintedTerms, MintableAmount
    <3>3. Record(res) /\ burned_mint' = [burned_mint EXCEPT ![id] = @ + amount]
      BY <2>1, <2>3 DEF ApplyCenotaphMint
    <3>4. Carries(tc, Addresses) /\ tc.location = Location
      BY <1>3 DEF Kept
    <3> HIDE DEF amount
    <3>5. Grown(tc, id, 0, tc)
      BY <1>3, NothingGrown
    <3>6. Entered(Addresses, Places, tc, id, amount, "burn", res)
      BY <3>1, <3>2, <3>4, OneEntryEntered, PlacesHave
    <3> HIDE DEF res
    <3>7. \A r \in RuneKeys : credited[r] = credited[r] + IF r = id THEN 0 ELSE 0
      BY <1>3 DEF Typed
    <3>8. /\ burned_mint \in [RuneKeys -> Nat] /\ burned_mint' \in [RuneKeys -> Nat]
          /\ \A r \in RuneKeys :
                burned_mint'[r] = burned_mint[r]
                                      + IF "burn" = "burn" /\ r = id THEN amount ELSE 0
      BY <1>3, <3>1, <3>2, <3>3 DEF Typed
    <3>9. Typed(inputs, credited, burned_mint')
      BY <1>3, <3>8 DEF Typed
    <3>10. "burn" = "burn" => amount \in Nat
      BY <3>2
    <3>11. /\ Keeps(tc, ledger, inputs, credited, burned_mint', res.tc, res.entries)
           /\ res.tc.input_runes = tc.input_runes
           /\ Len(res.entries) = 1 /\ res.entries[1].op = "burn"
           /\ \A r \in RuneKeys :
                 PaidFor(res.entries, r) = IF "burn" = "burn" /\ r = id THEN amount ELSE 0
      BY <1>3, <3>5, <3>6, <3>7, <3>8, <3>9, <3>10, EnteredKeeps
    <3>12. res.entries \in Seq(Written)
      BY <3>4, <3>6 DEF Entered, Written
    <3>13. AllBurnt(res.tc, ledger \o res.entries, inputs, burned_mint')
      <4>1. \A r \in RuneKeys : /\ PaidFor(res.entries, r) \in Nat
                               /\ burned_mint'[r] = burned_mint[r] + PaidFor(res.entries, r)
        BY <3>2, <3>8, <3>11
      <4>2. Joined(ledger, res.entries, ledger \o res.entries)
        BY <3>11 DEF Keeps
      <4>3. ledger \in Seq(Written) /\ inputs \in [RuneKeys -> Deques(Addresses)]
        BY <1>3 DEF Booked, Typed
      <4>4. AllBurnt(tc, ledger, inputs, burned_mint)
        BY <1>3
      <4>5. burned_mint \in [RuneKeys -> Nat] /\ burned_mint' \in [RuneKeys -> Nat]
        BY <3>8
      <4>6. /\ res.tc.input_runes = tc.input_runes /\ Len(res.entries) = 1
            /\ res.entries[1].op \in {"burn", "etching"}
        BY <3>11
      <4> QED
        BY <3>12, <4>1, <4>2, <4>3, <4>4, <4>5, <4>6, AllBurntGrows
    <3> QED
      BY <3>3, <3>8, <3>11, <3>13 DEF Keeps, Record
  <2> QED
    BY <2>2, <2>3
<1>5. Typed(inputs', credited', burned_mint')
  BY <1>2, <1>3, <1>4 DEF Typed
<1> QED
  BY <1>1, <1>2, <1>3, <1>4, <1>5 DEF IndexInv, Stages, CenotaphStages

LEMMA EndTransactionKeeps ==
    ASSUME IndexInv, EndTransaction
    PROVE  IndexInv'
<1>1. /\ stage \in {"plain end", "edicts", "cenotaph end"}
      /\ stage' = IF stage = "cenotaph end" THEN "cenotaph done" ELSE "done"
  BY DEF EndTransaction
<1>2. UNCHANGED <<inputs, credited, burned_mint>>
  BY DEF EndTransaction
<1>3. /\ Kept(tc) /\ Booked(tc, ledger) /\ Typed(inputs, credited, burned_mint)
      /\ Balanced(tc, ledger, inputs, credited, burned_mint)
      /\ stage # "cenotaph end" => burned_mint = NoMint
      /\ stage = "cenotaph end" => AllBurnt(tc, ledger, inputs, burned_mint)
  BY <1>1 DEF IndexInv, CenotaphStages
<1> DEFINE res == MoveAllTo(tc, tc.output_pointer)
<1>4. MovedOut(Addresses, Places, tc, res)
  BY <1>3, AllSettles DEF Kept, Booked
<1>5. tc' = res.tc /\ ledger' = ledger \o res.entries
  BY DEF EndTransaction, Record, AllocateRemainingBalances
<1> HIDE DEF res
<1>6. /\ Settled(Addresses, Places, tc, res)
      /\ res.tc.input_runes = [r \in RuneKeys |-> <<>>]
      /\ HeldRunes(tc) = {} => res.entries = <<>>
  BY <1>4 DEF MovedOut
<1>7. Keeps(tc, ledger, inputs, credited, burned_mint, res.tc, res.entries)
  BY <1>3, <1>6, SettledKeeps
<1>8. /\ Kept(tc') /\ Booked(tc', ledger') /\ Typed(inputs', credited', burned_mint')
      /\ Balanced(tc', ledger', inputs', credited', burned_mint')
  BY <1>2, <1>3, <1>5, <1>7 DEF Keeps
<1>9. stage = "cenotaph end" => AllBurnt(tc', ledger', inputs', burned_mint')
  <2> SUFFICES ASSUME stage = "cenotaph end"
               PROVE  AllBurnt(tc', ledger', inputs', burned_mint')
    OBVIOUS
  <2>1. AllBurnt(tc, ledger, inputs, burned_mint)
    BY <1>3
  <2>2. HeldRunes(tc) = {}
    BY <2>1 DEF AllBurnt, HeldRunes
  <2>3. ledger' = ledger
    <3>1. ledger \in Seq(Written)
      BY <1>3 DEF Booked
    <3>2. ledger \o <<>> = ledger
      BY <3>1, ConcatEmptySeq
    <3>3. res.entries = <<>>
      BY <1>6, <2>2
    <3> QED
      BY <1>5, <3>2, <3>3, Zenon
  <2> QED
    BY <1>2, <1>5, <1>6, <2>1, <2>3 DEF AllBurnt
<1> QED
  BY <1>1, <1>2, <1>3, <1>8, <1>9 DEF IndexInv, Stages, CenotaphStages

LEMMA StepKeeps == IndexInv /\ [Next]_vars => IndexInv'
<1> SUFFICES ASSUME IndexInv, [Next]_vars PROVE IndexInv'
  OBVIOUS
<1>1. CASE NoArtifact
  BY <1>1, NoArtifactKeeps
<1>2. CASE \E p \in PointerChoices : ApplyRunestone(p)
  BY <1>2, ApplyRunestoneKeeps
<1>3. CASE Etching
  BY <1>3, EtchingKeeps
<1>4. CASE Mint
  BY <1>4, MintKeeps
<1>5. CASE Edict
  BY <1>5, EdictKeeps
<1>6. CASE ApplyCenotaph
  BY <1>6, ApplyCenotaphKeeps
<1>7. CASE CenotaphEtching
  BY <1>7, CenotaphEtchingKeeps
<1>8. CASE CenotaphMint
  BY <1>8, CenotaphMintKeeps
<1>9. CASE EndTransaction
  BY <1>9, EndTransactionKeeps
<1>10. CASE UNCHANGED vars
  <2>1. UNCHANGED <<tc, ledger, stage, inputs, credited, burned_mint>>
    BY <1>10 DEF vars
  <2> QED
    BY <2>1 DEF IndexInv
<1> QED
  BY <1>1, <1>2, <1>3, <1>4, <1>5, <1>6, <1>7, <1>8, <1>9, <1>10 DEF Next

LEMMA InvAlways == Spec => []IndexInv
<1>1. Init => IndexInv
  BY InitKeeps
<1>2. IndexInv /\ [Next]_vars => IndexInv'
  BY StepKeeps
<1> QED
  BY <1>1, <1>2, PTL DEF Spec

-----------------------------------------------------------------------------
(* What the invariant says *)

\* Every entry is one the ledger table can hold, and the next event is its length.
LEMMA InvTypes == IndexInv => TypeOK
<1> SUFFICES ASSUME IndexInv PROVE TypeOK
  OBVIOUS
<1>1. stage \in Stages /\ Kept(tc) /\ Booked(tc, ledger)
  BY DEF IndexInv
<1>2. ASSUME NEW r \in RuneKeys, NEW i \in DOMAIN tc.input_runes[r]
      PROVE  tc.input_runes[r][i].amount \in Nat
  <2>1. tc.input_runes[r] \in Deques(Addresses)
    BY <1>1 DEF Kept, Carries
  <2> QED
    BY <2>1, DequeElements
<1>3. ASSUME NEW i \in DOMAIN ledger
      PROVE  /\ ledger[i].event = i - 1
             /\ ledger[i].rune \in RuneKeys
             /\ ledger[i].op \in {"etching", "mint", "burn", "send", "receive"}
             /\ ledger[i].amount \in Nat \/ ledger[i].op = "etching"
             /\ ledger[i].op = "receive" => ledger[i].amount > 0 /\ ledger[i].address # None
  <2>1. ledger[i] \in Written
    BY <1>1 DEF Booked
  <2>2. ledger[i].event = i - 1
    BY <1>1 DEF Booked, EventsInOrder
  <2> QED
    BY <2>1, <2>2 DEF Written, Logs
<1> QED
  BY <1>1, <1>2, <1>3 DEF TypeOK, Booked

\* What outputs receive and what is burned is what the invariant says is paid out.
LEMMA ReceivedAndBurned ==
    IndexInv => \A r \in RuneKeys :
        /\ ReceivedByAll(r) \in Nat /\ Burned(r) \in Nat
        /\ ReceivedByAll(r) + Burned(r) = PaidFor(ledger, r)
        /\ (\A i \in DOMAIN ledger : ledger[i].op # "receive") => ReceivedByAll(r) = 0
<1> SUFFICES ASSUME IndexInv, NEW r \in RuneKeys
             PROVE  /\ ReceivedByAll(r) \in Nat /\ Burned(r) \in Nat
                    /\ ReceivedByAll(r) + Burned(r) = PaidFor(ledger, r)
                    /\ (\A i \in DOMAIN ledger : ledger[i].op # "receive") =>
                           ReceivedByAll(r) = 0
  OBVIOUS
<1>1. ReceivedByAll(r) = ReceivedIn(ledger, r) /\ Burned(r) = BurnedIn(ledger, r)
  BY Zenon DEF ReceivedByAll, Burned, Total, ReceivedIn, BurnedIn, AmountsAt
<1>2. ledger \in Seq(Logs(Location, Addresses, Places))
  BY DEF IndexInv, Booked, Written
<1> QED
  BY <1>1, <1>2, PaidSplits DEF PaidFor, Written

-----------------------------------------------------------------------------
(* The theorems *)

\* Balances and entries have their types in every state, and the entries of a
\* transaction are numbered without a gap (next_event_index of TransactionCache).
THEOREM IndexerTypeCorrect == Spec => []TypeOK
<1>1. IndexInv => TypeOK
  BY InvTypes
<1> QED
  BY <1>1, InvAlways, PTL

\* What outputs receive, what is burned and what is still unallocated is never more
\* than the inputs held and was premined and minted, for any deques, edicts and
\* outputs (move_rune_balance_to_output and its callers).
THEOREM NothingMadeUp == Spec => []NoInflation
<1>1. IndexInv => NoInflation
  <2> SUFFICES ASSUME IndexInv, NEW r \in RuneKeys
               PROVE  ReceivedByAll(r) + Burned(r) + Unallocated(r)
                          <= AmountOf(inputs[r]) + credited[r] + burned_mint[r]
    BY DEF NoInflation
  <2>1. PaidFor(ledger, r) + AmountOf(tc.input_runes[r])
            <= AmountOf(inputs[r]) + credited[r] + burned_mint[r]
    BY DEF IndexInv, Balanced
  <2>2. ReceivedByAll(r) + Burned(r) = PaidFor(ledger, r)
    BY ReceivedAndBurned
  <2> QED
    BY <2>1, <2>2 DEF Unallocated
<1> QED
  BY <1>1, InvAlways, PTL

\* Every sender is charged, by sends and burns, for exactly what left its inputs.
THEOREM SendersPayExactly == Spec => []SendersAccounted
<1>1. IndexInv => SendersAccounted
  <2> SUFFICES ASSUME IndexInv, NEW r \in RuneKeys, NEW a \in Senders \ {None}
               PROVE  Total(LAMBDA e : e.op \in {"send", "burn"} /\ e.rune = r /\ e.address = a)
                          + HeldBy(tc.input_runes[r], a) = HeldBy(inputs[r], a)
    BY DEF SendersAccounted
  <2>1. /\ ledger \in Seq(Written) /\ Carries(tc, Addresses)
        /\ inputs \in [RuneKeys -> Deques(Addresses)]
        /\ Balanced(tc, ledger, inputs, credited, burned_mint)
    BY DEF IndexInv, Booked, Typed, Kept
  <2>2. a \in Addresses \ {None}
    <3>1. PICK q \in RuneKeys : a \in {inputs[q][i].address : i \in DOMAIN inputs[q]}
      BY DEF Senders
    <3>2. PICK i \in DOMAIN inputs[q] : a = inputs[q][i].address
      BY <3>1
    <3>3. inputs[q] \in Deques(Addresses)
      BY <2>1
    <3> QED
      BY <3>2, <3>3, DequeElements
  <2>3. ChargedTo(ledger, r, a) + AmountFrom(tc.input_runes[r], {a}) = AmountFrom(inputs[r], {a})
    BY <2>1, <2>2 DEF Balanced
  <2>4. ASSUME NEW l \in Deques(Addresses)
        PROVE  HeldBy(l, a) = AmountFrom(l, {a})
    <3> DEFINE T == {i \in DOMAIN l : l[i].address = a}
    <3>1. HeldBy(l, a) = AmountsAt(l, T)
      BY Zenon DEF HeldBy, AmountsAt
    <3>2. T = {i \in DOMAIN l : l[i].address \in {a}}
      OBVIOUS
    <3>3. IsFiniteSet(DOMAIN l) /\ \A i \in DOMAIN l : l[i].amount \in Nat
      BY AmountOfIsSum, DequeElements
    <3>4. IsFiniteSet(T) /\ T \subseteq DOMAIN l /\ \A i \in T : l[i].amount \in Nat
      BY <3>3, FS_Subset
    <3> HIDE DEF T
    <3>5. AmountsAt(l, T) = SumOver(Amounts(l), T)
      BY <3>4, AmountsAtIsSum
    <3> QED
      BY <3>1, <3>2, <3>5 DEF AmountFrom
  <2>5. /\ HeldBy(tc.input_runes[r], a) = AmountFrom(tc.input_runes[r], {a})
        /\ HeldBy(inputs[r], a) = AmountFrom(inputs[r], {a})
    <3>1. tc.input_runes[r] \in Deques(Addresses) /\ inputs[r] \in Deques(Addresses)
      BY <2>1 DEF Carries
    <3> QED
      BY <2>4, <3>1
  <2>6. Total(LAMBDA e : e.op \in {"send", "burn"} /\ e.rune = r /\ e.address = a)
            = ChargedTo(ledger, r, a)
    <3> DEFINE T == {i \in DOMAIN ledger :
                       ledger[i].op \in {"send", "burn"} /\ ledger[i].rune = r
                           /\ ledger[i].address = a}
    <3>1. Total(LAMBDA e : e.op \in {"send", "burn"} /\ e.rune = r /\ e.address = a)
              = AmountsAt(ledger, T)
      BY Zenon DEF Total, AmountsAt
    <3>2. \A i \in DOMAIN ledger : ledger[i] \in Written
      BY <2>1
    <3>3. T = {i \in DOMAIN ledger : ledger[i] \in Charged(Written, r, a)}
      BY <3>2 DEF Charged
    <3>4. IsFiniteSet(T)
      <4>1. DOMAIN ledger = 1..Len(ledger) /\ Len(ledger) \in Nat
        BY <2>1
      <4>2. IsFiniteSet(DOMAIN ledger)
        BY <4>1, FS_Interval
      <4> QED
        BY <4>2, FS_Subset
    <3>5. T \subseteq DOMAIN ledger /\ \A i \in T : ledger[i].amount \in Nat
      BY <3>2 DEF Written, Logs
    <3> HIDE DEF T
    <3>6. AmountsAt(ledger, T) = SumOver(Amounts(ledger), T)
      BY <3>4, <3>5, AmountsAtIsSum
    <3> QED
      BY <3>1, <3>3, <3>6 DEF ChargedTo, Paid
  <2> QED
    BY <2>3, <2>5, <2>6
<1> QED
  BY <1>1, InvAlways, PTL

\* A cenotaph leaves nothing to any output: of each rune its burn entries are exactly
\* what its inputs held and what it minted (apply_cenotaph_input_burn, apply_cenotaph_mint).
THEOREM CenotaphsBurnAll == Spec => []CenotaphBurnsAll
<1>1. IndexInv => CenotaphBurnsAll
  <2>1. ASSUME IndexInv, AllBurnt(tc, ledger, inputs, burned_mint), NEW r \in RuneKeys
        PROVE  /\ ReceivedByAll(r) = 0
               /\ Burned(r) = AmountOf(inputs[r]) + burned_mint[r]
    <3>1. /\ inputs \in [RuneKeys -> Deques(Addresses)]
          /\ burned_mint \in [RuneKeys -> Nat]
      BY <2>1 DEF IndexInv, Typed
    <3>2. AmountOf(inputs[r]) \in Nat
      BY <3>1, AmountsAreNat
    <3>3. \A i \in DOMAIN ledger : ledger[i].op # "receive"
      BY <2>1 DEF AllBurnt
    <3>4. PaidFor(ledger, r) = AmountOf(inputs[r]) + burned_mint[r]
      BY <2>1 DEF AllBurnt
    <3>5. /\ ReceivedByAll(r) = 0 /\ Burned(r) \in Nat
          /\ ReceivedByAll(r) + Burned(r) = PaidFor(ledger, r)
      BY <2>1, <3>3, ReceivedAndBurned
    <3> QED
      BY <3>1, <3>2, <3>4, <3>5
  <2>2. IndexInv /\ stage = "cenotaph done" => AllBurnt(tc, ledger, inputs, burned_mint)
    BY DEF IndexInv, CenotaphStages
  <2> QED
    BY <2>1, <2>2 DEF CenotaphBurnsAll
<1> QED
  BY <1>1, InvAlways, PTL

-----------------------------------------------------------------------------
(* The forecast of a pending transaction: its invariant *)

\* parse_mempool_tx knows no block: it writes the height 0.
PendingLocation == [Location EXCEPT !.height = 0]

Foreseen == Logs(PendingLocation, Addresses, Places)

\* What the entries of l promise to outputs or burn of a rune.
PaidAhead(l, r) == Paid(l, PaidOut(Foreseen, r))

\* What the forecast p keeps of the inputs in; gone is whether an edict of 0:0 ended it.
Forecast(p, in, gone) ==
    /\ p = [tc |-> p.tc, entries |-> p.entries]
    /\ Carries(p.tc, Addresses)
    /\ p.tc.location = PendingLocation
    /\ p.tc.etching = None
    /\ p.tc.output_pointer \in Places
    /\ gone \/ \E out \in OutputChoices : p.tc.eligible_outputs = out.outputs
    /\ p.entries \in Seq(Foreseen)
    /\ \A r \in RuneKeys :
          /\ Orderly(p.tc.input_runes[r])
          /\ PaidAhead(p.entries, r) + AmountOf(p.tc.input_runes[r]) <= AmountOf(in[r])
    /\ gone => p.entries = <<>> /\ HeldRunes(p.tc) = {}

ForecastInv ==
    /\ IndexInv
    /\ edicts \in Seq(EdictChoices)
    /\ dropped \in BOOLEAN
    /\ dropped => stage \in {"edicts", "done"}
    /\ Forecast(pending, inputs, dropped)

\* The forecast with the result of an operation entered.
Entering(p, res) == [tc |-> res.tc, entries |-> p.entries \o res.entries]

\* An operation that pays for what it takes keeps the forecast within its inputs.
LEMMA EnteringKeeps ==
    ASSUME NEW p, NEW in, NEW gone, Forecast(p, in, gone),
           in \in [RuneKeys -> Deques(Addresses)],
           NEW res, Carries(res.tc, Addresses), SameTransaction(p.tc, res.tc),
           res.entries \in Seq(Foreseen),
           \A r \in RuneKeys :
              /\ Orderly(res.tc.input_runes[r])
              /\ PaidAhead(res.entries, r) + AmountOf(res.tc.input_runes[r])
                     <= AmountOf(p.tc.input_runes[r]),
           gone => res.entries = <<>> /\ HeldRunes(res.tc) = {}
    PROVE  Forecast(Entering(p, res), in, gone)
<1> DEFINE l == p.entries
           m == res.entries
           new == Entering(p, res)
<1>1. new.tc = res.tc /\ new.entries = l \o m /\ new = [tc |-> new.tc, entries |-> new.entries]
  BY DEF Entering
<1>2. /\ Carries(p.tc, Addresses) /\ p.tc.location = PendingLocation /\ p.tc.etching = None
      /\ p.tc.output_pointer \in Places /\ l \in Seq(Foreseen)
      /\ gone \/ \E out \in OutputChoices : p.tc.eligible_outputs = out.outputs
  BY DEF Forecast
<1>3. /\ res.tc.location = PendingLocation /\ res.tc.etching = None
      /\ res.tc.output_pointer \in Places
      /\ gone \/ \E out \in OutputChoices : res.tc.eligible_outputs = out.outputs
  BY <1>2 DEF SameTransaction
<1> HIDE DEF l, m, new
<1>4. l \in Seq(Foreseen) /\ m \in Seq(Foreseen) /\ l \o m \in Seq(Foreseen)
  BY <1>2 DEF m
<1>5. ASSUME NEW r \in RuneKeys
      PROVE  PaidAhead(l \o m, r) + AmountOf(res.tc.input_runes[r]) <= AmountOf(in[r])
  <2> DEFINE a == AmountOf(in[r])
             b == AmountOf(p.tc.input_runes[r])
             c == AmountOf(res.tc.input_runes[r])
  <2>1. HasAmounts(PaidOut(Foreseen, r))
    BY ChargesHaveAmounts DEF Foreseen
  <2>2. PaidAhead(l, r) \in Nat /\ PaidAhead(m, r) \in Nat
    BY <1>4, <2>1, PaidIsNat DEF PaidAhead
  <2>3. PaidAhead(l \o m, r) = PaidAhead(l, r) + PaidAhead(m, r)
    BY <1>4, <2>1, PaidConcat DEF PaidAhead
  <2>4. a \in Nat /\ b \in Nat /\ c \in Nat
    <3>1. /\ in[r] \in Deques(Addresses) /\ p.tc.input_runes[r] \in Deques(Addresses)
          /\ res.tc.input_runes[r] \in Deques(Addresses)
      BY <1>2 DEF Carries
    <3> QED
      BY <3>1, AmountOfIsSum
  <2>5. PaidAhead(l, r) + b <= a /\ PaidAhead(m, r) + c <= b
    BY DEF Forecast, l, m
  <2> HIDE DEF a, b, c
  <2>6. PaidAhead(l \o m, r) + c <= a
    BY <2>2, <2>3, <2>4, <2>5
  <2> QED
    BY <2>6 DEF a, c
<1>6. gone => l \o m = <<>> /\ HeldRunes(res.tc) = {}
  <2>1. gone => l = <<>> /\ m = <<>>
    BY DEF Forecast, l, m
  <2>2. <<>> \o <<>> = <<>>
    OBVIOUS
  <2> QED
    BY <2>1, <2>2
<1>7. Forecast(new, in, gone)
  BY <1>1, <1>3, <1>4, <1>5, <1>6 DEF Forecast
<1> QED
  BY <1>7 DEF new

\* The operations that move runes or burn them.
LEMMA SettledForecast ==
    ASSUME NEW p, NEW in, Forecast(p, in, FALSE), in \in [RuneKeys -> Deques(Addresses)],
           NEW res, Settled(Addresses, Places, p.tc, res)
    PROVE  Forecast(Entering(p, res), in, FALSE)
<1>1. /\ p.tc.location = PendingLocation
      /\ \A r \in RuneKeys : Orderly(p.tc.input_runes[r])
  BY DEF Forecast
<1>2. /\ Carries(res.tc, Addresses) /\ SameTransaction(p.tc, res.tc)
      /\ res.entries \in Seq(Foreseen)
      /\ \A r \in RuneKeys :
            Accounted(Addresses, Foreseen, r, p.tc.input_runes[r], res.tc.input_runes[r],
                      res.entries)
  BY <1>1 DEF Settled, Foreseen
<1>3. \A r \in RuneKeys :
          /\ Orderly(res.tc.input_runes[r])
          /\ PaidAhead(res.entries, r) + AmountOf(res.tc.input_runes[r])
                 <= AmountOf(p.tc.input_runes[r])
  BY <1>1, <1>2 DEF Accounted, PaidAhead
<1> QED
  BY <1>2, <1>3, EnteringKeeps

\* Whatever order the inputs are collected in, they hold the same and belong to senders.
LEMMA CollectedBalances ==
    ASSUME NEW in \in InputChoices, NEW f \in CollectInputRuneBalances(in)
    PROVE  /\ f \in [RuneKeys -> Deques(Addresses)]
           /\ \A r \in RuneKeys : Orderly(f[r]) /\ AmountOf(f[r]) = AmountOf(in[r])
<1> DEFINE B == [address : Holders \ {None}, amount : Nat \ {0}]
<1>1. in \in [RuneKeys -> Seq(B)]
  BY InputsAssumption DEF InputsAssumption, Holders
<1>2. in \in [RuneKeys -> Deques(Addresses)]
  BY InputsAreDeques
<1>3. \A b \in B : b.address # None /\ b.amount > 0
  OBVIOUS
<1>4. f \in [RuneKeys -> UNION {Orders(in[r]) : r \in RuneKeys}]
      /\ \A r \in RuneKeys : f[r] \in Orders(in[r])
  BY DEF CollectInputRuneBalances
<1> HIDE DEF B
<1>5. ASSUME NEW r \in RuneKeys
      PROVE  /\ f[r] \in Deques(Addresses)
             /\ Orderly(f[r]) /\ AmountOf(f[r]) = AmountOf(in[r])
  <2> DEFINE l == in[r]
  <2>1. l \in Seq(B) /\ l \in Deques(Addresses)
    BY <1>1, <1>2
  <2>2. f[r] \in Orders(l)
    BY <1>4
  <2> HIDE DEF l
  <2>3. PICK p \in Bijection(DOMAIN l, DOMAIN l) : f[r] = Rearranged(l, p)
    BY <2>2 DEF Orders, Rearranged
  <2>4. p \in [DOMAIN l -> DOMAIN l] /\ \A i \in DOMAIN l : \E j \in DOMAIN l : p[j] = i
    BY <2>3 DEF Bijection, Injection, Surjection
  <2>5. Rearranged(l, p) \in Deques(Addresses) /\ AmountOf(Rearranged(l, p)) = AmountOf(l)
    BY <2>1, <2>4, DequeRearranged
  <2>6. Orderly(Rearranged(l, p))
    <3>1. \A i \in DOMAIN l : l[i] \in B
      BY <2>1
    <3>2. DOMAIN Rearranged(l, p) = DOMAIN l
          /\ \A i \in DOMAIN l : Rearranged(l, p)[i] = l[p[i]]
      BY DEF Rearranged
    <3> QED
      BY <1>3, <2>4, <3>1, <3>2 DEF Orderly
  <2> QED
    BY <2>3, <2>5, <2>6 DEF l
<1> QED
  BY <1>4, <1>5

LEMMA ForecastBegins == PendingInit => ForecastInv
<1> SUFFICES ASSUME PendingInit PROVE ForecastInv
  OBVIOUS
<1>1. Init /\ IndexInv
  BY InitKeeps DEF PendingInit
<1>2. PICK in \in InputChoices, out \in OutputChoices :
        /\ tc = NewTransactionCache(Location, in, out.outputs,
                                    FirstEligible(out.outputs), out.total)
        /\ inputs = in /\ edicts = <<>>
  BY <1>1 DEF Init
<1>3. PICK f \in CollectInputRuneBalances(inputs) :
        pending = [tc |-> NewTransactionCache(PendingLocation, f, tc.eligible_outputs,
                                              None, tc.total_outputs),
                   entries |-> <<>>]
  BY DEF PendingInit, PendingLocation
<1>4. /\ f \in [RuneKeys -> Deques(Addresses)]
      /\ \A r \in RuneKeys : Orderly(f[r]) /\ AmountOf(f[r]) = AmountOf(inputs[r])
  BY <1>2, <1>3, CollectedBalances
<1> DEFINE t == NewTransactionCache(PendingLocation, f, tc.eligible_outputs, None,
                                    tc.total_outputs)
<1>5. tc.eligible_outputs = out.outputs
  BY <1>2 DEF NewTransactionCache
<1>6. /\ t.location = PendingLocation /\ t.next_event_index = 0 /\ t.etching = None
      /\ t.output_pointer = None /\ t.input_runes = f
      /\ t.eligible_outputs = out.outputs /\ IsTransaction(t)
  BY <1>5 DEF NewTransactionCache, IsTransaction
<1>7. pending.tc = t /\ pending.entries = <<>>
      /\ pending = [tc |-> pending.tc, entries |-> pending.entries]
  BY <1>3
<1> HIDE DEF t
<1>8. Carries(t, Addresses)
  <2>1. \A o \in DOMAIN out.outputs : out.outputs[o] \in Addresses
    BY OutputsAreOrdered
  <2> QED
    BY <1>4, <1>6, <2>1, PlacesHave DEF Carries
<1>9. ASSUME NEW r \in RuneKeys
      PROVE  /\ Orderly(f[r])
             /\ PaidAhead(<<>>, r) + AmountOf(f[r]) <= AmountOf(inputs[r])
  <2>1. HasAmounts(PaidOut(Foreseen, r))
    BY ChargesHaveAmounts DEF Foreseen
  <2>2. PaidAhead(<<>>, r) = 0
    BY <2>1, PaidOne DEF PaidAhead
  <2>3. AmountOf(f[r]) \in Nat /\ AmountOf(f[r]) = AmountOf(inputs[r])
    BY <1>4, AmountsAreNat
  <2> QED
    BY <1>4, <2>2, <2>3
<1>10. dropped = FALSE
  BY DEF PendingInit
<1>11. Forecast(pending, inputs, FALSE)
  BY <1>6, <1>7, <1>8, <1>9, PlacesHave DEF Forecast
<1>12. edicts \in Seq(EdictChoices)
  BY <1>2
<1> QED
  BY <1>1, <1>10, <1>11, <1>12 DEF ForecastInv

-----------------------------------------------------------------------------
(* The forecast of a pending transaction: its steps *)

\* What a step of the forecast keeps, beside the invariant of the mined transaction.
StillAhead ==
    /\ edicts' \in Seq(EdictChoices)
    /\ dropped' \in BOOLEAN
    /\ dropped' => stage' \in {"edicts", "done"}
    /\ Forecast(pending', inputs', dropped')

\* The operations the forecast leaves out.
LEMMA SkippedForecast ==
    ASSUME ForecastInv, NotParsed \/ EtchingSkipped \/ MintSkipped
    PROVE  StillAhead
<1> DEFINE Left == /\ stage \notin {"edicts", "done"}
                   /\ UNCHANGED <<inputs, edicts>> /\ UNCHANGED forecast
<1>1. Left
  <2>1. NotParsed => Left
    BY DEF NotParsed, NoArtifact
  <2>2. Etching => stage = "etching" /\ UNCHANGED <<inputs, edicts>>
    BY Zenon DEF Etching
  <2>3. Mint => stage = "mint" /\ UNCHANGED <<inputs, edicts>>
    BY Zenon DEF Mint
  <2>4. CenotaphMint => stage = "cenotaph mint" /\ UNCHANGED <<inputs, edicts>>
    BY Zenon DEF CenotaphMint
  <2>5. EtchingSkipped => Left
    BY <2>2 DEF EtchingSkipped
  <2>6. MintSkipped => Left
    BY <2>3, <2>4 DEF MintSkipped
  <2> QED
    BY <2>1, <2>5, <2>6, Zenon
<1>2. UNCHANGED <<inputs, edicts, pending, dropped>> /\ stage \notin {"edicts", "done"}
  BY <1>1 DEF forecast
<1>3. /\ edicts \in Seq(EdictChoices) /\ dropped = FALSE
      /\ Forecast(pending, inputs, dropped)
  BY <1>2 DEF ForecastInv
<1> QED
  BY <1>2, <1>3 DEF StillAhead

LEMMA PointerForecast ==
    ASSUME ForecastInv, NEW p \in PointerChoices, Pointer(p)
    PROVE  StillAhead
<1>1. /\ stage = "decipher" /\ UNCHANGED <<inputs, edicts, dropped>>
      /\ pending' = [pending EXCEPT !.tc.output_pointer = p]
  BY DEF Pointer, ApplyRunestone
<1>2. edicts \in Seq(EdictChoices) /\ dropped = FALSE /\ Forecast(pending, inputs, FALSE)
  BY <1>1 DEF ForecastInv
<1>3. p \in Places
  BY OutputsAssumption DEF OutputsAssumption, Places
<1> DEFINE t == pending.tc
           new == [t EXCEPT !.output_pointer = p]
<1>4. /\ pending = [tc |-> t, entries |-> pending.entries]
      /\ Carries(t, Addresses) /\ t.location = PendingLocation /\ t.etching = None
      /\ \E out \in OutputChoices : t.eligible_outputs = out.outputs
      /\ pending.entries \in Seq(Foreseen)
      /\ \A r \in RuneKeys :
            /\ Orderly(t.input_runes[r])
            /\ PaidAhead(pending.entries, r) + AmountOf(t.input_runes[r]) <= AmountOf(inputs[r])
  BY <1>2 DEF Forecast
<1>5. pending' = [tc |-> new, entries |-> pending.entries]
  BY <1>1, <1>4
<1> HIDE DEF t, new
<1>6. IsTransaction(t)
  BY <1>4 DEF Carries
<1>7. /\ IsTransaction(new)
      /\ new.output_pointer = p
      /\ new.etching = t.etching
      /\ new.location = t.location
      /\ new.eligible_outputs = t.eligible_outputs
      /\ new.input_runes = t.input_runes
      /\ new.next_event_index = t.next_event_index
  BY <1>6, PointerField DEF new
<1>8. Carries(new, Addresses)
  BY <1>4, <1>7 DEF Carries
<1>9. pending'.tc = new /\ pending'.entries = pending.entries
  BY <1>5
<1>10. Forecast(pending', inputs, FALSE)
  BY <1>3, <1>4, <1>5, <1>7, <1>8, <1>9 DEF Forecast
<1> QED
  BY <1>1, <1>2, <1>10 DEF StillAhead

\* An edict of 0:0 leaves a forecast that says nothing and holds nothing.
LEMMA DroppedForecast ==
    ASSUME NEW p, NEW in, Forecast(p, in, FALSE), in \in [RuneKeys -> Deques(Addresses)],
           NEW new, new = [tc |-> [ClearInputRunes(p.tc) EXCEPT !.eligible_outputs = <<>>],
                           entries |-> <<>>]
    PROVE  Forecast(new, in, TRUE)
<1> DEFINE t == p.tc
           none == [r \in RuneKeys |-> <<>>]
           cleared == [t EXCEPT !.input_runes = none]
           end == [cleared EXCEPT !.eligible_outputs = <<>>]
<1>1. /\ Carries(t, Addresses) /\ t.location = PendingLocation /\ t.etching = None
      /\ t.output_pointer \in Places
  BY DEF Forecast
<1>2. new = [tc |-> end, entries |-> <<>>]
  BY DEF ClearInputRunes
<1>3. new.tc = end /\ new.entries = <<>> /\ new = [tc |-> new.tc, entries |-> new.entries]
  BY <1>2
<1> HIDE DEF t, none, cleared, end
<1>4. /\ IsTransaction(t) /\ t.next_event_index \in Nat
  BY <1>1 DEF Carries
<1>5. /\ IsTransaction(cleared) /\ SameTransaction(t, cleared)
      /\ cleared.input_runes = none
      /\ cleared.next_event_index = t.next_event_index
  BY <1>4, InputRunesField DEF cleared
<1>6. /\ IsTransaction(end)
      /\ end.location = cleared.location /\ end.etching = cleared.etching
      /\ end.output_pointer = cleared.output_pointer
      /\ end.input_runes = cleared.input_runes
      /\ end.next_event_index = cleared.next_event_index
      /\ end.eligible_outputs = <<>>
  BY <1>5 DEF end, IsTransaction
<1>7. none \in [RuneKeys -> Deques(Addresses)] /\ \A r \in RuneKeys : none[r] = <<>>
  <2>1. <<>> \in Deques(Addresses)
    BY AmountFromEmpty
  <2> QED
    BY <2>1 DEF none
<1>8. Carries(end, Addresses)
  BY <1>4, <1>5, <1>6, <1>7, PlacesHave DEF Carries
<1>9. ASSUME NEW r \in RuneKeys
      PROVE  /\ Orderly(none[r])
             /\ PaidAhead(<<>>, r) + AmountOf(none[r]) <= AmountOf(in[r])
  <2>1. HasAmounts(PaidOut(Foreseen, r))
    BY ChargesHaveAmounts DEF Foreseen
  <2>2. PaidAhead(<<>>, r) = 0
    BY <2>1, PaidOne DEF PaidAhead
  <2>3. AmountOf(in[r]) \in Nat /\ AmountOf(<<>>) = 0
    BY AmountsAreNat, AmountFromEmpty
  <2>4. Orderly(<<>>)
    BY DEF Orderly
  <2> QED
    BY <1>7, <2>2, <2>3, <2>4
<1>10. HeldRunes(end) = {}
  BY <1>5, <1>6, <1>7 DEF HeldRunes
<1>11. end.location = PendingLocation /\ end.etching = None /\ end.output_pointer \in Places
  BY <1>1, <1>5, <1>6 DEF SameTransaction, t
<1> QED
  BY <1>3, <1>5, <1>6, <1>8, <1>9, <1>10, <1>11 DEF Forecast

LEMMA EdictForecast ==
    ASSUME ForecastInv, PendingEdict
    PROVE  StillAhead
<1>1. /\ stage = "edicts" /\ stage' = "edicts" /\ inputs' = inputs
      /\ \E e \in EdictChoices : edicts' = Append(edicts, e)
  BY Zenon DEF PendingEdict, Edict
<1>2. PICK e \in EdictChoices : edicts' = Append(edicts, e)
  BY <1>1
<1>3. /\ edicts \in Seq(EdictChoices) /\ dropped \in BOOLEAN
      /\ Forecast(pending, inputs, dropped)
      /\ inputs \in [RuneKeys -> Deques(Addresses)]
  BY DEF ForecastInv, IndexInv, Typed
<1>4. edicts' \in Seq(EdictChoices) /\ edicts'[Len(edicts')] = e
  BY <1>2, <1>3
<1> DEFINE res == ApplyEdict(pending.tc, e)
<1>5. IF dropped THEN UNCHANGED <<pending, dropped>>
      ELSE IF e.id = SelfId THEN DropAll /\ dropped' = TRUE
      ELSE Enter(res) /\ UNCHANGED dropped
  BY <1>4 DEF PendingEdict, CollectEdicts
<1>6. CASE dropped
  BY <1>1, <1>3, <1>4, <1>5, <1>6 DEF StillAhead
<1>7. CASE ~dropped /\ e.id = SelfId
  <2>1. /\ dropped' = TRUE
        /\ pending' = [tc |-> [ClearInputRunes(pending.tc) EXCEPT !.eligible_outputs = <<>>],
                       entries |-> <<>>]
    BY <1>5, <1>7 DEF DropAll
  <2>2. Forecast(pending, inputs, FALSE)
    BY <1>3, <1>7
  <2>3. Forecast(pending', inputs, TRUE)
    BY <1>3, <2>1, <2>2, DroppedForecast
  <2> QED
    BY <1>1, <1>4, <2>1, <2>3 DEF StillAhead
<1>8. CASE ~dropped /\ e.id # SelfId
  <2>1. dropped' = FALSE /\ dropped = FALSE /\ Enter(res)
    BY <1>3, <1>5, <1>8
  <2>2. Forecast(pending, inputs, FALSE)
    BY <1>3, <2>1
  <2>3. e.id \in RuneKeys /\ e.amount \in Nat /\ e.output \in Nat
    BY ArtifactAssumption DEF ArtifactAssumption
  <2>4. /\ Carries(pending.tc, Addresses) /\ pending.tc.etching = None
        /\ \E out \in OutputChoices : pending.tc.eligible_outputs = out.outputs
    BY <2>2 DEF Forecast
  <2>5. /\ IsFiniteSet(DOMAIN pending.tc.eligible_outputs)
        /\ \A k \in Nat : EligibleInOrder(pending.tc)[k] \in Places
    BY <2>4, OutputsAreOrdered
  <2>6. Settled(Addresses, Places, pending.tc, res)
    BY <2>3, <2>4, <2>5, EdictSettles, PlacesHave
  <2> HIDE DEF res
  <2>7. Forecast(Entering(pending, res), inputs, FALSE)
    BY <1>3, <2>2, <2>6, SettledForecast
  <2>8. pending' = Entering(pending, res)
    BY <2>1 DEF Enter, Entering
  <2> QED
    BY <1>1, <1>4, <2>1, <2>7, <2>8 DEF StillAhead
<1> QED
  BY <1>3, <1>6, <1>7, <1>8

LEMMA BurnForecast ==
    ASSUME ForecastInv, PendingBurn
    PROVE  StillAhead
<1> DEFINE res == ApplyCenotaphInputBurn(pending.tc)
<1>1. /\ stage = "decipher" /\ UNCHANGED <<inputs, edicts, dropped>>
      /\ Enter(res)
  BY DEF PendingBurn, ApplyCenotaph, BurnInput
<1>2. /\ edicts \in Seq(EdictChoices) /\ dropped = FALSE
      /\ Forecast(pending, inputs, FALSE)
      /\ inputs \in [RuneKeys -> Deques(Addresses)]
  BY <1>1 DEF ForecastInv, IndexInv, Typed
<1>3. Settled(Addresses, Places, pending.tc, res)
  <2>1. Carries(pending.tc, Addresses)
    BY <1>2 DEF Forecast
  <2>2. BurntOut(Addresses, Places, pending.tc, res)
    BY <2>1, CenotaphSettles, PlacesHave
  <2> HIDE DEF res
  <2> QED
    BY <2>2 DEF BurntOut
<1> HIDE DEF res
<1>4. Forecast(Entering(pending, res), inputs, FALSE)
  BY <1>2, <1>3, SettledForecast
<1>5. pending' = Entering(pending, res)
  BY <1>1 DEF Enter, Entering
<1> QED
  BY <1>1, <1>2, <1>4, <1>5 DEF StillAhead

LEMMA CenotaphEtchingForecast ==
    ASSUME ForecastInv, PendingCenotaphEtching
    PROVE  StillAhead
<1> DEFINE still == [tc |-> pending.tc, entries |-> <<>>]
           one   == OneEntry(pending.tc, SelfId, None, "etching")
           res   == IF tc'.etching = None THEN still ELSE one
<1>1. /\ stage = "cenotaph etching" /\ UNCHANGED <<inputs, edicts, dropped>>
      /\ Enter(res)
  <2>1. CenotaphEtching => stage = "cenotaph etching" /\ UNCHANGED <<inputs, edicts>>
    BY Zenon DEF CenotaphEtching
  <2> QED
    BY <2>1 DEF PendingCenotaphEtching
<1>2. /\ edicts \in Seq(EdictChoices) /\ dropped = FALSE
      /\ Forecast(pending, inputs, FALSE)
      /\ inputs \in [RuneKeys -> Deques(Addresses)]
  BY <1>1 DEF ForecastInv, IndexInv, Typed
<1>3. /\ Carries(pending.tc, Addresses) /\ pending.tc.location = PendingLocation
      /\ \A r \in RuneKeys : Orderly(pending.tc.input_runes[r])
  BY <1>2 DEF Forecast
<1>4. pending' = Entering(pending, res)
  BY <1>1 DEF Enter, Entering
<1>5. Settled(Addresses, Places, pending.tc, still)
  BY <1>3, NothingMoved
<1>6. Entered(Addresses, Places, pending.tc, SelfId, None, "etching", one)
  <2>1. SelfId \in RuneKeys
    BY DEF RuneKeys
  <2> QED
    BY <1>3, <2>1, OneEntryEntered, PlacesHave
<1> HIDE DEF still, one
<1>7. Forecast(Entering(pending, still), inputs, FALSE)
  BY <1>2, <1>5, SettledForecast
<1>8. Forecast(Entering(pending, one), inputs, FALSE)
  <2>1. /\ Carries(one.tc, Addresses) /\ SameTransaction(pending.tc, one.tc)
        /\ one.tc.input_runes = pending.tc.input_runes
        /\ one.entries \in Seq(Foreseen)
        /\ \A r \in RuneKeys : PaidAhead(one.entries, r) = 0
    BY <1>3, <1>6 DEF Entered, Foreseen, PaidAhead
  <2>2. \A r \in RuneKeys : AmountOf(pending.tc.input_runes[r]) \in Nat
    BY <1>3, AmountsAreNat DEF Carries
  <2>3. \A r \in RuneKeys :
            /\ Orderly(one.tc.input_runes[r])
            /\ PaidAhead(one.entries, r) + AmountOf(one.tc.input_runes[r])
                   <= AmountOf(pending.tc.input_runes[r])
    BY <1>3, <2>1, <2>2
  <2> QED
    BY <1>2, <2>1, <2>3, EnteringKeeps
<1>9. Forecast(pending', inputs, FALSE)
  BY <1>4, <1>7, <1>8
<1> QED
  BY <1>1, <1>2, <1>9 DEF StillAhead

LEMMA RestForecast ==
    ASSUME ForecastInv, PendingRest
    PROVE  StillAhead
<1> DEFINE res == MoveAllTo(pending.tc, pending.tc.output_pointer)
<1>1. /\ stage \in {"plain end", "edicts", "cenotaph end"}
      /\ stage = "edicts" => stage' = "done"
      /\ UNCHANGED <<inputs, edicts, dropped>>
      /\ pending' = pending \/ Enter(res)
  BY DEF PendingRest, EndTransaction, AllocateRemainingBalances
<1>2. /\ edicts \in Seq(EdictChoices) /\ dropped \in BOOLEAN
      /\ dropped => stage = "edicts"
      /\ Forecast(pending, inputs, dropped)
      /\ inputs \in [RuneKeys -> Deques(Addresses)]
  BY <1>1 DEF ForecastInv, IndexInv, Typed
<1>3. /\ Carries(pending.tc, Addresses) /\ pending.tc.location = PendingLocation
      /\ pending.tc.output_pointer \in Places
      /\ \A r \in RuneKeys : Orderly(pending.tc.input_runes[r])
      /\ dropped => HeldRunes(pending.tc) = {}
  BY <1>2 DEF Forecast
<1>4. MovedOut(Addresses, Places, pending.tc, res)
  BY <1>3, AllSettles
<1> HIDE DEF res
<1>5. /\ Settled(Addresses, Places, pending.tc, res)
      /\ res.tc.input_runes = [r \in RuneKeys |-> <<>>]
      /\ HeldRunes(pending.tc) = {} => res.entries = <<>>
  BY <1>4 DEF MovedOut
<1>6. HeldRunes(res.tc) = {}
  BY <1>5 DEF HeldRunes
<1>7. Forecast(Entering(pending, res), inputs, dropped)
  <2>1. /\ Carries(res.tc, Addresses) /\ SameTransaction(pending.tc, res.tc)
        /\ res.entries \in Seq(Foreseen)
        /\ \A r \in RuneKeys :
              Accounted(Addresses, Foreseen, r, pending.tc.input_runes[r],
                        res.tc.input_runes[r], res.entries)
    BY <1>3, <1>5 DEF Settled, Foreseen
  <2>2. \A r \in RuneKeys :
            /\ Orderly(res.tc.input_runes[r])
            /\ PaidAhead(res.entries, r) + AmountOf(res.tc.input_runes[r])
                   <= AmountOf(pending.tc.input_runes[r])
    BY <1>3, <2>1 DEF Accounted, PaidAhead
  <2>3. dropped => res.entries = <<>> /\ HeldRunes(res.tc) = {}
    BY <1>3, <1>5, <1>6
  <2> QED
    BY <1>2, <2>1, <2>2, <2>3, EnteringKeeps
<1>8. pending' = pending \/ pending' = Entering(pending, res)
  BY <1>1 DEF Enter, Entering
<1>9. Forecast(pending', inputs, dropped)
  BY <1>2, <1>7, <1>8
<1>10. dropped => stage' = "done"
  BY <1>1, <1>2
<1> QED
  BY <1>1, <1>2, <1>9, <1>10 DEF StillAhead

\* The forecast goes along with the steps of index_block.
LEMMA ForecastFollows ==
    [PendingNext]_<<vars, forecast>> => [Next]_vars
<1>1. NotParsed => NoArtifact
  BY DEF NotParsed
<1>2. \A p \in PointerChoices : Pointer(p) => ApplyRunestone(p)
  BY DEF Pointer
<1>3. (EtchingSkipped => Etching) /\ (MintSkipped => Mint \/ CenotaphMint)
  BY Zenon DEF EtchingSkipped, MintSkipped
<1>4. (PendingEdict => Edict) /\ (PendingBurn => ApplyCenotaph)
  BY Zenon DEF PendingEdict, PendingBurn
<1>5. (PendingCenotaphEtching => CenotaphEtching) /\ (PendingRest => EndTransaction)
  BY Zenon DEF PendingCenotaphEtching, PendingRest
<1> QED
  BY <1>1, <1>2, <1>3, <1>4, <1>5 DEF PendingNext, Next

LEMMA ForecastKeeps ==
    ForecastInv /\ [PendingNext]_<<vars, forecast>> => ForecastInv'
<1> SUFFICES ASSUME ForecastInv, [PendingNext]_<<vars, forecast>>
             PROVE  ForecastInv'
  OBVIOUS
<1>1. IndexInv'
  <2>1. IndexInv
    BY DEF ForecastInv
  <2> QED
    BY <2>1, ForecastFollows, StepKeeps
<1>2. StillAhead
  <2>1. CASE NotParsed \/ EtchingSkipped \/ MintSkipped
    BY <2>1, SkippedForecast
  <2>2. CASE \E p \in PointerChoices : Pointer(p)
    BY <2>2, PointerForecast
  <2>3. CASE PendingEdict
    BY <2>3, EdictForecast
  <2>4. CASE PendingBurn
    BY <2>4, BurnForecast
  <2>5. CASE PendingCenotaphEtching
    BY <2>5, CenotaphEtchingForecast
  <2>6. CASE PendingRest
    BY <2>6, RestForecast
  <2>7. CASE UNCHANGED <<vars, forecast>>
    <3>1. UNCHANGED <<edicts, dropped, stage, pending, inputs>>
      BY <2>7 DEF vars, forecast
    <3> QED
      BY <3>1 DEF StillAhead, ForecastInv
  <2> QED
    BY <2>1, <2>2, <2>3, <2>4, <2>5, <2>6, <2>7 DEF PendingNext
<1> QED
  BY <1>1, <1>2 DEF StillAhead, ForecastInv

\* The forecast of parse_mempool_tx promises and burns, of every rune, no more than
\* the inputs hold, in whatever order it collects them, and nothing at all when an
\* edict names 0:0.
THEOREM ForecastStaysWithinInputs == ForecastSpec => []ForecastWithinInputs
<1>1. PendingInit => ForecastInv
  BY ForecastBegins
<1>2. ForecastInv /\ [PendingNext]_<<vars, forecast>> => ForecastInv'
  BY ForecastKeeps
<1>3. ForecastInv => ForecastWithinInputs
  <2> SUFFICES ASSUME ForecastInv
               PROVE  /\ \A r \in RuneKeys :
                            PendingReceivedByAll(r) + PendingBurned(r) <= AmountOf(inputs[r])
                      /\ dropped => pending.entries = <<>>
    BY DEF ForecastWithinInputs
  <2>1. Forecast(pending, inputs, dropped) /\ inputs \in [RuneKeys -> Deques(Addresses)]
    BY DEF ForecastInv, IndexInv, Typed
  <2>2. ASSUME NEW r \in RuneKeys
        PROVE  PendingReceivedByAll(r) + PendingBurned(r) <= AmountOf(inputs[r])
    <3> DEFINE l == pending.entries
               paid == PaidAhead(l, r)
               left == AmountOf(pending.tc.input_runes[r])
               all  == AmountOf(inputs[r])
    <3>1. PendingReceivedByAll(r) = ReceivedIn(l, r) /\ PendingBurned(r) = BurnedIn(l, r)
      BY Zenon DEF PendingReceivedByAll, PendingBurned, PendingTotal, ReceivedIn, BurnedIn,
                   AmountsAt
    <3>2. l \in Seq(Foreseen) /\ paid + left <= all
      BY <2>1 DEF Forecast
    <3> HIDE DEF l
    <3>3. /\ ReceivedIn(l, r) \in Nat /\ BurnedIn(l, r) \in Nat
          /\ ReceivedIn(l, r) + BurnedIn(l, r) = paid
      BY <3>2, PaidSplits DEF Foreseen, PaidAhead
    <3>4. left \in Nat /\ all \in Nat
      <4>1. Carries(pending.tc, Addresses)
        BY <2>1 DEF Forecast
      <4>2. pending.tc.input_runes[r] \in Deques(Addresses) /\ inputs[r] \in Deques(Addresses)
        BY <2>1, <4>1 DEF Carries
      <4> QED
        BY <4>2, AmountOfIsSum
    <3> HIDE DEF paid, left, all
    <3>5. ReceivedIn(l, r) + BurnedIn(l, r) <= all
      BY <3>2, <3>3, <3>4
    <3> QED
      BY <3>1, <3>5 DEF all
  <2>3. dropped => pending.entries = <<>>
    BY <2>1 DEF Forecast
  <2> QED
    BY <2>2, <2>3
<1> QED
  BY <1>1, <1>2, <1>3, PTL DEF ForecastSpec
=============================================================================
