--------------------------- MODULE TransactionCache ---------------------------
(***************************************************************************)
(* The rune arithmetic of one Bitcoin transaction: the struct              *)
(* TransactionCache of src/db/cache/transaction_cache.rs and the functions *)
(* of src/db/cache/utils.rs it calls, as operators on a record tc.         *)
(*                                                                         *)
(* An operation that writes ledger entries returns a result                *)
(*     [tc |-> the cache afterwards, entries |-> the entries, in order].   *)
(***************************************************************************)
EXTENDS Integers, Sequences, SequencesExt, FiniteSetsExt

CONSTANTS
    RuneIds,    \* the real rune ids <<block, tx>> that can hold a balance
    None,       \* Option::None
    Word64      \* how many values a u64 has: block_height + offset wraps there

ASSUME Word64Assumption == Word64 \in Nat \ {0}

\* An id is a u64 and a u32.
ASSUME RuneIdsAssumption == IsFiniteSet(RuneIds)

\* The id 0:0, which a runestone uses for the rune its own transaction etches.
SelfId == <<0, 0>>

RuneKeys == RuneIds \cup {SelfId}

Optional(S) == S \cup {None}

AtMost(a, b) == IF a < b THEN a ELSE b

\* RuneId of a transaction that etches: its block height and index.
RuneIdOf(location) == <<location.height, location.index>>

Entry(tc, offset, rune, amount, output, address, receiver, op) ==
    [rune |-> rune, height |-> tc.location.height, tx |-> tc.location.tx,
     event |-> tc.next_event_index + offset, output |-> output,
     address |-> address, receiver |-> receiver, amount |-> amount, op |-> op]

NewTransactionCache(location, input_runes, outputs, first_eligible, total) ==
    [location |-> location, next_event_index |-> 0, etching |-> None,
     output_pointer |-> first_eligible, input_runes |-> input_runes,
     eligible_outputs |-> outputs, total_outputs |-> total]

-----------------------------------------------------------------------------
(* move_rune_balance_to_output *)

\* Mutant of PopBalance: a partly used balance is put back whole.
PopBalanceKeepsWhole(amount, acc, bal) ==
    IF acc.done THEN [acc EXCEPT !.left = Append(@, bal)]
    ELSE LET taken == IF amount = 0 THEN bal.amount
                      ELSE AtMost(bal.amount, amount - acc.sent)
         IN  [sent    |-> acc.sent + taken,
              senders |-> IF bal.address = None THEN acc.senders
                          ELSE Append(acc.senders, [bal EXCEPT !.amount = taken]),
              left    |-> IF taken < bal.amount THEN Append(acc.left, bal) ELSE acc.left,
              done    |-> taken < bal.amount \/ acc.sent + taken = amount]

\* Mutant of PopBalance: the sender is charged for its whole balance.
PopBalanceChargesWhole(amount, acc, bal) ==
    IF acc.done THEN [acc EXCEPT !.left = Append(@, bal)]
    ELSE LET taken == IF amount = 0 THEN bal.amount
                      ELSE AtMost(bal.amount, amount - acc.sent)
             rest  == bal.amount - taken
         IN  [sent    |-> acc.sent + taken,
              senders |-> IF bal.address = None THEN acc.senders
                          ELSE Append(acc.senders, bal),
              left    |-> IF rest > 0
                          THEN Append(acc.left, [bal EXCEPT !.amount = rest])
                          ELSE acc.left,
              done    |-> rest > 0 \/ acc.sent + taken = amount]

\* One round of the loop that pops balances until the amount is satisfied.
PopBalance(amount, acc, bal) ==
    IF acc.done THEN [acc EXCEPT !.left = Append(@, bal)]
    ELSE LET taken == IF amount = 0 THEN bal.amount
                      ELSE AtMost(bal.amount, amount - acc.sent)
             rest  == bal.amount - taken
         IN  [sent    |-> acc.sent + taken,
              senders |-> IF bal.address = None THEN acc.senders
                          ELSE Append(acc.senders, [bal EXCEPT !.amount = taken]),
              left    |-> IF rest > 0
                          THEN Append(acc.left, [bal EXCEPT !.amount = rest])
                          ELSE acc.left,
              done    |-> rest > 0 \/ acc.sent + taken = amount]

TakeBalance(balances, amount) ==
    FoldLeft(LAMBDA acc, bal : PopBalance(amount, acc, bal),
             [sent |-> 0, senders |-> <<>>, left |-> <<>>, done |-> FALSE],
             balances)

\* The address of an eligible output; None for the absent output, for one
\* that is not eligible and for a script that has no address.
ReceiverOf(tc, output) ==
    IF output \in DOMAIN tc.eligible_outputs
    THEN tc.eligible_outputs[output] ELSE None

MoveRuneBalance(result, output, rune, amount) ==
    LET tc       == result.tc
        receiver == ReceiverOf(tc, output)
        taken    == TakeBalance(tc.input_runes[rune], amount)
        receives == IF receiver # None /\ taken.sent > 0
                    THEN <<Entry(tc, 0, rune, taken.sent, output, receiver, None,
                                 "receive")>>
                    ELSE <<>>
        sends    == [i \in DOMAIN taken.senders |->
                        Entry(tc, Len(receives) + i - 1, rune,
                              taken.senders[i].amount, output,
                              taken.senders[i].address, receiver,
                              IF receiver = None THEN "burn" ELSE "send")]
    IN  [tc |-> [tc EXCEPT !.input_runes[rune] = taken.left,
                           !.next_event_index = @ + Len(receives) + Len(sends)],
         entries |-> result.entries \o receives \o sends]

-----------------------------------------------------------------------------
(* Mints and etchings *)

Within(height, first, last) ==
    /\ first # None => height >= first
    /\ last # None => height <= last

\* A height given as an offset from the block of the etching, added as u64.
FromEtching(rune, offset) ==
    IF offset = None THEN None ELSE (rune.height + offset) % Word64

IsRuneMintable(rune, total_mints, location) ==
    /\ ~rune.cenotaph
    /\ rune.terms.amount # None
    /\ rune.terms.cap # None => total_mints < rune.terms.cap
    /\ Within(location.height, rune.terms.height_start, rune.terms.height_end)
    /\ Within(location.height, FromEtching(rune, rune.terms.offset_start),
              FromEtching(rune, rune.terms.offset_end))

AddInputRunes(tc, rune, amount) ==
    [tc EXCEPT !.input_runes[rune] =
        Append(@, [address |-> None, amount |-> amount])]

OneEntry(tc, rune, amount, op) ==
    [tc |-> [tc EXCEPT !.next_event_index = @ + 1],
     entries |-> <<Entry(tc, 0, rune, amount, None, None, None, op)>>]

NoTerms ==
    [amount |-> None, cap |-> None, height_start |-> None, height_end |-> None,
     offset_start |-> None, offset_end |-> None]

DbRuneFromEtching(etching, number, location) ==
    [id |-> RuneIdOf(location), number |-> number, name |-> etching.name,
     height |-> location.height,
     premine |-> IF etching.premine = None THEN 0 ELSE etching.premine,
     terms |-> IF etching.terms = None THEN NoTerms ELSE etching.terms,
     cenotaph |-> FALSE]

DbRuneFromCenotaphEtching(name, number, location) ==
    [id |-> RuneIdOf(location), number |-> number, name |-> name,
     height |-> location.height, premine |-> 0, terms |-> NoTerms,
     cenotaph |-> TRUE]

ApplyEtching(tc, etching, number) ==
    LET id     == RuneIdOf(tc.location)
        etched == [tc EXCEPT !.etching =
                      DbRuneFromEtching(etching, number, tc.location)]
    IN  OneEntry(IF etching.premine = None THEN etched
                 ELSE AddInputRunes(etched, id, etching.premine),
                 id, None, "etching")

ApplyCenotaphEtching(tc, name, number) ==
    OneEntry([tc EXCEPT !.etching =
                 DbRuneFromCenotaphEtching(name, number, tc.location)],
             RuneIdOf(tc.location), None, "etching")

\* The tail of apply_mint, reached when IsRuneMintable.
ApplyMint(tc, id, rune) ==
    OneEntry(AddInputRunes(tc, id, rune.terms.amount), id, rune.terms.amount, "mint")

\* Mutant of ApplyCenotaphMint: what is minted is gone with no burn entry.
ApplyCenotaphMintUnwritten(tc, id, rune) == [tc |-> tc, entries |-> <<>>]

\* A cenotaph's mint is burned at once: it never reaches the input runes.
ApplyCenotaphMint(tc, id, rune) == OneEntry(tc, id, rune.terms.amount, "burn")

-----------------------------------------------------------------------------
(* Edicts, cenotaphs and the end of a transaction *)

AmountOf(balances) ==
    FoldLeft(LAMBDA sum, bal : sum + bal.amount, 0, balances)

EligibleInOrder(tc) == SetToSortSeq(DOMAIN tc.eligible_outputs, <)

\* Give each eligible output, in order, its share of the rune.
MoveToEach(result, rune, shares) ==
    LET outputs == EligibleInOrder(result.tc)
    IN  FoldLeft(LAMBDA acc, i : MoveRuneBalance(acc, outputs[i], rune, shares[i]),
                 result, [i \in DOMAIN shares |-> i])

\* Mutant of EqualShare: the remainder is not handed out.
EqualShareNoRemainder(unallocated, n, i) == unallocated \div n

\* The share of the i-th of n outputs when a balance is divided equally: the
\* first outputs take one more each until the remainder is used up.
EqualShare(unallocated, n, i) ==
    (unallocated \div n) + (IF i <= unallocated % n THEN 1 ELSE 0)

ApplyEdict(tc, edict) ==
    LET start       == [tc |-> tc, entries |-> <<>>]
        rune        == IF edict.id = SelfId THEN tc.etching.id ELSE edict.id
        unallocated == AmountOf(tc.input_runes[rune])
        n           == Cardinality(DOMAIN tc.eligible_outputs)
    IN  IF edict.id = SelfId /\ tc.etching = None THEN start
        ELSE IF n = 0 \/ edict.output > tc.total_outputs
             THEN MoveRuneBalance(start, None, rune, edict.amount)
        ELSE IF edict.output < tc.total_outputs
             THEN MoveRuneBalance(start, edict.output, rune,
                      IF edict.amount = 0 THEN unallocated ELSE edict.amount)
        ELSE IF edict.amount = 0
             THEN MoveToEach(start, rune, [i \in 1..n |-> EqualShare(unallocated, n, i)])
             ELSE MoveToEach(start, rune, [i \in 1..n |-> AtMost(edict.amount, unallocated)])

\* The runes the inputs hold. The code visits them in the order of a HashMap; a
\* fold over the set fixes one order, and runes do not depend on one another.
HeldRunes(tc) == {r \in RuneKeys : tc.input_runes[r] # <<>>}

ClearInputRunes(tc) == [tc EXCEPT !.input_runes = [r \in RuneKeys |-> <<>>]]

MoveAllTo(tc, output) ==
    LET moved == FoldSet(LAMBDA r, acc : MoveRuneBalance(acc, output, r, 0),
                         [tc |-> tc, entries |-> <<>>], HeldRunes(tc))
    IN  [moved EXCEPT !.tc = ClearInputRunes(@)]

\* Mutant of AllocateRemainingBalances: the pointer of the runestone is ignored.
AllocateRemainingToFirst(tc) ==
    LET outputs == EligibleInOrder(tc)
    IN  MoveAllTo(tc, IF outputs = <<>> THEN None ELSE outputs[1])

AllocateRemainingBalances(tc) == MoveAllTo(tc, tc.output_pointer)

\* One burn entry for each balance, those without an address included.
BurnBalances(tc, offset, rune) ==
    [i \in DOMAIN tc.input_runes[rune] |->
        Entry(tc, offset + i - 1, rune, tc.input_runes[rune][i].amount, None,
              tc.input_runes[rune][i].address, None, "burn")]

ApplyCenotaphInputBurn(tc) ==
    LET burns == FoldSet(LAMBDA r, acc : acc \o BurnBalances(tc, Len(acc), r),
                         <<>>, HeldRunes(tc))
    IN  [tc |-> [ClearInputRunes(tc) EXCEPT !.next_event_index = @ + Len(burns)],
         entries |-> burns]
=============================================================================
