-------------------------- MODULE TransactionIndexer --------------------------
(***************************************************************************)
(* What index_block (src/db/index.rs) does with one transaction, on the    *)
(* operators of TransactionCache: decipher it, then for a runestone        *)
(* pointer, etching, mint and edicts, for a cenotaph the burn of the       *)
(* inputs, etching and mint, and at last the allocation of what is left.   *)
(* The fields of the artifact are chosen as they are reached, each once.   *)
(***************************************************************************)
EXTENDS TransactionCache, FiniteSetsExt

CONSTANTS
    Location,       \* the transaction's [height, index, tx]
    InputChoices,   \* what the inputs may hold: functions RuneKeys -> Seq(balance)
    OutputChoices,  \* output layouts [outputs, total]
    PointerChoices, EtchingChoices, MintChoices, EdictChoices,
    KnownRunes,     \* the runes etched before, RuneId -> DbRune
    MintTotals,     \* how often a rune may have been minted so far
    MaxEdicts       \* bound: edicts in a runestone

\* What inputs hold was received: each balance has an address and is not empty.
ASSUME InputsAssumption ==
    LET holders == UNION {UNION {{in[r][i].address : i \in DOMAIN in[r]} : r \in DOMAIN in} :
                             in \in InputChoices}
    IN  InputChoices \subseteq
            [RuneKeys -> Seq([address : holders \ {None}, amount : Nat \ {0}])]

\* Outputs are numbered from 0, and a pointer may name any of them.
ASSUME OutputsAssumption ==
    /\ \A out \in OutputChoices :
          IsFiniteSet(DOMAIN out.outputs) /\ DOMAIN out.outputs \subseteq Nat
    /\ PointerChoices \subseteq Optional(Nat)

\* The integers of an artifact are unsigned; the id of an etching is a rune's.
ASSUME ArtifactAssumption ==
    /\ RuneIdOf(Location) \in RuneIds
    /\ \A e \in EtchingChoices \ {None} :
          /\ e.premine \in Optional(Nat)
          /\ e.terms # None => e.terms.amount \in Optional(Nat)
    /\ MintChoices \subseteq RuneKeys
    /\ EdictChoices \subseteq [id : RuneKeys, amount : Nat, output : Nat]
    /\ \A id \in DOMAIN KnownRunes : KnownRunes[id].terms.amount \in Optional(Nat)

VARIABLES
    tc,         \* the TransactionCache
    ledger,     \* the entries written so far
    stage,      \* what index_block does next
    inputs,     \* input_runes as the transaction began
    credited,   \* rune -> amount minted or premined into the input runes
    burned_mint,\* rune -> amount burned by the mint of a cenotaph
    edicts      \* the edicts applied so far

vars == <<tc, ledger, stage, inputs, credited, burned_mint, edicts>>

FirstEligible(outputs) == IF DOMAIN outputs = {} THEN None ELSE Min(DOMAIN outputs)

Init ==
    \E in \in InputChoices, out \in OutputChoices :
        /\ tc = NewTransactionCache(Location, in, out.outputs,
                                    FirstEligible(out.outputs), out.total)
        /\ inputs = in
        /\ ledger = <<>>
        /\ stage = "decipher"
        /\ credited = [r \in RuneKeys |-> 0]
        /\ burned_mint = [r \in RuneKeys |-> 0]
        /\ edicts = <<>>

Record(result) ==
    /\ tc' = result.tc
    /\ ledger' = ledger \o result.entries

\* The rune a mint names: 0:0 is the one being etched here, and the rune cache
\* already holds it under its own id too.
MintedRune(id) ==
    IF id = SelfId \/ (tc.etching # None /\ id = RuneIdOf(Location)) THEN tc.etching
    ELSE IF id \in DOMAIN KnownRunes THEN KnownRunes[id] ELSE None

-----------------------------------------------------------------------------

NoArtifact ==
    /\ stage = "decipher"
    /\ stage' = "plain end"
    /\ UNCHANGED <<tc, ledger, inputs, credited, burned_mint, edicts>>

ApplyRunestone(p) ==
    /\ stage = "decipher"
    /\ tc' = IF p = None THEN tc ELSE [tc EXCEPT !.output_pointer = p]
    /\ stage' = "etching"
    /\ UNCHANGED <<ledger, inputs, credited, burned_mint, edicts>>

Etching ==
    /\ stage = "etching"
    /\ stage' = "mint"
    /\ \E e \in EtchingChoices :
        IF e = None THEN UNCHANGED <<tc, ledger, credited>>
        ELSE /\ Record(ApplyEtching(tc, e, 1))
             /\ credited' = [credited EXCEPT ![RuneIdOf(Location)] =
                    @ + IF e.premine = None THEN 0 ELSE e.premine]
    /\ UNCHANGED <<inputs, burned_mint, edicts>>

Mint ==
    /\ stage = "mint"
    /\ stage' = "edicts"
    /\ \E id \in MintChoices, total \in MintTotals :
        LET rune == MintedRune(id)
        IN  IF rune # None /\ IsRuneMintable(rune, total, Location)
            THEN /\ Record(ApplyMint(tc, id, rune))
                 /\ credited' = [credited EXCEPT ![id] = @ + rune.terms.amount]
            ELSE UNCHANGED <<tc, ledger, credited>>
    /\ UNCHANGED <<inputs, burned_mint, edicts>>

Edict ==
    /\ stage = "edicts"
    /\ Len(edicts) < MaxEdicts
    /\ \E e \in EdictChoices :
        /\ Record(ApplyEdict(tc, e))
        /\ edicts' = Append(edicts, e)
    /\ UNCHANGED <<stage, inputs, credited, burned_mint>>

ApplyCenotaph ==
    /\ stage = "decipher"
    /\ stage' = "cenotaph etching"
    /\ Record(ApplyCenotaphInputBurn(tc))
    /\ UNCHANGED <<inputs, credited, burned_mint, edicts>>

CenotaphEtching ==
    /\ stage = "cenotaph etching"
    /\ stage' = "cenotaph mint"
    /\ \E e \in EtchingChoices :
        IF e = None THEN UNCHANGED <<tc, ledger>>
        ELSE Record(ApplyCenotaphEtching(tc, e.name, 1))
    /\ UNCHANGED <<inputs, credited, burned_mint, edicts>>

CenotaphMint ==
    /\ stage = "cenotaph mint"
    /\ stage' = "cenotaph end"
    /\ \E id \in MintChoices, total \in MintTotals :
        LET rune == MintedRune(id)
        IN  IF rune # None /\ IsRuneMintable(rune, total, Location)
            THEN /\ Record(ApplyCenotaphMint(tc, id, rune))
                 /\ burned_mint' = [burned_mint EXCEPT ![id] = @ + rune.terms.amount]
            ELSE UNCHANGED <<tc, ledger, burned_mint>>
    /\ UNCHANGED <<inputs, credited, edicts>>

EndTransaction ==
    /\ stage \in {"plain end", "edicts", "cenotaph end"}
    /\ stage' = IF stage = "cenotaph end" THEN "cenotaph done" ELSE "done"
    /\ Record(AllocateRemainingBalances(tc))
    /\ UNCHANGED <<inputs, credited, burned_mint, edicts>>

Next ==
    \/ NoArtifact
    \/ \E p \in PointerChoices : ApplyRunestone(p)
    \/ Etching \/ Mint \/ Edict
    \/ ApplyCenotaph \/ CenotaphEtching \/ CenotaphMint
    \/ EndTransaction

Spec == Init /\ [][Next]_vars

-----------------------------------------------------------------------------
(* Properties *)

Stages == {"decipher", "plain end", "etching", "mint", "edicts",
           "cenotaph etching", "cenotaph mint", "cenotaph end",
           "done", "cenotaph done"}

\* The type invariant: input balances are deques of addressed or minted amounts
\* and entries carry the fields of a DbLedgerEntry, numbered from 0 without a gap.
TypeOK ==
    /\ stage \in Stages
    /\ tc.next_event_index = Len(ledger)
    /\ \A r \in RuneKeys : \A i \in DOMAIN tc.input_runes[r] :
        tc.input_runes[r][i].amount \in Nat
    /\ \A i \in DOMAIN ledger :
        /\ ledger[i].event = i - 1
        /\ ledger[i].rune \in RuneKeys
        /\ ledger[i].op \in {"etching", "mint", "burn", "send", "receive"}
        /\ ledger[i].amount \in Nat \/ ledger[i].op = "etching"
        /\ ledger[i].op = "receive" => ledger[i].amount > 0 /\ ledger[i].address # None

Total(S(_)) == MapThenSumSet(LAMBDA i : ledger[i].amount,
                             {i \in DOMAIN ledger : S(ledger[i])})

Received(rune, output) ==
    Total(LAMBDA e : e.op = "receive" /\ e.rune = rune /\ e.output = output)

ReceivedByAll(rune) == Total(LAMBDA e : e.op = "receive" /\ e.rune = rune)

Burned(rune) == Total(LAMBDA e : e.op = "burn" /\ e.rune = rune)

Unallocated(rune) == AmountOf(tc.input_runes[rune])

HeldBy(balances, address) ==
    MapThenSumSet(LAMBDA i : balances[i].amount,
                  {i \in DOMAIN balances : balances[i].address = address})

\* No unit is made up: what outputs receive, what is burned and what is still
\* unallocated never exceeds what the inputs held and what was premined and
\* minted, whatever order edicts take balances from the deque in.
NoInflation ==
    \A r \in RuneKeys :
        ReceivedByAll(r) + Burned(r) + Unallocated(r)
            <= AmountOf(inputs[r]) + credited[r] + burned_mint[r]

Senders == UNION {{inputs[r][i].address : i \in DOMAIN inputs[r]} : r \in RuneKeys}

\* Each sender is charged for exactly what left its inputs: until the end, its
\* sends and burns plus what it still has unallocated are what it put in.
SendersAccounted ==
    \A r \in RuneKeys, a \in Senders \ {None} :
        Total(LAMBDA e : e.op \in {"send", "burn"} /\ e.rune = r /\ e.address = a)
            + HeldBy(tc.input_runes[r], a)
            = HeldBy(inputs[r], a)

\* A cenotaph burns all: no output receives anything, and of each rune the burn
\* entries add up to what the inputs held and the cenotaph minted of it.
CenotaphBurnsAll ==
    stage = "cenotaph done" =>
        \A r \in RuneKeys :
            /\ ReceivedByAll(r) = 0
            /\ Burned(r) = AmountOf(inputs[r]) + burned_mint[r]

\* Every unit an input held, a premine or a mint that is in no output at the
\* end is in a burn entry ("If `None`, runes are burned").
BurnsRecorded ==
    stage \in {"done", "cenotaph done"} =>
        \A r \in RuneKeys :
            ReceivedByAll(r) + Burned(r)
                >= AmountOf(inputs[r]) + credited[r]

(* What an edict promises, on the amounts alone, with no deques *)

Rank(output) == Cardinality({o \in DOMAIN tc.eligible_outputs : o <= output})

WantedShare(e, balance, output) ==
    LET n == Cardinality(DOMAIN tc.eligible_outputs)
    IN  IF e.output > tc.total_outputs THEN 0
        ELSE IF e.output < tc.total_outputs
             THEN IF e.output # output THEN 0
                  ELSE IF e.amount = 0 THEN balance ELSE AtMost(e.amount, balance)
        ELSE IF e.amount = 0
             THEN (balance + n - Rank(output)) \div n
             ELSE AtMost(e.amount, Max({0, balance - e.amount * (Rank(output) - 1)}))

ToNoOutput(e) == DOMAIN tc.eligible_outputs = {} \/ e.output > tc.total_outputs

WantedBurn(e, balance) ==
    IF ToNoOutput(e)
    THEN IF e.amount = 0 THEN balance ELSE AtMost(e.amount, balance)
    ELSE IF e.output < tc.total_outputs /\ e.output \notin DOMAIN tc.eligible_outputs
    THEN IF e.amount = 0 THEN balance ELSE AtMost(e.amount, balance)
    ELSE 0

EdictRune(e) == IF e.id # SelfId THEN e.id
                ELSE IF tc.etching = None THEN None ELSE RuneIdOf(Location)

\* A balance of nothing, a premine of Some(0), in front of the others of a rune:
\* a move of everything has then sent the 0 it was asked for, and stops there.
ZeroInFront(r) == tc.input_runes[r] # <<>> /\ tc.input_runes[r][1].amount = 0

\* An edict allocates exactly the amounts the protocol fixes for it: its amount,
\* or all for zero, to one output; an equal division with the remainder on the
\* first outputs; its amount to each until the balance runs out; the rest of the
\* balance stays. A loop over a deque that took 0 for "everything" too early
\* or too late, or served outputs out of order, would not. Excepted is an edict
\* of 0 to no output when a balance of nothing stands in front.
EdictAllocation ==
    [][Len(edicts') > Len(edicts) =>
        LET e == edicts'[Len(edicts')]
        IN  \A r \in RuneKeys :
          ~(ToNoOutput(e) /\ e.amount = 0 /\ ZeroInFront(r)) =>
            LET balance == IF r = EdictRune(e) THEN Unallocated(r) ELSE 0
                Given(o) == WantedShare(e, balance, o)
            IN  /\ \A o \in DOMAIN tc.eligible_outputs :
                     tc.eligible_outputs[o] # None =>
                        Received(r, o)' = Received(r, o) + Given(o)
                /\ Unallocated(r)' = Unallocated(r) - WantedBurn(e, balance)
                       - MapThenSumSet(Given, DOMAIN tc.eligible_outputs)]_vars

Ends == stage' \in {"done", "cenotaph done"} /\ stage' # stage

RestToPointer(r) ==
    \A o \in DOMAIN tc.eligible_outputs :
        Received(r, o)' = Received(r, o) +
            IF o = tc.output_pointer /\ tc.eligible_outputs[o] # None
            THEN Unallocated(r) ELSE 0

\* When the transaction ends, all that is unallocated of a rune goes to the output
\* pointer and to no other output, unless a balance of nothing stands in front.
RemainderToPointer ==
    [][Ends => \A r \in RuneKeys : ZeroInFront(r) \/ RestToPointer(r)]_vars

-----------------------------------------------------------------------------
(* What the code does not keep: no run claims this *)

\* RemainderToPointer with no exception ("If value is zero, all inputs will be moved
\* to the output").
AllInputsMoved == [][Ends => \A r \in RuneKeys : RestToPointer(r)]_vars
=============================================================================
