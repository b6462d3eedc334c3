--------------------------- MODULE MempoolForecast ---------------------------
(***************************************************************************)
(* What parse_mempool_tx (src/mempool.rs) enters for a pending             *)
(* transaction, beside what index_block enters for the same transaction    *)
(* once it is mined.  The two are separate copies of the rules: the        *)
(* forecast knows no premine, no mint and no default output, and its       *)
(* balances are a Vec used as a stack.  A stack is written top first here, *)
(* which makes taking from its end the same as taking from the front of    *)
(* the deque, so the operators of TransactionCache serve for both.         *)
(***************************************************************************)
EXTENDS TransactionIndexer

VARIABLES
    pending,    \* the balances and entries of parse_mempool_tx, [tc, entries]
    has_pointer,\* whether the runestone names an output for the rest
    dropped     \* whether an edict of 0:0 made it drop everything

forecast == <<pending, has_pointer, dropped>>

\* The order in which the inputs are collected: that of a HashMap's values.
Orders(balances) ==
    {[i \in DOMAIN balances |-> balances[p[i]]] :
        p \in Bijection(DOMAIN balances, DOMAIN balances)}

\* collect_input_rune_balances_pg: one of the orders for each rune.
CollectInputRuneBalances(in) ==
    {f \in [RuneKeys -> UNION {Orders(in[r]) : r \in RuneKeys}] :
        \A r \in RuneKeys : f[r] \in Orders(in[r])}

PendingInit ==
    /\ Init
    /\ \E balances \in CollectInputRuneBalances(inputs) :
        pending = [tc |-> NewTransactionCache(
                              [Location EXCEPT !.height = 0], balances,
                              tc.eligible_outputs, None, tc.total_outputs),
                   entries |-> <<>>]
    /\ has_pointer = FALSE
    /\ dropped = FALSE

Enter(result) ==
    pending' = [tc |-> result.tc, entries |-> pending.entries \o result.entries]

-----------------------------------------------------------------------------

NotParsed == NoArtifact /\ UNCHANGED forecast

Pointer(p) ==
    /\ ApplyRunestone(p)
    /\ pending' = [pending EXCEPT !.tc.output_pointer = p]
    /\ has_pointer' = (p # None)
    /\ UNCHANGED dropped

\* Etchings and mints of a runestone are left out of the forecast.
EtchingSkipped == Etching /\ UNCHANGED forecast
MintSkipped == (Mint \/ CenotaphMint) /\ UNCHANGED forecast

\* Mutant of DropAll: what was entered for earlier edicts stays.
DropAllKeepsEntries ==
    pending' = [pending EXCEPT !.tc = [ClearInputRunes(@) EXCEPT
                                          !.eligible_outputs = <<>>]]

\* An edict of 0:0 clears what was entered and held, and ends the loop.
DropAll ==
    pending' = [tc |-> [ClearInputRunes(pending.tc) EXCEPT !.eligible_outputs = <<>>],
                entries |-> <<>>]

\* Mutant of CollectEdicts: "divide equally" loses the remainder.
CollectEdictsNoRemainder(f, edict) ==
    LET n == Cardinality(DOMAIN f.eligible_outputs)
    IN  IF edict.output = f.total_outputs /\ edict.amount = 0 /\ n > 0
        THEN MoveToEach([tc |-> f, entries |-> <<>>], edict.id,
                        [i \in 1..n |-> AmountOf(f.input_runes[edict.id]) \div n])
        ELSE ApplyEdict(f, edict)

\* collect_edicts, the copy of apply_edict.
CollectEdicts(f, edict) == ApplyEdict(f, edict)

PendingEdict ==
    /\ Edict
    /\ LET edict == edicts'[Len(edicts')]
       IN  IF dropped THEN UNCHANGED <<pending, dropped>>
           ELSE IF edict.id = SelfId THEN DropAll /\ dropped' = TRUE
           ELSE Enter(CollectEdicts(pending.tc, edict)) /\ UNCHANGED dropped
    /\ UNCHANGED has_pointer

BurnInput(f) == ApplyCenotaphInputBurn(f)

PendingBurn ==
    /\ ApplyCenotaph
    /\ Enter(BurnInput(pending.tc))
    /\ UNCHANGED <<has_pointer, dropped>>

\* The etching of a cenotaph is entered under 0:0.
PendingCenotaphEtching ==
    /\ CenotaphEtching
    /\ Enter(IF tc'.etching = None THEN [tc |-> pending.tc, entries |-> <<>>]
             ELSE OneEntry(pending.tc, SelfId, None, "etching"))
    /\ UNCHANGED <<has_pointer, dropped>>

\* What is left goes to the pointer, or is burned if there is none.
PendingRest ==
    /\ EndTransaction
    /\ IF stage = "plain end" THEN UNCHANGED pending
       ELSE Enter(AllocateRemainingBalances(pending.tc))
    /\ UNCHANGED <<has_pointer, dropped>>

PendingNext ==
    \/ NotParsed
    \/ \E p \in PointerChoices : Pointer(p)
    \/ EtchingSkipped \/ MintSkipped \/ PendingEdict
    \/ PendingBurn \/ PendingCenotaphEtching
    \/ PendingRest

ForecastSpec == PendingInit /\ [][PendingNext]_<<vars, forecast>>

-----------------------------------------------------------------------------
(* Properties *)

PendingTotal(S(_)) ==
    MapThenSumSet(LAMBDA i : pending.entries[i].amount,
                  {i \in DOMAIN pending.entries : S(pending.entries[i])})

PendingReceived(rune, output) ==
    PendingTotal(LAMBDA e : e.op = "receive" /\ e.rune = rune /\ e.output = output)

PendingReceivedByAll(rune) ==
    PendingTotal(LAMBDA e : e.op = "receive" /\ e.rune = rune)

PendingBurned(rune) == PendingTotal(LAMBDA e : e.op = "burn" /\ e.rune = rune)

\* A runestone that names its output for the rest pays each output, once mined,
\* at least what the forecast says, and exactly that when it mints and premines
\* nothing of the rune, though the forecast takes the balances in another order.
\* A cenotaph burns what the forecast says it burns, and its mint.
ForecastMatches ==
    /\ stage = "done" /\ has_pointer /\ ~dropped =>
        \A r \in RuneKeys :
            /\ \A o \in DOMAIN tc.eligible_outputs :
                /\ PendingReceived(r, o) <= Received(r, o)
                /\ credited[r] = 0 => PendingReceived(r, o) = Received(r, o)
            /\ credited[r] = 0 => PendingBurned(r) = Burned(r)
    /\ stage = "cenotaph done" =>
        \A r \in RuneKeys : PendingBurned(r) + burned_mint[r] = Burned(r)

\* The forecast never promises or burns more than the inputs hold, whatever output
\* it promises it to, and says nothing of a transaction with an edict of 0:0.
ForecastWithinInputs ==
    /\ \A r \in RuneKeys :
        PendingReceivedByAll(r) + PendingBurned(r) <= AmountOf(inputs[r])
    /\ dropped => pending.entries = <<>>
=============================================================================
