-------------------------------- MODULE Ledger --------------------------------
(***************************************************************************)
(* What the block indexer promises, without its caches: a block is one     *)
(* step that applies its transactions in order to the committed tables     *)
(* runes and ledger.  Every lookup reads the tables as the block so far    *)
(* would leave them; nothing is pending, cached, flushed or lost.          *)
(*                                                                         *)
(* The arithmetic of a transaction is that of TransactionCache.  Supplies  *)
(* and balances are sums over the ledger and are not repeated here.        *)
(***************************************************************************)
EXTENDS TransactionCache

CONSTANTS
    Txs,            \* the transactions that may be mined
    TxData,         \* tx -> [inputs, outputs, total, artifact]
    StartHeight,    \* height of the first block
    GenesisRune,    \* the rune that is there from the start
    MaxBlockTxs     \* bound: transactions in a block

VARIABLES
    runes,          \* the rows of runes
    ledger,         \* the rows of ledger
    chain           \* the blocks applied, as sequences of transactions

vars == <<runes, ledger, chain>>

Init ==
    /\ runes = {GenesisRune}
    /\ ledger = {}
    /\ chain = <<>>

-----------------------------------------------------------------------------
(* One transaction: acc is [tc, runes, ledger] *)

\* Take over what an operation of the transaction cache returns.
Then(acc, result) ==
    [acc EXCEPT !.tc = result.tc, !.ledger = @ \cup ToSet(result.entries)]

\* What an output received and an input spends, in the order of the events.
Held(entries, o) ==
    SetToSortSeq({e \in entries : e.op = "receive" /\ e.tx = o[1] /\ e.output = o[2]},
                 LAMBDA d, e : d.event < e.event)

InputRunes(entries, outpoints) ==
    LET held == FlattenSeq([i \in DOMAIN outpoints |-> Held(entries, outpoints[i])])
        Balance(e) == [address |-> e.address, amount |-> e.amount]
        Of(r) == FoldLeft(LAMBDA seq, e : IF e.rune = r THEN Append(seq, Balance(e)) ELSE seq,
                          <<>>, held)
    IN  FoldSet(LAMBDA r, map : map @@ (r :> Of(r)), <<>>, RuneKeys)

Begin(s, tx, location) ==
    LET data == TxData[tx]
    IN  [tc |-> NewTransactionCache(location, InputRunes(s.ledger, data.inputs),
                    data.outputs,
                    IF DOMAIN data.outputs = {} THEN None ELSE Min(DOMAIN data.outputs),
                    data.total),
         runes |-> s.runes, ledger |-> s.ledger]

NextNumber(acc) == Max({r.number : r \in acc.runes}) + 1

\* The row is stored without its cenotaph column.
Etched(acc, result) ==
    [Then(acc, result) EXCEPT !.runes =
        @ \cup {[result.tc.etching EXCEPT !.cenotaph = FALSE]}]

RuneOf(acc, id) ==
    LET rows == {r \in acc.runes : r.id = id}
    IN  IF id = SelfId THEN acc.tc.etching
        ELSE IF rows = {} THEN None ELSE CHOOSE r \in rows : TRUE

\* How often a rune counts as minted. A cenotaph's mint is burned and not
\* recorded as a mint, and it is left open whether it counts.
MintCounts(acc, id) ==
    LET Of(op) == {e \in acc.ledger : e.rune = id /\ e.op = op}
        mints  == Cardinality(Of("mint"))
    IN  mints..(mints + Cardinality({e \in Of("burn") : e.address = None}))

\* The possible outcomes of a mint, whose result is applied where the rune is mintable.
Minted(acc, id, result) ==
    LET rune == RuneOf(acc, id)
    IN  IF id = None \/ rune = None THEN {acc}
        ELSE {IF IsRuneMintable(rune, n, acc.tc.location) THEN Then(acc, result) ELSE acc :
                 n \in MintCounts(acc, id)}

Edicted(acc, edict) ==
    IF RuneOf(acc, edict.id) = None THEN acc ELSE Then(acc, ApplyEdict(acc.tc, edict))

AfterRunestone(acc, artifact) ==
    LET pointed == IF artifact.pointer = None THEN acc
                   ELSE [acc EXCEPT !.tc.output_pointer = artifact.pointer]
        etched  == IF artifact.etching = None THEN pointed
                   ELSE Etched(pointed, ApplyEtching(pointed.tc, artifact.etching,
                                                     NextNumber(acc)))
        result  == ApplyMint(etched.tc, artifact.mint, RuneOf(etched, artifact.mint))
    IN  {FoldLeft(Edicted, minted, artifact.edicts) :
            minted \in Minted(etched, artifact.mint, result)}

AfterCenotaph(acc, artifact) ==
    LET burned == Then(acc, ApplyCenotaphInputBurn(acc.tc))
        etched == IF artifact.etching = None THEN burned
                  ELSE Etched(burned, ApplyCenotaphEtching(burned.tc, artifact.etching,
                                                           NextNumber(acc)))
        result == ApplyCenotaphMint(etched.tc, artifact.mint, RuneOf(etched, artifact.mint))
    IN  Minted(etched, artifact.mint, result)

\* Every outcome a transaction may have, its remainder allocated.
Outcomes(s, tx, location) ==
    LET acc      == Begin(s, tx, location)
        artifact == TxData[tx].artifact
        applied  == CASE artifact.kind = "none" -> {acc}
                      [] artifact.kind = "runestone" -> AfterRunestone(acc, artifact)
                      [] artifact.kind = "cenotaph" -> AfterCenotaph(acc, artifact)
    IN  {Then(a, AllocateRemainingBalances(a.tc)) : a \in applied}

-----------------------------------------------------------------------------
(* One block *)

AfterBlock(txs, height) ==
    LET Location(i) == [height |-> height, index |-> i, tx |-> txs[i]]
    IN  FoldLeft(LAMBDA S, i : UNION {Outcomes(s, txs[i], Location(i)) : s \in S},
                 {[runes |-> runes, ledger |-> ledger]},
                 [i \in DOMAIN txs |-> i])

ApplyBlock(txs) ==
    /\ chain' = Append(chain, txs)
    /\ \E s \in AfterBlock(txs, StartHeight + Len(chain)) :
        runes' = s.runes /\ ledger' = s.ledger

Next == \E txs \in SeqOf(Txs, MaxBlockTxs) : ApplyBlock(txs)

Spec == Init /\ [][Next]_vars
=============================================================================
