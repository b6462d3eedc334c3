-------------------------- MODULE MCRunestoneScript --------------------------
(***************************************************************************)
(* A small instance of RunestoneScript: bytes of two bits and a bit to go  *)
(* on, integers of three bytes, the last of which has one bit, pushes of   *)
(* up to three bytes.  The payloads and runestones of MCRunestone travel   *)
(* in scripts, and so do bytes that nobody wrote as integers.              *)
(***************************************************************************)
EXTENDS RunestoneScript, MCRunestone

MCByte == 0..7

Carry(script) == <<OpReturn, MagicNumber>> \o script

\* Any four bytes in one push, and any three in two.
BytePayloads ==
    {<<Carry(<<Push(p)>>)>> : p \in UNION {[1..n -> MCByte] : n \in 0..4}}
        \cup {<<Carry(<<Push(SubSeq(p, 1, 1)), Push(SubSeq(p, 2, 3))>>)>> :
                 p \in [1..3 -> MCByte]}

\* Scripts that carry nothing, and scripts that cannot be read.
Decoys == {<<>>, <<OpReturn>>, <<OpReturn, OtherOp>>, <<OpReturn, Push(<<4>>)>>,
           <<OtherOp, MagicNumber>>, <<BadOp>>}
Broken == {Carry(<<OtherOp>>), Carry(<<Push(<<4, 1>>), BadOp>>),
           Carry(<<Push(<<4>>), OtherOp, Push(<<1>>)>>)}
Whole == Carry(<<Push(<<6, 1>>), Push(<<>>), Push(<<1>>)>>)

\* The payloads come with a second output, which a pointer or an edict may name,
\* and those with edicts alone too.
MCTransactions ==
    BytePayloads
        \cup {<<a, b>> : a, b \in Decoys \cup Broken \cup {Whole}}
        \cup {<<ScriptOf(p)>> : p \in BodyPayloads}
        \cup {<<ScriptOf(p), <<>>>> : p \in MCPayloads}

MCNeighbours ==
    {<<<<>>, <<>>>>, <<<<>>, <<Whole>>>>, <<<<<<OpReturn, OtherOp>>>>, <<>>>>}
        \cup {<<<<<<OtherOp, MagicNumber>>>>, <<e>>>> : e \in Broken}

Edict(b, n, o) == [id |-> <<b, 1>>, amount |-> n, output |-> o]

\* Integers at the end of a byte and of the type, which are cut at a push's end.
ScriptRunestones ==
    MCRunestones
      \cup {[Bare EXCEPT !.mint = <<b, 0>>, !.pointer = p] : b \in {0, 3, 4, 7}, p \in {None, 0}}
      \cup {[Bare EXCEPT !.edicts = <<Edict(b, a, 0), Edict(b, 3, 1)>>] :
               b \in {1, 7}, a \in {0, 3, 4, 15, 16, 31}}
      \cup {[Bare EXCEPT !.etching =
                [divisibility |-> None, premine |-> n, rune |-> r, spacers |-> None,
                 symbol |-> 1, terms |-> None, turbo |-> FALSE]] :
               n \in {None, 16, 31}, r \in {None, 0, 31}}
=============================================================================
