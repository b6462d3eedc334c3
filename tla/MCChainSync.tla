------------------------------ MODULE MCChainSync ------------------------------
(***************************************************************************)
(* A chain of four blocks, a fork of it after the first and one after the  *)
(* second block.                                                           *)
(***************************************************************************)
EXTENDS ChainSync

CONSTANTS a1, a2, a3, a4, b2, b3, b4, b5, c3, c4, c5, c6

MCBlocks == {a1, a2, a3, a4, b2, b3, b4, b5, c3, c4, c5, c6}

MCChain ==
    LET a == <<a1, a2, a3, a4>>
        b == <<a1, b2, b3, b4, b5>>
        c == <<a1, a2, c3, c4, c5, c6>>
        Of(x) == CHOOSE s \in {a, b, c} : x \in ToSet(s)
    IN  [x \in MCBlocks |->
            LET s == Of(x) IN SubSeq(s, 1, CHOOSE h \in DOMAIN s : s[h] = x)]
=============================================================================
