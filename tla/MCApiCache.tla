------------------------------ MODULE MCApiCache ------------------------------
(***************************************************************************)
(* A chain of four blocks and a fork of it; one block of each holds no     *)
(* rune operations.                                                        *)
(***************************************************************************)
EXTENDS ApiCache

MCChains == {<<"a1", "a2", "a3", "a4">>, <<"a1", "b2", "b3">>}
MCWithRows == {"a1", "a2", "a4", "b2"}
=============================================================================
