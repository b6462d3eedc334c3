----------------------------- MODULE MCRunestone -----------------------------
(***************************************************************************)
(* A small instance of Runestone: integer types of a few values, payloads  *)
(* of up to three fields and two edicts.                                   *)
(***************************************************************************)
EXTENDS Runestone

MCChars == {1, 2}

\* A tag with its value: the flags with each set of bits, tags of every kind with a
\* value that is valid and one that is not, a tag nobody knows, even and odd.
Fields ==
    {<<Flags, f>> : f \in {0, 1, 2, 3, 4, 7, 9}}
        \cup {<<Rune, 1>>, <<Premine, 30>>, <<Cap, 2>>, <<Amount, 3>>, <<HeightEnd, 9>>,
              <<Pointer, 1>>, <<Pointer, 2>>, <<Mint, 0>>, <<Mint, 2>>,
              <<Divisibility, 9>>, <<Symbol, 1>>, <<24, 0>>, <<7, 0>>}

FieldPayloads == {<<>>} \cup Fields
    \cup {a \o b : a, b \in Fields} \cup {a \o b \o c : a, b, c \in Fields}

\* An edict as it is written: a delta, an amount, an output.
Written == {<<b, t, a, o>> : b \in {0, 1, 7}, t \in {0, 1, 4}, a \in {0, 2}, o \in {0, 2, 3}}

BodyPayloads ==
    {<<Body>> \o a \o b : a \in Written, b \in Written}
        \cup {p \o <<Body>> \o SubSeq(a, 1, n) :
                 p \in {<<>>, <<Pointer, 1>>, <<Flags, 8>>}, a \in Written, n \in 0..4}

Truncated == {f \o <<tag>> : f \in Fields, tag \in {Mint, Symbol}}

MCPayloads == FieldPayloads \cup BodyPayloads \cup Truncated

(* Runestones to encipher *)

Terms == [cap : {None, 2}, amount : {None, 3}, height_start : {None, 0},
          height_end : {None, 6}, offset_start : {None, 1}, offset_end : {None}]

Etchings == [divisibility : {None, 3}, premine : {None, 30}, rune : {None, 0},
             spacers : {None, 1}, symbol : {None, 2}, terms : {None} \cup Terms,
             turbo : BOOLEAN]

Edicts == {[id |-> <<b, t>>, amount |-> 1, output |-> o] :
              b \in {1, 3}, t \in {0, 2}, o \in {1, 2}}
          \cup {[id |-> <<0, 0>>, amount |-> 0, output |-> 0]}

Bare == [etching |-> None, mint |-> None, pointer |-> None, edicts |-> <<>>]

MCRunestones ==
    {[Bare EXCEPT !.etching = e] : e \in Etchings}
        \cup [etching : {None}, mint : {None, <<0, 0>>, <<2, 1>>}, pointer : {None, 0, 1},
              edicts : {<<>>} \cup {<<a>> : a \in Edicts}
                       \cup {<<a, b>> : a, b \in Edicts}
                       \cup {<<a, b, [id |-> <<1, 0>>, amount |-> 4, output |-> 0]>> :
                                a, b \in Edicts}]
=============================================================================
