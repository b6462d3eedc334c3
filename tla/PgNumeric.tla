------------------------------ MODULE PgNumeric ------------------------------
(***************************************************************************)
(* Numbers in a NUMERIC column (pg_numeric_u128.rs, pg_numeric_u64.rs): a  *)
(* number is sent as groups of decimal digits, highest first, with the     *)
(* weight of the first; Postgres keeps it, adds to it, and sends it back   *)
(* in a form of its own, without zero groups at either end.                *)
(***************************************************************************)
EXTENDS Integers, Sequences

CONSTANTS
    None,
    Radix,      \* 10000
    MaxNumber   \* u128::MAX, a bound of what a column adds up to as well

NumericAssumption == Radix \in Nat \ {0, 1} /\ MaxNumber \in Nat

VARIABLES
    num,        \* what is left of the number being sent, or None
    digits,     \* its groups so far, lowest first
    adds,       \* is it added to the column, or set?
    column,     \* what Postgres keeps, [weight, groups]
    meant,      \* what the column should be
    got         \* what was read last, or None

vars == <<num, digits, adds, column, meant, got>>

-----------------------------------------------------------------------------
(* Postgres *)

Value(numeric) ==
    LET sum[i \in 0..Len(numeric.groups)] ==
            IF i = 0 THEN 0
            ELSE sum[i - 1] + numeric.groups[i] * Radix ^ (numeric.weight - i + 1)
    IN  sum[Len(numeric.groups)]

Groups[n \in Nat] ==
    IF n = 0 THEN <<>> ELSE Append(Groups[n \div Radix], n % Radix)

\* The groups of n without zeros at the end; the weight says how many are meant.
Normal(n) ==
    LET groups == Groups[n]
        last   == CHOOSE i \in 0..Len(groups) :
                      /\ i = 0 \/ groups[i] # 0
                      /\ \A j \in (i + 1)..Len(groups) : groups[j] = 0
    IN  [weight |-> IF n = 0 THEN 0 ELSE Len(groups) - 1,
         groups |-> SubSeq(groups, 1, last)]

-----------------------------------------------------------------------------
(* u128_into_pg_numeric_bytes *)

Init ==
    /\ num = None /\ digits = <<>> /\ adds = FALSE
    /\ column = Normal(0) /\ meant = 0
    /\ got = None

Start ==
    /\ num = None
    /\ num' \in 0..MaxNumber
    /\ adds' \in BOOLEAN
    /\ adds' => meant + num' <= MaxNumber
    /\ meant' = IF adds' THEN meant + num' ELSE num'
    /\ digits' = <<>>
    /\ got' = None
    /\ UNCHANGED column

PushDigits ==
    /\ num \notin {None, 0}
    /\ digits' = Append(digits, num % Radix)
    /\ num' = num \div Radix
    /\ UNCHANGED <<adds, column, meant, got>>

Message ==
    [weight |-> IF digits = <<>> THEN 0 ELSE Len(digits) - 1,
     groups |-> [i \in DOMAIN digits |-> digits[Len(digits) + 1 - i]]]

Send ==
    /\ num = 0
    /\ column' = Normal(IF adds THEN Value(column) + Value(Message) ELSE Value(Message))
    /\ num' = None
    /\ UNCHANGED <<digits, adds, meant, got>>

-----------------------------------------------------------------------------
(* pg_numeric_bytes_to_u128 *)

\* Mutant of Received: only the groups that came count.
ReceivedGroups(numeric) ==
    LET sum[i \in 0..Len(numeric.groups)] ==
            IF i = 0 THEN 0 ELSE sum[i - 1] * Radix + numeric.groups[i]
    IN  sum[Len(numeric.groups)]

\* As many groups as the weight says; one that did not come is zero.
Received(numeric) ==
    LET group(i) == IF i <= Len(numeric.groups) THEN numeric.groups[i] ELSE 0
        sum[i \in 0..(numeric.weight + 1)] ==
            IF i = 0 THEN 0
            ELSE sum[i - 1] + group(i) * Radix ^ (numeric.weight + 1 - i)
    IN  sum[numeric.weight + 1]

Get ==
    /\ num = None
    /\ got' = Received(column)
    /\ UNCHANGED <<num, digits, adds, column, meant>>

Next == Start \/ PushDigits \/ Send \/ Get

Spec == Init /\ [][Next]_vars

-----------------------------------------------------------------------------
(* Properties *)

\* What is read is what was set or added up, though the form that comes back is not
\* the form that was sent: groups of zeros at the end are missing.
ReadsBack == got # None => got = meant
=============================================================================
