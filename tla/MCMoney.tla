------------------------------- MODULE MCMoney ----------------------------
(***************************************************************************)
(* Money with three digits and an int of six bits: the largest amount is   *)
(* "10.11", which is 31 units of which nine make one.  The texts are all   *)
(* of at most four characters, all amounts with up to four digits before   *)
(* the dot, and the short ones with a character before or behind; "x"      *)
(* stands for a character that has no business here.                       *)
(***************************************************************************)
EXTENDS Money

ThreeDigits == <<"0", "1", "2">>
Characters == {"0", "1", "2", ".", "-", "x", " "}

Strings(S, low, high) == UNION {[1..n -> S] : n \in low..high}

Amounts(low, high) ==
    {ip \o <<".">> \o fp : ip \in Strings(DigitChars, low, high), fp \in Strings(DigitChars, 2, 2)}

Texts == Strings(Characters, 0, 4) \cup Amounts(1, 4)
    \cup UNION {{<<c>> \o t, t \o <<c>>} : c \in Characters, t \in Amounts(1, 2)}

BRL == <<"B", "R", "L">>
USD == <<"U", "S", "D">>
One == <<"1", ".", "0", "0">>

SomeCodes == {BRL, USD, <<" ">> \o BRL, <<"b", "R", "L">>, <<"B", "R">>, <<>>}

SomeInputs ==
    {[form |-> "string", amount |-> t, currency |-> BRL] : t \in Texts}
    \cup {[form |-> f, amount |-> One, currency |-> c] : f \in Forms, c \in SomeCodes}
=============================================================================
