-------------------------------- MODULE Money -----------------------------
(***************************************************************************)
(* Money of internal/domain: an int64 of minor units with a currency, made *)
(* from an amount in JSON or from minor units, added, subtracted, negated  *)
(* and written as text again.  A call that fails returns no value, and its *)
(* caller gives up what it is doing.                                       *)
(*                                                                         *)
(* Machine integers wrap.  Their width and the digits of the decimal       *)
(* system are parameters, so that the edges of the type can be reached; a  *)
(* text is a sequence of characters because its form is what is at stake:  *)
(* the payload hash relies on one text per amount (ADR 0006 and 0012).     *)
(***************************************************************************)
EXTENDS Integers, SequencesExt

CONSTANTS
    MaxInt,     \* maxInt64
    Digits,     \* the digits in order, as characters
    Capitals,   \* "A" to "Z"
    Inputs,     \* JSON values: [form, amount, currency]
    Codes       \* currencies that callers pass with minor units

MinInt == -MaxInt - 1
Int64 == MinInt..MaxInt

Radix == Len(Digits)
MinorUnits == Radix * Radix
MaxAbsIP == MaxInt \div MinorUnits
MaxFracAtCap == MaxInt % MinorUnits

\* What a JSON value may be: an object whose amount is a string, one whose
\* amount is something else, or one that does not fit moneyJSON at all.
Forms == {"string", "other", "unreadable"}

ASSUME MoneyAssumption ==
    /\ MaxInt \in Nat \ {0}
    /\ Digits \in Seq(STRING) /\ Len(Digits) > 1
    /\ \A i, j \in DOMAIN Digits : Digits[i] = Digits[j] => i = j
    /\ ToSet(Digits) \cap {" ", ".", "-"} = {} /\ " " \notin Capitals
    /\ \A i \in Inputs : /\ i.form \in Forms
                         /\ i.amount \in Seq(STRING) /\ i.currency \in Seq(STRING)
    /\ Codes \subseteq Seq(STRING)

VARIABLES
    phase,      \* "start", "value" or "refused"
    input,      \* the JSON it is made from, NoInput if none or no more
    money,      \* [minor, currency]
    wanted,     \* the exact result of the last call
    code        \* the failure code of a call that was refused

vars == <<phase, input, money, wanted, code>>

NoInput == [form |-> "none", amount |-> <<>>, currency |-> <<>>]
Uninitialized == [minor |-> 0, currency |-> <<>>]

-----------------------------------------------------------------------------
(* Results and machine integers.                                           *)

Ok(v) == [ok |-> TRUE, value |-> v]
Failure(c) == [ok |-> FALSE, code |-> c]

Span == 2 * MaxInt + 2

\* What an int64 holds after an operation.
Wrap(n) == IF n \in Int64 THEN n ELSE MinInt + ((n - MinInt) % Span)

\* Mutant of AddInt64: only sums of positive numbers are looked at.
AddInt64Upper(a, b) ==
    IF b > 0 /\ a > Wrap(MaxInt - b) THEN Failure("OVERFLOW") ELSE Ok(Wrap(a + b))

AddInt64(a, b) ==
    IF \/ b > 0 /\ a > Wrap(MaxInt - b)
       \/ b < 0 /\ a < Wrap(MinInt - b)
    THEN Failure("OVERFLOW")
    ELSE Ok(Wrap(a + b))

SubInt64(a, b) ==
    IF \/ b < 0 /\ a > Wrap(MaxInt + b)
       \/ b > 0 /\ a < Wrap(MinInt + b)
    THEN Failure("OVERFLOW")
    ELSE Ok(Wrap(a - b))

NegateInt64(a) == IF a = MinInt THEN Failure("OVERFLOW") ELSE Ok(Wrap(-a))

-----------------------------------------------------------------------------
(* Texts.                                                                  *)

DigitChars == ToSet(Digits)
Zero == Digits[1]
Value(c) == CHOOSE d \in 0..Radix - 1 : Digits[d + 1] = c

\* The number a sequence of digits denotes.
Number(s) ==
    LET upTo[i \in 0..Len(s)] == IF i = 0 THEN 0 ELSE upTo[i - 1] * Radix + Value(s[i])
    IN upTo[Len(s)]

\* %d and %02d of numbers that are not negative.
Numeral[n \in Nat] ==
    IF n < Radix THEN <<Digits[n + 1]>>
    ELSE Append(Numeral[n \div Radix], Digits[(n % Radix) + 1])

Fraction(n) == IF n < Radix THEN <<Zero>> \o Numeral[n] ELSE Numeral[n]

\* The smallest number has no negation: its bits are read as an unsigned one.
Magnitude(n) == IF n = MinInt THEN MinInt + Span ELSE IF n < 0 THEN Wrap(-n) ELSE n

AmountString(n) ==
    LET u == Magnitude(n)
    IN (IF n < 0 THEN <<"-">> ELSE <<>>)
       \o Numeral[u \div MinorUnits] \o <<".">> \o Fraction(u % MinorUnits)

TrimSpace(s) ==
    LET inner == {i \in DOMAIN s : s[i] # " "}
    IN IF inner = {} THEN <<>> ELSE SubSeq(s, Min(inner), Max(inner))

\* Mutant of WellFormed: leading zeros are let through.
WellFormedPadded(s) ==
    /\ Len(s) >= 4
    /\ \A i \in DOMAIN s : IF i = Len(s) - 2 THEN s[i] = "." ELSE s[i] \in DigitChars

\* The dot with two digits after it, digits only before it, and no needless
\* zero: signs, exponents and names of numbers are not made of digits.
WellFormed(s) ==
    /\ Len(s) >= 4
    /\ \A i \in DOMAIN s : IF i = Len(s) - 2 THEN s[i] = "." ELSE s[i] \in DigitChars
    /\ Len(s) > 4 => s[1] # Zero

\* The two parts as minor units; ParseInt refuses what is beyond the type.
Minor(ip, fp) ==
    IF ip > MaxInt \/ ip > MaxAbsIP \/ (ip = MaxAbsIP /\ fp > MaxFracAtCap)
    THEN Failure("OVERFLOW")
    ELSE Ok(Wrap(Wrap(ip * MinorUnits) + fp))

ParseExternalAmount(raw) ==
    LET s == TrimSpace(raw)
    IN IF ~WellFormed(s) THEN Failure("INVALID_AMOUNT")
       ELSE Minor(Number(SubSeq(s, 1, Len(s) - 3)), Number(SubSeq(s, Len(s) - 1, Len(s))))

ParseCurrency(raw) ==
    LET c == TrimSpace(raw)
    IN IF Len(c) = 3 /\ ToSet(c) \subseteq Capitals THEN Ok(c) ELSE Failure("INVALID_CURRENCY")

\* The currency is looked at first.
MoneyOf(currency, minor) ==
    LET cur == ParseCurrency(currency)
    IN IF ~cur.ok THEN cur
       ELSE IF ~minor.ok THEN minor
       ELSE Ok([minor |-> minor.value, currency |-> cur.value])

MarshalJSON(m) ==
    [form |-> "string", amount |-> AmountString(m.minor), currency |-> m.currency]

UnmarshalJSON(i) ==
    IF i.form = "unreadable" THEN Failure("INVALID_AMOUNT")
    ELSE IF i.form # "string" THEN Failure("JSON_AMOUNT_NOT_STRING")
    ELSE MoneyOf(i.currency, ParseExternalAmount(i.amount))

-----------------------------------------------------------------------------
(* Calls.                                                                  *)

\* A call returns a value or fails, and exactly is what it should have been.
Return(result, exactly) ==
    /\ wanted' = exactly
    /\ \/ /\ result.ok
          /\ phase' = "value" /\ money' = result.value /\ code' = ""
       \/ /\ ~result.ok
          /\ phase' = "refused" /\ money' = Uninitialized /\ code' = result.code

\* The number a text means, when it means one: its digits without the dot.
Meaning(raw) ==
    LET s == TrimSpace(raw)
    IN IF WellFormed(s) THEN Number(RemoveAt(s, Len(s) - 2)) ELSE 0

Unmarshal ==
    /\ phase = "start" /\ input # NoInput
    /\ Return(UnmarshalJSON(input), Meaning(input.amount))
    /\ UNCHANGED input

MoneyFromMinor(n, currency) ==
    /\ phase = "start" /\ input = NoInput
    /\ Return(MoneyOf(currency, Ok(n)), n)
    /\ UNCHANGED input

\* requireCompatible, and the currency of the result.
Combine(m, currency, minor) ==
    IF m.currency # currency THEN Failure("INCOMPATIBLE_CURRENCY")
    ELSE IF ~minor.ok THEN minor
    ELSE Ok([minor |-> minor.value, currency |-> m.currency])

Add(n, currency) ==
    /\ phase = "value"
    /\ Return(Combine(money, currency, AddInt64(money.minor, n)), money.minor + n)
    /\ input' = NoInput

Sub(n, currency) ==
    /\ phase = "value"
    /\ Return(Combine(money, currency, SubInt64(money.minor, n)), money.minor - n)
    /\ input' = NoInput

Negate ==
    /\ phase = "value"
    /\ Return(Combine(money, money.currency, NegateInt64(money.minor)), -money.minor)
    /\ input' = NoInput

Currencies == {c \in {TrimSpace(raw) : raw \in Codes \cup {i.currency : i \in Inputs}} :
                  ParseCurrency(c).ok}

Init ==
    /\ phase = "start"
    /\ input \in Inputs \cup {NoInput}
    /\ money = Uninitialized /\ wanted = 0 /\ code = ""

Next ==
    \/ Unmarshal
    \/ \E n \in Int64 :
          \/ \E c \in Codes : MoneyFromMinor(n, c)
          \/ \E c \in Currencies : Add(n, c) \/ Sub(n, c)
    \/ Negate

Spec == Init /\ [][Next]_vars

-----------------------------------------------------------------------------
(* Properties.                                                             *)

(* No sum, difference, negation or parsed amount is ever wrapped around:   *)
(* the value of a call that succeeds is the exact one, and none is refused *)
(* for its size that the type could hold (money.go:247-265, 144, 232).     *)
Exact ==
    /\ phase = "value" => money.minor = wanted
    /\ code = "OVERFLOW" => wanted \notin Int64

(* An amount has one text.  The one that was accepted comes out again: two *)
(* texts for one amount would be two payload hashes.  What is written can  *)
(* be read, up to the largest amount, unless it is negative, and no two    *)
(* amounts are written alike, the smallest included (money.go:80-100,      *)
(* 191-236).                                                               *)
OneText ==
    /\ phase = "value" /\ input # NoInput =>
          AmountString(money.minor) = TrimSpace(input.amount)
    /\ phase = "value" =>
          /\ Len(money.currency) = 3 /\ ToSet(money.currency) \subseteq Capitals
          /\ UnmarshalJSON(MarshalJSON(money)) =
                IF money.minor >= 0 THEN Ok(money) ELSE Failure("INVALID_AMOUNT")
          /\ \A n \in Int64 : AmountString(n) = AmountString(money.minor) => n = money.minor
=============================================================================
