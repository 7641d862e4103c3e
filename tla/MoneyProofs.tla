---------------------------- MODULE MoneyProofs ---------------------------
(***************************************************************************)
(* Money, for integers of every width and every decimal system.            *)
(*                                                                         *)
(* The checked arithmetic: no guard wraps around itself, what passes them  *)
(* is the exact result, and what they refuse does not fit.                 *)
(*                                                                         *)
(* The texts: a number has one text without a needless zero (uniqueness by *)
(* a shortest counterexample, existence by a least one), which is the one  *)
(* that is printed, so that what is accepted is what is printed for the    *)
(* number it denotes.                                                      *)
(*                                                                         *)
(* The calls: the inductive invariant MoneyInv says of a value that it is  *)
(* exact and in range, that its currency is a code, and that it is printed *)
(* as it was read.                                                         *)
(***************************************************************************)
EXTENDS Money, SequenceTheorems, WellFoundedInduction, TLAPS

-----------------------------------------------------------------------------
(* Digits, and the number a text denotes.                                  *)

LEMMA DigitFacts ==
    /\ Radix \in Nat /\ Radix > 1
    /\ \A d \in 0..Radix - 1 : Digits[d + 1] \in DigitChars /\ Value(Digits[d + 1]) = d
    /\ \A c \in DigitChars : Value(c) \in 0..Radix - 1 /\ Digits[Value(c) + 1] = c
    /\ Zero \in DigitChars /\ \A c \in DigitChars : Value(c) = 0 <=> c = Zero
    /\ " " \notin DigitChars /\ "." \notin DigitChars /\ "-" \notin DigitChars
<1>1. /\ Digits \in Seq(STRING) /\ Len(Digits) > 1
      /\ \A i, j \in DOMAIN Digits : Digits[i] = Digits[j] => i = j
  BY MoneyAssumption
<1>2. Radix \in Nat /\ Radix > 1 /\ DOMAIN Digits = 1..Radix
  BY <1>1, LenProperties DEF Radix
<1>3. ASSUME NEW d \in 0..Radix - 1
      PROVE  Digits[d + 1] \in DigitChars /\ Value(Digits[d + 1]) = d
  <2>1. d + 1 \in DOMAIN Digits
    BY <1>2
  <2>2. \A e \in 0..Radix - 1 : Digits[e + 1] = Digits[d + 1] => e = d
    <3> SUFFICES ASSUME NEW e \in 0..Radix - 1, Digits[e + 1] = Digits[d + 1] PROVE e = d
      OBVIOUS
    <3>1. e + 1 \in DOMAIN Digits
      BY <1>2
    <3>2. e + 1 = d + 1
      BY <1>1, <2>1, <3>1
    <3> QED BY <3>2
  <2> QED BY <2>1, <2>2 DEF DigitChars, ToSet, Value
<1>4. ASSUME NEW c \in DigitChars
      PROVE  Value(c) \in 0..Radix - 1 /\ Digits[Value(c) + 1] = c
  <2>1. PICK i \in 1..Radix : Digits[i] = c
    BY <1>2 DEF DigitChars, ToSet
  <2>2. i - 1 \in 0..Radix - 1 /\ Digits[(i - 1) + 1] = c
    BY <1>2, <2>1
  <2> QED BY <2>2 DEF Value
<1>5. Zero \in DigitChars /\ Value(Zero) = 0
  <2>1. Digits[0 + 1] \in DigitChars /\ Value(Digits[0 + 1]) = 0
    BY <1>2, <1>3
  <2> QED BY <2>1 DEF Zero
<1>6. \A c \in DigitChars : Value(c) = 0 => c = Zero
  BY <1>4 DEF Zero
<1>7. " " \notin DigitChars /\ "." \notin DigitChars /\ "-" \notin DigitChars
  BY MoneyAssumption DEF DigitChars
<1> QED BY <1>2, <1>3, <1>4, <1>5, <1>6, <1>7

\* A set of numbers that is not empty has a least element.
LEMMA Least ==
    ASSUME NEW T \in SUBSET Nat, T # {}
    PROVE  \E n \in T : \A m \in T : n <= m
<1> DEFINE R == OpToRel(<, Nat)
<1>1. IsWellFoundedOn(R, Nat)
  BY NatLessThanWellFounded
<1>2. PICK n \in T : \A m \in T : ~ (<<m, n>> \in R)
  <2> HIDE DEF R
  <2> QED BY <1>1, WFMin
<1>3. \A m \in T : ~ (m < n)
  BY <1>2 DEF OpToRel
<1> QED BY <1>3

\* A set of texts that is not empty has a shortest one.
LEMMA Shortest ==
    ASSUME NEW S, NEW T \in SUBSET Seq(S), T # {}
    PROVE  \E s \in T : \A t \in T : Len(s) <= Len(t)
<1> DEFINE lengths == {Len(s) : s \in T}
<1>1. lengths \in SUBSET Nat /\ lengths # {}
  BY LenProperties
<1>2. PICK n \in lengths : \A m \in lengths : n <= m
  <2> HIDE DEF lengths
  <2> QED BY <1>1, Least
<1> QED BY <1>2

\* The values of the prefixes of a text.
ValuesOf(v, s) ==
    v = [i \in 0..Len(s) |-> IF i = 0 THEN 0 ELSE v[i - 1] * Radix + Value(s[i])]

LEMMA PrefixesOfAppend ==
    ASSUME NEW s \in Seq(DigitChars), NEW c \in DigitChars,
           NEW v \in [0..Len(s) -> Nat], ValuesOf(v, s)
    PROVE  \E w \in [0..Len(Append(s, c)) -> Nat] :
              /\ ValuesOf(w, Append(s, c))
              /\ w[Len(Append(s, c))] = v[Len(s)] * Radix + Value(c)
<1> DEFINE n == Len(s)
           t == Append(s, c)
           sum == v[n] * Radix + Value(c)
           w == [i \in 0..n + 1 |-> IF i <= n THEN v[i] ELSE sum]
<1>1. n \in Nat /\ Len(t) = n + 1 /\ t[n + 1] = c /\ \A i \in 1..n : t[i] = s[i]
  BY AppendProperties, LenProperties
<1>2. v[n] \in Nat /\ Radix \in Nat /\ Value(c) \in Nat
  <2>1. v[n] \in Nat
    BY <1>1
  <2>2. Radix \in Nat /\ Value(c) \in 0..Radix - 1
    BY DigitFacts
  <2> QED BY <2>1, <2>2
<1>3. sum \in Nat
  <2>1. v[n] * Radix \in Nat
    BY <1>2
  <2> QED BY <1>2, <2>1
<1>4. v[0] = 0 /\ \A i \in 1..n : v[i] = v[i - 1] * Radix + Value(s[i])
  <2>1. \A i \in 0..n : v[i] = IF i = 0 THEN 0 ELSE v[i - 1] * Radix + Value(s[i])
    BY DEF ValuesOf
  <2> QED BY <1>1, <2>1
<1>5. v[n] * Radix + Value(c) = sum
  OBVIOUS
<1> HIDE DEF n, t, sum
<1>6. w \in [0..n + 1 -> Nat] /\ w[n + 1] = sum /\ \A i \in 0..n : w[i] = v[i]
  BY <1>1, <1>3 DEF n
<1>7. ASSUME NEW i \in 0..n + 1
      PROVE  w[i] = IF i = 0 THEN 0 ELSE w[i - 1] * Radix + Value(t[i])
  <2>1. CASE i = 0
    BY <1>1, <1>4, <1>6, <2>1
  <2>2. CASE i \in 1..n
    BY <1>1, <1>4, <1>6, <2>2
  <2>3. CASE i = n + 1
    <3>1. i # 0 /\ w[i - 1] = v[n] /\ t[i] = c /\ w[i] = sum
      BY <1>1, <1>6, <2>3
    <3> QED BY <1>5, <3>1
  <2> QED BY <1>1, <2>1, <2>2, <2>3
<1>8. w = [i \in 0..n + 1 |-> IF i = 0 THEN 0 ELSE w[i - 1] * Radix + Value(t[i])]
  <2> DEFINE r(i) == IF i = 0 THEN 0 ELSE w[i - 1] * Radix + Value(t[i])
  <2>1. \A i \in 0..n + 1 : w[i] = r(i)
    BY <1>7
  <2> HIDE DEF r
  <2>2. w = [i \in 0..n + 1 |-> r(i)]
    BY <1>6, <2>1
  <2> QED BY <2>2 DEF r
<1> HIDE DEF w
<1> QED BY <1>1, <1>5, <1>6, <1>8 DEF ValuesOf, n, t

LEMMA PrefixesExist ==
    ASSUME NEW s \in Seq(DigitChars)
    PROVE  \E v \in [0..Len(s) -> Nat] : ValuesOf(v, s)
<1> DEFINE bad == {t \in Seq(DigitChars) : ~ \E v \in [0..Len(t) -> Nat] : ValuesOf(v, t)}
<1>1. ASSUME bad # {} PROVE FALSE
  <2>1. PICK t \in bad : \A u \in bad : Len(t) <= Len(u)
    <3>1. bad \in SUBSET Seq(DigitChars)
      OBVIOUS
    <3> HIDE DEF bad
    <3> QED BY <1>1, <3>1, Shortest
  <2>2. CASE t = <<>>
    <3> DEFINE v == [i \in 0..0 |-> 0]
    <3>1. Len(t) = 0
      BY <2>2
    <3>2. v \in [0..Len(t) -> Nat] /\ ValuesOf(v, t)
      BY <3>1 DEF ValuesOf
    <3> QED BY <3>2
  <2>3. CASE t # <<>>
    <3>1. PICK u \in Seq(DigitChars), c \in DigitChars : t = Append(u, c)
      BY <2>3, SequenceEmptyOrAppend
    <3>2. Len(u) \in Nat /\ Len(t) = Len(u) + 1
      BY <3>1, AppendProperties, LenProperties
    <3>3. u \notin bad
      BY <2>1, <3>2
    <3>4. PICK v \in [0..Len(u) -> Nat] : ValuesOf(v, u)
      BY <3>3
    <3>5. \E w \in [0..Len(t) -> Nat] : ValuesOf(w, t)
      BY <3>1, <3>4, PrefixesOfAppend
    <3> QED BY <3>5
  <2> QED BY <2>2, <2>3
<1> QED BY <1>1

LEMMA PrefixesUnique ==
    ASSUME NEW s \in Seq(DigitChars), NEW v \in [0..Len(s) -> Nat], ValuesOf(v, s),
           NEW w, ValuesOf(w, s)
    PROVE  w[Len(s)] = v[Len(s)]
<1> DEFINE n == Len(s)
           bad == {i \in 0..n : w[i] # v[i]}
<1>1. n \in Nat
  BY LenProperties
<1>2. /\ \A i \in 0..n : v[i] = IF i = 0 THEN 0 ELSE v[i - 1] * Radix + Value(s[i])
      /\ \A i \in 0..n : w[i] = IF i = 0 THEN 0 ELSE w[i - 1] * Radix + Value(s[i])
  BY DEF ValuesOf
<1> HIDE DEF n
<1>3. ASSUME bad # {} PROVE FALSE
  <2>1. PICK i \in bad : \A j \in bad : i <= j
    <3>1. bad \in SUBSET Nat
      BY <1>1
    <3> HIDE DEF bad
    <3> QED BY <1>3, <3>1, Least
  <2>2. i # 0
    BY <1>1, <1>2, <2>1
  <2>3. i - 1 \in 0..n /\ i - 1 \notin bad
    BY <1>1, <2>1, <2>2
  <2>4. w[i - 1] = v[i - 1]
    BY <2>3
  <2> QED BY <1>2, <2>1, <2>2, <2>4
<1>4. n \in 0..n
  BY <1>1
<1> QED BY <1>3, <1>4 DEF n

LEMMA NumberIs ==
    ASSUME NEW s \in Seq(DigitChars), NEW v \in [0..Len(s) -> Nat], ValuesOf(v, s)
    PROVE  Number(s) = v[Len(s)]
<1> DEFINE w == CHOOSE f : ValuesOf(f, s)
<1>1. ValuesOf(w, s)
  <2> HIDE DEF ValuesOf
  <2> QED OBVIOUS
<1>2. Number(s) = w[Len(s)]
  BY DEF Number, ValuesOf
<1> HIDE DEF w
<1> QED BY <1>1, <1>2, PrefixesUnique

\* The number of a text, digit by digit.
LEMMA NumberFacts ==
    /\ Number(<<>>) = 0
    /\ \A s \in Seq(DigitChars) : Number(s) \in Nat
    /\ \A s \in Seq(DigitChars), c \in DigitChars :
          Number(Append(s, c)) = Number(s) * Radix + Value(c)
<1>1. Number(<<>>) = 0
  <2> DEFINE v == [i \in 0..0 |-> 0]
  <2>1. <<>> \in Seq(DigitChars) /\ Len(<<>>) = 0
    OBVIOUS
  <2>2. v \in [0..Len(<<>>) -> Nat] /\ ValuesOf(v, <<>>) /\ v[Len(<<>>)] = 0
    BY <2>1 DEF ValuesOf
  <2> HIDE DEF v
  <2> QED BY <2>1, <2>2, NumberIs
<1>2. ASSUME NEW s \in Seq(DigitChars) PROVE Number(s) \in Nat
  <2>1. PICK v \in [0..Len(s) -> Nat] : ValuesOf(v, s)
    BY PrefixesExist
  <2>2. Len(s) \in 0..Len(s)
    BY LenProperties
  <2> QED BY <2>1, <2>2, NumberIs
<1>3. ASSUME NEW s \in Seq(DigitChars), NEW c \in DigitChars
      PROVE  Number(Append(s, c)) = Number(s) * Radix + Value(c)
  <2>1. PICK v \in [0..Len(s) -> Nat] : ValuesOf(v, s)
    BY PrefixesExist
  <2>2. PICK w \in [0..Len(Append(s, c)) -> Nat] :
              /\ ValuesOf(w, Append(s, c))
              /\ w[Len(Append(s, c))] = v[Len(s)] * Radix + Value(c)
    BY <2>1, PrefixesOfAppend
  <2>3. Append(s, c) \in Seq(DigitChars)
    BY AppendProperties
  <2> QED BY <2>1, <2>2, <2>3, NumberIs
<1> QED BY <1>1, <1>2, <1>3

-----------------------------------------------------------------------------
(* The text of a number.                                                   *)

LEMMA RadixFacts == Radix \in Nat /\ Radix > 1
BY MoneyAssumption, LenProperties DEF Radix

\* Every number is a multiple of the radix and a digit.
LEMMA LastDigitOf ==
    ASSUME NEW n \in Nat
    PROVE  \E q \in Nat, r \in 0..Radix - 1 :
              /\ n \div Radix = q /\ n % Radix = r /\ n = q * Radix + r
              /\ n >= Radix => q > 0 /\ q < n
              /\ n < Radix => q = 0 /\ r = n
<1> DEFINE u == Radix
           q == n \div u
           r == n % u
<1>1. u \in Nat /\ u > 1
  BY RadixFacts
<1> HIDE DEF u
<1>2. q \in Nat /\ r \in 0..u - 1 /\ n = q * u + r
  <2> HIDE DEF q, r
  <2>1. ASSUME q = n \div u, r = n % u PROVE q \in Nat /\ r \in 0..u - 1 /\ n = q * u + r
    BY <1>1, <2>1, Z3
  <2> QED BY <2>1 DEF q, r
<1> HIDE DEF q, r
<1>3. q * u \in Nat
  BY <1>1, <1>2
<1>4. ASSUME q > 0 PROVE q * u >= u
  BY <1>1, <1>2, <1>4
<1>5. ASSUME q > 0 PROVE q * u > q
  BY <1>1, <1>2, <1>5
<1>6. ASSUME q = 0 PROVE q * u = 0
  BY <1>1, <1>6
<1>7. q > 0 => q < n
  BY <1>1, <1>2, <1>3, <1>5
<1>8. n >= u => q > 0
  BY <1>1, <1>2, <1>3, <1>6
<1>9. n < u => q = 0 /\ r = n
  BY <1>1, <1>2, <1>3, <1>4, <1>6
<1> QED BY <1>2, <1>7, <1>8, <1>9 DEF q, r, u

LEMMA DivisionUnique ==
    ASSUME NEW u \in Nat, NEW p \in Nat, NEW q \in Nat,
           NEW r \in 0..u - 1, NEW t \in 0..u - 1, p * u + r = q * u + t
    PROVE  p = q /\ r = t
<1>1. ASSUME NEW x \in Nat, NEW y \in Nat, NEW d \in 0..u - 1, NEW e \in 0..u - 1,
             x * u + d = y * u + e
      PROVE  ~ x < y
  <2> SUFFICES ASSUME x < y PROVE FALSE
    OBVIOUS
  <2>1. (x + 1) * u <= y * u
    OBVIOUS
  <2>2. (x + 1) * u = x * u + u
    OBVIOUS
  <2>3. x * u \in Nat /\ y * u \in Nat
    OBVIOUS
  <2> QED BY <1>1, <2>1, <2>2, <2>3
<1>2. ~ p < q /\ ~ q < p
  BY <1>1
<1>3. p = q
  BY <1>2
<1>4. p * u \in Nat
  OBVIOUS
<1> QED BY <1>3, <1>4

LEMMA SameDigits ==
    ASSUME NEW m \in Nat, NEW n \in Nat, NEW c \in DigitChars, NEW d \in DigitChars,
           m * Radix + Value(c) = n * Radix + Value(d)
    PROVE  m = n /\ c = d
<1> DEFINE e == Value(c)
           f == Value(d)
           u == Radix
<1>1. m * u + e = n * u + f
  OBVIOUS
<1>2. u \in Nat /\ e \in 0..u - 1 /\ f \in 0..u - 1
  BY DigitFacts
<1>3. Digits[e + 1] = c /\ Digits[f + 1] = d
  BY DigitFacts
<1> HIDE DEF e, f, u
<1>4. m = n /\ e = f
  BY <1>1, <1>2, DivisionUnique
<1> QED BY <1>3, <1>4

\* A text of digits without a needless zero.
Canonical(s) == s \in Seq(DigitChars) /\ Len(s) >= 1 /\ (Len(s) > 1 => s[1] # Zero)

\* What is left of a text that is longer than one digit begins as it does.
LEMMA LastDigit ==
    ASSUME NEW s \in Seq(DigitChars), Len(s) >= 1
    PROVE  \E t \in Seq(DigitChars), c \in DigitChars :
              /\ s = Append(t, c) /\ Len(t) \in Nat /\ Len(s) = Len(t) + 1
              /\ Len(t) >= 1 => t[1] = s[1]
              /\ Len(t) = 0 => t = <<>> /\ s[1] = c
<1>1. s # <<>>
  OBVIOUS
<1>2. PICK t \in Seq(DigitChars), c \in DigitChars : s = Append(t, c)
  BY <1>1, SequenceEmptyOrAppend
<1>3. /\ Len(t) \in Nat /\ Len(s) = Len(t) + 1
      /\ \A i \in 1..Len(t) : s[i] = t[i]
      /\ s[Len(t) + 1] = c
  BY <1>2, AppendProperties, LenProperties
<1>4. Len(t) = 0 => t = <<>>
  BY EmptySeq
<1> QED BY <1>2, <1>3, <1>4

LEMMA Positive ==
    ASSUME NEW s \in Seq(DigitChars), Len(s) >= 1, s[1] # Zero
    PROVE  Number(s) >= 1
<1> DEFINE bad == {t \in Seq(DigitChars) : Len(t) >= 1 /\ t[1] # Zero /\ ~ Number(t) >= 1}
<1>1. ASSUME bad # {} PROVE FALSE
  <2>1. PICK t \in bad : \A u \in bad : Len(t) <= Len(u)
    <3>1. bad \in SUBSET Seq(DigitChars)
      OBVIOUS
    <3> HIDE DEF bad
    <3> QED BY <1>1, <3>1, Shortest
  <2>2. PICK u \in Seq(DigitChars), c \in DigitChars :
              /\ t = Append(u, c) /\ Len(u) \in Nat /\ Len(t) = Len(u) + 1
              /\ Len(u) >= 1 => u[1] = t[1]
              /\ Len(u) = 0 => u = <<>> /\ t[1] = c
    BY <2>1, LastDigit
  <2>3. /\ Number(t) = Number(u) * Radix + Value(c) /\ Number(u) \in Nat
        /\ Value(c) \in 0..Radix - 1 /\ Radix \in Nat /\ Radix > 1
    BY <2>2, NumberFacts, DigitFacts
  <2>4. CASE Len(u) >= 1
    <3>1. u \notin bad
      BY <2>1, <2>2
    <3>2. Number(u) >= 1
      BY <2>1, <2>2, <2>4, <3>1
    <3>3. Number(u) * Radix >= 1
      <4> DEFINE a == Number(u)
                 b == Radix
      <4>1. a \in Nat /\ b \in Nat /\ a >= 1 /\ b >= 1
        BY <2>3, <3>2
      <4> HIDE DEF a, b
      <4>2. a * b >= 1
        BY <4>1
      <4> QED BY <4>2 DEF a, b
    <3>4. Number(t) >= 1
      BY <2>3, <3>3
    <3> QED BY <2>1, <3>4
  <2>5. CASE Len(u) = 0
    <3>1. Number(u) = 0 /\ Value(c) # 0
      BY <2>1, <2>2, <2>5, NumberFacts, DigitFacts
    <3>2. Number(t) = Value(c)
      BY <2>3, <3>1
    <3>3. Number(t) >= 1
      BY <2>3, <3>1, <3>2
    <3> QED BY <2>1, <3>3
  <2> QED BY <2>2, <2>4, <2>5
<1> QED BY <1>1

\* Two texts for one number are the same text.
LEMMA CanonicalUnique ==
    ASSUME NEW s, Canonical(s), NEW t, Canonical(t), Number(s) = Number(t)
    PROVE  s = t
<1> DEFINE Twin(x, y) == Canonical(x) /\ Canonical(y) /\ Number(x) = Number(y) /\ x # y
           bad == {x \in Seq(DigitChars) : \E y \in Seq(DigitChars) : Twin(x, y)}
<1>1. ASSUME bad # {} PROVE FALSE
  <2>1. PICK x \in bad : \A z \in bad : Len(x) <= Len(z)
    <3>1. bad \in SUBSET Seq(DigitChars)
      OBVIOUS
    <3> HIDE DEF bad
    <3> QED BY <1>1, <3>1, Shortest
  <2>2. PICK y \in Seq(DigitChars) : Twin(x, y)
    BY <2>1
  <2>3. PICK a \in Seq(DigitChars), c \in DigitChars :
              /\ x = Append(a, c) /\ Len(a) \in Nat /\ Len(x) = Len(a) + 1
              /\ Len(a) >= 1 => a[1] = x[1]
              /\ Len(a) = 0 => a = <<>> /\ x[1] = c
    BY <2>2, LastDigit DEF Canonical
  <2>4. PICK b \in Seq(DigitChars), d \in DigitChars :
              /\ y = Append(b, d) /\ Len(b) \in Nat /\ Len(y) = Len(b) + 1
              /\ Len(b) >= 1 => b[1] = y[1]
              /\ Len(b) = 0 => b = <<>> /\ y[1] = d
    BY <2>2, LastDigit DEF Canonical
  <2>5. Number(a) = Number(b) /\ c = d
    <3>1. Number(a) * Radix + Value(c) = Number(b) * Radix + Value(d)
      BY <2>2, <2>3, <2>4, NumberFacts
    <3>2. Number(a) \in Nat /\ Number(b) \in Nat
      BY NumberFacts
    <3> QED BY <3>1, <3>2, SameDigits
  <2>6. /\ Len(a) >= 1 => a[1] # Zero /\ Number(a) >= 1
        /\ Len(b) >= 1 => b[1] # Zero /\ Number(b) >= 1
    <3>1. Len(a) >= 1 => a[1] # Zero
      BY <2>2, <2>3 DEF Canonical
    <3>2. Len(b) >= 1 => b[1] # Zero
      BY <2>2, <2>4 DEF Canonical
    <3> QED BY <3>1, <3>2, Positive
  <2>7. Len(a) = 0 <=> Len(b) = 0
    BY <2>3, <2>4, <2>5, <2>6, NumberFacts
  <2>8. CASE Len(a) = 0
    BY <2>2, <2>3, <2>4, <2>5, <2>7, <2>8
  <2>9. CASE Len(a) >= 1
    <3>1. Canonical(a) /\ Canonical(b)
      BY <2>3, <2>4, <2>6, <2>7, <2>9 DEF Canonical
    <3>2. a # b
      BY <2>2, <2>3, <2>4, <2>5
    <3>3. a \in bad
      BY <2>5, <3>1, <3>2
    <3>4. Len(x) <= Len(a)
      BY <2>1, <3>3
    <3> QED BY <2>3, <3>4
  <2> QED BY <2>3, <2>8, <2>9
<1>2. s \in Seq(DigitChars) /\ t \in Seq(DigitChars)
  BY DEF Canonical
<1> QED BY <1>1, <1>2

\* The text of a number is that of its quotient with one more digit.
LEMMA CanonicalAppend ==
    ASSUME NEW n \in Nat, n >= Radix,
           NEW t, Canonical(t), Number(t) = n \div Radix
    PROVE  LET s == Append(t, Digits[(n % Radix) + 1]) IN Canonical(s) /\ Number(s) = n
<1>1. PICK q \in Nat, r \in 0..Radix - 1 :
            n \div Radix = q /\ n % Radix = r /\ n = q * Radix + r /\ q > 0
  BY LastDigitOf
<1>2. PICK c \in DigitChars : c = Digits[(n % Radix) + 1] /\ Value(c) = r
  BY <1>1, DigitFacts
<1> DEFINE s == Append(t, c)
<1>3. t \in Seq(DigitChars) /\ Len(t) >= 1 /\ (Len(t) > 1 => t[1] # Zero)
  BY DEF Canonical
<1>4. /\ s \in Seq(DigitChars) /\ Len(t) \in Nat /\ Len(s) = Len(t) + 1
      /\ \A i \in 1..Len(t) : s[i] = t[i]
  BY <1>3, AppendProperties, LenProperties
<1>5. t[1] # Zero
  <2>1. CASE Len(t) > 1
    BY <1>3, <2>1
  <2>2. CASE Len(t) = 1
    <3>1. PICK u \in Seq(DigitChars), d \in DigitChars :
              /\ t = Append(u, d) /\ Len(u) \in Nat /\ Len(t) = Len(u) + 1
              /\ Len(u) = 0 => u = <<>> /\ t[1] = d
      BY <1>3, LastDigit
    <3>2. u = <<>> /\ t[1] = d
      BY <2>2, <3>1
    <3>3. Number(t) = 0 * Radix + Value(d) /\ Radix \in Nat /\ Value(d) \in 0..Radix - 1
      BY <3>1, <3>2, NumberFacts, DigitFacts
    <3>4. Value(d) # 0
      BY <1>1, <3>3
    <3>5. d # Zero
      BY <3>4, DigitFacts
    <3> QED BY <3>2, <3>5
  <2>3. Len(t) > 1 \/ Len(t) = 1
    <3> DEFINE k == Len(t)
    <3>1. k >= 1 /\ k \in Nat
      BY <1>3, <1>4
    <3> HIDE DEF k
    <3>2. k > 1 \/ k = 1
      BY <3>1
    <3> QED BY <3>2 DEF k
  <2> QED BY <2>1, <2>2, <2>3
<1>6. Number(s) = n
  <2>1. Number(s) = Number(t) * Radix + Value(c)
    BY <1>3, NumberFacts
  <2> QED BY <1>1, <1>2, <2>1
<1>7. Canonical(s)
  BY <1>3, <1>4, <1>5 DEF Canonical
<1> QED BY <1>2, <1>6, <1>7

LEMMA CanonicalDigit ==
    ASSUME NEW n \in Nat, n < Radix
    PROVE  LET s == <<Digits[n + 1]>> IN Canonical(s) /\ Number(s) = n
<1> DEFINE c == Digits[n + 1]
<1>1. c \in DigitChars /\ Value(c) = n /\ Radix \in Nat
  <2>1. n \in 0..Radix - 1
    BY RadixFacts
  <2> QED BY <2>1, DigitFacts
<1> HIDE DEF c
<1>2. /\ <<c>> = Append(<<>>, c) /\ <<>> \in Seq(DigitChars)
      /\ <<c>> \in Seq(DigitChars) /\ Len(<<c>>) = 1
  BY <1>1
<1>3. Number(<<c>>) = 0 * Radix + Value(c)
  BY <1>1, <1>2, NumberFacts
<1>4. Number(<<c>>) = n
  BY <1>1, <1>3
<1> QED BY <1>2, <1>4 DEF c, Canonical

LEMMA CanonicalExists ==
    ASSUME NEW n \in Nat
    PROVE  \E s : Canonical(s) /\ Number(s) = n
<1> DEFINE bad == {m \in Nat : ~ \E s : Canonical(s) /\ Number(s) = m}
<1>1. ASSUME bad # {} PROVE FALSE
  <2>1. PICK m \in bad : \A k \in bad : m <= k
    <3>1. bad \in SUBSET Nat
      OBVIOUS
    <3> HIDE DEF bad
    <3> QED BY <1>1, <3>1, Least
  <2>2. CASE m < Radix
    BY <2>1, <2>2, CanonicalDigit
  <2>3. CASE m >= Radix
    <3>1. m \div Radix \in Nat /\ m \div Radix < m
      BY <2>1, <2>3, LastDigitOf
    <3>2. m \div Radix \notin bad
      BY <2>1, <3>1
    <3>3. PICK t : Canonical(t) /\ Number(t) = m \div Radix
      BY <3>1, <3>2
    <3> QED BY <2>1, <2>3, <3>3, CanonicalAppend
  <2> QED BY <2>1, <2>2, <2>3, RadixFacts
<1> QED BY <1>1

\* The digits that are printed are the one text of the number.
LEMMA NumeralFacts ==
    ASSUME NEW n \in Nat
    PROVE  Canonical(Numeral[n]) /\ Number(Numeral[n]) = n
<1> DEFINE Text(m) == CHOOSE s : Canonical(s) /\ Number(s) = m
           Step(f, m) == IF m < Radix THEN <<Digits[m + 1]>>
                         ELSE Append(f[m \div Radix], Digits[(m % Radix) + 1])
           texts == [m \in Nat |-> Text(m)]
<1>1. \A m \in Nat : Canonical(Text(m)) /\ Number(Text(m)) = m
  BY CanonicalExists
<1> HIDE DEF Text
<1>2. \A m \in Nat : texts[m] = Step(texts, m)
  <2> SUFFICES ASSUME NEW m \in Nat PROVE texts[m] = Step(texts, m)
    OBVIOUS
  <2>1. CASE m < Radix
    <3>1. Canonical(<<Digits[m + 1]>>) /\ Number(<<Digits[m + 1]>>) = m
      BY <2>1, CanonicalDigit
    <3> QED BY <1>1, <2>1, <3>1, CanonicalUnique
  <2>2. CASE m >= Radix
    <3>1. m \div Radix \in Nat
      BY LastDigitOf
    <3>2. texts[m \div Radix] = Text(m \div Radix) /\ texts[m] = Text(m)
      BY <3>1
    <3> DEFINE s == Append(Text(m \div Radix), Digits[(m % Radix) + 1])
    <3>3. Canonical(s) /\ Number(s) = m
      BY <1>1, <2>2, <3>1, CanonicalAppend
    <3>4. Text(m) = s
      <4> HIDE DEF s
      <4> QED BY <1>1, <3>3, CanonicalUnique
    <3>5. ~ m < Radix
      BY <2>2, RadixFacts
    <3> HIDE DEF texts
    <3> QED BY <3>2, <3>4, <3>5
  <2>3. m < Radix \/ m >= Radix
    BY RadixFacts
  <2> QED BY <2>1, <2>2, <2>3
<1>3. texts = [m \in Nat |-> Step(texts, m)]
  <2> HIDE DEF Step
  <2> QED BY <1>2
<1>4. Numeral = [m \in Nat |-> Step(Numeral, m)]
  <2> HIDE DEF texts
  <2> QED BY <1>3 DEF Numeral
<1>5. \A m \in Nat : Numeral[m] = Step(Numeral, m)
  <2> HIDE DEF Step
  <2> QED BY <1>4
<1> DEFINE bad == {m \in Nat : ~ (Canonical(Numeral[m]) /\ Number(Numeral[m]) = m)}
<1>6. ASSUME bad # {} PROVE FALSE
  <2>1. PICK m \in bad : \A k \in bad : m <= k
    <3>1. bad \in SUBSET Nat
      OBVIOUS
    <3> HIDE DEF bad
    <3> QED BY <1>6, <3>1, Least
  <2>2. CASE m < Radix
    BY <1>5, <2>1, <2>2, CanonicalDigit
  <2>3. CASE m >= Radix
    <3>1. m \div Radix \in Nat /\ m \div Radix < m /\ ~ m < Radix
      BY <2>1, <2>3, LastDigitOf, RadixFacts
    <3>2. m \div Radix \notin bad
      BY <2>1, <3>1
    <3>3. Canonical(Numeral[m \div Radix]) /\ Number(Numeral[m \div Radix]) = m \div Radix
      BY <3>1, <3>2
    <3>4. Numeral[m] = Append(Numeral[m \div Radix], Digits[(m % Radix) + 1])
      BY <1>5, <2>1, <3>1
    <3> QED BY <2>1, <2>3, <3>3, <3>4, CanonicalAppend
  <2> QED BY <2>1, <2>2, <2>3, RadixFacts
<1> QED BY <1>6

LEMMA NumeralOfNumber ==
    ASSUME NEW s, Canonical(s)
    PROVE  Numeral[Number(s)] = s
<1>1. Number(s) \in Nat
  BY NumberFacts DEF Canonical
<1> QED BY <1>1, NumeralFacts, CanonicalUnique

-----------------------------------------------------------------------------
(* The two digits after the dot.                                           *)

LEMMA UnitsFacts == MinorUnits = Radix * Radix /\ MinorUnits \in Nat /\ MinorUnits > 0
<1> DEFINE u == Radix
<1>1. u \in Nat /\ u > 1
  BY RadixFacts
<1> HIDE DEF u
<1>2. u * u \in Nat /\ u * u > 0
  BY <1>1
<1> QED BY <1>2 DEF u, MinorUnits

LEMMA Pair ==
    ASSUME NEW S, NEW a \in S, NEW b \in S
    PROVE  <<a>> \o <<b>> = <<a, b>>
<1> DEFINE s == <<a>> \o <<b>>
           t == <<a, b>>
<1>1. <<a>> \in Seq(S) /\ <<b>> \in Seq(S) /\ Len(<<a>>) = 1 /\ Len(<<b>>) = 1
  OBVIOUS
<1>2. t \in Seq(S) /\ Len(t) = 2 /\ t[1] = a /\ t[2] = b
  OBVIOUS
<1>3. s \in Seq(S) /\ Len(s) = 2 /\ s[1] = a /\ s[2] = b
  BY <1>1, ConcatProperties
<1> HIDE DEF s, t
<1>4. \A i \in 1..Len(s) : s[i] = t[i]
  BY <1>2, <1>3
<1>5. s = t
  BY <1>2, <1>3, <1>4, SeqEqual
<1> QED BY <1>5 DEF s, t

\* What two digits denote.
LEMMA TwoDigits ==
    ASSUME NEW a \in DigitChars, NEW b \in DigitChars
    PROVE  /\ Number(<<a, b>>) = Value(a) * Radix + Value(b)
           /\ Number(<<a, b>>) \in 0..MinorUnits - 1
<1> DEFINE u == Radix
           x == Value(a)
           y == Value(b)
<1>1. u \in Nat /\ u > 1 /\ x \in 0..u - 1 /\ y \in 0..u - 1
  BY DigitFacts
<1>2. Number(<<a, b>>) = x * u + y
  <2>1. <<>> \in Seq(DigitChars) /\ <<a>> \in Seq(DigitChars) /\ <<a>> = Append(<<>>, a)
        /\ <<a, b>> = Append(<<a>>, b)
    OBVIOUS
  <2>2. Number(<<a>>) = 0 * u + x /\ Number(<<a, b>>) = Number(<<a>>) * u + y
    BY <2>1, NumberFacts
  <2>3. 0 * u + x = x
    BY <1>1
  <2> QED BY <2>2, <2>3
<1> HIDE DEF u, x, y
<1>3. x * u + y \in 0..u * u - 1
  <2>1. (x + 1) * u <= u * u
    BY <1>1
  <2>2. (x + 1) * u = x * u + u
    BY <1>1
  <2>3. x * u \in Nat /\ u * u \in Nat
    BY <1>1
  <2> QED BY <1>1, <2>1, <2>2, <2>3
<1>4. MinorUnits = u * u
  BY DEF u, MinorUnits
<1> QED BY <1>2, <1>3, <1>4 DEF u, x, y

\* Two digits for one number are the same.
LEMMA TwoDigitsUnique ==
    ASSUME NEW a \in DigitChars, NEW b \in DigitChars, NEW c \in DigitChars, NEW d \in DigitChars,
           Number(<<a, b>>) = Number(<<c, d>>)
    PROVE  a = c /\ b = d
<1>1. Value(a) * Radix + Value(b) = Value(c) * Radix + Value(d)
  BY TwoDigits
<1>2. Value(a) \in Nat /\ Value(c) \in Nat
  <2> DEFINE u == Radix
             x == Value(a)
             y == Value(c)
  <2>1. u \in Nat /\ x \in 0..u - 1 /\ y \in 0..u - 1
    BY DigitFacts
  <2> HIDE DEF u, x, y
  <2>2. x \in Nat /\ y \in Nat
    BY <2>1
  <2> QED BY <2>2 DEF x, y
<1>3. Value(a) = Value(c) /\ b = d
  BY <1>1, <1>2, SameDigits
<1>4. Digits[Value(a) + 1] = a /\ Digits[Value(c) + 1] = c
  BY DigitFacts
<1> QED BY <1>3, <1>4

\* A fraction is printed with two digits.
LEMMA FractionFacts ==
    ASSUME NEW n \in 0..MinorUnits - 1
    PROVE  \E a \in DigitChars, b \in DigitChars :
              Fraction(n) = <<a, b>> /\ Number(<<a, b>>) = n
<1>1. n \in Nat /\ Radix \in Nat /\ Radix > 1
  BY UnitsFacts, RadixFacts
<1>2. CASE n < Radix
  <2>1. PICK c \in DigitChars : c = Digits[n + 1] /\ Value(c) = n
    <3>1. n \in 0..Radix - 1
      BY <1>1, <1>2
    <3> QED BY <3>1, DigitFacts
  <2>2. Canonical(<<c>>) /\ Number(<<c>>) = n
    BY <1>1, <1>2, <2>1, CanonicalDigit
  <2>3. Numeral[n] = <<c>>
    BY <1>1, <2>2, NumeralFacts, CanonicalUnique
  <2>4. PICK z \in DigitChars : z = Zero /\ Value(z) = 0
    BY DigitFacts
  <2>5. Fraction(n) = <<z, c>>
    <3>1. <<z>> \o <<c>> = <<z, c>>
      BY <2>1, <2>4, Pair
    <3> QED BY <1>2, <2>3, <2>4, <3>1 DEF Fraction
  <2>6. Number(<<z, c>>) = 0 * Radix + Value(c)
    BY <2>4, TwoDigits
  <2>7. Number(<<z, c>>) = n
    BY <1>1, <2>1, <2>6
  <2> QED BY <2>5, <2>7
<1>3. CASE n >= Radix
  <2>1. PICK q \in Nat, r \in 0..Radix - 1 : n = q * Radix + r /\ q > 0
    BY <1>1, <1>3, LastDigitOf
  <2>2. q \in 0..Radix - 1
    <3> DEFINE u == Radix
    <3>1. u \in Nat /\ u > 1 /\ n < u * u /\ n = q * u + r /\ r \in 0..u - 1
      BY <1>1, <2>1, UnitsFacts
    <3> HIDE DEF u
    <3>2. ASSUME q >= u PROVE FALSE
      <4>1. q * u >= u * u
        BY <3>1, <3>2
      <4>2. q * u \in Nat /\ u * u \in Nat
        BY <3>1
      <4> QED BY <3>1, <4>1, <4>2
    <3>3. q \in 0..u - 1
      BY <3>1, <3>2
    <3> QED BY <3>3 DEF u
  <2>3. PICK a \in DigitChars, b \in DigitChars : Value(a) = q /\ Value(b) = r
    <3>1. /\ Digits[q + 1] \in DigitChars /\ Value(Digits[q + 1]) = q
          /\ Digits[r + 1] \in DigitChars /\ Value(Digits[r + 1]) = r
      BY <2>1, <2>2, DigitFacts
    <3> QED BY <3>1
  <2>4. Number(<<a, b>>) = n
    BY <2>1, <2>3, TwoDigits
  <2>5. a # Zero
    <3>1. Value(a) # 0
      BY <2>1, <2>3
    <3> QED BY <3>1, DigitFacts
  <2>6. Canonical(<<a, b>>)
    BY <2>5 DEF Canonical
  <2>7. Numeral[n] = <<a, b>>
    BY <1>1, <2>4, <2>6, NumeralFacts, CanonicalUnique
  <2>8. Fraction(n) = <<a, b>>
    BY <1>1, <1>3, <2>7 DEF Fraction
  <2> QED BY <2>4, <2>8
<1> QED BY <1>1, <1>2, <1>3

LEMMA FractionOfDigits ==
    ASSUME NEW a \in DigitChars, NEW b \in DigitChars
    PROVE  Fraction(Number(<<a, b>>)) = <<a, b>>
<1>1. Number(<<a, b>>) \in 0..MinorUnits - 1
  BY TwoDigits
<1>2. PICK c \in DigitChars, d \in DigitChars :
            Fraction(Number(<<a, b>>)) = <<c, d>> /\ Number(<<c, d>>) = Number(<<a, b>>)
  BY <1>1, FractionFacts
<1> QED BY <1>2, TwoDigitsUnique

-----------------------------------------------------------------------------
(* The form of an amount.                                                  *)

LEMMA Couple ==
    ASSUME NEW S, NEW a \in S, NEW b \in S
    PROVE  /\ <<a>> \in Seq(S) /\ Len(<<a>>) = 1 /\ <<a>>[1] = a
           /\ <<a, b>> \in Seq(S) /\ Len(<<a, b>>) = 2
           /\ <<a, b>>[1] = a /\ <<a, b>>[2] = b
OBVIOUS

LEMMA DigitsAreStrings == DigitChars \subseteq STRING
<1> SUFFICES ASSUME NEW c \in DigitChars PROVE c \in STRING
  OBVIOUS
<1>1. Digits \in Seq(STRING)
  BY MoneyAssumption
<1>2. PICK i \in 1..Len(Digits) : Digits[i] = c
  BY <1>1, LenProperties DEF DigitChars, ToSet
<1> QED BY <1>1, <1>2, ElementOfSeq

\* The provers do not know of a string that it is one.
Symbols == STRING \cup {".", "-"}

LEMMA SymbolFacts ==
    /\ DigitChars \subseteq Symbols /\ "." \in Symbols /\ "-" \in Symbols
    /\ \A s \in Seq(STRING) : s \in Seq(Symbols)
<1>1. STRING \subseteq Symbols
  BY DEF Symbols
<1>2. \A s \in Seq(STRING) : s \in Seq(Symbols)
  BY <1>1, SeqMonotonic
<1> QED BY <1>1, <1>2, DigitsAreStrings DEF Symbols

\* The text with a given integral part and two digits after the dot.
Whole(ip, a, b) == (ip \o <<".">>) \o <<a, b>>

LEMMA WholeFacts ==
    ASSUME NEW ip \in Seq(DigitChars), NEW a \in DigitChars, NEW b \in DigitChars
    PROVE  LET t == Whole(ip, a, b)
               k == Len(ip)
           IN /\ k \in Nat /\ t \in Seq(Symbols) /\ Len(t) = k + 3
              /\ \A i \in 1..k : t[i] = ip[i]
              /\ t[k + 1] = "." /\ t[k + 2] = a /\ t[k + 3] = b
<1> DEFINE k == Len(ip)
           h == ip \o <<".">>
           t == h \o <<a, b>>
<1>1. DigitChars \subseteq Symbols /\ "." \in Symbols
  BY SymbolFacts
<1>2. ip \in Seq(Symbols) /\ k \in Nat
  BY <1>1, SeqMonotonic, LenProperties
<1>3. <<".">> \in Seq(Symbols) /\ Len(<<".">>) = 1 /\ <<".">>[1] = "."
  BY <1>1, Couple
<1>4. <<a, b>> \in Seq(Symbols) /\ Len(<<a, b>>) = 2 /\ <<a, b>>[1] = a /\ <<a, b>>[2] = b
  <2>1. a \in Symbols /\ b \in Symbols
    BY <1>1
  <2> QED BY <2>1, Couple
<1>5. /\ h \in Seq(Symbols) /\ Len(h) = k + 1
      /\ \A i \in 1..k : h[i] = ip[i]
      /\ h[k + 1] = "."
  <2>1. /\ h \in Seq(Symbols) /\ Len(h) = k + Len(<<".">>)
        /\ \A i \in 1..k + Len(<<".">>) : h[i] = IF i <= k THEN ip[i] ELSE <<".">>[i - k]
    BY <1>2, <1>3, ConcatProperties
  <2> HIDE DEF h, k
  <2>2. h \in Seq(Symbols) /\ Len(h) = k + 1
    BY <1>2, <1>3, <2>1
  <2>3. \A i \in 1..k : h[i] = ip[i]
    BY <1>2, <1>3, <2>1
  <2>4. h[k + 1] = "."
    BY <1>2, <1>3, <2>1
  <2> QED BY <2>2, <2>3, <2>4
<1>6. /\ t \in Seq(Symbols) /\ Len(t) = (k + 1) + 2
      /\ \A i \in 1..(k + 1) + 2 : t[i] = IF i <= k + 1 THEN h[i] ELSE <<a, b>>[i - (k + 1)]
  <2> HIDE DEF h
  <2> QED BY <1>4, <1>5, ConcatProperties
<1>7. Len(t) = k + 3 /\ t \in Seq(Symbols)
  <2> HIDE DEF t, k
  <2> QED BY <1>2, <1>6
<1>8. \A i \in 1..k : t[i] = ip[i]
  <2> HIDE DEF t, k, h
  <2> QED BY <1>2, <1>5, <1>6
<1>9. t[k + 1] = "."
  <2> HIDE DEF t, k, h
  <2> QED BY <1>2, <1>5, <1>6
<1>10. t[k + 2] = a /\ t[k + 3] = b
  <2> DEFINE p == <<a, b>>
  <2>1. p[1] = a /\ p[2] = b
    BY <1>4
  <2>2. \A i \in 1..(k + 1) + 2 : t[i] = IF i <= k + 1 THEN h[i] ELSE p[i - (k + 1)]
    BY <1>6
  <2> HIDE DEF t, k, h, p
  <2>3. t[k + 2] = p[(k + 2) - (k + 1)] /\ t[k + 3] = p[(k + 3) - (k + 1)]
    <3>1. /\ k + 2 \in 1..(k + 1) + 2 /\ ~ k + 2 <= k + 1
          /\ k + 3 \in 1..(k + 1) + 2 /\ ~ k + 3 <= k + 1
      BY <1>2
    <3> QED BY <2>2, <3>1
  <2>4. (k + 2) - (k + 1) = 1 /\ (k + 3) - (k + 1) = 2
    BY <1>2
  <2> QED BY <2>1, <2>3, <2>4
<1> QED BY <1>2, <1>7, <1>8, <1>9, <1>10 DEF Whole

\* Its parts, and the digits without the dot.
LEMMA WholeParts ==
    ASSUME NEW ip \in Seq(DigitChars), NEW a \in DigitChars, NEW b \in DigitChars
    PROVE  LET t == Whole(ip, a, b)
           IN /\ SubSeq(t, 1, Len(t) - 3) = ip
              /\ SubSeq(t, Len(t) - 1, Len(t)) = <<a, b>>
              /\ RemoveAt(t, Len(t) - 2) = ip \o <<a, b>>
<1> DEFINE t == Whole(ip, a, b)
           k == Len(ip)
<1>1. /\ k \in Nat /\ t \in Seq(Symbols) /\ Len(t) = k + 3
      /\ \A i \in 1..k : t[i] = ip[i]
      /\ t[k + 1] = "." /\ t[k + 2] = a /\ t[k + 3] = b
  BY WholeFacts
<1> HIDE DEF t
<1>2. SubSeq(t, 1, k) = ip
  <2> DEFINE s == SubSeq(t, 1, k)
  <2>1. \A i \in 1..k : t[i] \in DigitChars
    BY <1>1, ElementOfSeq
  <2>2. /\ s \in Seq(DigitChars) /\ Len(s) = IF 1 <= k THEN k - 1 + 1 ELSE 0
        /\ \A i \in 1..k - 1 + 1 : s[i] = t[1 + i - 1]
    <3> HIDE DEF k
    <3> QED BY <1>1, <2>1, SubSeqProperties
  <2> HIDE DEF s, k
  <2>3. Len(s) = k
    BY <1>1, <2>2
  <2>4. \A i \in 1..k : s[i] = ip[i]
    <3> SUFFICES ASSUME NEW i \in 1..k PROVE s[i] = ip[i]
      OBVIOUS
    <3>1. i \in 1..k - 1 + 1 /\ 1 + i - 1 = i
      BY <1>1
    <3> QED BY <1>1, <2>2, <3>1
  <2>5. s = ip
    BY <2>2, <2>3, <2>4, SeqEqual DEF k
  <2> QED BY <2>5 DEF s
<1>3. SubSeq(t, k + 2, k + 3) = <<a, b>>
  <2> DEFINE s == SubSeq(t, k + 2, k + 3)
             p == <<a, b>>
  <2>1. \A i \in k + 2..k + 3 : t[i] \in DigitChars
    <3> HIDE DEF k
    <3>1. \A i \in k + 2..k + 3 : i = k + 2 \/ i = k + 3
      BY <1>1
    <3> QED BY <1>1, <3>1
  <2>2. /\ s \in Seq(DigitChars) /\ Len(s) = IF k + 2 <= k + 3 THEN (k + 3) - (k + 2) + 1 ELSE 0
        /\ \A i \in 1..(k + 3) - (k + 2) + 1 : s[i] = t[(k + 2) + i - 1]
    <3> HIDE DEF k
    <3>1. k + 2 \in Int /\ k + 3 \in Int
      BY <1>1
    <3> QED BY <2>1, <3>1, SubSeqProperties
  <2>3. p \in Seq(DigitChars) /\ Len(p) = 2 /\ p[1] = a /\ p[2] = b
    OBVIOUS
  <2> HIDE DEF s, k, p
  <2>4. Len(s) = 2
    BY <1>1, <2>2
  <2>5. s[1] = t[k + 2] /\ s[2] = t[k + 3]
    <3>1. /\ 1 \in 1..(k + 3) - (k + 2) + 1 /\ 2 \in 1..(k + 3) - (k + 2) + 1
          /\ (k + 2) + 1 - 1 = k + 2 /\ (k + 2) + 2 - 1 = k + 3
      BY <1>1
    <3> QED BY <2>2, <3>1
  <2>6. \A i \in 1..2 : s[i] = p[i]
    <3>1. \A i \in 1..2 : i = 1 \/ i = 2
      OBVIOUS
    <3> QED BY <1>1, <2>3, <2>5, <3>1
  <2>7. s = p
    BY <2>2, <2>3, <2>4, <2>6, SeqEqual
  <2> QED BY <2>7 DEF s, p
<1> HIDE DEF k
<1>4. /\ Len(t) - 3 = k /\ Len(t) - 1 = k + 2 /\ Len(t) = k + 3
      /\ Len(t) - 2 - 1 = k /\ Len(t) - 2 + 1 = k + 2
  BY <1>1
<1>5. RemoveAt(t, Len(t) - 2) = SubSeq(t, 1, k) \o SubSeq(t, k + 2, k + 3)
  BY <1>4 DEF RemoveAt
<1> QED BY <1>2, <1>3, <1>4, <1>5 DEF t

\* The digits without the dot denote the parts put together.
LEMMA WholeNumber ==
    ASSUME NEW ip \in Seq(DigitChars), NEW a \in DigitChars, NEW b \in DigitChars
    PROVE  Number(ip \o <<a, b>>) = Number(ip) * MinorUnits + Number(<<a, b>>)
<1> DEFINE ia == Append(ip, a)
           iab == Append(ia, b)
           n == Number(ip)
           u == Radix
           x == Value(a)
           y == Value(b)
<1>1. ia \in Seq(DigitChars) /\ iab \in Seq(DigitChars)
  BY AppendProperties
<1>2. iab = ip \o <<a, b>>
  <2>1. <<a>> \in Seq(DigitChars) /\ <<b>> \in Seq(DigitChars)
    OBVIOUS
  <2>2. ia = ip \o <<a>>
    BY AppendIsConcat
  <2>3. iab = ia \o <<b>>
    <3> HIDE DEF ia
    <3> QED BY <1>1, AppendIsConcat
  <2>4. (ip \o <<a>>) \o <<b>> = ip \o (<<a>> \o <<b>>)
    BY <2>1, ConcatAssociative
  <2>5. <<a>> \o <<b>> = <<a, b>>
    BY Pair
  <2> HIDE DEF ia, iab
  <2> QED BY <2>2, <2>3, <2>4, <2>5
<1>3. Number(iab) = (n * u + x) * u + y
  <2>1. Number(ia) = n * u + x
    BY NumberFacts
  <2>2. Number(iab) = Number(ia) * u + y
    <3> HIDE DEF ia
    <3> QED BY <1>1, NumberFacts
  <2> QED BY <2>1, <2>2
<1>4. Number(<<a, b>>) = x * u + y
  BY TwoDigits
<1>5. n \in Nat /\ u \in Nat /\ x \in Nat /\ y \in Nat
  <2>1. n \in Nat /\ u \in Nat /\ x \in 0..u - 1 /\ y \in 0..u - 1
    BY NumberFacts, DigitFacts
  <2> HIDE DEF n, u, x, y
  <2> QED BY <2>1
<1>6. MinorUnits = u * u
  BY DEF MinorUnits
<1> HIDE DEF ia, iab, n, u, x, y
<1>7. (n * u + x) * u + y = n * (u * u) + (x * u + y)
  <2>1. (n * u + x) * u = (n * u) * u + x * u
    BY <1>5
  <2>2. (n * u) * u = n * (u * u)
    BY <1>5
  <2>3. n * (u * u) \in Nat /\ x * u \in Nat
    BY <1>5
  <2> QED BY <1>5, <2>1, <2>2, <2>3
<1> QED BY <1>2, <1>3, <1>4, <1>6, <1>7 DEF n

\* The texts that are accepted are the canonical numbers with two digits more.
LEMMA WholeWellFormed ==
    ASSUME NEW ip, Canonical(ip), NEW a \in DigitChars, NEW b \in DigitChars
    PROVE  WellFormed(Whole(ip, a, b))
<1> DEFINE t == Whole(ip, a, b)
           k == Len(ip)
<1>1. ip \in Seq(DigitChars) /\ k >= 1 /\ (k > 1 => ip[1] # Zero)
  BY DEF Canonical
<1>2. /\ k \in Nat /\ t \in Seq(Symbols) /\ Len(t) = k + 3
      /\ \A i \in 1..k : t[i] = ip[i]
      /\ t[k + 1] = "." /\ t[k + 2] = a /\ t[k + 3] = b
  BY <1>1, WholeFacts
<1>3. DOMAIN t = 1..k + 3
  <2> HIDE DEF t, k
  <2> QED BY <1>2, LenProperties
<1>4. \A i \in 1..k : t[i] \in DigitChars
  BY <1>1, <1>2, ElementOfSeq
<1> HIDE DEF t, k
<1>5. Len(t) - 2 = k + 1 /\ Len(t) >= 4 /\ (Len(t) > 4 <=> k > 1)
  BY <1>1, <1>2
<1>6. \A i \in DOMAIN t : IF i = k + 1 THEN t[i] = "." ELSE t[i] \in DigitChars
  <2>1. \A i \in 1..k + 3 : i \in 1..k \/ i = k + 1 \/ i = k + 2 \/ i = k + 3
    BY <1>2
  <2> QED BY <1>2, <1>3, <1>4, <2>1
<1>7. k > 1 => t[1] # Zero
  BY <1>1, <1>2
<1> QED BY <1>5, <1>6, <1>7 DEF WellFormed, t

LEMMA WellFormedWhole ==
    ASSUME NEW s \in Seq(Symbols), WellFormed(s)
    PROVE  \E ip \in Seq(DigitChars), a \in DigitChars, b \in DigitChars :
              Canonical(ip) /\ s = Whole(ip, a, b)
<1> DEFINE k == Len(s) - 3
           ip == [i \in 1..k |-> s[i]]
           a == s[k + 2]
           b == s[k + 3]
           t == Whole(ip, a, b)
<1>1. Len(s) \in Nat /\ DOMAIN s = 1..Len(s)
  BY LenProperties
<1>2. Len(s) >= 4 /\ (Len(s) > 4 => s[1] # Zero)
  BY DEF WellFormed
<1>3. k \in Nat /\ k >= 1 /\ Len(s) = k + 3 /\ (Len(s) > 4 <=> k > 1)
  BY <1>1, <1>2
<1>4. \A i \in 1..k + 3 : IF i = k + 1 THEN s[i] = "." ELSE s[i] \in DigitChars
  <2>1. \A i \in DOMAIN s : IF i = Len(s) - 2 THEN s[i] = "." ELSE s[i] \in DigitChars
    BY DEF WellFormed
  <2>2. Len(s) - 2 = k + 1 /\ DOMAIN s = 1..k + 3
    BY <1>1, <1>3
  <2> HIDE DEF k
  <2> QED BY <2>1, <2>2
<1> HIDE DEF k
<1>5. a \in DigitChars /\ b \in DigitChars /\ s[k + 1] = "."
  BY <1>3, <1>4
<1>6. ip \in Seq(DigitChars) /\ Len(ip) = k /\ \A i \in 1..k : ip[i] = s[i]
  <2>1. \A i \in 1..k : s[i] \in DigitChars
    BY <1>3, <1>4
  <2>2. ip \in Seq(DigitChars)
    BY <1>3, <2>1, IsASeq
  <2> QED BY <1>3, <2>2
<1> HIDE DEF ip
<1>7. Canonical(ip)
  <2>1. 1 \in 1..k
    BY <1>3
  <2> QED BY <1>2, <1>3, <1>6, <2>1 DEF Canonical
<1> HIDE DEF a, b
<1>8. /\ t \in Seq(Symbols) /\ Len(t) = k + 3
      /\ \A i \in 1..k : t[i] = ip[i]
      /\ t[k + 1] = "." /\ t[k + 2] = a /\ t[k + 3] = b
  BY <1>5, <1>6, WholeFacts
<1> HIDE DEF t
<1>9. \A i \in 1..k + 3 : s[i] = t[i]
  <2>1. \A i \in 1..k + 3 : i \in 1..k \/ i = k + 1 \/ i = k + 2 \/ i = k + 3
    BY <1>3
  <2> QED BY <1>5, <1>6, <1>8, <2>1 DEF a, b
<1>10. s = t
  BY <1>3, <1>8, <1>9, SeqEqual
<1> QED BY <1>5, <1>6, <1>7, <1>10 DEF t

-----------------------------------------------------------------------------
(* Trimming and writing.                                                   *)

LEMMA MinFacts ==
    ASSUME NEW T \in SUBSET Nat, T # {}
    PROVE  Min(T) \in T /\ \A m \in T : Min(T) <= m
<1>1. \E n \in T : \A m \in T : n <= m
  BY Least
<1> QED BY <1>1 DEF Min

LEMMA MaxFacts ==
    ASSUME NEW T \in SUBSET Nat, T # {}, NEW n \in Nat, \A m \in T : m <= n
    PROVE  Max(T) \in T /\ \A m \in T : Max(T) >= m
<1> DEFINE gaps == {n - m : m \in T}
<1>1. gaps \in SUBSET Nat /\ gaps # {}
  <2>1. \A m \in T : n - m \in Nat
    OBVIOUS
  <2> QED BY <2>1
<1>2. PICK g \in gaps : \A h \in gaps : g <= h
  <2> HIDE DEF gaps
  <2> QED BY <1>1, Least
<1>3. PICK k \in T : g = n - k
  BY <1>2
<1>4. \A m \in T : k >= m
  <2> SUFFICES ASSUME NEW m \in T PROVE k >= m
    OBVIOUS
  <2>1. n - k <= n - m
    BY <1>2, <1>3
  <2>2. k \in Nat /\ m \in Nat
    OBVIOUS
  <2> QED BY <2>1, <2>2
<1> QED BY <1>4 DEF Max

\* Trimming gives a part of the text,
LEMMA TrimType ==
    ASSUME NEW S, NEW s \in Seq(S)
    PROVE  TrimSpace(s) \in Seq(S)
<1> DEFINE inner == {i \in DOMAIN s : s[i] # " "}
<1>1. Len(s) \in Nat /\ DOMAIN s = 1..Len(s)
  BY LenProperties
<1>2. CASE inner = {}
  <2>1. TrimSpace(s) = <<>>
    BY <1>2 DEF TrimSpace
  <2> QED BY <2>1, EmptySeq
<1>3. CASE inner # {}
  <2>1. inner \in SUBSET Nat /\ inner \subseteq 1..Len(s) /\ \A m \in inner : m <= Len(s)
    <3> DEFINE k == Len(s)
    <3>1. \A i \in 1..k : i \in Nat /\ i <= k
      OBVIOUS
    <3>2. inner \subseteq 1..k
      BY <1>1
    <3> HIDE DEF inner, k
    <3>3. inner \in SUBSET Nat /\ \A m \in inner : m <= k
      BY <3>1, <3>2
    <3> QED BY <3>2, <3>3 DEF k
  <2>2. Min(inner) \in inner /\ Max(inner) \in inner
    <3> HIDE DEF inner
    <3> QED BY <1>1, <1>3, <2>1, MinFacts, MaxFacts
  <2> DEFINE p == Min(inner)
             q == Max(inner)
  <2>3. p \in 1..Len(s) /\ q \in 1..Len(s)
    BY <2>1, <2>2
  <2>4. TrimSpace(s) = SubSeq(s, p, q)
    BY <1>3 DEF TrimSpace
  <2> HIDE DEF p, q
  <2>5. \A i \in p..q : s[i] \in S
    <3>1. \A i \in p..q : i \in 1..Len(s)
      BY <1>1, <2>3
    <3> QED BY <3>1, ElementOfSeq
  <2>6. p \in Int /\ q \in Int
    BY <1>1, <2>3
  <2> QED BY <2>4, <2>5, <2>6, SubSeqProperties
<1> QED BY <1>2, <1>3

LEMMA Ends ==
    ASSUME NEW k \in Nat, NEW T \in SUBSET (1..k), 1 \in T, k \in T
    PROVE  Min(T) = 1 /\ Max(T) = k
<1> DEFINE p == Min(T)
           q == Max(T)
<1>1. T \in SUBSET Nat /\ T # {} /\ \A m \in T : 1 <= m /\ m <= k
  OBVIOUS
<1>2. p \in T /\ \A m \in T : p <= m
  BY <1>1, MinFacts
<1>3. q \in T /\ \A m \in T : q >= m
  BY <1>1, MaxFacts
<1> HIDE DEF p, q
<1>4. p = 1 /\ q = k
  BY <1>1, <1>2, <1>3
<1> QED BY <1>4 DEF p, q

LEMMA AtEnds ==
    ASSUME NEW k \in Nat, k >= 1
    PROVE  1 \in 1..k /\ k \in 1..k
OBVIOUS

\* and leaves alone one that neither begins nor ends with a space.
LEMMA TrimIdentity ==
    ASSUME NEW S, NEW s \in Seq(S), Len(s) >= 1, s[1] # " ", s[Len(s)] # " "
    PROVE  TrimSpace(s) = s
<1> DEFINE inner == {i \in DOMAIN s : s[i] # " "}
           k == Len(s)
<1>1. k \in Nat /\ DOMAIN s = 1..k
  BY LenProperties
<1>2. 1 \in 1..k /\ k \in 1..k
  <2> HIDE DEF k
  <2> QED BY <1>1, AtEnds DEF k
<1>3. 1 \in inner /\ k \in inner /\ inner \in SUBSET (1..k)
  BY <1>1, <1>2
<1> HIDE DEF k, inner
<1>4. Min(inner) = 1 /\ Max(inner) = k /\ inner # {}
  BY <1>1, <1>3, Ends
<1>5. TrimSpace(s) = SubSeq(s, 1, Len(s))
  BY <1>4 DEF TrimSpace, inner, k
<1> QED BY <1>5, SubSeqFull

LEMMA Division ==
    ASSUME NEW n \in Nat, NEW u \in Nat, u > 0
    PROVE  \E q \in Nat, r \in 0..u - 1 : n \div u = q /\ n % u = r /\ n = q * u + r
<1> DEFINE q == n \div u
           r == n % u
<1>1. q \in Nat /\ r \in 0..u - 1 /\ n = q * u + r
  <2> HIDE DEF q, r
  <2>1. ASSUME q = n \div u, r = n % u PROVE q \in Nat /\ r \in 0..u - 1 /\ n = q * u + r
    BY <2>1, Z3
  <2> QED BY <2>1 DEF q, r
<1> QED BY <1>1

\* The text of a number of minor units.
Written(u) == (Numeral[u \div MinorUnits] \o <<".">>) \o Fraction(u % MinorUnits)

\* What is written has the form that is accepted, and denotes the number.
LEMMA WrittenFacts ==
    ASSUME NEW n \in Nat
    PROVE  \E ip \in Seq(DigitChars), a \in DigitChars, b \in DigitChars :
              /\ Canonical(ip) /\ Written(n) = Whole(ip, a, b)
              /\ Number(ip) * MinorUnits + Number(<<a, b>>) = n
<1>1. PICK q \in Nat, r \in 0..MinorUnits - 1 :
            n \div MinorUnits = q /\ n % MinorUnits = r /\ n = q * MinorUnits + r
  BY UnitsFacts, Division
<1>2. PICK a \in DigitChars, b \in DigitChars : Fraction(r) = <<a, b>> /\ Number(<<a, b>>) = r
  BY FractionFacts
<1>3. PICK ip : ip = Numeral[q] /\ Canonical(ip) /\ Number(ip) = q
  BY NumeralFacts
<1>4. Written(n) = Whole(ip, a, b)
  BY <1>1, <1>2, <1>3 DEF Written, Whole
<1>5. Number(ip) * MinorUnits + Number(<<a, b>>) = n
  BY <1>1, <1>2, <1>3
<1>6. ip \in Seq(DigitChars)
  BY <1>3 DEF Canonical
<1> WITNESS ip \in Seq(DigitChars), a \in DigitChars, b \in DigitChars
<1> QED BY <1>3, <1>4, <1>5

\* A text that is accepted is what is written for the number it denotes.
LEMMA WrittenAgain ==
    ASSUME NEW ip, Canonical(ip), NEW a \in DigitChars, NEW b \in DigitChars
    PROVE  LET n == Number(ip) * MinorUnits + Number(<<a, b>>)
           IN n \in Nat /\ Written(n) = Whole(ip, a, b)
<1> DEFINE p == Number(ip)
           f == Number(<<a, b>>)
           u == MinorUnits
           n == p * u + f
<1>1. p \in Nat /\ f \in 0..u - 1 /\ u \in Nat /\ u > 0
  <2>1. ip \in Seq(DigitChars)
    BY DEF Canonical
  <2> QED BY <2>1, NumberFacts, TwoDigits, UnitsFacts
<1>2. Numeral[p] = ip /\ Fraction(f) = <<a, b>>
  BY NumeralOfNumber, FractionOfDigits
<1> HIDE DEF p, f, u
<1>3. n \in Nat
  <2>1. p * u \in Nat
    BY <1>1
  <2> QED BY <1>1, <2>1
<1>4. n \div u = p /\ n % u = f
  <2>1. PICK q \in Nat, r \in 0..u - 1 : n \div u = q /\ n % u = r /\ n = q * u + r
    <3> HIDE DEF n
    <3> QED BY <1>1, <1>3, Division
  <2>2. q = p /\ r = f
    BY <1>1, <2>1, DivisionUnique
  <2> QED BY <2>1, <2>2
<1> HIDE DEF n
<1>5. Written(n) = Whole(ip, a, b)
  BY <1>2, <1>4 DEF Written, Whole, u
<1> QED BY <1>3, <1>5 DEF n, p, f, u

\* The ends of a text of that form, which trimming leaves alone.
LEMMA WholeTrimmed ==
    ASSUME NEW ip, Canonical(ip), NEW a \in DigitChars, NEW b \in DigitChars
    PROVE  LET t == Whole(ip, a, b)
           IN t \in Seq(Symbols) /\ Len(t) >= 4 /\ t[1] \in DigitChars /\ TrimSpace(t) = t
<1> DEFINE t == Whole(ip, a, b)
           k == Len(ip)
<1>1. ip \in Seq(DigitChars) /\ k >= 1
  BY DEF Canonical
<1>2. /\ k \in Nat /\ t \in Seq(Symbols) /\ Len(t) = k + 3
      /\ \A i \in 1..k : t[i] = ip[i]
      /\ t[k + 3] = b
  BY <1>1, WholeFacts
<1>3. \A i \in 1..k : ip[i] \in DigitChars
  BY <1>1, ElementOfSeq
<1> HIDE DEF t, k
<1>4. 1 \in 1..k /\ Len(t) >= 4
  BY <1>1, <1>2
<1>5. t[1] \in DigitChars /\ t[Len(t)] \in DigitChars
  BY <1>2, <1>3, <1>4
<1>6. t[1] # " " /\ t[Len(t)] # " " /\ Len(t) >= 1
  <2>1. Len(t) >= 1
    BY <1>2, <1>4
  <2>2. " " \notin DigitChars
    BY DigitFacts
  <2> QED BY <1>5, <2>1, <2>2
<1>7. TrimSpace(t) = t
  BY <1>2, <1>6, TrimIdentity
<1> QED BY <1>2, <1>4, <1>5, <1>7 DEF t

-----------------------------------------------------------------------------
(* Arithmetic.                                                             *)

LEMMA Bounds ==
    /\ MaxInt \in Nat /\ MaxInt > 0 /\ MinInt \in Int /\ MinInt = -MaxInt - 1
    /\ \A n : n \in Int64 <=> n \in Int /\ MinInt <= n /\ n <= MaxInt
<1>1. MaxInt \in Nat \ {0}
  BY MoneyAssumption
<1> QED BY <1>1 DEF MinInt, Int64

LEMMA WrapExact ==
    ASSUME NEW n \in Int64
    PROVE  Wrap(n) = n
  BY DEF Wrap

(* addInt64 is exact or refuses a sum that an int64 cannot hold.           *)
THEOREM AddExact ==
    ASSUME NEW a \in Int64, NEW b \in Int64
    PROVE  AddInt64(a, b) = IF a + b \in Int64 THEN Ok(a + b) ELSE Failure("OVERFLOW")
<1>1. b > 0 => Wrap(MaxInt - b) = MaxInt - b
  BY Bounds, WrapExact
<1>2. b < 0 => Wrap(MinInt - b) = MinInt - b
  BY Bounds, WrapExact
<1>3. a \in Int /\ b \in Int /\ a >= MinInt /\ a <= MaxInt
  BY Bounds
<1>4. CASE a + b \in Int64
  <2>1. ~(b > 0 /\ a > Wrap(MaxInt - b)) /\ ~(b < 0 /\ a < Wrap(MinInt - b))
    BY <1>1, <1>2, <1>3, <1>4, Bounds
  <2> QED BY <2>1, <1>4, WrapExact DEF AddInt64
<1>5. CASE a + b \notin Int64
  <2>1. a + b > MaxInt \/ a + b < MinInt
    BY <1>3, <1>5, Bounds
  <2>2. (b > 0 /\ a > Wrap(MaxInt - b)) \/ (b < 0 /\ a < Wrap(MinInt - b))
    BY <1>1, <1>2, <1>3, <2>1, Bounds
  <2> QED BY <2>2, <1>5 DEF AddInt64
<1> QED BY <1>4, <1>5

(* subInt64 likewise, with guards of its own.                              *)
THEOREM SubExact ==
    ASSUME NEW a \in Int64, NEW b \in Int64
    PROVE  SubInt64(a, b) = IF a - b \in Int64 THEN Ok(a - b) ELSE Failure("OVERFLOW")
<1>1. b < 0 => Wrap(MaxInt + b) = MaxInt + b
  BY Bounds, WrapExact
<1>2. b > 0 => Wrap(MinInt + b) = MinInt + b
  BY Bounds, WrapExact
<1>3. a \in Int /\ b \in Int /\ a >= MinInt /\ a <= MaxInt
  BY Bounds
<1>4. CASE a - b \in Int64
  <2>1. ~(b < 0 /\ a > Wrap(MaxInt + b)) /\ ~(b > 0 /\ a < Wrap(MinInt + b))
    BY <1>1, <1>2, <1>3, <1>4, Bounds
  <2> QED BY <2>1, <1>4, WrapExact DEF SubInt64
<1>5. CASE a - b \notin Int64
  <2>1. a - b > MaxInt \/ a - b < MinInt
    BY <1>3, <1>5, Bounds
  <2>2. (b < 0 /\ a > Wrap(MaxInt + b)) \/ (b > 0 /\ a < Wrap(MinInt + b))
    BY <1>1, <1>2, <1>3, <2>1, Bounds
  <2> QED BY <2>2, <1>5 DEF SubInt64
<1> QED BY <1>4, <1>5

(* Only the smallest number has no negation.                               *)
LEMMA NegateExact ==
    ASSUME NEW a \in Int64
    PROVE  NegateInt64(a) = IF -a \in Int64 THEN Ok(-a) ELSE Failure("OVERFLOW")
<1>1. -a \in Int64 <=> a # MinInt
  BY Bounds
<1> QED BY <1>1, WrapExact DEF NegateInt64

LEMMA DivMod ==
    /\ MaxAbsIP \in Nat /\ MaxFracAtCap \in 0..MinorUnits - 1
    /\ MaxInt = MaxAbsIP * MinorUnits + MaxFracAtCap
<1>1. MaxInt \in Nat
  BY MoneyAssumption
<1> QED BY <1>1, UnitsFacts, Division DEF MaxAbsIP, MaxFracAtCap

(* The two parts of a parsed amount are put together exactly, or the       *)
(* amount is beyond the type: the caps of the parts are the caps of the    *)
(* whole, whatever the scale.                                              *)
THEOREM MinorExact ==
    ASSUME NEW ip \in Nat, NEW fp \in 0..MinorUnits - 1
    PROVE  Minor(ip, fp) = IF ip * MinorUnits + fp \in Int64
                           THEN Ok(ip * MinorUnits + fp) ELSE Failure("OVERFLOW")
<1> DEFINE u == MinorUnits
           q == MaxAbsIP
           r == MaxFracAtCap
           beyond == ip > q \/ (ip = q /\ fp > r)
<1>1. u \in Nat /\ u > 0 /\ q \in Nat /\ r \in 0..u - 1 /\ MaxInt = q * u + r
  BY DivMod, UnitsFacts
<1>2. fp \in Nat /\ fp < u
  BY <1>1
<1>3. ip * u \in Nat /\ q * u \in Nat
  BY <1>1
<1>4. CASE beyond
  <2>1. CASE ip > q
    <3>1. ip * u >= (q + 1) * u
      BY <1>1, <2>1
    <3>2. (q + 1) * u = q * u + u
      BY <1>1
    <3>3. ip * u + fp > MaxInt
      BY <1>1, <1>2, <1>3, <3>1, <3>2
    <3> QED BY <3>3, <1>2, <1>3, <1>4, Bounds DEF Minor
  <2>2. CASE ip = q /\ fp > r
    <3>1. ip * u + fp > MaxInt
      BY <1>1, <1>2, <1>3, <2>2
    <3> QED BY <3>1, <1>2, <1>3, <1>4, Bounds DEF Minor
  <2> QED BY <1>4, <2>1, <2>2
<1>5. CASE ~beyond
  <2>1. ip * u + fp <= MaxInt
    <3>1. CASE ip = q
      BY <3>1, <1>1, <1>2, <1>3, <1>5
    <3>2. CASE ip < q
      <4>1. (ip + 1) * u <= q * u
        BY <1>1, <3>2
      <4>2. (ip + 1) * u = ip * u + u
        BY <1>1
      <4> QED BY <4>1, <4>2, <1>1, <1>2, <1>3
    <3> QED BY <3>1, <3>2, <1>1, <1>5
  <2>2. ip * u \in Int64 /\ ip * u + fp \in Int64
    BY <2>1, <1>2, <1>3, Bounds
  <2>3. ip <= ip * u
    BY <1>1
  <2>4. ~(ip > MaxInt)
    BY <2>1, <2>3, <1>2, <1>3, Bounds
  <2>5. Wrap(Wrap(ip * u) + fp) = ip * u + fp
    BY <2>2, WrapExact
  <2> QED BY <1>5, <2>2, <2>4, <2>5 DEF Minor
<1> QED BY <1>4, <1>5

LEMMA ReturnExact ==
    ASSUME NEW x, NEW c,
           Return(Combine(money, c, IF x \in Int64 THEN Ok(x) ELSE Failure("OVERFLOW")), x)
    PROVE  Exact'
<1>1. wanted' = x
  BY DEF Return
<1>2. CASE money.currency # c
  <2>1. Return(Failure("INCOMPATIBLE_CURRENCY"), x)
    BY <1>2 DEF Combine
  <2>2. phase' = "refused" /\ code' = "INCOMPATIBLE_CURRENCY"
    BY <2>1 DEF Return, Failure
  <2> QED BY <2>2 DEF Exact
<1>3. CASE money.currency = c /\ x \in Int64
  <2> DEFINE m == [minor |-> x, currency |-> money.currency]
  <2>1. Return(Ok(m), x)
    BY <1>3 DEF Combine, Ok
  <2>2. phase' = "value" /\ money' = m /\ code' = ""
    BY <2>1 DEF Return, Ok
  <2> QED BY <1>1, <2>2 DEF Exact
<1>4. CASE money.currency = c /\ x \notin Int64
  <2>1. Return(Failure("OVERFLOW"), x)
    BY <1>4 DEF Combine, Failure
  <2>2. phase' = "refused"
    BY <2>1 DEF Return, Failure
  <2> QED BY <1>1, <1>4, <2>2 DEF Exact
<1> QED BY <1>2, <1>3, <1>4

(* A call on a value returns the exact result, or refuses one that does    *)
(* not fit: Exact holds after it.                                          *)
THEOREM CallsExact ==
    ASSUME NEW n \in Int64, NEW c, money.minor \in Int64, Add(n, c) \/ Sub(n, c) \/ Negate
    PROVE  Exact'
<1>1. CASE Add(n, c)
  BY <1>1, AddExact, ReturnExact DEF Add
<1>2. CASE Sub(n, c)
  BY <1>2, SubExact, ReturnExact DEF Sub
<1>3. CASE Negate
  BY <1>3, NegateExact, ReturnExact DEF Negate
<1> QED BY <1>1, <1>2, <1>3

-----------------------------------------------------------------------------
(* What is written and what is read.                                       *)

LEMMA WrittenParsed ==
    ASSUME NEW n \in Nat
    PROVE  /\ Written(n) \in Seq(Symbols) /\ Len(Written(n)) >= 4
           /\ Written(n)[1] \in DigitChars
           /\ TrimSpace(Written(n)) = Written(n) /\ WellFormed(Written(n))
           /\ Number(RemoveAt(Written(n), Len(Written(n)) - 2)) = n
<1>1. PICK ip \in Seq(DigitChars), a \in DigitChars, b \in DigitChars :
              /\ Canonical(ip) /\ Written(n) = Whole(ip, a, b)
              /\ Number(ip) * MinorUnits + Number(<<a, b>>) = n
  BY WrittenFacts
<1> DEFINE t == Whole(ip, a, b)
<1>2. Number(RemoveAt(t, Len(t) - 2)) = n
  <2>1. RemoveAt(t, Len(t) - 2) = ip \o <<a, b>>
    BY WholeParts
  <2>2. Number(ip \o <<a, b>>) = n
    BY <1>1, WholeNumber
  <2> HIDE DEF t
  <2> QED BY <2>1, <2>2
<1>3. t \in Seq(Symbols) /\ Len(t) >= 4 /\ t[1] \in DigitChars /\ TrimSpace(t) = t
  BY <1>1, WholeTrimmed
<1>4. WellFormed(t)
  BY <1>1, WholeWellFormed
<1>5. Written(n) = t
  BY <1>1
<1> HIDE DEF t
<1> QED BY <1>2, <1>3, <1>4, <1>5

\* Every accepted text is the one of the number it denotes, and is refused only
\* when that number is beyond the type.
LEMMA ParseExact ==
    ASSUME NEW raw, TrimSpace(raw) \in Seq(Symbols), WellFormed(TrimSpace(raw))
    PROVE  /\ Meaning(raw) \in Nat /\ Written(Meaning(raw)) = TrimSpace(raw)
           /\ ParseExternalAmount(raw) =
                IF Meaning(raw) \in Int64 THEN Ok(Meaning(raw)) ELSE Failure("OVERFLOW")
<1> DEFINE s == TrimSpace(raw)
<1>1. PICK ip \in Seq(DigitChars), a \in DigitChars, b \in DigitChars :
              Canonical(ip) /\ s = Whole(ip, a, b)
  BY WellFormedWhole
<1> DEFINE p == Number(ip)
           f == Number(<<a, b>>)
<1>2. p \in Nat /\ f \in 0..MinorUnits - 1
  BY NumberFacts, TwoDigits
<1>3. /\ SubSeq(s, 1, Len(s) - 3) = ip
      /\ SubSeq(s, Len(s) - 1, Len(s)) = <<a, b>>
      /\ RemoveAt(s, Len(s) - 2) = ip \o <<a, b>>
  <2> DEFINE t == Whole(ip, a, b)
  <2>1. /\ SubSeq(t, 1, Len(t) - 3) = ip
        /\ SubSeq(t, Len(t) - 1, Len(t)) = <<a, b>>
        /\ RemoveAt(t, Len(t) - 2) = ip \o <<a, b>>
    BY WholeParts
  <2>2. s = t
    BY <1>1
  <2> HIDE DEF s, t
  <2> QED BY <2>1, <2>2
<1>4. Meaning(raw) = p * MinorUnits + f
  BY <1>3, WholeNumber DEF Meaning
<1>5. p * MinorUnits + f \in Nat /\ Written(p * MinorUnits + f) = s
  BY <1>1, WrittenAgain
<1>6. ParseExternalAmount(raw) = Minor(p, f)
  BY <1>3 DEF ParseExternalAmount
<1> HIDE DEF p, f
<1>7. Minor(p, f) = IF p * MinorUnits + f \in Int64
                    THEN Ok(p * MinorUnits + f) ELSE Failure("OVERFLOW")
  BY <1>2, MinorExact
<1> QED BY <1>4, <1>5, <1>6, <1>7

\* The text of an amount: its size, behind a sign if it is negative.
LEMMA AmountText ==
    ASSUME NEW n \in Int64
    PROVE  /\ n >= 0 => n \in Nat /\ AmountString(n) = Written(n)
           /\ n < 0 => -n \in Nat /\ AmountString(n) = <<"-">> \o Written(-n)
<1> DEFINE u == Magnitude(n)
           ip == Numeral[u \div MinorUnits]
           fp == Fraction(u % MinorUnits)
<1>1. n \in Int /\ MinInt <= n /\ n <= MaxInt /\ MaxInt \in Nat /\ MinInt = -MaxInt - 1
  BY Bounds
<1>2. u = IF n < 0 THEN -n ELSE n
  <2>1. CASE n = MinInt
    BY <1>1, <2>1 DEF Magnitude, Span
  <2>2. CASE n < 0 /\ n # MinInt
    <3>1. -n \in Int64
      BY <1>1, <2>2, Bounds
    <3> QED BY <2>2, <3>1, WrapExact DEF Magnitude
  <2>3. CASE n >= 0
    BY <1>1, <2>3 DEF Magnitude
  <2> QED BY <1>1, <2>1, <2>2, <2>3
<1>3. u \in Nat
  <2> HIDE DEF u
  <2> QED BY <1>1, <1>2
<1>4. /\ ip \in Seq(Symbols) /\ fp \in Seq(Symbols)
      /\ <<".">> \in Seq(Symbols) /\ <<"-">> \in Seq(Symbols)
  <2>1. PICK q \in Nat, r \in 0..MinorUnits - 1 : u \div MinorUnits = q /\ u % MinorUnits = r
    <3> HIDE DEF u
    <3> QED BY <1>3, UnitsFacts, Division
  <2>2. Numeral[q] \in Seq(DigitChars)
    BY NumeralFacts DEF Canonical
  <2>3. Fraction(r) \in Seq(DigitChars)
    <3>1. PICK a \in DigitChars, b \in DigitChars : Fraction(r) = <<a, b>>
      BY FractionFacts
    <3> QED BY <3>1, Couple
  <2> QED BY <2>1, <2>2, <2>3, SymbolFacts, SeqMonotonic, Couple
<1>5. Written(u) = (ip \o <<".">>) \o fp
  BY DEF Written
<1>6. CASE n >= 0
  <2>1. AmountString(n) = ((<<>> \o ip) \o <<".">>) \o fp
    <3>1. ~ n < 0
      BY <1>1, <1>6
    <3> QED BY <3>1, Zenon DEF AmountString
  <2>2. <<>> \o ip = ip
    <3> HIDE DEF ip
    <3> QED BY <1>4, ConcatEmptySeq
  <2>3. AmountString(n) = Written(u)
    BY <1>5, <2>1, <2>2
  <2> QED BY <1>1, <1>2, <1>6, <2>3
<1>7. CASE n < 0
  <2>1. AmountString(n) = ((<<"-">> \o ip) \o <<".">>) \o fp
    BY <1>7 DEF AmountString
  <2> HIDE DEF ip, fp
  <2>2. (<<"-">> \o ip) \o <<".">> = <<"-">> \o (ip \o <<".">>)
    BY <1>4, ConcatAssociative
  <2>3. ip \o <<".">> \in Seq(Symbols)
    BY <1>4, ConcatProperties
  <2>4. (<<"-">> \o (ip \o <<".">>)) \o fp = <<"-">> \o ((ip \o <<".">>) \o fp)
    BY <1>4, <2>3, ConcatAssociative
  <2>5. AmountString(n) = <<"-">> \o Written(u)
    BY <1>5, <2>1, <2>2, <2>4
  <2> QED BY <1>1, <1>2, <1>7, <2>5
<1> QED BY <1>1, <1>6, <1>7

\* A sign makes a text that is not accepted.
LEMMA SignRefused ==
    ASSUME NEW n \in Nat
    PROVE  LET s == <<"-">> \o Written(n)
           IN s[1] = "-" /\ ParseExternalAmount(s) = Failure("INVALID_AMOUNT")
<1> DEFINE w == Written(n)
           s == <<"-">> \o w
           k == Len(w)
<1>1. PICK ip \in Seq(DigitChars), a \in DigitChars, b \in DigitChars :
              Canonical(ip) /\ w = Whole(ip, a, b)
  BY WrittenFacts
<1>2. w \in Seq(Symbols) /\ k \in Nat /\ k >= 4 /\ w[k] \in DigitChars
  <2>1. Len(ip) \in Nat /\ Len(w) = Len(ip) + 3 /\ w[Len(ip) + 3] = b
    BY <1>1, WholeFacts
  <2>2. w \in Seq(Symbols) /\ Len(w) >= 4
    BY <1>1, WholeTrimmed
  <2> QED BY <2>1, <2>2, LenProperties
<1> HIDE DEF w
<1>3. <<"-">> \in Seq(Symbols) /\ Len(<<"-">>) = 1 /\ <<"-">>[1] = "-"
  BY SymbolFacts, Couple
<1>4. /\ s \in Seq(Symbols) /\ Len(s) = 1 + k
      /\ \A i \in 1..1 + k : s[i] = IF i <= 1 THEN <<"-">>[i] ELSE w[i - 1]
  BY <1>2, <1>3, ConcatProperties
<1> HIDE DEF s, k
<1>5. s[1] = "-" /\ s[Len(s)] = w[k] /\ Len(s) >= 5
  <2>1. 1 \in 1..1 + k /\ 1 + k \in 1..1 + k /\ ~ 1 + k <= 1 /\ (1 + k) - 1 = k /\ 1 + k >= 5
    BY <1>2
  <2> QED BY <1>3, <1>4, <2>1
<1>6. TrimSpace(s) = s
  <2>1. s[1] # " " /\ s[Len(s)] # " "
    BY <1>2, <1>5, DigitFacts
  <2>2. Len(s) >= 1
    BY <1>2, <1>4
  <2> QED BY <1>4, <2>1, <2>2, TrimIdentity
<1>7. ~ WellFormed(s)
  <2>1. 1 \in DOMAIN s /\ 1 # Len(s) - 2
    <3>1. 1 \in 1..1 + k /\ 1 # (1 + k) - 2
      BY <1>2
    <3> QED BY <1>4, <3>1, LenProperties
  <2>2. s[1] \notin DigitChars
    BY <1>5, DigitFacts
  <2> QED BY <2>1, <2>2 DEF WellFormed
<1> QED BY <1>5, <1>6, <1>7 DEF ParseExternalAmount, s, w

\* What is written is read again, unless it is negative,
LEMMA ReadBack ==
    ASSUME NEW n \in Int64
    PROVE  ParseExternalAmount(AmountString(n)) =
              IF n >= 0 THEN Ok(n) ELSE Failure("INVALID_AMOUNT")
<1>1. n \in Int
  BY Bounds
<1>2. CASE n >= 0
  <2>1. n \in Nat /\ AmountString(n) = Written(n)
    BY <1>2, AmountText
  <2> DEFINE w == Written(n)
  <2>2. /\ TrimSpace(w) = w /\ w \in Seq(Symbols) /\ WellFormed(w)
        /\ Number(RemoveAt(w, Len(w) - 2)) = n
    BY <2>1, WrittenParsed
  <2>3. Meaning(w) = n
    BY <2>2 DEF Meaning
  <2>4. ParseExternalAmount(w) = Ok(n)
    BY <2>2, <2>3, ParseExact
  <2> QED BY <1>2, <2>1, <2>4
<1>3. CASE n < 0
  <2>1. -n \in Nat /\ AmountString(n) = <<"-">> \o Written(-n)
    BY <1>3, AmountText
  <2>2. ParseExternalAmount(AmountString(n)) = Failure("INVALID_AMOUNT")
    BY <2>1, SignRefused
  <2> QED BY <1>1, <1>3, <2>2
<1> QED BY <1>1, <1>2, <1>3

\* and no two amounts are written alike.
LEMMA TextsDiffer ==
    ASSUME NEW m \in Int64, NEW n \in Int64, AmountString(m) = AmountString(n)
    PROVE  m = n
<1>1. m \in Int /\ n \in Int
  BY Bounds
<1>2. \A k \in Nat : Number(RemoveAt(Written(k), Len(Written(k)) - 2)) = k
  BY WrittenParsed
<1>3. CASE m >= 0 /\ n >= 0
  <2>1. m \in Nat /\ n \in Nat /\ Written(m) = Written(n)
    BY <1>3, AmountText
  <2> QED BY <1>2, <2>1
<1>4. CASE m < 0 /\ n < 0
  <2> DEFINE p == -m
             q == -n
  <2>1. p \in Nat /\ AmountString(m) = <<"-">> \o Written(p)
    BY <1>4, AmountText
  <2>2. q \in Nat /\ AmountString(n) = <<"-">> \o Written(q)
    BY <1>4, AmountText
  <2>3. p = q => m = n
    BY <1>1
  <2> HIDE DEF p, q
  <2>4. Written(p) \in Seq(Symbols) /\ Written(q) \in Seq(Symbols) /\ <<"-">> \in Seq(Symbols)
    BY <2>1, <2>2, WrittenParsed, SymbolFacts, Couple
  <2>5. <<"-">> \o Written(p) = <<"-">> \o Written(q)
    BY <2>1, <2>2
  <2>6. Written(p) = Written(q)
    BY <2>4, <2>5, ConcatSimplifications
  <2>7. p = q
    BY <1>2, <2>1, <2>2, <2>6
  <2> QED BY <2>3, <2>7
<1>5. \A k \in Int64 : k >= 0 => AmountString(k)[1] \in DigitChars
  BY AmountText, WrittenParsed
<1>6. \A k \in Int64 : k < 0 => AmountString(k)[1] = "-"
  BY AmountText, SignRefused
<1>7. (m < 0 /\ n >= 0) => FALSE
  BY <1>5, <1>6, DigitFacts
<1>8. (m >= 0 /\ n < 0) => FALSE
  BY <1>5, <1>6, DigitFacts
<1> QED BY <1>1, <1>3, <1>4, <1>7, <1>8

-----------------------------------------------------------------------------
(* The calls.                                                              *)

Code(c) == c \in Seq(STRING) /\ Len(c) = 3 /\ ToSet(c) \subseteq Capitals

\* A currency is trimmed, and then nothing is left to trim.
LEMMA CodeParsed ==
    ASSUME NEW c, Code(c)
    PROVE  ParseCurrency(c) = Ok(c)
<1>1. c \in Seq(STRING) /\ Len(c) = 3 /\ DOMAIN c = 1..3
  BY LenProperties DEF Code
<1>2. \A i \in 1..3 : c[i] \in Capitals
  BY <1>1 DEF Code, ToSet
<1>3. c[1] # " " /\ c[Len(c)] # " "
  <2>1. " " \notin Capitals
    BY MoneyAssumption
  <2>2. c[1] \in Capitals /\ c[3] \in Capitals
    BY <1>2
  <2> QED BY <1>1, <2>1, <2>2
<1>4. TrimSpace(c) = c
  <2>1. Len(c) >= 1
    BY <1>1
  <2> QED BY <1>1, <1>3, <2>1, TrimIdentity
<1> QED BY <1>4 DEF Code, ParseCurrency

LEMMA CurrencyParsed ==
    ASSUME NEW raw \in Seq(STRING)
    PROVE  \/ ParseCurrency(raw) = Failure("INVALID_CURRENCY")
           \/ \E c : Code(c) /\ ParseCurrency(raw) = Ok(c)
<1>1. TrimSpace(raw) \in Seq(STRING)
  BY TrimType
<1> QED BY <1>1 DEF ParseCurrency, Code

\* What a call may return when x is its exact result.
Faithful(result, x) ==
    \/ \E c : x \in Int64 /\ Code(c) /\ result = Ok([minor |-> x, currency |-> c])
    \/ \E k : result = Failure(k) /\ (k = "OVERFLOW" => x \notin Int64)

Sound ==
    phase = "value" =>
        /\ money = [minor |-> money.minor, currency |-> money.currency]
        /\ money.minor \in Int64 /\ Code(money.currency)

Reproduced ==
    phase = "value" /\ input # NoInput => AmountString(money.minor) = TrimSpace(input.amount)

\* The inductive invariant.
MoneyInv ==
    /\ input \in Inputs \cup {NoInput}
    /\ phase = "start" => code = ""
    /\ Sound
    /\ Exact
    /\ Reproduced

LEMMA FaithfulReturn ==
    ASSUME NEW result, NEW x, Return(result, x), Faithful(result, x)
    PROVE  /\ phase' # "start" /\ Sound' /\ Exact'
           /\ phase' = "value" => result.ok /\ money'.minor = x
<1>1. wanted' = x
  BY DEF Return
<1>2. CASE \E c : x \in Int64 /\ Code(c) /\ result = Ok([minor |-> x, currency |-> c])
  <2>1. PICK c : x \in Int64 /\ Code(c) /\ result = Ok([minor |-> x, currency |-> c])
    BY <1>2
  <2> DEFINE m == [minor |-> x, currency |-> c]
  <2>2. result.ok /\ result.value = m
    BY <2>1 DEF Ok
  <2>3. phase' = "value" /\ money' = m /\ code' = ""
    BY <2>2 DEF Return
  <2>4. m.minor = x /\ m.currency = c /\ m = [minor |-> m.minor, currency |-> m.currency]
    OBVIOUS
  <2> HIDE DEF m
  <2>5. Sound'
    BY <2>1, <2>3, <2>4 DEF Sound
  <2>6. Exact'
    BY <1>1, <2>3, <2>4 DEF Exact
  <2> QED BY <2>2, <2>3, <2>4, <2>5, <2>6
<1>3. CASE \E k : result = Failure(k) /\ (k = "OVERFLOW" => x \notin Int64)
  <2>1. PICK k : result = Failure(k) /\ (k = "OVERFLOW" => x \notin Int64)
    BY <1>3
  <2>2. ~ result.ok /\ result.code = k
    BY <2>1 DEF Failure
  <2>3. phase' = "refused" /\ code' = k
    BY <2>2 DEF Return
  <2>4. Sound'
    BY <2>3 DEF Sound
  <2>5. Exact'
    BY <1>1, <2>1, <2>3 DEF Exact
  <2> QED BY <2>3, <2>4, <2>5
<1> QED BY <1>2, <1>3 DEF Faithful

LEMMA MoneyOfFaithful ==
    ASSUME NEW raw \in Seq(STRING), NEW x, NEW minor,
           \/ x \in Int64 /\ minor = Ok(x)
           \/ \E k : minor = Failure(k) /\ (k = "OVERFLOW" => x \notin Int64)
    PROVE  /\ Faithful(MoneyOf(raw, minor), x)
           /\ MoneyOf(raw, minor).ok => minor.ok
<1>1. CASE ParseCurrency(raw) = Failure("INVALID_CURRENCY")
  <2> DEFINE f == Failure("INVALID_CURRENCY")
  <2>1. ~ f.ok
    BY DEF Failure
  <2>2. MoneyOf(raw, minor) = f
    BY <1>1, <2>1 DEF MoneyOf
  <2> QED BY <2>1, <2>2 DEF Faithful
<1>2. ASSUME NEW c, Code(c), ParseCurrency(raw) = Ok(c)
      PROVE  /\ Faithful(MoneyOf(raw, minor), x)
             /\ MoneyOf(raw, minor).ok => minor.ok
  <2>1. Ok(c).ok /\ Ok(c).value = c
    BY DEF Ok
  <2>2. CASE x \in Int64 /\ minor = Ok(x)
    <3>1. minor.ok /\ minor.value = x
      BY <2>2 DEF Ok
    <3>2. MoneyOf(raw, minor) = Ok([minor |-> x, currency |-> c])
      BY <1>2, <2>1, <3>1 DEF MoneyOf
    <3> QED BY <1>2, <2>2, <3>1, <3>2 DEF Faithful
  <2>3. CASE \E k : minor = Failure(k) /\ (k = "OVERFLOW" => x \notin Int64)
    <3>1. PICK k : minor = Failure(k) /\ (k = "OVERFLOW" => x \notin Int64)
      BY <2>3
    <3>2. ~ minor.ok
      BY <3>1 DEF Failure
    <3>3. MoneyOf(raw, minor) = minor
      BY <1>2, <2>1, <3>2 DEF MoneyOf
    <3> QED BY <3>1, <3>2, <3>3 DEF Faithful
  <2> QED BY <2>2, <2>3
<1> QED BY <1>1, <1>2, CurrencyParsed

LEMMA CombineFaithful ==
    ASSUME NEW m, Code(m.currency), NEW c, NEW x
    PROVE  Faithful(Combine(m, c, IF x \in Int64 THEN Ok(x) ELSE Failure("OVERFLOW")), x)
<1>1. CASE m.currency # c
  <2>1. Combine(m, c, IF x \in Int64 THEN Ok(x) ELSE Failure("OVERFLOW"))
        = Failure("INCOMPATIBLE_CURRENCY")
    BY <1>1 DEF Combine
  <2> QED BY <2>1 DEF Faithful
<1>2. CASE m.currency = c /\ x \in Int64
  <2>1. Ok(x).ok /\ Ok(x).value = x
    BY DEF Ok
  <2>2. Combine(m, c, IF x \in Int64 THEN Ok(x) ELSE Failure("OVERFLOW"))
        = Ok([minor |-> x, currency |-> m.currency])
    BY <1>2, <2>1 DEF Combine
  <2> QED BY <1>2, <2>2 DEF Faithful
<1>3. CASE m.currency = c /\ x \notin Int64
  <2>1. ~ Failure("OVERFLOW").ok
    BY DEF Failure
  <2>2. Combine(m, c, IF x \in Int64 THEN Ok(x) ELSE Failure("OVERFLOW")) = Failure("OVERFLOW")
    BY <1>3, <2>1 DEF Combine
  <2> QED BY <1>3, <2>2 DEF Faithful
<1> QED BY <1>1, <1>2, <1>3

LEMMA UnmarshalFaithful ==
    ASSUME NEW i \in Inputs
    PROVE  /\ Faithful(UnmarshalJSON(i), Meaning(i.amount))
           /\ UnmarshalJSON(i).ok =>
                 /\ WellFormed(TrimSpace(i.amount)) /\ Meaning(i.amount) \in Nat
                 /\ Written(Meaning(i.amount)) = TrimSpace(i.amount)
<1>1. i.amount \in Seq(STRING) /\ i.currency \in Seq(STRING)
  BY MoneyAssumption
<1>2. TrimSpace(i.amount) \in Seq(Symbols)
  BY <1>1, TrimType, SymbolFacts
<1>3. CASE i.form # "string"
  <2>1. UnmarshalJSON(i) \in {Failure("INVALID_AMOUNT"), Failure("JSON_AMOUNT_NOT_STRING")}
    BY <1>3 DEF UnmarshalJSON
  <2>2. ~ Failure("INVALID_AMOUNT").ok /\ ~ Failure("JSON_AMOUNT_NOT_STRING").ok
    BY DEF Failure
  <2> QED BY <2>1, <2>2 DEF Faithful
<1>4. CASE i.form = "string"
  <2> DEFINE p == ParseExternalAmount(i.amount)
             x == Meaning(i.amount)
  <2>1. UnmarshalJSON(i) = MoneyOf(i.currency, p)
    BY <1>4 DEF UnmarshalJSON
  <2>2. CASE ~ WellFormed(TrimSpace(i.amount))
    <3>1. p = Failure("INVALID_AMOUNT")
      BY <2>2 DEF ParseExternalAmount
    <3>2. ~ p.ok
      BY <3>1 DEF Failure
    <3> HIDE DEF p, x
    <3>3. Faithful(MoneyOf(i.currency, p), x) /\ (MoneyOf(i.currency, p).ok => p.ok)
      BY <1>1, <3>1, MoneyOfFaithful
    <3> QED BY <2>1, <3>2, <3>3 DEF x
  <2>3. CASE WellFormed(TrimSpace(i.amount))
    <3>1. /\ x \in Nat /\ Written(x) = TrimSpace(i.amount)
          /\ p = IF x \in Int64 THEN Ok(x) ELSE Failure("OVERFLOW")
      BY <1>2, <2>3, ParseExact
    <3> HIDE DEF p, x
    <3>2. Faithful(MoneyOf(i.currency, p), x)
      BY <1>1, <3>1, MoneyOfFaithful
    <3> QED BY <2>1, <2>3, <3>1, <3>2 DEF x
  <2> QED BY <2>2, <2>3
<1> QED BY <1>3, <1>4

LEMMA MoneyInit == Init => MoneyInv
BY DEF Init, MoneyInv, Sound, Exact, Reproduced

LEMMA MoneyNext ==
    ASSUME MoneyInv, [Next]_vars
    PROVE  MoneyInv'
<1>1. CASE Unmarshal
  <2>1. input \in Inputs /\ input' = input
    BY <1>1 DEF Unmarshal, MoneyInv
  <2> DEFINE x == Meaning(input.amount)
             result == UnmarshalJSON(input)
  <2>2. Return(result, x)
    BY <1>1 DEF Unmarshal
  <2>3. /\ Faithful(result, x)
        /\ result.ok => x \in Nat /\ Written(x) = TrimSpace(input.amount)
    BY <2>1, UnmarshalFaithful
  <2> HIDE DEF result, x
  <2>4. /\ phase' # "start" /\ Sound' /\ Exact'
        /\ phase' = "value" => result.ok /\ money'.minor = x
    BY <2>2, <2>3, FaithfulReturn
  <2>5. ASSUME phase' = "value"
        PROVE  AmountString(money'.minor) = TrimSpace(input.amount)
    <3>1. x \in Nat /\ Written(x) = TrimSpace(input.amount) /\ money'.minor = x
      BY <2>3, <2>4, <2>5
    <3>2. x \in Int64 /\ x >= 0
      BY <2>4, <2>5, <3>1 DEF Sound
    <3>3. AmountString(x) = Written(x)
      BY <3>2, AmountText
    <3> QED BY <3>1, <3>3
  <2>6. Reproduced'
    BY <2>1, <2>5 DEF Reproduced
  <2> QED BY <2>1, <2>4, <2>6 DEF MoneyInv
<1>2. ASSUME NEW n \in Int64, NEW c \in Codes, MoneyFromMinor(n, c)
      PROVE  MoneyInv'
  <2>1. input = NoInput /\ input' = input /\ Return(MoneyOf(c, Ok(n)), n)
    BY <1>2 DEF MoneyFromMinor
  <2>2. c \in Seq(STRING)
    BY MoneyAssumption
  <2>3. Faithful(MoneyOf(c, Ok(n)), n)
    BY <2>2, MoneyOfFaithful
  <2>4. phase' # "start" /\ Sound' /\ Exact'
    BY <2>1, <2>3, FaithfulReturn
  <2>5. Reproduced'
    BY <2>1 DEF Reproduced
  <2> QED BY <2>1, <2>4, <2>5 DEF MoneyInv
<1>3. ASSUME NEW c, NEW x, phase = "value", input' = NoInput,
             Return(Combine(money, c, IF x \in Int64 THEN Ok(x) ELSE Failure("OVERFLOW")), x)
      PROVE  MoneyInv'
  <2>1. Code(money.currency)
    BY <1>3 DEF MoneyInv, Sound
  <2>2. phase' # "start" /\ Sound' /\ Exact'
    BY <1>3, <2>1, CombineFaithful, FaithfulReturn
  <2>3. Reproduced'
    BY <1>3 DEF Reproduced
  <2> QED BY <1>3, <2>2, <2>3 DEF MoneyInv
<1>4. ASSUME NEW n \in Int64, NEW c, Add(n, c)
      PROVE  MoneyInv'
  <2>1. money.minor \in Int64 /\ phase = "value" /\ input' = NoInput
    BY <1>4 DEF Add, MoneyInv, Sound
  <2> QED BY <1>3, <1>4, <2>1, AddExact DEF Add
<1>5. ASSUME NEW n \in Int64, NEW c, Sub(n, c)
      PROVE  MoneyInv'
  <2>1. money.minor \in Int64 /\ phase = "value" /\ input' = NoInput
    BY <1>5 DEF Sub, MoneyInv, Sound
  <2> QED BY <1>3, <1>5, <2>1, SubExact DEF Sub
<1>6. CASE Negate
  <2>1. money.minor \in Int64 /\ phase = "value" /\ input' = NoInput
    BY <1>6 DEF Negate, MoneyInv, Sound
  <2> QED BY <1>3, <1>6, <2>1, NegateExact DEF Negate
<1>7. CASE UNCHANGED vars
  BY <1>7 DEF vars, MoneyInv, Sound, Exact, Reproduced
<1> QED BY <1>1, <1>2, <1>4, <1>5, <1>6, <1>7 DEF Next

LEMMA MoneyInvariant == Spec => []MoneyInv
<1>1. Init => MoneyInv
  BY MoneyInit
<1>2. MoneyInv /\ [Next]_vars => MoneyInv'
  BY MoneyNext
<1> QED BY <1>1, <1>2, PTL DEF Spec

(* No value is ever wrapped around, and none is refused for its size that  *)
(* the type could hold.                                                    *)
THEOREM AlwaysExact == Spec => []Exact
<1>1. MoneyInv => Exact
  BY DEF MoneyInv
<1> QED BY <1>1, MoneyInvariant, PTL

LEMMA OneTextOf ==
    ASSUME MoneyInv
    PROVE  OneText
<1>1. phase = "value" /\ input # NoInput => AmountString(money.minor) = TrimSpace(input.amount)
  BY DEF MoneyInv, Reproduced
<1>2. ASSUME phase = "value"
      PROVE  /\ Len(money.currency) = 3 /\ ToSet(money.currency) \subseteq Capitals
             /\ UnmarshalJSON(MarshalJSON(money)) =
                  IF money.minor >= 0 THEN Ok(money) ELSE Failure("INVALID_AMOUNT")
             /\ \A n \in Int64 : AmountString(n) = AmountString(money.minor) => n = money.minor
  <2> DEFINE n == money.minor
             c == money.currency
             p == ParseExternalAmount(AmountString(n))
  <2>1. n \in Int64 /\ Code(c) /\ money = [minor |-> n, currency |-> c]
    BY <1>2 DEF MoneyInv, Sound
  <2>2. Len(c) = 3 /\ ToSet(c) \subseteq Capitals
    BY <2>1 DEF Code
  <2>3. \A m \in Int64 : AmountString(m) = AmountString(n) => m = n
    BY <2>1, TextsDiffer
  <2>4. UnmarshalJSON(MarshalJSON(money)) = MoneyOf(c, p)
    BY DEF UnmarshalJSON, MarshalJSON
  <2>5. ParseCurrency(c) = Ok(c) /\ Ok(c).ok /\ Ok(c).value = c
    BY <2>1, CodeParsed DEF Ok
  <2>6. p = IF n >= 0 THEN Ok(n) ELSE Failure("INVALID_AMOUNT")
    BY <2>1, ReadBack
  <2> HIDE DEF n, c, p
  <2>7. MoneyOf(c, p) = IF n >= 0 THEN Ok(money) ELSE Failure("INVALID_AMOUNT")
    <3>1. CASE n >= 0
      <4>1. p.ok /\ p.value = n
        BY <2>6, <3>1 DEF Ok
      <4>2. MoneyOf(c, p) = Ok([minor |-> n, currency |-> c])
        BY <2>5, <4>1 DEF MoneyOf
      <4> QED BY <2>1, <3>1, <4>2
    <3>2. CASE ~ n >= 0
      <4>1. p = Failure("INVALID_AMOUNT") /\ ~ p.ok
        BY <2>6, <3>2 DEF Failure
      <4>2. MoneyOf(c, p) = p
        BY <2>5, <4>1 DEF MoneyOf
      <4> QED BY <3>2, <4>1, <4>2
    <3> QED BY <3>1, <3>2
  <2> QED BY <2>2, <2>3, <2>4, <2>7 DEF n, c
<1> QED BY <1>1, <1>2 DEF OneText

(* An amount has one text: what is accepted comes out again, what is       *)
(* written can be read unless it is negative, and no two amounts are       *)
(* written alike.                                                          *)
THEOREM AlwaysOneText == Spec => []OneText
<1>1. MoneyInv => OneText
  BY OneTextOf
<1> QED BY <1>1, MoneyInvariant, PTL
=============================================================================
