---------------------------- MODULE Arith_proofs ----------------------------
(***************************************************************************)
(* Laws of the integer opcodes, for words of any width.  An opcode has a   *)
(* set of results; a law says of whatever results its steps may have that  *)
(* the two sides agree.                                                    *)
(***************************************************************************)
EXTENDS Arith, WellOrdering, TLAPS

Word == 2 * HalfWord

-----------------------------------------------------------------------------
(* Division                                                                *)

Remainder(l, r) == l - r * Quotient(l, r)

LEMMA Divided ==
  ASSUME NEW n \in Nat, NEW d \in Nat \ {0}
  PROVE  /\ n \div d \in Nat /\ n % d \in 0 .. d - 1 /\ n \div d <= n
         /\ d * (n \div d) \in Nat /\ n = d * (n \div d) + (n % d)
<1> DEFINE q == n \div d
           s == n % d
<1>1. q \in Int /\ s \in 0 .. d - 1 /\ n = d * q + s
  <2>1. q \in Int /\ s \in 0 .. d - 1
    OBVIOUS
  <2>2. n = d * q + s
    OBVIOUS
  <2> QED BY <2>1, <2>2
<1> HIDE DEF q, s
<1>2. q >= 0
  <2>1. CASE q <= -1
    <3>1. d * q <= -d
      BY <1>1, <2>1
    <3> QED BY <1>1, <3>1
  <2> QED BY <1>1, <2>1
<1>3. d * q >= q /\ d * q \in Nat
  BY <1>1, <1>2
<1>4. q <= n
  BY <1>1, <1>3
<1> QED BY <1>1, <1>2, <1>3, <1>4 DEF q, s

\* C truncates: the remainder has the sign of the dividend, and is smaller than
\* both it and the divisor.
LEMMA Truncates ==
  ASSUME NEW l \in Int, NEW r \in Int \ {0}
  PROVE  /\ Quotient(l, r) \in Int /\ Remainder(l, r) \in Int
         /\ r * Quotient(l, r) \in Int /\ l = r * Quotient(l, r) + Remainder(l, r)
         /\ l >= 0 => Remainder(l, r) \in 0 .. l
         /\ l < 0 => Remainder(l, r) \in l .. 0
         /\ Abs(Remainder(l, r)) < Abs(r)
         /\ Abs(Quotient(l, r)) <= Abs(l)
<1> DEFINE a == Abs(l)
           b == Abs(r)
           q == a \div b
           s == a % b
<1>1. /\ a \in Nat /\ b \in Nat \ {0}
      /\ l >= 0 => l = a
      /\ l < 0 => l = -a
      /\ r > 0 => r = b
      /\ r < 0 => r = -b
  BY DEF Abs
<1>2. Quotient(l, r) = IF (l < 0) = (r < 0) THEN q ELSE -q
  BY DEF Quotient
<1> HIDE DEF a, b
<1>3. q \in Nat /\ s \in 0 .. b - 1 /\ q <= a /\ b * q \in Nat /\ a = b * q + s
  BY <1>1, Divided
<1> HIDE DEF q, s
<1>4. (-b) * (-q) = b * q /\ (-b) * q = -(b * q) /\ b * (-q) = -(b * q)
  BY <1>1, <1>3
<1>5. r * Quotient(l, r) = IF l < 0 THEN -(b * q) ELSE b * q
  <2>1. CASE l < 0 /\ r < 0   BY <2>1, <1>1, <1>2, <1>3, <1>4
  <2>2. CASE l < 0 /\ r > 0   BY <2>2, <1>1, <1>2, <1>3, <1>4
  <2>3. CASE l >= 0 /\ r < 0  BY <2>3, <1>1, <1>2, <1>3, <1>4
  <2>4. CASE l >= 0 /\ r > 0  BY <2>4, <1>1, <1>2, <1>3, <1>4
  <2> QED BY <2>1, <2>2, <2>3, <2>4
<1>6. Remainder(l, r) = IF l < 0 THEN -s ELSE s
  <2> DEFINE m == b * q
             p == r * Quotient(l, r)
  <2> HIDE DEF m, p
  <2>1. p = (IF l < 0 THEN -m ELSE m) /\ m \in Nat /\ a = m + s
    BY <1>3, <1>5 DEF m, p
  <2>2. Remainder(l, r) = l - p
    BY DEF Remainder, p
  <2> QED BY <1>1, <1>3, <2>1, <2>2
<1>7. s <= a
  BY <1>1, <1>3
<1>8. Quotient(l, r) \in Int /\ Remainder(l, r) \in Int /\ r * Quotient(l, r) \in Int
  BY <1>2, <1>3, <1>5, <1>6
<1>9. l = r * Quotient(l, r) + Remainder(l, r)
  BY <1>8 DEF Remainder
<1>10. Abs(Quotient(l, r)) <= Abs(l)
  <2>1. Abs(Quotient(l, r)) = q
    BY <1>2, <1>3 DEF Abs
  <2> QED BY <1>3, <2>1 DEF a
<1>11. Abs(Remainder(l, r)) < Abs(r)
  <2>1. Abs(Remainder(l, r)) = s
    BY <1>3, <1>6 DEF Abs
  <2> QED BY <1>1, <1>3, <2>1 DEF b
<1>12. /\ l >= 0 => Remainder(l, r) \in 0 .. l
       /\ l < 0 => Remainder(l, r) \in l .. 0
  BY <1>1, <1>3, <1>6, <1>7
<1> QED BY <1>8, <1>9, <1>10, <1>11, <1>12

\* A division that C defines has a result that fits.
LEMMA QuotientFits ==
  ASSUME NEW l \in DataOf("I64"), NEW r \in DataOf("I64"), ~DivisionUndefined("DIV", l, r)
  PROVE  /\ r # 0 /\ Quotient(l, r) \in DataOf("I64")
         /\ r * Quotient(l, r) \in DataOf("I64") /\ Remainder(l, r) \in DataOf("I64")
<1>1. HalfWord \in Nat \ {0} /\ l \in -HalfWord .. HalfWord - 1 /\ r \in -HalfWord .. HalfWord - 1
  BY HalfWordAssumption DEF DataOf
<1>2. r # 0 /\ ~(l = -HalfWord /\ r = -1)
  BY DEF DivisionUndefined
<1> DEFINE q == Quotient(l, r)
           m == Remainder(l, r)
           p == r * Quotient(l, r)
<1>3. /\ q \in Int /\ m \in Int /\ p \in Int /\ l = p + m /\ p = r * q
      /\ l >= 0 => m \in 0 .. l
      /\ l < 0 => m \in l .. 0
      /\ Abs(q) <= Abs(l)
  <2>1. l \in Int /\ r \in Int \ {0}
    BY <1>1, <1>2
  <2>2. /\ q \in Int /\ m \in Int /\ p \in Int /\ l = p + m
        /\ l >= 0 => m \in 0 .. l
        /\ l < 0 => m \in l .. 0
        /\ Abs(q) <= Abs(l)
    BY ONLY <2>1, Truncates
  <2> QED BY <2>2
<1> HIDE DEF q, m, p
<1>4. m \in DataOf("I64") /\ p \in DataOf("I64")
  BY <1>1, <1>3 DEF DataOf
<1>5. q \in -HalfWord .. HalfWord - 1
  <2>1. CASE l # -HalfWord
    BY <1>1, <1>3, <2>1 DEF Abs
  <2>2. CASE l = -HalfWord
    <3>1. q <= HalfWord /\ q >= -HalfWord
      BY <1>1, <1>3, <2>2 DEF Abs
    <3>2. q # HalfWord
      <4>1. SUFFICES ASSUME q = HalfWord PROVE FALSE
        OBVIOUS
      <4>2. p >= -HalfWord /\ p <= 0
        BY <1>1, <1>3, <2>2
      <4>3. CASE r >= 1
        <5>1. r * HalfWord >= HalfWord
          BY <1>1, <4>3
        <5> QED BY <1>1, <1>3, <4>1, <4>2, <5>1
      <4>4. CASE r <= -2
        <5>1. r * HalfWord <= -(2 * HalfWord)
          BY <1>1, <4>4
        <5> QED BY <1>1, <1>3, <4>1, <4>2, <5>1
      <4> QED BY <1>1, <1>2, <2>2, <4>3, <4>4
    <3> QED BY <1>1, <1>3, <3>1, <3>2
  <2> QED BY <2>1, <2>2
<1> QED BY <1>2, <1>4, <1>5 DEF q, m, p, DataOf

-----------------------------------------------------------------------------
(* Wrapping                                                                *)

LEMMA OneFactor ==
  ASSUME NEW d \in Nat \ {0}, NEW x \in Int, -d < x * d, x * d < d
  PROVE  x = 0
<1>1. CASE x >= 1 BY <1>1
<1>2. CASE x <= -1 BY <1>2
<1> QED BY <1>1, <1>2

\* Numbers are congruent if they differ by a multiple of the modulus.
LEMMA Congruent ==
  ASSUME NEW d \in Nat \ {0}, NEW x \in Int
  PROVE  x % d = 0 <=> \E k \in Int : x = k * d
<1>1. ASSUME x % d = 0 PROVE \E k \in Int : x = k * d
  <2> DEFINE k == x \div d
  <2>1. k \in Int /\ x = d * k + (x % d)
    OBVIOUS
  <2> HIDE DEF k
  <2>2. x = k * d
    BY <1>1, <2>1
  <2> QED BY <2>1, <2>2
<1>2. ASSUME NEW k \in Int, x = k * d PROVE x % d = 0
  <2> DEFINE q == x \div d
             s == x % d
  <2>1. q \in Int /\ s \in 0 .. d - 1 /\ x = d * q + s
    <3>1. q \in Int /\ s \in 0 .. d - 1
      OBVIOUS
    <3>2. x = d * q + s
      OBVIOUS
    <3> QED BY <3>1, <3>2
  <2> HIDE DEF q, s
  <2>2. (k - q) * d = s /\ k - q \in Int
    BY <1>2, <2>1
  <2>3. k - q = 0
    BY <2>1, <2>2, OneFactor
  <2> QED BY <2>1, <2>2, <2>3 DEF s
<1> QED BY <1>1, <1>2

\* What wraps to the same bits, by its multiple of 2^64.
LEMMA WrappedIs ==
  ASSUME NEW tag \in IntType, NEW n \in Int, NEW m
  PROVE  m \in Wrapped(tag, n) <=>
           m \in DataOf(tag) /\ \E k \in Int : m = n + k * Word
<1>1. Word \in Nat \ {0} /\ DataOf(tag) \subseteq Int
  BY HalfWordAssumption DEF Word, IntType, DataOf
<1>2. ASSUME m \in DataOf(tag)
      PROVE  (m - n) % Word = 0 <=> \E k \in Int : m = n + k * Word
  <2>1. m \in Int /\ m - n \in Int
    BY <1>1, <1>2
  <2>2. (m - n) % Word = 0 <=> \E k \in Int : m - n = k * Word
    BY <1>1, <2>1, Congruent
  <2>3. \A k \in Int : m - n = k * Word <=> m = n + k * Word
    BY <1>1, <2>1
  <2> QED BY <2>2, <2>3
<1> QED BY <1>2 DEF Wrapped, Word

LEMMA WrappedBy ==
  ASSUME NEW tag \in IntType, NEW n \in Int, NEW m \in Wrapped(tag, n)
  PROVE  m \in Int /\ \E k \in Int : m = n + k * Word
<1>1. Word \in Nat /\ DataOf(tag) \subseteq Int
  BY HalfWordAssumption DEF Word, IntType, DataOf
<1>2. m \in DataOf(tag) /\ \E k \in Int : m = n + k * Word
  BY WrappedIs
<1> QED BY <1>1, <1>2

\* Every number has one form in each integer type.
LEMMA WrappedIsOne ==
  ASSUME NEW tag \in IntType, NEW n \in Int
  PROVE  /\ \E m : m \in Wrapped(tag, n)
         /\ \A m1, m2 \in Wrapped(tag, n) : m1 = m2
<1>1. HalfWord \in Nat \ {0} /\ Word \in Nat \ {0} /\ Word = 2 * HalfWord
  BY HalfWordAssumption DEF Word
<1>2. \/ DataOf(tag) = -HalfWord .. HalfWord - 1
      \/ DataOf(tag) = 0 .. Word - 1
  BY DEF IntType, DataOf, Word
<1>3. \E m : m \in Wrapped(tag, n)
  <2> DEFINE s == n % Word
             q == n \div Word
  <2>1. q \in Int /\ s \in 0 .. Word - 1 /\ n = Word * q + s
    <3>1. q \in Int /\ s \in 0 .. Word - 1
      BY <1>1
    <3>2. n = Word * q + s
      BY <1>1
    <3> QED BY <3>1, <3>2
  <2> HIDE DEF s, q
  <2>2. s = n + (-q) * Word /\ s - Word = n + (-q - 1) * Word /\ -q \in Int /\ -q - 1 \in Int
    BY <1>1, <2>1
  <2>3. s \in DataOf(tag) \/ s - Word \in DataOf(tag)
    BY <1>1, <1>2, <2>1
  <2>4. CASE s \in DataOf(tag)
    <3>1. s \in Wrapped(tag, n)
      BY <2>2, <2>4, WrappedIs
    <3> QED BY <3>1
  <2>5. CASE s - Word \in DataOf(tag)
    <3>1. s - Word \in Wrapped(tag, n)
      BY <2>2, <2>5, WrappedIs
    <3> QED BY <3>1
  <2> QED BY <2>3, <2>4, <2>5
<1>4. ASSUME NEW m1 \in Wrapped(tag, n), NEW m2 \in Wrapped(tag, n)
      PROVE  m1 = m2
  <2>1. PICK j \in Int : m1 = n + j * Word
    BY WrappedIs
  <2>2. PICK k \in Int : m2 = n + k * Word
    BY WrappedIs
  <2>3. m1 \in DataOf(tag) /\ m2 \in DataOf(tag)
    BY DEF Wrapped
  <2>4. m1 - m2 = (j - k) * Word /\ j - k \in Int
    BY <1>1, <2>1, <2>2
  <2>5. -Word < m1 - m2 /\ m1 - m2 < Word
    BY <1>1, <1>2, <2>3
  <2>6. j - k = 0
    BY <1>1, <2>4, <2>5, OneFactor
  <2> QED BY <1>1, <2>1, <2>2, <2>6
<1> QED BY <1>3, <1>4

\* What fits wraps to itself, and numbers that differ by a multiple of 2^64 wrap
\* alike.
LEMMA WrapsToItself ==
  ASSUME NEW tag \in IntType, NEW n \in DataOf(tag)
  PROVE  n \in Int /\ Wrapped(tag, n) = {n}
<1>1. n \in Int /\ Word \in Nat
  BY HalfWordAssumption DEF IntType, DataOf, Word
<1>2. n \in Wrapped(tag, n)
  <2>1. n = n + 0 * Word
    BY <1>1
  <2> QED BY <1>1, <2>1, WrappedIs
<1> QED BY <1>1, <1>2, WrappedIsOne

LEMMA WrapsAlike ==
  ASSUME NEW tag \in IntType, NEW n \in Int, NEW k \in Int
  PROVE  n + k * Word \in Int /\ Wrapped(tag, n + k * Word) = Wrapped(tag, n)
<1>1. Word \in Nat
  BY HalfWordAssumption DEF Word
<1> DEFINE n2 == n + k * Word
<1>2. n2 \in Int /\ n = n2 - k * Word
  BY <1>1
<1> HIDE DEF n2
<1>3. ASSUME NEW m \in Wrapped(tag, n) PROVE m \in Wrapped(tag, n2)
  <2>1. PICK j \in Int : m = n + j * Word
    BY WrappedIs
  <2>2. m = n2 + (j - k) * Word /\ j - k \in Int
    BY <1>1, <1>2, <2>1
  <2>3. m \in DataOf(tag)
    BY DEF Wrapped
  <2> QED BY <1>2, <2>2, <2>3, WrappedIs
<1>4. ASSUME NEW m \in Wrapped(tag, n2) PROVE m \in Wrapped(tag, n)
  <2>1. PICK j \in Int : m = n2 + j * Word
    BY <1>2, WrappedIs
  <2>2. m = n + (j + k) * Word /\ j + k \in Int
    BY <1>1, <1>2, <2>1
  <2>3. m \in DataOf(tag)
    BY DEF Wrapped
  <2> QED BY <2>2, <2>3, WrappedIs
<1>5. Wrapped(tag, n2) = Wrapped(tag, n)
  BY <1>3, <1>4
<1> QED BY <1>2, <1>5 DEF n2

LEMMA FitsAsItIs ==
  ASSUME NEW n \in DataOf("I64")
  PROVE  Fitting("I64", n) = {n}
BY DEF Fitting

\* The results of the opcodes that the laws use, where C defines them.
LEMMA ResultsAre ==
  ASSUME NEW l, NEW r
  PROVE  /\ IntegerResults("ADD", "I64", l, r) = Fitting("I64", l + r)
         /\ IntegerResults("SUB", "I64", l, r) = Fitting("I64", l - r)
         /\ IntegerResults("MUL", "I64", l, r) = Fitting("I64", l * r)
         /\ IntegerResults("ADD_U", "U64", l, r) = Wrapped("U64", l + r)
         /\ IntegerResults("SUB_U", "U64", l, r) = Wrapped("U64", l - r)
         /\ ~DivisionUndefined("DIV", l, r) =>
              /\ IntegerResults("DIV", "I64", l, r) = Fitting("I64", Quotient(l, r))
              /\ IntegerResults("MOD", "I64", l, r) = Fitting("I64", l - r * Quotient(l, r))
         /\ UnopResults("NEG", "I64", l) = Fitting("I64", -l)
         /\ UnopResults("NEG_U", "U64", l) = Wrapped("U64", -l)
         /\ CastResults("I64", "U64", l) = Wrapped("U64", l)
         /\ CastResults("U64", "I64", l) = Wrapped("I64", l)
<1>1. /\ IntegerResults("ADD", "I64", l, r) = Fitting("I64", l + r)
      /\ IntegerResults("SUB", "I64", l, r) = Fitting("I64", l - r)
      /\ IntegerResults("MUL", "I64", l, r) = Fitting("I64", l * r)
  BY DEF IntegerResults, DivisionUndefined, ShiftUndefined
<1>2. /\ IntegerResults("ADD_U", "U64", l, r) = Wrapped("U64", l + r)
      /\ IntegerResults("SUB_U", "U64", l, r) = Wrapped("U64", l - r)
  BY DEF IntegerResults, DivisionUndefined, ShiftUndefined, Fitting
<1>3. ASSUME ~DivisionUndefined("DIV", l, r)
      PROVE  /\ IntegerResults("DIV", "I64", l, r) = Fitting("I64", Quotient(l, r))
             /\ IntegerResults("MOD", "I64", l, r) = Fitting("I64", l - r * Quotient(l, r))
  BY <1>3 DEF IntegerResults, DivisionUndefined, ShiftUndefined
<1>4. UnopResults("NEG", "I64", l) = Fitting("I64", -l)
  BY DEF UnopResults
<1>5. UnopResults("NEG_U", "U64", l) = Wrapped("U64", -l)
  BY DEF UnopResults, Fitting
<1>6. /\ CastResults("I64", "U64", l) = Wrapped("U64", l)
      /\ CastResults("U64", "I64", l) = Wrapped("I64", l)
  <2>1. {"I64", "U64"} = IntType /\ {"U64", "I64"} = IntType
    BY DEF IntType
  <2> QED BY <2>1 DEF CastResults
<1> QED BY <1>1, <1>2, <1>3, <1>4, <1>5, <1>6

-----------------------------------------------------------------------------
(* Bits                                                                    *)

LEMMA Doubling ==
  ASSUME NEW n \in Nat
  PROVE  \E f : f = [k \in 0 .. n |-> IF k = 0 THEN 1 ELSE 2 * f[k - 1]]
<1> DEFINE S == {m \in Nat : \E f : f = [k \in 0 .. m |-> IF k = 0 THEN 1 ELSE 2 * f[k - 1]]}
<1>1. 0 \in S
  <2> DEFINE f == [k \in 0 .. 0 |-> 1]
  <2>1. f = [k \in 0 .. 0 |-> IF k = 0 THEN 1 ELSE 2 * f[k - 1]]
    OBVIOUS
  <2> QED BY <2>1
<1>2. ASSUME NEW m \in Nat, m \in S PROVE m + 1 \in S
  <2>1. PICK f : f = [k \in 0 .. m |-> IF k = 0 THEN 1 ELSE 2 * f[k - 1]]
    BY <1>2
  <2> DEFINE g == [k \in 0 .. m + 1 |-> IF k = m + 1 THEN 2 * f[m] ELSE f[k]]
  <2>2. ASSUME NEW k \in 0 .. m + 1 PROVE g[k] = IF k = 0 THEN 1 ELSE 2 * g[k - 1]
    <3>1. CASE k = m + 1
      BY <3>1
    <3>2. CASE k \in 0 .. m
      <4>1. f[k] = IF k = 0 THEN 1 ELSE 2 * f[k - 1]
        BY <2>1, <3>2
      <4>2. g[k] = f[k] /\ (k # 0 => g[k - 1] = f[k - 1])
        BY <3>2
      <4> QED BY <4>1, <4>2
    <3> QED BY <3>1, <3>2
  <2>3. g = [k \in 0 .. m + 1 |-> IF k = 0 THEN 1 ELSE 2 * g[k - 1]]
    BY <2>2
  <2> HIDE DEF g
  <2>4. \E h : h = [k \in 0 .. m + 1 |-> IF k = 0 THEN 1 ELSE 2 * h[k - 1]]
    BY <2>3
  <2>5. m + 1 \in Nat
    OBVIOUS
  <2> QED BY <2>4, <2>5
<1>3. Nat \subseteq S
  <2> HIDE DEF S
  <2> QED BY <1>1, <1>2, Induction
<1> QED BY <1>3

\* The recursive definition has the value that it describes, and a word has a bit.
LEMMA Powers ==
  /\ PowerOf2[0] = 1 /\ Width - 1 \in Nat /\ PowerOf2[Width - 1] = HalfWord
  /\ \A k \in 0 .. Width - 1 : PowerOf2[k] \in Nat \ {0} /\ PowerOf2[k + 1] = 2 * PowerOf2[k]
<1>1. Width \in Nat /\ PowerOf2[Width] = 2 * HalfWord /\ HalfWord \in Nat \ {0}
  BY WidthAssumption, HalfWordAssumption
<1>2. PowerOf2 = [k \in 0 .. Width |-> IF k = 0 THEN 1 ELSE 2 * PowerOf2[k - 1]]
  <2>1. \E f : f = [k \in 0 .. Width |-> IF k = 0 THEN 1 ELSE 2 * f[k - 1]]
    BY <1>1, Doubling
  <2> QED BY <2>1 DEF PowerOf2
<1>3. \A k \in 0 .. Width : PowerOf2[k] = IF k = 0 THEN 1 ELSE 2 * PowerOf2[k - 1]
  BY <1>2
<1>4. PowerOf2[0] = 1 /\ \A k \in 0 .. Width - 1 : PowerOf2[k + 1] = 2 * PowerOf2[k]
  <2>1. 0 \in 0 .. Width
    BY <1>1
  <2>2. \A k \in 0 .. Width - 1 : k + 1 \in 0 .. Width /\ k + 1 # 0 /\ (k + 1) - 1 = k
    BY <1>1
  <2> QED BY <1>3, <2>1, <2>2
<1>5. Width - 1 \in Nat
  BY <1>1, <1>4
<1>6. \A k \in 0 .. Width : PowerOf2[k] \in Nat \ {0}
  <2> DEFINE S == {k \in Nat : k <= Width => PowerOf2[k] \in Nat \ {0}}
  <2>1. 0 \in S
    BY <1>4
  <2>2. ASSUME NEW k \in Nat, k \in S PROVE k + 1 \in S
    BY <1>1, <1>4, <2>2
  <2>3. Nat \subseteq S
    <3> HIDE DEF S
    <3> QED BY <2>1, <2>2, Induction
  <2> QED BY <1>1, <2>3
<1>7. PowerOf2[Width - 1] = HalfWord
  <2>1. Width - 1 \in 0 .. Width - 1 /\ (Width - 1) + 1 = Width /\ Width - 1 \in 0 .. Width
    BY <1>1, <1>5
  <2>2. PowerOf2[Width] = 2 * PowerOf2[Width - 1] /\ PowerOf2[Width - 1] \in Nat
    BY <1>4, <1>6, <2>1
  <2> QED BY <1>1, <2>2
<1>8. \A k \in 0 .. Width - 1 : k \in 0 .. Width
  BY <1>1
<1> QED BY <1>4, <1>5, <1>6, <1>7, <1>8

\* Division is the one way to write a number with a remainder below the divisor.
LEMMA DivIs ==
  ASSUME NEW d \in Nat \ {0}, NEW q \in Int, NEW s \in 0 .. d - 1, NEW n \in Int,
         n = d * q + s
  PROVE  n \div d = q
<1> DEFINE q2 == n \div d
           s2 == n % d
<1>1. q2 \in Int /\ s2 \in 0 .. d - 1
  OBVIOUS
<1>2. n = d * q2 + s2
  OBVIOUS
<1> HIDE DEF q2, s2
<1>3. (q - q2) * d = s2 - s /\ q - q2 \in Int
  BY <1>1, <1>2
<1>4. q - q2 = 0
  BY <1>1, <1>3, OneFactor
<1> QED BY <1>1, <1>4 DEF q2

LEMMA DivRem ==
  ASSUME NEW n \in Int, NEW d \in Nat \ {0}
  PROVE  n \div d \in Int /\ n % d \in 0 .. d - 1 /\ n = d * (n \div d) + (n % d)
<1>1. n \div d \in Int /\ n % d \in 0 .. d - 1
  OBVIOUS
<1>2. n = d * (n \div d) + (n % d)
  OBVIOUS
<1> QED BY <1>1, <1>2

\* The quotients by d and by 2 * d differ by a bit.
LEMMA Halved ==
  ASSUME NEW n \in Int, NEW d \in Nat \ {0}
  PROVE  n \div d = 2 * (n \div (2 * d)) + ((n \div d) % 2)
<1> DEFINE q == n \div d
           s == n % d
           t == q \div 2
           b == q % 2
<1>1. q \in Int /\ s \in 0 .. d - 1 /\ n = d * q + s
  BY DivRem
<1> HIDE DEF q, s
<1>2. t \in Int /\ b \in 0 .. 1 /\ q = 2 * t + b
  BY <1>1
<1> HIDE DEF t, b
<1>3. d * b \in {0, d}
  BY <1>2
<1>4. d * q = (2 * d) * t + d * b
  BY <1>1, <1>2
<1>5. n = (2 * d) * t + (d * b + s) /\ d * b + s \in 0 .. (2 * d) - 1 /\ 2 * d \in Nat \ {0}
  <2>1. (2 * d) * t \in Int
    BY <1>2
  <2> DEFINE m == (2 * d) * t
             p == d * b
             z == d * q
  <2> HIDE DEF m, p, z
  <2>2. n = m + (p + s) /\ p + s \in 0 .. (2 * d) - 1
    <3>1. m \in Int /\ p \in {0, d} /\ z = m + p /\ n = z + s
      BY <1>1, <1>3, <1>4, <2>1 DEF m, p, z
    <3> QED BY <1>1, <3>1
  <2> QED BY <2>2 DEF m, p
<1>6. n \div (2 * d) = t
  <2> DEFINE D == 2 * d
             r == d * b + s
  <2>1. n = D * t + r /\ r \in 0 .. D - 1 /\ D \in Nat \ {0}
    BY <1>5
  <2> HIDE DEF D, r
  <2>2. n \div D = t
    BY <1>2, <2>1, DivIs
  <2> QED BY <2>2 DEF D
<1> QED BY <1>2, <1>6 DEF q, b, t

\* The quotients of a number and of its complement are complements.
LEMMA ComplementDiv ==
  ASSUME NEW n \in Int, NEW d \in Nat \ {0}
  PROVE  (-1 - n) \div d = -1 - (n \div d)
<1> DEFINE q == n \div d
           s == n % d
<1>1. q \in Int /\ s \in 0 .. d - 1 /\ n = d * q + s
  BY DivRem
<1> HIDE DEF q, s
<1>2. d * (-1 - q) = -d - d * q /\ d * q \in Int
  BY <1>1
<1>3. -1 - n = d * (-1 - q) + (d - 1 - s)
  BY <1>1, <1>2
<1>4. d - 1 - s \in 0 .. d - 1 /\ -1 - q \in Int /\ -1 - n \in Int
  BY <1>1
<1> DEFINE q2 == -1 - q
           s2 == d - 1 - s
           n2 == -1 - n
<1> HIDE DEF q2, s2, n2
<1>5. q2 \in Int /\ s2 \in 0 .. d - 1 /\ n2 \in Int /\ n2 = d * q2 + s2
  BY <1>3, <1>4 DEF q2, s2, n2
<1>6. n2 \div d = q2
  BY <1>5, DivIs
<1> QED BY <1>6 DEF q2, n2, q

\* A word from its sign down: each bit doubles what is above it and adds itself.
LEMMA WordBits ==
  ASSUME NEW w \in DataOf("I64")
  PROVE  /\ w \in Int /\ w \div PowerOf2[0] = w
         /\ w \div PowerOf2[Width - 1] = -BitOf(w, Width - 1)
         /\ \A k \in 0 .. Width - 1 : BitOf(w, k) \in {0, 1} /\ w \div PowerOf2[k] \in Int
         /\ \A k \in 0 .. Width - 2 :
              w \div PowerOf2[k] = 2 * (w \div PowerOf2[k + 1]) + BitOf(w, k)
<1>1. w \in -HalfWord .. HalfWord - 1 /\ HalfWord \in Nat \ {0} /\ w \in Int
  BY HalfWordAssumption DEF DataOf
<1>2. w \div PowerOf2[0] = w
  BY <1>1, Powers
<1>3. ASSUME NEW k \in 0 .. Width - 1
      PROVE  BitOf(w, k) \in {0, 1} /\ w \div PowerOf2[k] \in Int
  <2> DEFINE q == w \div PowerOf2[k]
  <2>1. q \in Int
    BY <1>1, Powers, DivRem
  <2> HIDE DEF q
  <2>2. q % 2 \in {0, 1}
    BY <2>1
  <2> QED BY <2>1, <2>2 DEF q, BitOf
<1>4. w \div HalfWord = IF w < 0 THEN -1 ELSE 0
  <2>1. CASE w < 0
    <3>1. w = HalfWord * (-1) + (w + HalfWord) /\ w + HalfWord \in 0 .. HalfWord - 1
      BY <1>1, <2>1
    <3> QED BY <1>1, <2>1, <3>1, DivIs
  <2>2. CASE w >= 0
    <3>1. w = HalfWord * 0 + w /\ w \in 0 .. HalfWord - 1
      BY <1>1, <2>2
    <3> QED BY <1>1, <2>2, <3>1, DivIs
  <2> QED BY <1>1, <2>1, <2>2
<1>5. w \div PowerOf2[Width - 1] = -BitOf(w, Width - 1)
  BY <1>4, Powers DEF BitOf
<1>6. ASSUME NEW k \in 0 .. Width - 2
      PROVE  w \div PowerOf2[k] = 2 * (w \div PowerOf2[k + 1]) + BitOf(w, k)
  <2>1. PowerOf2[k] \in Nat \ {0} /\ PowerOf2[k + 1] = 2 * PowerOf2[k]
    <3>1. k \in 0 .. Width - 1
      BY WidthAssumption
    <3> QED BY <3>1, Powers
  <2> QED BY <1>1, <2>1, Halved DEF BitOf
<1> QED BY <1>1, <1>2, <1>3, <1>5, <1>6

\* Words that differ bit for bit by the bits of a third differ by the third.
LEMMA BitsDecide ==
  ASSUME NEW a \in DataOf("I64"), NEW b \in DataOf("I64"), NEW c \in DataOf("I64"),
         \A k \in 0 .. Width - 1 : BitOf(a, k) - BitOf(b, k) = BitOf(c, k)
  PROVE  a - b = c
<1> DEFINE Above(w, k) == w \div PowerOf2[k]
           S == {j \in Nat : j <= Width - 1 =>
                   Above(a, Width - 1 - j) - Above(b, Width - 1 - j) = Above(c, Width - 1 - j)}
<1>1. Width - 1 \in Nat
  BY Powers
<1>2. 0 \in S
  <2>1. /\ Above(a, Width - 1) = -BitOf(a, Width - 1)
        /\ Above(b, Width - 1) = -BitOf(b, Width - 1)
        /\ Above(c, Width - 1) = -BitOf(c, Width - 1)
        /\ BitOf(a, Width - 1) \in Int /\ BitOf(b, Width - 1) \in Int
        /\ BitOf(c, Width - 1) \in Int
    BY <1>1, WordBits
  <2>2. BitOf(a, Width - 1) - BitOf(b, Width - 1) = BitOf(c, Width - 1)
    BY <1>1
  <2> HIDE DEF Above
  <2>3. Above(a, Width - 1) - Above(b, Width - 1) = Above(c, Width - 1)
    BY <2>1, <2>2
  <2>4. Width - 1 - 0 = Width - 1
    BY <1>1
  <2> QED BY <2>3, <2>4
<1>3. ASSUME NEW j \in Nat, j \in S PROVE j + 1 \in S
  <2>1. SUFFICES ASSUME j + 1 <= Width - 1
                 PROVE  Above(a, Width - 1 - (j + 1)) - Above(b, Width - 1 - (j + 1))
                          = Above(c, Width - 1 - (j + 1))
    OBVIOUS
  <2> DEFINE k == Width - 1 - (j + 1)
  <2>2. k \in 0 .. Width - 2 /\ k \in 0 .. Width - 1 /\ k + 1 = Width - 1 - j
        /\ k + 1 \in 0 .. Width - 1
    BY WidthAssumption, <1>1, <2>1
  <2>3. Above(a, k + 1) - Above(b, k + 1) = Above(c, k + 1)
    BY <1>1, <1>3, <2>1, <2>2
  <2> HIDE DEF k
  <2>4. /\ Above(a, k) = 2 * Above(a, k + 1) + BitOf(a, k)
        /\ Above(b, k) = 2 * Above(b, k + 1) + BitOf(b, k)
        /\ Above(c, k) = 2 * Above(c, k + 1) + BitOf(c, k)
        /\ BitOf(a, k) \in Int /\ BitOf(b, k) \in Int /\ BitOf(c, k) \in Int
        /\ Above(a, k + 1) \in Int /\ Above(b, k + 1) \in Int /\ Above(c, k + 1) \in Int
    BY <2>2, WordBits
  <2>5. BitOf(a, k) - BitOf(b, k) = BitOf(c, k)
    BY <2>2
  <2> HIDE DEF Above
  <2>6. Above(a, k) - Above(b, k) = Above(c, k)
    BY <2>3, <2>4, <2>5
  <2> QED BY <2>6 DEF k
<1>4. Nat \subseteq S
  <2> HIDE DEF S
  <2> QED BY <1>2, <1>3, Induction
<1>5. Above(a, 0) - Above(b, 0) = Above(c, 0)
  <2>1. Width - 1 - (Width - 1) = 0 /\ Width - 1 <= Width - 1
    BY <1>1
  <2> HIDE DEF Above
  <2> QED BY <1>1, <1>4, <2>1
<1> QED BY <1>5, WordBits

LEMMA ZeroBits ==
  ASSUME NEW k \in 0 .. Width - 1
  PROVE  BitOf(0, k) = 0
<1>1. 0 = PowerOf2[k] * 0 + 0 /\ PowerOf2[k] \in Nat \ {0} /\ 0 \in 0 .. PowerOf2[k] - 1
  BY Powers
<1>2. 0 \div PowerOf2[k] = 0
  BY <1>1, DivIs
<1> QED BY <1>2 DEF BitOf

\* What the bitwise opcodes do to each bit.
LEMMA BitwiseIs ==
  ASSUME NEW l, NEW r
  PROVE  /\ \A m \in IntegerResults("AND", "I64", l, r) :
              /\ m \in DataOf("I64")
              /\ \A k \in 0 .. Width - 1 : BitOf(m, k) = BitOf(l, k) * BitOf(r, k)
         /\ \A m \in IntegerResults("OR", "I64", l, r) :
              /\ m \in DataOf("I64")
              /\ \A k \in 0 .. Width - 1 :
                   BitOf(m, k) = BitOf(l, k) + BitOf(r, k) - BitOf(l, k) * BitOf(r, k)
         /\ \A m \in IntegerResults("XOR", "I64", l, r) :
              /\ m \in DataOf("I64")
              /\ \A k \in 0 .. Width - 1 : BitOf(m, k) = (BitOf(l, k) + BitOf(r, k)) % 2
<1>1. ASSUME NEW op \in {"AND", "OR", "XOR"}
      PROVE  IntegerResults(op, "I64", l, r) = Bitwise(op, "I64", l, r)
  BY DEF IntegerResults, DivisionUndefined, ShiftUndefined
<1>2. \A x, y : /\ BitResult("AND", x, y) = x * y
                /\ BitResult("OR", x, y) = x + y - x * y
                /\ BitResult("XOR", x, y) = (x + y) % 2
  BY DEF BitResult
<1> QED BY <1>1, <1>2 DEF Bitwise

\* BNOT turns every bit round, and the result is a word.
LEMMA ComplementIs ==
  ASSUME NEW n \in DataOf("I64"), NEW m \in UnopResults("BNOT", "I64", n)
  PROVE  /\ m = -1 - n /\ m \in DataOf("I64")
         /\ \A k \in 0 .. Width - 1 : BitOf(m, k) = 1 - BitOf(n, k)
<1>1. n \in Int /\ -1 - n \in DataOf("I64")
  BY HalfWordAssumption DEF DataOf
<1>2. m = -1 - n
  <2>1. m \in Fitting("I64", -1 - n)
    BY DEF UnopResults
  <2> QED BY <1>1, <2>1, FitsAsItIs
<1>3. ASSUME NEW k \in 0 .. Width - 1 PROVE BitOf(m, k) = 1 - BitOf(n, k)
  <2> DEFINE q == n \div PowerOf2[k]
  <2>1. q \in Int /\ m \div PowerOf2[k] = -1 - q
    BY <1>1, <1>2, Powers, DivRem, ComplementDiv
  <2> HIDE DEF q
  <2>2. (-1 - q) % 2 = 1 - (q % 2)
    BY <2>1
  <2> QED BY <2>1, <2>2 DEF BitOf, q
<1> QED BY <1>1, <1>2, <1>3

\* A count inside the word is one for which C defines the unsigned shift.
LEMMA UnsignedShift ==
  ASSUME NEW l, NEW r
  PROVE  /\ r \in 0 .. Width - 1 =>
              IntegerResults("SHL_U", "U64", l, r) = Wrapped("U64", l * PowerOf2[r])
         /\ IntegerResults("MUL_U", "U64", l, r) = Wrapped("U64", l * r)
BY DEF IntegerResults, DivisionUndefined, ShiftUndefined, Fitting

LEMMA ShiftsRight ==
  ASSUME NEW l \in DataOf("I64"), NEW r \in 0 .. Width - 1,
         NEW m \in IntegerResults("SHR", "I64", l, r)
  PROVE  m = l \div PowerOf2[r] /\ m \in DataOf("I64")
<1>1. /\ l \in -HalfWord .. HalfWord - 1 /\ HalfWord \in Nat \ {0}
      /\ PowerOf2[r] \in Nat \ {0}
  BY HalfWordAssumption, Powers DEF DataOf
<1> DEFINE d == PowerOf2[r]
           q == l \div d
           s == l % d
<1>2. q \in Int /\ s \in 0 .. d - 1 /\ l = d * q + s
  <2>1. l \in Int /\ d \in Nat \ {0}
    BY <1>1
  <2> HIDE DEF d
  <2> QED BY ONLY <2>1, DivRem DEF q, s
<1>3. m \in Fitting("I64", q)
  BY DEF IntegerResults, DivisionUndefined, ShiftUndefined
<1> HIDE DEF d, q, s
<1>4. d \in Nat \ {0}
  BY <1>1 DEF d
<1>5. q \in -HalfWord .. HalfWord - 1
  <2>1. CASE q >= 0
    <3>1. q <= d * q /\ d * q \in Int
      BY <1>2, <1>4, <2>1
    <3> QED BY <1>1, <1>2, <1>4, <2>1, <3>1
  <2>2. CASE q < 0
    <3>1. d * (q + 1) <= q + 1 /\ d * (q + 1) = d * q + d /\ d * q \in Int
      BY <1>2, <1>4, <2>2
    <3> QED BY <1>1, <1>2, <1>4, <2>2, <3>1
  <2> QED BY <1>2, <2>1, <2>2
<1>6. q \in DataOf("I64")
  BY <1>5 DEF DataOf
<1>7. m = q
  BY <1>3, <1>6, FitsAsItIs
<1> QED BY <1>6, <1>7 DEF q, d

-----------------------------------------------------------------------------
(* The laws                                                                *)

\* (x / y) * y + x % y = x, wherever C defines the division: DIV and MOD belong
\* together, and none of the four steps overflows.
THEOREM DivisionLaw ==
  ASSUME NEW x \in DataOf("I64"), NEW y \in DataOf("I64"), ~DivisionUndefined("DIV", x, y),
         NEW q \in IntegerResults("DIV", "I64", x, y),
         NEW p \in IntegerResults("MUL", "I64", q, y),
         NEW m \in IntegerResults("MOD", "I64", x, y),
         NEW s \in IntegerResults("ADD", "I64", p, m)
  PROVE  s = x
<1>1. /\ y # 0 /\ Quotient(x, y) \in DataOf("I64")
      /\ y * Quotient(x, y) \in DataOf("I64") /\ Remainder(x, y) \in DataOf("I64")
  BY QuotientFits
<1>2. DataOf("I64") \subseteq Int
  BY HalfWordAssumption DEF DataOf
<1>3. q = Quotient(x, y) /\ m = Remainder(x, y)
  BY <1>1, ResultsAre, FitsAsItIs DEF Remainder
<1>4. p = y * Quotient(x, y)
  <2>1. q * y = y * Quotient(x, y)
    BY <1>1, <1>2, <1>3
  <2> QED BY <1>1, <2>1, ResultsAre, FitsAsItIs
<1>5. p + m = x
  BY <1>1, <1>2, <1>3, <1>4, Truncates
<1> QED BY <1>5, ResultsAre, FitsAsItIs

\* -(x / y) = (-x) / y, but for the least i64.
THEOREM NegationLaw ==
  ASSUME NEW x \in DataOf("I64"), NEW y \in DataOf("I64"), y # 0, x # -HalfWord,
         NEW q \in IntegerResults("DIV", "I64", x, y),
         NEW left \in UnopResults("NEG", "I64", q),
         NEW n \in UnopResults("NEG", "I64", x),
         NEW right \in IntegerResults("DIV", "I64", n, y)
  PROVE  left = right
<1>1. /\ HalfWord \in Nat \ {0} /\ x \in -HalfWord .. HalfWord - 1
      /\ y \in -HalfWord .. HalfWord - 1
  BY HalfWordAssumption DEF DataOf
<1>2. -x \in DataOf("I64") /\ -x # -HalfWord
  BY <1>1 DEF DataOf
<1>3. ~DivisionUndefined("DIV", x, y) /\ ~DivisionUndefined("DIV", -x, y)
  BY <1>2 DEF DivisionUndefined
<1>4. Quotient(-x, y) = -Quotient(x, y)
  <2>1. Abs(-x) = Abs(x) /\ Abs(x) \in Nat /\ Abs(y) \in Nat \ {0}
    BY <1>1 DEF Abs
  <2>2. Abs(x) \div Abs(y) \in Nat /\ (Abs(x) = 0 => Abs(x) \div Abs(y) = 0)
    BY <2>1, Divided
  <2> DEFINE d == Abs(x) \div Abs(y)
  <2>3. /\ Quotient(x, y) = IF (x < 0) = (y < 0) THEN d ELSE -d
        /\ Quotient(-x, y) = IF (-x < 0) = (y < 0) THEN d ELSE -d
    BY <2>1 DEF Quotient
  <2>4. x = 0 => Abs(x) = 0
    BY DEF Abs
  <2> HIDE DEF d
  <2>5. d \in Nat /\ (x = 0 => d = 0)
    BY <2>2, <2>4 DEF d
  <2>6. CASE x = 0
    BY <2>3, <2>5, <2>6
  <2>7. CASE x # 0
    <3>1. (-x < 0) <=> ~(x < 0)
      BY <1>1, <2>7
    <3> QED BY <2>3, <2>5, <3>1
  <2> QED BY <2>6, <2>7
<1>5. q = Quotient(x, y) /\ Quotient(x, y) \in DataOf("I64")
  BY <1>3, QuotientFits, ResultsAre, FitsAsItIs
<1>6. n = -x
  BY <1>2, ResultsAre, FitsAsItIs
<1>7. right = Quotient(-x, y) /\ Quotient(-x, y) \in DataOf("I64")
  BY <1>2, <1>3, <1>6, QuotientFits, ResultsAre, FitsAsItIs
<1>8. left = -q
  <2>1. -q \in DataOf("I64")
    BY <1>4, <1>5, <1>7
  <2>2. UnopResults("NEG", "I64", q) = Fitting("I64", -q)
    BY ResultsAre
  <2> QED BY <2>1, <2>2, FitsAsItIs
<1> QED BY <1>4, <1>5, <1>7, <1>8

\* x - y = x + -y for unsigned numbers, although each of the three steps may wrap.
THEOREM SubtractionLaw ==
  ASSUME NEW x \in DataOf("U64"), NEW y \in DataOf("U64"),
         NEW left \in IntegerResults("SUB_U", "U64", x, y),
         NEW n \in UnopResults("NEG_U", "U64", y),
         NEW right \in IntegerResults("ADD_U", "U64", x, n)
  PROVE  left = right
<1>1. Word \in Nat \ {0} /\ x \in Int /\ y \in Int /\ "U64" \in IntType
  BY HalfWordAssumption DEF Word, DataOf, IntType
<1>2. PICK k \in Int : n = -y + k * Word
  <2>1. n \in Wrapped("U64", -y)
    BY ResultsAre
  <2>2. -y \in Int
    BY <1>1
  <2> QED BY <1>1, <2>1, <2>2, WrappedBy
<1>3. x + n = (x - y) + k * Word /\ x - y \in Int
  BY <1>1, <1>2
<1>4. Wrapped("U64", x + n) = Wrapped("U64", x - y)
  <2> DEFINE d == x - y
  <2> HIDE DEF d
  <2>1. d \in Int /\ x + n = d + k * Word
    BY <1>3 DEF d
  <2>2. Wrapped("U64", d + k * Word) = Wrapped("U64", d)
    BY <1>1, <2>1, WrapsAlike
  <2> QED BY <2>1, <2>2 DEF d
<1>5. left \in Wrapped("U64", x - y) /\ right \in Wrapped("U64", x - y)
  BY <1>4, ResultsAre
<1> QED BY <1>1, <1>3, <1>5, WrappedIsOne

\* x - y is what the unsigned opcodes compute from the same bits, wherever C
\* defines the signed difference: I2U and U2I lose nothing.
THEOREM CastLaw ==
  ASSUME NEW x \in DataOf("I64"), NEW y \in DataOf("I64"), x - y \in DataOf("I64"),
         NEW left \in IntegerResults("SUB", "I64", x, y),
         NEW ux \in CastResults("I64", "U64", x),
         NEW uy \in CastResults("I64", "U64", y),
         NEW ud \in IntegerResults("SUB_U", "U64", ux, uy),
         NEW right \in CastResults("U64", "I64", ud)
  PROVE  left = right
<1>1. /\ Word \in Nat \ {0} /\ x \in Int /\ y \in Int
      /\ "U64" \in IntType /\ "I64" \in IntType
  BY HalfWordAssumption DEF Word, DataOf, IntType
<1>2. PICK i \in Int : ux = x + i * Word
  <2>1. ux \in Wrapped("U64", x)
    BY ResultsAre
  <2> QED BY <1>1, <2>1, WrappedBy
<1>3. PICK j \in Int : uy = y + j * Word
  <2>1. uy \in Wrapped("U64", y)
    BY ResultsAre
  <2> QED BY <1>1, <2>1, WrappedBy
<1>4. PICK k \in Int : ud = (ux - uy) + k * Word
  <2>1. ud \in Wrapped("U64", ux - uy)
    BY ResultsAre
  <2> DEFINE d == ux - uy
  <2>2. d \in Int
    BY <1>1, <1>2, <1>3
  <2> HIDE DEF d
  <2>3. ud \in Wrapped("U64", d)
    BY <2>1 DEF d
  <2>4. \E k \in Int : ud = d + k * Word
    BY ONLY <1>1, <2>2, <2>3, WrappedBy
  <2> QED BY <2>4 DEF d
<1>5. ud = (x - y) + ((i - j) + k) * Word /\ x - y \in Int /\ (i - j) + k \in Int
  BY <1>1, <1>2, <1>3, <1>4
<1>6. Wrapped("I64", ud) = Wrapped("I64", x - y)
  BY <1>1, <1>5, WrapsAlike
<1>7. right = x - y
  <2>1. right \in Wrapped("I64", x - y)
    BY <1>6, ResultsAre
  <2> QED BY <1>1, <2>1, WrapsToItself
<1>8. left = x - y
  BY ResultsAre, FitsAsItIs
<1> QED BY <1>7, <1>8

\* Of two numbers with the same sign, and of their unsigned forms, the same one is
\* greater.
THEOREM OrderLaw ==
  ASSUME NEW x \in DataOf("I64"), NEW y \in DataOf("I64"), x < 0 <=> y < 0,
         NEW ux \in CastResults("I64", "U64", x),
         NEW uy \in CastResults("I64", "U64", y)
  PROVE  Holds("GT_U", ux, uy) <=> Holds("GT", x, y)
<1>1. HalfWord \in Nat \ {0} /\ Word = 2 * HalfWord
  BY HalfWordAssumption DEF Word
<1>2. ASSUME NEW n \in DataOf("I64"), NEW u \in CastResults("I64", "U64", n)
      PROVE  u = IF n < 0 THEN n + Word ELSE n
  <2>1. n \in -HalfWord .. HalfWord - 1 /\ u \in Wrapped("U64", n)
    BY ResultsAre DEF DataOf
  <2>2. "U64" \in IntType /\ n \in Int
    BY <1>1, <2>1 DEF IntType
  <2>3. PICK k \in Int : u = n + k * Word
    BY <2>1, <2>2, WrappedIs
  <2>4. u \in 0 .. Word - 1
    BY <2>1 DEF Wrapped, DataOf, Word
  <2>5. CASE n >= 0
    <3>1. -Word < k * Word /\ k * Word < Word
      BY <1>1, <2>1, <2>3, <2>4, <2>5
    <3>2. k = 0
      BY <1>1, <3>1, OneFactor
    <3> QED BY <1>1, <2>1, <2>3, <2>5, <3>2
  <2>6. CASE n < 0
    <3>1. k - 1 \in Int /\ (k - 1) * Word = k * Word - Word
      BY <1>1
    <3>2. -Word < (k - 1) * Word /\ (k - 1) * Word < Word
      <4> DEFINE m == k * Word
      <4>1. m \in Int /\ u = n + m
        BY <1>1, <2>3
      <4> HIDE DEF m
      <4>2. -Word < m - Word /\ m - Word < Word
        BY <1>1, <2>1, <2>4, <2>6, <4>1
      <4> QED BY <3>1, <4>2 DEF m
    <3>3. k - 1 = 0
      BY <1>1, <3>1, <3>2, OneFactor
    <3>4. k = 1
      BY <3>3
    <3> QED BY <1>1, <2>1, <2>3, <2>6, <3>4
  <2> QED BY <2>1, <2>5, <2>6
<1>3. /\ ux = IF x < 0 THEN x + Word ELSE x
      /\ uy = IF y < 0 THEN y + Word ELSE y
      /\ x \in Int /\ y \in Int
  BY <1>1, <1>2 DEF DataOf
<1>4. (ux > uy) <=> (x > y)
  BY <1>1, <1>3
<1> QED BY <1>4 DEF Holds

\* ~(x & y) = ~x | ~y, in every bit of the word.
THEOREM DeMorganLaw ==
  ASSUME NEW x \in DataOf("I64"), NEW y \in DataOf("I64"),
         NEW a \in IntegerResults("AND", "I64", x, y),
         NEW left \in UnopResults("BNOT", "I64", a),
         NEW nx \in UnopResults("BNOT", "I64", x),
         NEW ny \in UnopResults("BNOT", "I64", y),
         NEW right \in IntegerResults("OR", "I64", nx, ny)
  PROVE  left = right
<1>1. /\ a \in DataOf("I64") /\ right \in DataOf("I64")
      /\ \A k \in 0 .. Width - 1 :
           /\ BitOf(a, k) = BitOf(x, k) * BitOf(y, k)
           /\ BitOf(right, k) = BitOf(nx, k) + BitOf(ny, k) - BitOf(nx, k) * BitOf(ny, k)
  BY BitwiseIs
<1>2. /\ left = -1 - a /\ left \in DataOf("I64")
      /\ nx = -1 - x /\ nx \in DataOf("I64")
      /\ ny = -1 - y /\ ny \in DataOf("I64")
  BY <1>1, ComplementIs
<1> DEFINE zero == 0
<1> HIDE DEF zero
<1>3. ASSUME NEW k \in 0 .. Width - 1
      PROVE  BitOf(left, k) - BitOf(zero, k) = BitOf(right, k)
  <2>1. /\ BitOf(left, k) = 1 - BitOf(a, k)
        /\ BitOf(nx, k) = 1 - BitOf(x, k)
        /\ BitOf(ny, k) = 1 - BitOf(y, k)
    BY <1>1, <1>2, ComplementIs
  <2>2. BitOf(x, k) \in {0, 1} /\ BitOf(y, k) \in {0, 1}
    BY WordBits
  <2>3. BitOf(zero, k) = 0
    BY ZeroBits DEF zero
  <2>4. /\ BitOf(a, k) = BitOf(x, k) * BitOf(y, k)
        /\ BitOf(right, k) = BitOf(nx, k) + BitOf(ny, k) - BitOf(nx, k) * BitOf(ny, k)
    BY <1>1
  <2>5. CASE BitOf(x, k) = 0
    BY <2>1, <2>2, <2>3, <2>4, <2>5
  <2>6. CASE BitOf(x, k) = 1
    BY <2>1, <2>2, <2>3, <2>4, <2>6
  <2> QED BY <2>2, <2>5, <2>6
<1>4. zero \in DataOf("I64")
  BY HalfWordAssumption DEF DataOf, zero
<1>5. left - zero = right
  <2>1. left \in DataOf("I64") /\ right \in DataOf("I64")
    BY <1>1, <1>2
  <2> QED BY ONLY <1>3, <1>4, <2>1, BitsDecide
<1> QED BY <1>2, <1>5, WordBits DEF zero

\* (x | y) - (x & y) = x ^ y: the difference needs no borrow, and never overflows.
THEOREM ExclusiveOrLaw ==
  ASSUME NEW x \in DataOf("I64"), NEW y \in DataOf("I64"),
         NEW o \in IntegerResults("OR", "I64", x, y),
         NEW a \in IntegerResults("AND", "I64", x, y),
         NEW left \in IntegerResults("SUB", "I64", o, a),
         NEW right \in IntegerResults("XOR", "I64", x, y)
  PROVE  left = right
<1>1. o \in DataOf("I64") /\ a \in DataOf("I64") /\ right \in DataOf("I64")
  BY BitwiseIs
<1>2. ASSUME NEW k \in 0 .. Width - 1
      PROVE  BitOf(o, k) - BitOf(a, k) = BitOf(right, k)
  <2>1. /\ BitOf(a, k) = BitOf(x, k) * BitOf(y, k)
        /\ BitOf(o, k) = BitOf(x, k) + BitOf(y, k) - BitOf(x, k) * BitOf(y, k)
        /\ BitOf(right, k) = (BitOf(x, k) + BitOf(y, k)) % 2
    BY BitwiseIs
  <2>2. BitOf(x, k) \in {0, 1} /\ BitOf(y, k) \in {0, 1}
    BY WordBits
  <2>3. CASE BitOf(x, k) = 0
    BY <2>1, <2>2, <2>3
  <2>4. CASE BitOf(x, k) = 1
    BY <2>1, <2>2, <2>4
  <2> QED BY <2>2, <2>3, <2>4
<1>3. o - a = right
  BY <1>1, <1>2, BitsDecide
<1>4. left \in Fitting("I64", right)
  BY <1>3, ResultsAre
<1> QED BY <1>1, <1>4, FitsAsItIs

\* x << y = x * (1 << y) for unsigned words, whatever is shifted out at the top.
THEOREM ShiftLeftLaw ==
  ASSUME NEW x \in DataOf("I64"), NEW y \in 0 .. Width - 1, y \in DataOf("I64"),
         NEW ux \in CastResults("I64", "U64", x),
         NEW uy \in CastResults("I64", "U64", y),
         NEW one \in CastResults("I64", "U64", 1),
         NEW power \in IntegerResults("SHL_U", "U64", one, uy),
         NEW left \in IntegerResults("MUL_U", "U64", ux, power),
         NEW right \in IntegerResults("SHL_U", "U64", ux, uy)
  PROVE  left = right
<1>1. /\ Word \in Nat \ {0} /\ x \in Int /\ y \in Nat /\ "U64" \in IntType
      /\ HalfWord \in Nat \ {0} /\ Word = 2 * HalfWord
  BY HalfWordAssumption, WidthAssumption DEF Word, DataOf, IntType
<1>2. /\ ux \in Wrapped("U64", x) /\ uy \in Wrapped("U64", y) /\ one \in Wrapped("U64", 1)
  BY ResultsAre
<1>3. ux \in Int
  BY <1>1, <1>2, WrappedBy
<1>4. uy = y /\ one = 1
  <2>1. y \in DataOf("U64") /\ 1 \in DataOf("U64")
    BY <1>1 DEF DataOf
  <2> QED BY <1>1, <1>2, <2>1, WrapsToItself
<1>5. PowerOf2[y] \in Nat
  BY Powers
<1> DEFINE p == PowerOf2[y]
<1>6. /\ power \in Wrapped("U64", 1 * p)
      /\ left \in Wrapped("U64", ux * power)
      /\ right \in Wrapped("U64", ux * p)
  BY <1>4, UnsignedShift
<1> HIDE DEF p
<1>7. p \in Int /\ 1 * p = p
  BY <1>5 DEF p
<1>8. PICK k \in Int : power = p + k * Word
  BY <1>1, <1>6, <1>7, WrappedBy
<1>9. ux * power = ux * p + (ux * k) * Word /\ ux * p \in Int /\ ux * k \in Int
  BY <1>1, <1>3, <1>7, <1>8
<1>10. Wrapped("U64", ux * power) = Wrapped("U64", ux * p)
  <2> DEFINE d == ux * p
             j == ux * k
  <2> HIDE DEF d, j
  <2>1. ux * power = d + j * Word /\ d \in Int /\ j \in Int
    BY <1>9 DEF d, j
  <2>2. Wrapped("U64", d + j * Word) = Wrapped("U64", d)
    BY <1>1, <2>1, WrapsAlike
  <2> QED BY <2>1, <2>2 DEF d
<1> QED BY <1>1, <1>6, <1>9, <1>10, WrappedIsOne

\* ~(x >> y) = ~x >> y: a right shift keeps the sign.
THEOREM ShiftRightLaw ==
  ASSUME NEW x \in DataOf("I64"), NEW y \in 0 .. Width - 1,
         NEW s \in IntegerResults("SHR", "I64", x, y),
         NEW left \in UnopResults("BNOT", "I64", s),
         NEW nx \in UnopResults("BNOT", "I64", x),
         NEW right \in IntegerResults("SHR", "I64", nx, y)
  PROVE  left = right
<1>1. nx = -1 - x /\ nx \in DataOf("I64")
  BY ComplementIs
<1>2. /\ s = x \div PowerOf2[y] /\ s \in DataOf("I64")
      /\ right = nx \div PowerOf2[y]
  BY <1>1, ShiftsRight
<1>3. left = -1 - s
  BY <1>2, ComplementIs
<1>4. x \in Int /\ PowerOf2[y] \in Nat \ {0}
  BY HalfWordAssumption, Powers DEF DataOf
<1> QED BY <1>1, <1>2, <1>3, <1>4, ComplementDiv

\* An unsigned operation that divides by no zero has one result: what wraps is
\* defined.
THEOREM UnsignedIsExact ==
  ASSUME NEW op \in {"ADD_U", "SUB_U", "MUL_U", "DIV_U", "MOD_U"},
         NEW l \in DataOf("U64"), NEW r \in DataOf("U64"),
         op \in {"DIV_U", "MOD_U"} => r # 0
  PROVE  \E m : IntegerResults(op, "U64", l, r) = {m}
<1>1. l \in Int /\ r \in Int /\ "U64" \in IntType
  BY HalfWordAssumption DEF DataOf, IntType
<1>2. \E n \in Int : IntegerResults(op, "U64", l, r) = Wrapped("U64", n)
  <2>1. CASE op = "ADD_U"
    <3>1. IntegerResults(op, "U64", l, r) = Wrapped("U64", l + r) /\ l + r \in Int
      BY <1>1, <2>1, ResultsAre
    <3> QED BY <3>1
  <2>2. CASE op = "SUB_U"
    <3>1. IntegerResults(op, "U64", l, r) = Wrapped("U64", l - r) /\ l - r \in Int
      BY <1>1, <2>2, ResultsAre
    <3> QED BY <3>1
  <2>3. CASE op = "MUL_U"
    <3>1. IntegerResults("MUL_U", "U64", l, r) = Wrapped("U64", l * r)
      BY DEF IntegerResults, DivisionUndefined, ShiftUndefined, Fitting
    <3>2. l * r \in Int
      BY <1>1
    <3> QED BY <2>3, <3>1, <3>2
  <2>4. CASE op \in {"DIV_U", "MOD_U"}
    <3>1. /\ Quotient(l, r) \in Int /\ Remainder(l, r) \in Int
      BY <1>1, <2>4, Truncates
    <3>2. ASSUME r # 0
          PROVE  /\ IntegerResults("DIV_U", "U64", l, r) = Wrapped("U64", Quotient(l, r))
                 /\ IntegerResults("MOD_U", "U64", l, r) = Wrapped("U64", Remainder(l, r))
      BY <3>2 DEF IntegerResults, DivisionUndefined, ShiftUndefined, Fitting, Remainder
    <3> QED BY <2>4, <3>1, <3>2
  <2> QED BY <2>1, <2>2, <2>3, <2>4
<1>3. PICK n \in Int : IntegerResults(op, "U64", l, r) = Wrapped("U64", n)
  BY <1>2
<1>4. PICK m : m \in Wrapped("U64", n)
  BY <1>1, WrappedIsOne
<1>5. Wrapped("U64", n) = {m}
  BY <1>1, <1>4, WrappedIsOne
<1> QED BY <1>3, <1>5

=============================================================================
