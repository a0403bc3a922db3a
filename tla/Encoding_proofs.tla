-------------------------- MODULE Encoding_proofs --------------------------
(***************************************************************************)
(* Theorems about Encoding, for every even Byte from the number of opcodes *)
(* up and for everything an author may ask for.  They rest on two facts    *)
(* about digits: a number is its quotient and its remainder, and the       *)
(* digits to the base Byte put together again are the number.              *)
(***************************************************************************)
EXTENDS Encoding, SequenceTheorems, TLAPS

Digit == 0 .. Byte - 1

-----------------------------------------------------------------------------
(* Quotients and remainders                                                *)

LEMMA Divided ==
  ASSUME NEW n \in Int, NEW d \in Nat \ {0}
  PROVE  /\ n \div d \in Int /\ n % d \in 0 .. d - 1
         /\ n = (n \div d) * d + (n % d)
<1>1. n \div d \in Int
  OBVIOUS
<1>2. n % d \in 0 .. d - 1
  OBVIOUS
<1>3. n = d * (n \div d) + (n % d)
  OBVIOUS
<1>4. d * (n \div d) = (n \div d) * d
  BY <1>1
<1> QED BY <1>1, <1>2, <1>3, <1>4

LEMMA OneFactor ==
  ASSUME NEW d \in Nat \ {0}, NEW x \in Int, -d < x * d, x * d < d
  PROVE  x = 0
<1>1. CASE x >= 1 BY <1>1
<1>2. CASE x <= -1 BY <1>2
<1> QED BY <1>1, <1>2

\* There is one quotient and one remainder.
LEMMA Composed ==
  ASSUME NEW d \in Nat \ {0}, NEW q \in Int, NEW r \in 0 .. d - 1
  PROVE  (q * d + r) \div d = q /\ (q * d + r) % d = r
<1> DEFINE n == q * d + r
           x == q - n \div d
<1>0. n \in Int
  OBVIOUS
<1> HIDE DEF n
<1>1. n \div d \in Int /\ n % d \in 0 .. d - 1 /\ n = (n \div d) * d + (n % d)
  BY <1>0, Divided
<1> USE DEF n
<1>2. x \in Int /\ x * d = (n % d) - r
  BY <1>1
<1>3. x = 0
  BY <1>1, <1>2, OneFactor
<1> QED BY <1>1, <1>3

\* A digit above a remainder.
LEMMA InPlace ==
  ASSUME NEW d \in Nat \ {0}, NEW e \in Nat \ {0}, NEW q \in 0 .. e - 1, NEW r \in 0 .. d - 1
  PROVE  q * d + r \in 0 .. d * e - 1
<1>1. q * d \in Nat /\ q * d <= (e - 1) * d
  OBVIOUS
<1>2. (e - 1) * d = d * e - d
  OBVIOUS
<1> QED BY <1>1, <1>2

\* Dividing twice is dividing by the product.
LEMMA Nested ==
  ASSUME NEW n \in Int, NEW d \in Nat \ {0}, NEW e \in Nat \ {0}
  PROVE  /\ d * e \in Nat \ {0}
         /\ (n \div d) \div e = n \div (d * e)
         /\ n % (d * e) = ((n \div d) % e) * d + (n % d)
<1> DEFINE q == n \div d
           p == q \div e
           s == q % e
           r == n % d
<1>1. d * e \in Nat \ {0}
  OBVIOUS
<1>2. q \in Int /\ r \in 0 .. d - 1 /\ n = q * d + r
  BY Divided
<1>3. p \in Int /\ s \in 0 .. e - 1 /\ q = p * e + s
  BY <1>2, Divided
<1> HIDE DEF p, s, q, r
<1>4. n = p * (d * e) + (s * d + r)
  BY <1>2, <1>3
<1>5. s * d + r \in 0 .. d * e - 1
  BY <1>2, <1>3, InPlace
<1>6. n \div (d * e) = p /\ n % (d * e) = s * d + r
  <2> DEFINE m == d * e
             t == s * d + r
  <2>1. m \in Nat \ {0} /\ t \in 0 .. m - 1 /\ n = p * m + t
    BY <1>1, <1>4, <1>5
  <2> HIDE DEF m, t
  <2>2. n \div m = p /\ n % m = t
    BY <1>3, <2>1, Composed
  <2> QED BY <2>2 DEF m, t
<1> QED BY <1>1, <1>6 DEF p, s, q, r

-----------------------------------------------------------------------------
(* The weights of the bytes                                                *)

LEMMA Weights ==
  /\ Byte \in Nat \ {0} /\ Byte >= 8
  /\ Weight(0) = 1 /\ Weight(1) = Byte
  /\ Weight(2) = Weight(1) * Byte /\ Weight(3) = Weight(2) * Byte
  /\ Weight(4) = Weight(3) * Byte
  /\ \A k \in 0 .. 4 : Weight(k) \in Nat \ {0}
<1>1. Byte \in Nat \ {0} /\ Byte >= 8
  BY ByteAssumption
<1>2. /\ Weight(0) = 1 /\ Weight(1) = Byte /\ Weight(2) = Byte * Byte
      /\ Weight(3) = Byte * Byte * Byte /\ Weight(4) = Byte * Byte * Byte * Byte
  BY DEF Weight
<1>3. /\ Byte * Byte \in Nat \ {0}
  BY <1>1
<1>4. Byte * Byte * Byte \in Nat \ {0}
  BY <1>1, <1>3
<1>5. Byte * Byte * Byte * Byte \in Nat \ {0}
  BY <1>1, <1>4
<1> QED BY <1>1, <1>2, <1>3, <1>4, <1>5

\* The weights are even, all but that of the lowest byte.
LEMMA Halves ==
  ASSUME NEW k \in 1 .. 4
  PROVE  Weight(k) \div 2 \in Nat /\ Weight(k) = 2 * (Weight(k) \div 2)
<1> DEFINE h == Byte \div 2
<1>1. h \in Nat /\ Byte = 2 * h
  BY ByteAssumption
<1> HIDE DEF h
<1>2. \A w \in Nat : w * Byte = 2 * (w * h) /\ w * h \in Nat
  BY <1>1
<1>3. \E m \in Nat : Weight(k) = 2 * m
  <2>1. CASE k = 1 BY <2>1, <1>1, Weights
  <2>2. CASE k \in 2 .. 4
    <3>1. Weight(k) = Weight(k - 1) * Byte /\ Weight(k - 1) \in Nat
      BY <2>2, Weights
    <3> QED BY <3>1, <1>2
  <2> QED BY <2>1, <2>2
<1> QED BY <1>3

\* The digits of a number, put together, are what is left of it.
LEMMA LowDigits ==
  ASSUME NEW n \in Int
  PROVE  /\ n % Weight(1) = n % Byte
         /\ n % Weight(2) = ((n \div Weight(1)) % Byte) * Weight(1) + (n % Weight(1))
         /\ n % Weight(3) = ((n \div Weight(2)) % Byte) * Weight(2) + (n % Weight(2))
         /\ n % Weight(4) = ((n \div Weight(3)) % Byte) * Weight(3) + (n % Weight(3))
<1>1. \A d \in Nat \ {0} : n % (d * Byte) = ((n \div d) % Byte) * d + (n % d)
  BY Weights, Nested
<1>2. n % (Weight(1) * Byte) = ((n \div Weight(1)) % Byte) * Weight(1) + (n % Weight(1))
  BY <1>1, Weights
<1>3. n % (Weight(2) * Byte) = ((n \div Weight(2)) % Byte) * Weight(2) + (n % Weight(2))
  BY <1>1, Weights
<1>4. n % (Weight(3) * Byte) = ((n \div Weight(3)) % Byte) * Weight(3) + (n % Weight(3))
  BY <1>1, Weights
<1>5. n % Weight(1) = n % Byte
  BY Weights
<1> QED
  <2>1. /\ Weight(1) * Byte = Weight(2) /\ Weight(2) * Byte = Weight(3)
        /\ Weight(3) * Byte = Weight(4)
    BY Weights
  <2> QED BY <2>1, <1>2, <1>3, <1>4, <1>5

-----------------------------------------------------------------------------
(* Fields of a word                                                        *)

\* The word that ins makes of an opcode and three fields.
Word(o, a, b, c) == o * Weight(3) + a * Weight(2) + b * Weight(1) + c

LEMMA Fields ==
  ASSUME NEW o \in Digit, NEW a \in Digit, NEW b \in Digit, NEW c \in Digit
  PROVE  /\ Word(o, a, b, c) \in U32
         /\ Field(Word(o, a, b, c), 3, 1) = o
         /\ Field(Word(o, a, b, c), 2, 1) = a
         /\ Field(Word(o, a, b, c), 1, 1) = b
         /\ Field(Word(o, a, b, c), 0, 1) = c
         /\ Field(Word(o, a, b, c), 0, 2) = b * Weight(1) + c
         /\ Field(Word(o, a, b, c), 0, 3) = a * Weight(2) + b * Weight(1) + c
<1> DEFINE w == Word(o, a, b, c)
           low2 == b * Weight(1) + c
           low3 == a * Weight(2) + low2
           high2 == o * Byte + a
           high3 == high2 * Byte + b
<1>1. low2 \in 0 .. Weight(2) - 1
  BY Weights, InPlace DEF Digit
<1>2. low3 \in 0 .. Weight(3) - 1
  <2> HIDE DEF low2
  <2>1. low3 \in 0 .. Weight(2) * Byte - 1
    BY <1>1, Weights, InPlace DEF Digit
  <2> QED BY <2>1, Weights
<1>3. o * Weight(3) + low3 \in 0 .. Weight(4) - 1
  <2> HIDE DEF low3
  <2>1. o * Weight(3) + low3 \in 0 .. Weight(3) * Byte - 1
    BY <1>2, Weights, InPlace DEF Digit
  <2> QED BY <2>1, Weights
<1>4. /\ w = o * Weight(3) + low3
      /\ w = high2 * Weight(2) + low2
      /\ w = high3 * Weight(1) + c
      /\ high2 \in Int /\ high3 \in Int /\ w \in Int
  <2>1. /\ Weight(1) \in Nat /\ Weight(2) \in Nat /\ Weight(3) \in Nat /\ Byte \in Nat
        /\ Weight(1) = Byte /\ Weight(2) = Weight(1) * Byte /\ Weight(3) = Weight(2) * Byte
    BY Weights
  <2>2. o \in Int /\ a \in Int /\ b \in Int /\ c \in Int
    BY <2>1 DEF Digit
  <2> QED BY <2>1, <2>2 DEF Word
<1>5. Byte \in Nat \ {0} /\ Weight(1) = Byte /\ o \in 0 .. Byte - 1 /\ a \in 0 .. Byte - 1
      /\ b \in 0 .. Byte - 1 /\ c \in 0 .. Byte - 1
  BY Weights DEF Digit
<1>6. high2 % Byte = a /\ high3 % Byte = b
  <2>1. (o * Byte + a) % Byte = a
    BY <1>5, Composed
  <2> HIDE DEF high2
  <2>2. (high2 * Byte + b) % Byte = b
    BY <1>4, <1>5, Composed
  <2> QED BY <2>1, <2>2 DEF high2
<1> HIDE DEF w, low2, low3, high2, high3
<1>7. w \div Weight(3) = o /\ w % Weight(3) = low3
  <2>1. Weight(3) \in Nat \ {0} /\ o \in Int
    BY <1>5, Weights
  <2>2. (o * Weight(3) + low3) \div Weight(3) = o /\ (o * Weight(3) + low3) % Weight(3) = low3
    BY ONLY <1>2, <2>1, Composed
  <2> QED BY <1>4, <2>2
<1>8. w \div Weight(2) = high2 /\ w % Weight(2) = low2
  <2>1. Weight(2) \in Nat \ {0}
    BY Weights
  <2>2. /\ (high2 * Weight(2) + low2) \div Weight(2) = high2
        /\ (high2 * Weight(2) + low2) % Weight(2) = low2
    BY ONLY <1>1, <1>4, <2>1, Composed
  <2> QED BY <1>4, <2>2
<1>9. w \div Weight(1) = high3 /\ w % Weight(1) = c
  <2>1. Weight(1) \in Nat \ {0} /\ c \in 0 .. Weight(1) - 1
    BY <1>5
  <2>2. /\ (high3 * Weight(1) + c) \div Weight(1) = high3
        /\ (high3 * Weight(1) + c) % Weight(1) = c
    BY ONLY <1>4, <2>1, Composed
  <2> QED BY <1>4, <2>2
<1>10. o % Byte = o /\ w \div Weight(0) = w
  BY <1>4, <1>5, Weights
<1>11. w \in U32
  BY <1>3, <1>4 DEF U32
<1>12. Weight(1) = Byte
  BY <1>5
<1>13. /\ Field(w, 3, 1) = o /\ Field(w, 2, 1) = a /\ Field(w, 1, 1) = b /\ Field(w, 0, 1) = c
       /\ Field(w, 0, 2) = low2 /\ Field(w, 0, 3) = low3
  BY ONLY <1>6, <1>7, <1>8, <1>9, <1>10, <1>12 DEF Field
<1>14. low3 = a * Weight(2) + b * Weight(1) + c
  <2>1. a * Weight(2) \in Int /\ b * Weight(1) \in Int /\ c \in Int
    BY <1>5, Weights
  <2> QED BY <2>1 DEF low3, low2
<1> QED BY <1>11, <1>13, <1>14 DEF w, low2

\* Two shifts extend the sign as the subtraction of the disassembler does.
LEMMA SignExtends ==
  ASSUME NEW size \in {2, 3}, NEW word \in Int
  PROVE  SignedField(word, size) = Signed(Field(word, 0, size), size)
<1> DEFINE m == Weight(size)
           u == Weight(4 - size)
           q == word \div m
           low == word % m
           up == (word * u) % Weight(4)
<1>1. m \in Nat \ {0} /\ u \in Nat \ {0} /\ Weight(4) = m * u
  <2>1. /\ Weight(1) = Byte /\ Weight(2) = Byte * Byte /\ Weight(3) = Byte * Byte * Byte
        /\ Weight(4) = Byte * Byte * Byte * Byte
    BY DEF Weight
  <2>2. CASE size = 2 BY <2>1, <2>2, Weights
  <2>3. CASE size = 3 BY <2>1, <2>3, Weights
  <2> QED BY <2>2, <2>3
<1>2. Field(word, 0, size) = low
  <2>1. word \div Weight(0) = word
    BY Weights
  <2> QED BY <2>1 DEF Field
<1>3. SignedField(word, size) = (IF 2 * up < Weight(4) THEN up ELSE up - Weight(4)) \div u
  BY DEF SignedField
<1> HIDE DEF m, u
<1>4. q \in Int /\ low \in 0 .. m - 1 /\ word = q * m + low
  BY <1>1, Divided
<1> HIDE DEF q, low
<1>5. low * u \in 0 .. Weight(4) - 1
  <2>1. low * u + 0 \in 0 .. u * m - 1
    BY <1>1, <1>4, InPlace
  <2> QED BY <2>1, <1>1, <1>4
<1>6. up = low * u
  <2>1. word * u = q * Weight(4) + low * u
    BY <1>1, <1>4
  <2>2. Weight(4) \in Nat \ {0}
    BY Weights
  <2> HIDE DEF up
  <2>3. (q * Weight(4) + low * u) % Weight(4) = low * u
    BY <1>4, <1>5, <2>2, Composed
  <2> QED BY <2>1, <2>3 DEF up
<1>7. 2 * up < Weight(4) <=> 2 * low < m
  <2>1. 2 * (low * u) = (2 * low) * u
    BY <1>1, <1>4
  <2>2. (2 * low) * u < m * u <=> 2 * low < m
    <3>1. ASSUME NEW x \in Int, NEW y \in Int, x < y PROVE x * u < y * u
      BY <1>1, <3>1
    <3>2. ASSUME NEW x \in Int, NEW y \in Int, x >= y PROVE x * u >= y * u
      BY <1>1, <3>2
    <3> DEFINE x == 2 * low
    <3>3. x \in Int /\ m \in Int
      BY <1>1, <1>4
    <3> HIDE DEF x
    <3>4. x * u < m * u <=> x < m
      <4>1. CASE x < m BY <3>1, <3>3, <4>1
      <4>2. CASE x >= m
        <5>1. x * u >= m * u BY <3>2, <3>3, <4>2
        <5>2. x * u \in Int /\ m * u \in Int BY <1>1, <3>3
        <5> QED BY <4>2, <5>1, <5>2, <3>3
      <4> QED BY <4>1, <4>2, <3>3
    <3> QED BY <3>4 DEF x
  <2> QED BY <1>1, <1>6, <2>1, <2>2
<1>8. \A x \in Int : (x * u) \div u = x
  <2>1. ASSUME NEW x \in Int PROVE (x * u) \div u = x
    <3>1. (x * u + 0) \div u = x
      BY <1>1, Composed
    <3> QED BY <3>1, <1>1
  <2> QED BY <2>1
<1>9. up - Weight(4) = (low - m) * u
  BY <1>1, <1>4, <1>6
<1>10. SignedField(word, size) = IF 2 * low < m THEN low ELSE low - m
  <2> HIDE DEF up
  <2>1. CASE 2 * low < m
    BY <2>1, <1>3, <1>4, <1>6, <1>7, <1>8
  <2>2. CASE ~(2 * low < m)
    <3>1. low - m \in Int
      BY <1>1, <1>4
    <3> QED BY <2>2, <3>1, <1>3, <1>7, <1>8, <1>9
  <2> QED BY <2>1, <2>2
<1> QED BY <1>1, <1>2, <1>4, <1>10 DEF Signed, m

\* What fits the immediate comes back.
LEMMA SignComesBack ==
  ASSUME NEW size \in 1 .. 4, NEW n \in Imm(size)
  PROVE  Signed(n % Weight(size), size) = n
<1> DEFINE m == Weight(size)
           h == m \div 2
<1>1. m \in Nat \ {0} /\ h \in Nat /\ m = 2 * h /\ n \in Int /\ n >= -h /\ n < h
  BY Weights, Halves DEF Imm
<1> HIDE DEF m, h
<1>2. CASE n >= 0
  <2>1. (0 * m + n) % m = n
    BY <1>1, <1>2, Composed
  <2>2. n % m = n
    BY <1>1, <2>1
  <2> QED BY <1>1, <1>2, <2>2 DEF Signed, m
<1>3. CASE n < 0
  <2>1. (-1 * m + (n + m)) % m = n + m
    <3>1. n + m \in 0 .. m - 1 /\ -1 \in Int
      BY <1>1, <1>3
    <3> QED BY <1>1, <3>1, Composed
  <2>2. n % m = n + m
    BY <1>1, <2>1
  <2> QED BY <1>1, <1>3, <2>2 DEF Signed, m
<1> QED BY <1>1, <1>2, <1>3

-----------------------------------------------------------------------------
(* Bytes                                                                   *)

LEMMA Packed ==
  ASSUME NEW size \in {2, 4}, NEW n \in Int
  PROVE  /\ Pack(size, n) \in Seq(Digit) /\ Len(Pack(size, n)) = size
         /\ \A k \in 1 .. size : Pack(size, n)[k] = (n \div Weight(k - 1)) % Byte
<1> DEFINE digit(k) == (n \div Weight(k - 1)) % Byte
<1>1. \A k \in 1 .. size : digit(k) \in Digit
  <2>1. TAKE k \in 1 .. size
  <2>2. Weight(k - 1) \in Nat \ {0} /\ Byte \in Nat \ {0}
    <3>1. k - 1 \in 0 .. 4
      OBVIOUS
    <3> QED BY <3>1, Weights
  <2>3. n \div Weight(k - 1) \in Int
    BY <2>2, Divided
  <2> QED BY <2>2, <2>3, Divided DEF Digit
<1>2. Pack(size, n) = [k \in 1 .. size |-> digit(k)]
  BY DEF Pack
<1> HIDE DEF digit
<1>3. Pack(size, n) \in [1 .. size -> Digit]
  BY <1>1, <1>2
<1>4. size \in Nat
  OBVIOUS
<1>5. Pack(size, n) \in Seq(Digit) /\ Len(Pack(size, n)) = size
  <2> DEFINE p == Pack(size, n)
  <2> HIDE DEF p
  <2>1. p \in [1 .. size -> Digit] => p \in Seq(Digit) /\ Len(p) = size
    BY <1>4
  <2> QED BY <2>1, <1>3 DEF p
<1>6. \A k \in 1 .. size : Pack(size, n)[k] = digit(k)
  BY <1>2
<1> QED BY <1>5, <1>6 DEF digit

LEMMA LowestFirst ==
  ASSUME NEW s \in Seq(Digit)
  PROVE  /\ Len(s) = 2 => LittleEndian(s) = s[2] * Weight(1) + s[1]
         /\ Len(s) = 4 =>
              LittleEndian(s) = s[4] * Weight(3) + s[3] * Weight(2) + s[2] * Weight(1) + s[1]
<1> DEFINE r == Reverse(s)
<1>1. ASSUME NEW m \in Nat, Len(s) = m
      PROVE  Len(r) = m /\ \A k \in 1 .. m : r[k] = s[m - k + 1]
  <2>1. r = [k \in 1 .. m |-> s[m - k + 1]]
    BY <1>1 DEF Reverse
  <2>2. \A k \in 1 .. m : s[m - k + 1] \in Digit
    BY <1>1
  <2> HIDE DEF r
  <2>3. r \in [1 .. m -> Digit]
    BY <2>1, <2>2
  <2>4. Len(r) = m
    BY <2>3
  <2> QED BY <2>1, <2>4
<1> HIDE DEF r
<1>2. CASE Len(s) = 2
  <2>1. Len(r) = 2 /\ r[1] = s[2] /\ r[2] = s[1]
    <3>1. Len(r) = 2 /\ \A k \in 1 .. 2 : r[k] = s[2 - k + 1]
      BY <1>1, <1>2
    <3> QED BY <3>1
  <2>2. BigEndian(r) = r[1] * Weight(1) + r[2]
    BY <2>1 DEF BigEndian
  <2> QED BY <1>2, <2>1, <2>2 DEF LittleEndian, r
<1>3. CASE Len(s) = 4
  <2>1. Len(r) = 4 /\ r[1] = s[4] /\ r[2] = s[3] /\ r[3] = s[2] /\ r[4] = s[1]
    <3>1. Len(r) = 4 /\ \A k \in 1 .. 4 : r[k] = s[4 - k + 1]
      BY <1>1, <1>3
    <3> QED BY <3>1
  <2>2. BigEndian(r) = r[1] * Weight(3) + r[2] * Weight(2) + r[3] * Weight(1) + r[4]
    BY <2>1 DEF BigEndian
  <2> QED BY <1>3, <2>1, <2>2 DEF LittleEndian, r
<1> QED BY <1>2, <1>3

\* What was packed is read back, as far as it fits.
LEMMA Unpacked ==
  ASSUME NEW n \in Int
  PROVE  /\ LittleEndian(Pack(2, n)) = n % Weight(2)
         /\ LittleEndian(Pack(4, n)) = n % Weight(4)
<1>1. LittleEndian(Pack(2, n)) = ((n \div Weight(1)) % Byte) * Weight(1) + (n % Byte)
  <2> DEFINE s == Pack(2, n)
  <2>1. /\ s \in Seq(Digit) /\ Len(s) = 2
        /\ \A k \in 1 .. 2 : s[k] = (n \div Weight(k - 1)) % Byte
    BY Packed
  <2>2. s[1] = (n \div Weight(0)) % Byte /\ s[2] = (n \div Weight(1)) % Byte
    BY <2>1
  <2>3. n \div Weight(0) = n
    BY Weights
  <2> HIDE DEF s
  <2>4. LittleEndian(s) = s[2] * Weight(1) + s[1]
    BY <2>1, LowestFirst
  <2> QED BY <2>2, <2>3, <2>4 DEF s
<1>2. LittleEndian(Pack(4, n)) =
        ((n \div Weight(3)) % Byte) * Weight(3) + ((n \div Weight(2)) % Byte) * Weight(2)
          + ((n \div Weight(1)) % Byte) * Weight(1) + (n % Byte)
  <2> DEFINE s == Pack(4, n)
  <2>1. /\ s \in Seq(Digit) /\ Len(s) = 4
        /\ \A k \in 1 .. 4 : s[k] = (n \div Weight(k - 1)) % Byte
    BY Packed
  <2>2. /\ s[1] = (n \div Weight(0)) % Byte /\ s[2] = (n \div Weight(1)) % Byte
        /\ s[3] = (n \div Weight(2)) % Byte /\ s[4] = (n \div Weight(3)) % Byte
    BY <2>1
  <2>3. n \div Weight(0) = n
    BY Weights
  <2> HIDE DEF s
  <2>4. LittleEndian(s) = s[4] * Weight(3) + s[3] * Weight(2) + s[2] * Weight(1) + s[1]
    BY <2>1, LowestFirst
  <2> QED BY <2>2, <2>3, <2>4 DEF s
<1>3. LittleEndian(Pack(2, n)) = n % Weight(2)
  BY <1>1, LowDigits
<1>4. LittleEndian(Pack(4, n)) = n % Weight(4)
  <2> DEFINE d1 == ((n \div Weight(1)) % Byte) * Weight(1)
             d2 == ((n \div Weight(2)) % Byte) * Weight(2)
             d3 == ((n \div Weight(3)) % Byte) * Weight(3)
  <2>1. n % Byte \in Int /\ d1 \in Int /\ d2 \in Int /\ d3 \in Int
    <3>1. ASSUME NEW d \in Nat \ {0} PROVE ((n \div d) % Byte) * d \in Int
      <4>1. n \div d \in Int
        BY <3>1, Divided
      <4>2. (n \div d) % Byte \in Int
        BY <4>1, Weights, Divided
      <4> QED BY <3>1, <4>2
    <3>2. n % Byte \in Int
      BY Weights, Divided
    <3> QED BY <3>1, <3>2, Weights
  <2>2. /\ n % Weight(2) = d1 + (n % Byte)
        /\ n % Weight(3) = d2 + (n % Weight(2))
        /\ n % Weight(4) = d3 + (n % Weight(3))
    BY LowDigits
  <2>3. LittleEndian(Pack(4, n)) = d3 + d2 + d1 + (n % Byte)
    BY <1>2
  <2> HIDE DEF d1, d2, d3
  <2> QED BY <2>1, <2>2, <2>3
<1> QED BY <1>3, <1>4

LEMMA FitsAsItIs ==
  ASSUME NEW m \in Nat \ {0}, NEW n \in 0 .. m - 1
  PROVE  n % m = n
<1>1. (0 * m + n) % m = n
  BY Composed
<1> QED BY <1>1

-----------------------------------------------------------------------------
(* Parts of a file                                                         *)

Bytes(n) == {s \in Seq(Digit) : Len(s) = n}

LEMMA PackedBytes ==
  ASSUME NEW size \in {2, 4}, NEW n \in Int
  PROVE  Pack(size, n) \in Bytes(size)
BY Packed DEF Bytes

LEMMA Joined ==
  ASSUME NEW m \in Nat, NEW n \in Nat, NEW s \in Bytes(m), NEW t \in Bytes(n)
  PROVE  s \o t \in Bytes(m + n)
<1>1. \A u, v \in Seq(Digit) : u \o v \in Seq(Digit) /\ Len(u \o v) = Len(u) + Len(v)
  OBVIOUS
<1> QED BY <1>1 DEF Bytes

\* SubSeq, by a name of which the provers expand nothing.
Part(s, i, j) == SubSeq(s, i, j)

\* What is in front of t is as it was, and behind s is t.
LEMMA InFront ==
  ASSUME NEW m \in Nat, NEW n \in Nat, NEW s \in Bytes(m), NEW t \in Bytes(n),
         NEW i \in 1 .. m, NEW j \in 1 .. m
  PROVE  Part(s \o t, i, j) = Part(s, i, j)
BY SubSeqOfConcat1 DEF Bytes, Part

LEMMA Behind ==
  ASSUME NEW m \in Nat, NEW n \in Nat \ {0}, NEW s \in Bytes(m), NEW t \in Bytes(n)
  PROVE  Part(s \o t, m + 1, m + n) = t
<1>1. \A u, v \in Seq(Digit) :
        Len(v) > 0 => SubSeq(u \o v, Len(u) + 1, Len(u) + Len(v)) = v
  <2>1. ASSUME NEW u \in Seq(Digit), NEW v \in Seq(Digit), Len(v) > 0
        PROVE  SubSeq(u \o v, Len(u) + 1, Len(u) + Len(v)) = v
    <3>1. SubSeq(u \o v, Len(u) + 1, Len(u) + Len(v)) = SubSeq(v, 1, Len(v))
      BY <2>1, SubSeqOfConcat2
    <3> QED BY <3>1, SubSeqFull
  <2> QED BY <2>1
<1> QED BY <1>1 DEF Bytes, Part

LEMMA Whole ==
  ASSUME NEW n \in Nat, NEW s \in Bytes(n)
  PROVE  Part(s, 1, n) = s
BY SubSeqFull DEF Bytes, Part

\* The fields of a callable.
LEMMA FuncParts ==
  ASSUME NEW e \in Int, NEW a \in Int, NEW r \in Int
  PROVE  /\ Part(FuncBytes(e, a, r), 1, 4) = Pack(4, e)
         /\ Part(FuncBytes(e, a, r), 5, 6) = Pack(2, a)
         /\ Part(FuncBytes(e, a, r), 7, 8) = Pack(2, r)
<1> DEFINE p == Pack(4, e)
           q == Pack(2, a)
           s == Pack(2, r)
<1>1. p \in Bytes(4) /\ q \in Bytes(2) /\ s \in Bytes(2)
  BY PackedBytes
<1>2. FuncBytes(e, a, r) = (p \o q) \o s
  BY DEF FuncBytes
<1> HIDE DEF p, q, s
<1>3. p \o q \in Bytes(6)
  <2>1. p \o q \in Bytes(4 + 2)
    BY <1>1, Joined
  <2> QED BY <2>1
<1>4. Part((p \o q) \o s, 1, 4) = p
  <2>1. Part((p \o q) \o s, 1, 4) = Part(p \o q, 1, 4)
    BY <1>1, <1>3, InFront
  <2>2. Part(p \o q, 1, 4) = Part(p, 1, 4)
    BY <1>1, InFront
  <2> QED BY <1>1, <2>1, <2>2, Whole
<1>5. Part((p \o q) \o s, 5, 6) = q
  <2>1. Part((p \o q) \o s, 5, 6) = Part(p \o q, 5, 6)
    BY <1>1, <1>3, InFront
  <2>2. Part(p \o q, 4 + 1, 4 + 2) = q
    BY <1>1, Behind
  <2> QED BY <2>1, <2>2
<1>6. Part((p \o q) \o s, 7, 8) = s
  <2>1. Part((p \o q) \o s, 6 + 1, 6 + 2) = s
    BY <1>1, <1>3, Behind
  <2> QED BY <2>1
<1> QED BY <1>2, <1>4, <1>5, <1>6 DEF p, q, s

\* The counts of the header, behind the magic, the version and the flags.
LEMMA HeaderParts ==
  ASSUME NEW n \in Int, NEW c \in Int, NEW g \in Int
  PROVE  /\ Part(HeaderBytes(n, c, g), 5, 8) = Pack(4, n)
         /\ Part(HeaderBytes(n, c, g), 9, 12) = Pack(4, c)
         /\ Part(HeaderBytes(n, c, g), 13, 16) = Pack(4, g)
<1> DEFINE p == Pack(4, n)
           q == Pack(4, c)
           s == Pack(4, g)
           h == Pack(2, 1) \o Pack(2, 0)
<1>1. p \in Bytes(4) /\ q \in Bytes(4) /\ s \in Bytes(4)
  BY PackedBytes
<1>2. h \in Bytes(4)
  <2>1. Pack(2, 1) \in Bytes(2) /\ Pack(2, 0) \in Bytes(2)
    BY PackedBytes
  <2>2. h \in Bytes(2 + 2)
    BY <2>1, Joined
  <2> QED BY <2>2
<1>3. HeaderBytes(n, c, g) = ((h \o p) \o q) \o s
  BY DEF HeaderBytes
<1> HIDE DEF p, q, s, h
<1>4. h \o p \in Bytes(8) /\ (h \o p) \o q \in Bytes(12)
  <2>1. h \o p \in Bytes(4 + 4)
    BY <1>1, <1>2, Joined
  <2>2. h \o p \in Bytes(8)
    BY <2>1
  <2>3. (h \o p) \o q \in Bytes(8 + 4)
    BY <1>1, <2>2, Joined
  <2> QED BY <2>2, <2>3
<1>5. Part(((h \o p) \o q) \o s, 5, 8) = p
  <2>1. Part(((h \o p) \o q) \o s, 5, 8) = Part((h \o p) \o q, 5, 8)
    BY <1>1, <1>4, InFront
  <2>2. Part((h \o p) \o q, 5, 8) = Part(h \o p, 5, 8)
    BY <1>1, <1>4, InFront
  <2>3. Part(h \o p, 4 + 1, 4 + 4) = p
    BY <1>1, <1>2, Behind
  <2> QED BY <2>1, <2>2, <2>3
<1>6. Part(((h \o p) \o q) \o s, 9, 12) = q
  <2>1. Part(((h \o p) \o q) \o s, 9, 12) = Part((h \o p) \o q, 9, 12)
    BY <1>1, <1>4, InFront
  <2>2. Part((h \o p) \o q, 8 + 1, 8 + 4) = q
    BY <1>1, <1>4, Behind
  <2> QED BY <2>1, <2>2
<1>7. Part(((h \o p) \o q) \o s, 13, 16) = s
  <2>1. Part(((h \o p) \o q) \o s, 12 + 1, 12 + 4) = s
    BY <1>1, <1>4, Behind
  <2> QED BY <2>1
<1> QED BY <1>3, <1>5, <1>6, <1>7 DEF p, q, s

-----------------------------------------------------------------------------
(* Words                                                                   *)

LEMMA OpKnown ==
  ASSUME NEW op \in DOMAIN OpNumber
  PROVE  OpNumber[op] \in Digit /\ OpName(OpNumber[op]) = op
<1>1. DOMAIN OpNumber = {"HALT", "PANIC", "JMP", "JMPIF", "JMPIFZ", "COPY", "MOVE", "LOADI"}
  BY DEF OpNumber
<1>2. OpNumber[op] \in 0 .. 7
  BY <1>1 DEF OpNumber
<1>3. \A other \in DOMAIN OpNumber : OpNumber[other] = OpNumber[op] => other = op
  BY <1>1 DEF OpNumber
<1>4. OpName(OpNumber[op]) = op
  BY <1>3 DEF OpName
<1> QED BY <1>2, <1>4, Weights DEF Digit

\* The three and the two low bytes of an instruction.
Low3(a, b, c) == (a % Byte) * Weight(2) + (b % Byte) * Weight(1) + (c % Byte)
Low2(b, c)    == (b % Byte) * Weight(1) + (c % Byte)

\* What the machine and the disassembler make of a word that ins made.
LEMMA Decoded ==
  ASSUME NEW op \in DOMAIN OpNumber, NEW a \in Int, NEW b \in Int, NEW c \in Int
  PROVE  /\ LittleEndian(Pack(4, Ins(op, a, b, c))) = Ins(op, a, b, c)
         /\ WordOf(Ins(op, a, b, c)) =
              Meaning(op, a % Byte, b % Byte, c % Byte,
                      Signed(Low3(a, b, c), 3), Signed(Low2(b, c), 2))
         /\ Format(Ins(op, a, b, c)) =
              Meaning(op, a % Byte, b % Byte, c % Byte, Signed(Low3(a, b, c), 3),
                      IF op \in Conditional THEN c % Byte ELSE Signed(Low2(b, c), 2))
<1> DEFINE o == OpNumber[op]
           x == a % Byte
           y == b % Byte
           z == c % Byte
           w == Word(o, x, y, z)
<1>1. o \in Digit /\ OpName(o) = op
  BY OpKnown
<1>2. x \in Digit /\ y \in Digit /\ z \in Digit
  BY Weights, Divided DEF Digit
<1>3. Ins(op, a, b, c) = w
  BY Weights DEF Ins, Word
<1>4. Low3(a, b, c) = x * Weight(2) + y * Weight(1) + z /\ Low2(b, c) = y * Weight(1) + z
  BY DEF Low3, Low2
<1> HIDE DEF o, x, y, z
<1>5. /\ w \in U32
      /\ Field(w, 3, 1) = o /\ Field(w, 2, 1) = x /\ Field(w, 1, 1) = y /\ Field(w, 0, 1) = z
      /\ Field(w, 0, 2) = Low2(b, c) /\ Field(w, 0, 3) = Low3(a, b, c)
  BY <1>1, <1>2, <1>4, Fields
<1> HIDE DEF w
<1>6. w \in 0 .. Weight(4) - 1 /\ w \in Int
  <2>1. Weight(4) \in Nat
    BY Weights
  <2> QED BY <1>5, <2>1 DEF U32
<1>7. LittleEndian(Pack(4, w)) = w
  <2>1. Weight(4) \in Nat \ {0}
    BY Weights
  <2>2. LittleEndian(Pack(4, w)) = w % Weight(4)
    BY <1>6, Unpacked
  <2> QED BY <1>6, <2>1, <2>2, FitsAsItIs
<1>8. /\ SignedField(w, 3) = Signed(Low3(a, b, c), 3)
      /\ SignedField(w, 2) = Signed(Low2(b, c), 2)
  <2>1. SignedField(w, 3) = Signed(Field(w, 0, 3), 3) /\ SignedField(w, 2) = Signed(Field(w, 0, 2), 2)
    BY <1>6, SignExtends
  <2> QED BY <1>5, <2>1
<1>9. WordOf(w) = Meaning(op, x, y, z, Signed(Low3(a, b, c), 3), Signed(Low2(b, c), 2))
  BY <1>1, <1>5, <1>8 DEF WordOf
<1>10. Format(w) = Meaning(op, x, y, z, Signed(Low3(a, b, c), 3),
                           IF op \in Conditional THEN z ELSE Signed(Low2(b, c), 2))
  BY <1>1, <1>5 DEF Format, Offset
<1> QED BY <1>3, <1>7, <1>9, <1>10 DEF x, y, z

\* The signed 16 bits are the low byte alone if and only if the other is zero.
LEMMA HighByte ==
  ASSUME NEW b \in Digit, NEW c \in Digit
  PROVE  Signed(b * Weight(1) + c, 2) = c <=> b = 0
<1>1. /\ Byte \in Nat /\ Byte >= 8 /\ Weight(1) = Byte /\ Weight(2) = Byte * Byte
      /\ b \in 0 .. Byte - 1 /\ c \in 0 .. Byte - 1
  BY Weights DEF Digit
<1>2. CASE b = 0
  <2>1. b * Weight(1) + c = c
    BY <1>1, <1>2
  <2>2. 2 * c < Byte * Byte
    <3>1. 8 * Byte <= Byte * Byte
      BY <1>1
    <3> QED BY <1>1, <3>1
  <2> QED BY <1>1, <1>2, <2>1, <2>2 DEF Signed
<1>3. CASE b # 0
  <2> DEFINE low == b * Weight(1) + c
  <2>1. low \in 0 .. Byte * Byte - 1
    <3>1. b * Byte + c \in 0 .. Byte * Byte - 1
      BY <1>1, InPlace
    <3> QED BY <1>1, <3>1
  <2>2. low > c
    <3>1. b * Byte >= Byte
      BY <1>1, <1>3
    <3> QED BY <1>1, <3>1
  <2> HIDE DEF low
  <2>3. Byte * Byte \in Nat
    BY <1>1
  <2>4. Signed(low, 2) = IF 2 * low >= Byte * Byte THEN low - Byte * Byte ELSE low
    BY <1>1 DEF Signed
  <2>5. Signed(low, 2) # c
    BY <1>1, <2>1, <2>2, <2>3, <2>4
  <2> QED BY <1>3, <2>5 DEF low
<1> QED BY <1>2, <1>3

-----------------------------------------------------------------------------
(* What is asked for, and what becomes of it                               *)

LEMMA MeaningOf ==
  ASSUME NEW op \in DOMAIN OpNumber, NEW a, NEW b, NEW c, NEW imm24, NEW imm16
  PROVE  /\ op = "JMP" => Meaning(op, a, b, c, imm24, imm16) = [op |-> op, n |-> imm24]
         /\ op \in Conditional \cup {"LOADI"} =>
              Meaning(op, a, b, c, imm24, imm16) = [op |-> op, r |-> a, n |-> imm16]
         /\ op \notin Conditional \cup {"LOADI"} =>
              \A other : Meaning(op, a, b, c, imm24, other) = Meaning(op, a, b, c, imm24, imm16)
<1>1. op \in {"HALT", "PANIC", "JMP", "JMPIF", "JMPIFZ", "COPY", "MOVE", "LOADI"}
  BY DEF OpNumber
<1>2. ASSUME op = "JMP"
      PROVE  Meaning(op, a, b, c, imm24, imm16) = [op |-> op, n |-> imm24]
  BY <1>2 DEF Meaning, Conditional
<1>3. ASSUME op \in Conditional \cup {"LOADI"}
      PROVE  Meaning(op, a, b, c, imm24, imm16) = [op |-> op, r |-> a, n |-> imm16]
  BY <1>3 DEF Meaning, Conditional
<1>4. ASSUME op \notin Conditional \cup {"LOADI"}, NEW other
      PROVE  Meaning(op, a, b, c, imm24, other) = Meaning(op, a, b, c, imm24, imm16)
  <2>1. op \in {"HALT", "PANIC", "JMP", "COPY", "MOVE"}
    BY <1>1, <1>4 DEF Conditional
  <2> QED BY <2>1 DEF Meaning, Conditional
<1> QED BY <1>2, <1>3, <1>4

\* An immediate that fits comes back from the three low bytes, or from two.
LEMMA LowBytes ==
  ASSUME NEW n \in Int
  PROVE  /\ Low3(n \div Weight(2), n \div Byte, n) = n % Weight(3)
         /\ Low2(n \div Byte, n) = n % Weight(2)
<1> DEFINE d1 == ((n \div Weight(1)) % Byte) * Weight(1)
           d2 == ((n \div Weight(2)) % Byte) * Weight(2)
<1>1. /\ n % Weight(1) = n % Byte
      /\ n % Weight(2) = d1 + (n % Weight(1))
      /\ n % Weight(3) = d2 + (n % Weight(2))
  BY LowDigits
<1>2. ASSUME NEW d \in Nat \ {0} PROVE ((n \div d) % Byte) * d \in Int
  <2>1. n \div d \in Int
    BY <1>2, Divided
  <2>2. (n \div d) % Byte \in Int
    BY <2>1, Weights, Divided
  <2> QED BY <1>2, <2>2
<1>3. d1 \in Int /\ d2 \in Int /\ n % Byte \in Int
  <2>1. Weight(1) \in Nat \ {0} /\ Weight(2) \in Nat \ {0} /\ Byte \in Nat \ {0}
    BY Weights
  <2>2. n % Byte \in Int
    BY <2>1, Divided
  <2> QED BY <1>2, <2>1, <2>2
<1>4. Low2(n \div Byte, n) = d1 + (n % Byte) /\ Low3(n \div Weight(2), n \div Byte, n) = d2 + d1 + (n % Byte)
  <2>1. Weight(1) = Byte
    BY Weights
  <2> QED BY <2>1 DEF Low2, Low3
<1> HIDE DEF d1, d2
<1> QED BY <1>1, <1>3, <1>4

\* A helper is ins with these fields.
FieldB(op, n) == IF op \in Conditional THEN 0 ELSE n \div Byte
FieldA(op, r, n) == IF op = "JMP" THEN n \div Weight(2) ELSE r

Helpers == {"JMP", "JMPIF", "JMPIFZ", "LOADI"}

LEMMA HelperIsIns ==
  ASSUME NEW op \in Helpers, NEW r \in Int, NEW n \in Int
  PROVE  /\ HelperWord(op, r, n) = Ins(op, FieldA(op, r, n), FieldB(op, n), n)
         /\ FieldA(op, r, n) \in Int /\ FieldB(op, n) \in Int
<1>1. n \div Weight(2) \in Int /\ n \div Byte \in Int
  BY Weights, Divided
<1>2. HelperWord(op, r, n) = Ins(op, FieldA(op, r, n), FieldB(op, n), n)
  <2>1. CASE op = "JMP"     BY <2>1 DEF HelperWord, FieldA, FieldB, Conditional
  <2>2. CASE op = "LOADI"   BY <2>2 DEF HelperWord, FieldA, FieldB, Conditional
  <2>3. CASE op \in Conditional BY <2>3 DEF HelperWord, FieldA, FieldB, Conditional
  <2> QED BY <2>1, <2>2, <2>3 DEF Conditional, Helpers
<1> QED BY <1>1, <1>2 DEF FieldA, FieldB

-----------------------------------------------------------------------------
(* The invariant: the bytes are those of what was asked for, and what was  *)
(* read and printed is what those bytes stand for.                         *)

Encoded ==
  CASE asked.kind = "ins"    -> Pack(4, Ins(asked.op, asked.a, asked.b, asked.c))
    [] asked.kind = "helper" -> Pack(4, HelperWord(asked.op, asked.r, asked.n))
    [] asked.kind = "func"   -> FuncBytes(asked.entry, asked.argc, asked.regc)
    [] asked.kind = "header" -> HeaderBytes(asked.count, asked.consts, asked.globals)

Taken(bytes) ==
  CASE asked.kind \in {"ins", "helper"} -> WordOf(Native(bytes))
    [] asked.kind = "func"              -> FuncOf(bytes)
    [] asked.kind = "header"            -> HeaderOf(bytes)

Printed(bytes) ==
  CASE asked.kind \in {"ins", "helper"} -> Format(LittleEndian(bytes))
    [] asked.kind = "func" ->
         [entry |-> LittleEndian(Part(bytes, 1, 4)), argc |-> LittleEndian(Part(bytes, 5, 6)),
          regc |-> LittleEndian(Part(bytes, 7, 8))]
    [] asked.kind = "header" ->
         [count |-> LittleEndian(Part(bytes, 5, 8)), consts |-> LittleEndian(Part(bytes, 9, 12)),
          globals |-> LittleEndian(Part(bytes, 13, 16))]

EncodingInv ==
  /\ asked \in Asked
  /\ file # Nothing => file = Encoded
  /\ ran # Nothing => ran = Taken(Encoded)
  /\ shown # Nothing => shown = Printed(Encoded)

LEMMA EncodingStep ==
  ASSUME EncodingInv, [Next]_vars
  PROVE  EncodingInv'
<1>1. asked' = asked /\ host' = host
  BY DEF Next, Write, Run, Disassemble, Terminated, vars
<1>2. Encoded' = Encoded
  BY <1>1 DEF Encoded
<1>3. Taken(Encoded)' = Taken(Encoded) /\ Printed(Encoded)' = Printed(Encoded)
  BY <1>1, <1>2 DEF Taken, Printed, FuncOf, HeaderOf, Native
<1>4. CASE Write
  BY <1>1, <1>2, <1>3, <1>4 DEF Write, EncodingInv, Encoded
<1>5. CASE Run
  <2>1. ran' = Taken(file)
    BY <1>5 DEF Run, Taken
  <2> QED BY <1>1, <1>2, <1>3, <1>5, <2>1 DEF Run, EncodingInv
<1>6. CASE Disassemble
  <2>1. shown' = Printed(file)
    BY <1>6 DEF Disassemble, Printed, Part
  <2> QED BY <1>1, <1>2, <1>3, <1>6, <2>1 DEF Disassemble, EncodingInv
<1>7. CASE UNCHANGED vars
  BY <1>1, <1>2, <1>3, <1>7 DEF EncodingInv, vars
<1> QED BY <1>4, <1>5, <1>6, <1>7 DEF Next, Terminated

-----------------------------------------------------------------------------
(* The theorems                                                            *)

\* The file holds what the author asked for, and the machine and the disassembler
\* say what its bytes mean to them.
THEOREM EncodingInvariant == Spec => []EncodingInv
<1>1. Init => EncodingInv
  BY DEF Init, EncodingInv
<1>2. EncodingInv /\ [Next]_vars => EncodingInv'
  BY EncodingStep
<1> QED BY <1>1, <1>2, PTL DEF Spec

\* An instruction of a helper, as the machine and the disassembler take it.
LEMMA HelperTaken ==
  ASSUME asked \in Helped, host = "little"
  PROVE  /\ asked.op = "JMP" =>
              Taken(Encoded) = [op |-> asked.op, n |-> Signed(asked.n % Weight(3), 3)]
         /\ asked.op = "LOADI" =>
              Taken(Encoded) = [op |-> asked.op, r |-> asked.r % Byte,
                                n |-> Signed(asked.n % Weight(2), 2)]
         /\ asked.op \in Conditional =>
              Taken(Encoded) = [op |-> asked.op, r |-> asked.r % Byte, n |-> asked.n % Byte]
         /\ Printed(Encoded) = Taken(Encoded)
<1> DEFINE op == asked.op
           n  == asked.n
           a  == FieldA(op, asked.r, n)
           b  == FieldB(op, n)
           w  == Ins(op, a, b, n)
           imm16 == Signed(Low2(b, n), 2)
           imm24 == Signed(Low3(a, b, n), 3)
<1>1. /\ asked.kind = "helper" /\ op \in Helpers
      /\ asked.r \in Int /\ n \in Int
  BY DEF Helped, Helpers
<1>2. op \in DOMAIN OpNumber
  BY <1>1 DEF OpNumber, Helpers
<1>3. HelperWord(op, asked.r, n) = w /\ a \in Int /\ b \in Int
  <2> HIDE DEF op, n
  <2> QED BY <1>1, HelperIsIns
<1>4. Encoded = Pack(4, w)
  BY <1>1, <1>3 DEF Encoded
<1>5. Taken(Encoded) = WordOf(LittleEndian(Encoded)) /\ Printed(Encoded) = Format(LittleEndian(Encoded))
  BY <1>1 DEF Taken, Printed, Native
<1> HIDE DEF op, n, a, b
<1>6. /\ LittleEndian(Pack(4, w)) = w
      /\ WordOf(w) = Meaning(op, a % Byte, b % Byte, n % Byte, imm24, imm16)
      /\ Format(w) = Meaning(op, a % Byte, b % Byte, n % Byte, imm24,
                             IF op \in Conditional THEN n % Byte ELSE imm16)
  BY <1>1, <1>2, <1>3, Decoded
<1> HIDE DEF w, imm24, imm16
<1>7. CASE op = "JMP"
  <2>1. a = n \div Weight(2) /\ b = n \div Byte /\ op \notin Conditional
    BY <1>7 DEF a, b, FieldA, FieldB, Conditional
  <2>2. imm24 = Signed(n % Weight(3), 3)
    BY <1>1, <2>1, LowBytes DEF imm24
  <2>3. Meaning(op, a % Byte, b % Byte, n % Byte, imm24, imm16) = [op |-> op, n |-> imm24]
    BY <1>2, <1>7, MeaningOf
  <2> QED BY <1>4, <1>5, <1>6, <1>7, <2>1, <2>2, <2>3 DEF op, n, Conditional
<1>8. CASE op = "LOADI"
  <2>1. a = asked.r /\ b = n \div Byte /\ op \notin Conditional
    BY <1>8 DEF a, b, FieldA, FieldB, Conditional
  <2>2. imm16 = Signed(n % Weight(2), 2)
    BY <1>1, <2>1, LowBytes DEF imm16
  <2>3. Meaning(op, a % Byte, b % Byte, n % Byte, imm24, imm16)
         = [op |-> op, r |-> a % Byte, n |-> imm16]
    BY <1>2, <1>8, MeaningOf
  <2> QED BY <1>4, <1>5, <1>6, <1>8, <2>1, <2>2, <2>3 DEF op, n, Conditional
<1>9. CASE op \in Conditional
  <2>1. a = asked.r /\ b = 0 /\ op # "JMP" /\ op # "LOADI"
    BY <1>9 DEF a, b, FieldA, FieldB, Conditional
  <2>2. imm16 = n % Byte
    <3>1. n % Byte \in Digit /\ 0 \in Digit /\ 0 % Byte = 0
      <4>1. n % Byte \in 0 .. Byte - 1 /\ Byte \in Nat \ {0}
        BY <1>1, Weights, Divided
      <4> QED BY <4>1, FitsAsItIs DEF Digit
    <3>2. Low2(b, n) = 0 * Weight(1) + (n % Byte)
      BY <2>1, <3>1 DEF Low2
    <3> QED BY <3>1, <3>2, HighByte DEF imm16
  <2>3. \A imm : Meaning(op, a % Byte, b % Byte, n % Byte, imm24, imm)
                  = [op |-> op, r |-> a % Byte, n |-> imm]
    BY <1>2, <1>9, MeaningOf
  <2> QED BY <1>4, <1>5, <1>6, <1>9, <2>1, <2>2, <2>3 DEF op, n
<1> QED BY <1>1, <1>7, <1>8, <1>9 DEF op, Conditional, Helpers

\* A callable, as the two take it.
LEMMA FuncTaken ==
  ASSUME asked \in Callee, host = "little"
  PROVE  /\ Taken(Encoded) = [entry |-> asked.entry, argc |-> asked.argc, regc |-> asked.regc]
         /\ Printed(Encoded) = Taken(Encoded)
<1>1. /\ asked.kind = "func" /\ asked.entry \in 0 .. Weight(4) - 1
      /\ asked.argc \in 0 .. Weight(2) - 1 /\ asked.regc \in 0 .. Weight(2) - 1
  BY DEF Callee, U16, U32
<1>2. Weight(2) \in Nat \ {0} /\ Weight(4) \in Nat \ {0}
  BY Weights
<1>3. asked.entry \in Int /\ asked.argc \in Int /\ asked.regc \in Int
  BY <1>1, <1>2
<1>4. Encoded = FuncBytes(asked.entry, asked.argc, asked.regc)
  BY <1>1 DEF Encoded
<1>5. /\ LittleEndian(Part(Encoded, 1, 4)) = asked.entry
      /\ LittleEndian(Part(Encoded, 5, 6)) = asked.argc
      /\ LittleEndian(Part(Encoded, 7, 8)) = asked.regc
  <2>1. /\ LittleEndian(Pack(4, asked.entry)) = asked.entry % Weight(4)
        /\ LittleEndian(Pack(2, asked.argc)) = asked.argc % Weight(2)
        /\ LittleEndian(Pack(2, asked.regc)) = asked.regc % Weight(2)
    BY <1>3, Unpacked
  <2>2. /\ asked.entry % Weight(4) = asked.entry /\ asked.argc % Weight(2) = asked.argc
        /\ asked.regc % Weight(2) = asked.regc
    BY <1>1, <1>2, FitsAsItIs
  <2> QED BY <1>3, <1>4, <2>1, <2>2, FuncParts
<1>6. Taken(Encoded) = [entry |-> LittleEndian(Part(Encoded, 1, 4)),
                        argc |-> LittleEndian(Part(Encoded, 5, 6)),
                        regc |-> LittleEndian(Part(Encoded, 7, 8))]
  BY <1>1 DEF Taken, FuncOf, Native, Part
<1>7. Printed(Encoded) = [entry |-> LittleEndian(Part(Encoded, 1, 4)),
                          argc |-> LittleEndian(Part(Encoded, 5, 6)),
                          regc |-> LittleEndian(Part(Encoded, 7, 8))]
  BY <1>1 DEF Printed
<1> QED BY <1>5, <1>6, <1>7

\* The header, on either host.
LEMMA HeaderTaken ==
  ASSUME asked \in Header
  PROVE  /\ Taken(Encoded) = [count |-> asked.count, consts |-> asked.consts,
                              globals |-> asked.globals]
         /\ Printed(Encoded) = Taken(Encoded)
<1>1. /\ asked.kind = "header" /\ asked.count \in 0 .. Weight(4) - 1
      /\ asked.consts \in 0 .. Weight(4) - 1 /\ asked.globals \in 0 .. Weight(4) - 1
  BY DEF Header, U32
<1>2. Weight(4) \in Nat \ {0}
  BY Weights
<1>3. asked.count \in Int /\ asked.consts \in Int /\ asked.globals \in Int
  BY <1>1, <1>2
<1>4. Encoded = HeaderBytes(asked.count, asked.consts, asked.globals)
  BY <1>1 DEF Encoded
<1>5. /\ LittleEndian(Part(Encoded, 5, 8)) = asked.count
      /\ LittleEndian(Part(Encoded, 9, 12)) = asked.consts
      /\ LittleEndian(Part(Encoded, 13, 16)) = asked.globals
  <2>1. \A n \in 0 .. Weight(4) - 1 : LittleEndian(Pack(4, n)) = n
    <3>1. TAKE n \in 0 .. Weight(4) - 1
    <3>2. n \in Int
      BY <1>2
    <3>3. LittleEndian(Pack(4, n)) = n % Weight(4)
      BY <3>2, Unpacked
    <3> QED BY <1>2, <3>3, FitsAsItIs
  <2> QED BY <1>1, <1>3, <1>4, <2>1, HeaderParts
<1>6. Taken(Encoded) = [count |-> LittleEndian(Part(Encoded, 5, 8)),
                        consts |-> LittleEndian(Part(Encoded, 9, 12)),
                        globals |-> LittleEndian(Part(Encoded, 13, 16))]
  BY <1>1 DEF Taken, HeaderOf, ReadU32, Part
<1>7. Printed(Encoded) = [count |-> LittleEndian(Part(Encoded, 5, 8)),
                          consts |-> LittleEndian(Part(Encoded, 9, 12)),
                          globals |-> LittleEndian(Part(Encoded, 13, 16))]
  BY <1>1 DEF Printed
<1> QED BY <1>5, <1>6, <1>7

\* The counts of the header reach the machine on a host of either byte order
\* (read_u32_le), whatever they are.
THEOREM HeadersArePortable == Spec => []HeaderIsPortable
<1>1. ASSUME EncodingInv, asked.kind = "header", ran # Nothing
      PROVE  ran = [count |-> asked.count, consts |-> asked.consts, globals |-> asked.globals]
  <2>1. asked \in Header
    BY <1>1, AskedAssumption DEF EncodingInv, Raw, Helped, Callee
  <2> QED BY <1>1, <2>1, HeaderTaken DEF EncodingInv
<1>2. EncodingInv => HeaderIsPortable
  BY <1>1 DEF HeaderIsPortable
<1> QED BY <1>2, EncodingInvariant, PTL

\* Whatever an author asks for runs as asked: every jump, immediate and callable
\* that fits its field, and a conditional jump exactly if its offset is one
\* unsigned byte.
THEOREM ProgramsRunAsAsked == Spec => []RunsAsAsked
<1>1. ASSUME EncodingInv, host = "little", ran # Nothing, asked.kind = "func"
      PROVE  ran = [entry |-> asked.entry, argc |-> asked.argc, regc |-> asked.regc]
  <2>1. asked \in Callee
    BY <1>1, AskedAssumption DEF EncodingInv, Raw, Helped, Header
  <2> QED BY <1>1, <2>1, FuncTaken DEF EncodingInv
<1>2. ASSUME EncodingInv, host = "little", ran # Nothing, asked.kind = "helper"
      PROVE  /\ ran.op = asked.op
             /\ asked.op = "JMP" /\ asked.n \in Imm(3) => ran.n = asked.n
             /\ asked.op = "LOADI" /\ asked.n \in Imm(2) => ran.n = asked.n
             /\ asked.op \in Conditional => (ran.n = asked.n <=> asked.n \in 0 .. Byte - 1)
             /\ asked.op # "JMP" => ran.r = asked.r % Byte
  <2>1. asked \in Helped
    BY <1>2, AskedAssumption DEF EncodingInv, Raw, Callee, Header
  <2>2. asked.op \in {"JMP", "LOADI"} \cup Conditional /\ asked.n \in Int
    BY <2>1 DEF Helped, Conditional
  <2>3. ran = Taken(Encoded)
    BY <1>2 DEF EncodingInv
  <2>4. CASE asked.op = "JMP"
    <3>1. ran = [op |-> asked.op, n |-> Signed(asked.n % Weight(3), 3)]
      BY <1>2, <2>1, <2>3, <2>4, HelperTaken
    <3>2. asked.n \in Imm(3) => Signed(asked.n % Weight(3), 3) = asked.n
      BY SignComesBack
    <3> QED BY <2>4, <3>1, <3>2 DEF Conditional
  <2>5. CASE asked.op = "LOADI"
    <3>1. ran = [op |-> asked.op, r |-> asked.r % Byte, n |-> Signed(asked.n % Weight(2), 2)]
      BY <1>2, <2>1, <2>3, <2>5, HelperTaken
    <3>2. asked.n \in Imm(2) => Signed(asked.n % Weight(2), 2) = asked.n
      BY SignComesBack
    <3> QED BY <2>5, <3>1, <3>2 DEF Conditional
  <2>6. CASE asked.op \in Conditional
    <3>1. ran = [op |-> asked.op, r |-> asked.r % Byte, n |-> asked.n % Byte]
      BY <1>2, <2>1, <2>3, <2>6, HelperTaken
    <3>2. asked.n % Byte = asked.n <=> asked.n \in 0 .. Byte - 1
      <4>1. Byte \in Nat \ {0} /\ asked.n % Byte \in 0 .. Byte - 1
        BY <2>2, Weights, Divided
      <4> QED BY <4>1, FitsAsItIs
    <3> QED BY <2>6, <3>1, <3>2 DEF Conditional
  <2> QED BY <2>2, <2>4, <2>5, <2>6
<1>3. EncodingInv => RunsAsAsked
  BY <1>1, <1>2 DEF RunsAsAsked
<1> QED BY <1>3, EncodingInvariant, PTL

\* The disassembler shows what the machine does, unless a conditional jump made
\* with ins has a high byte in its offset: then, and only then, it does not.
THEOREM ListingsAreTrue == Spec => []ShownIsRun
<1> DEFINE Misread == /\ asked.kind = "ins" /\ asked.op \in Conditional
                      /\ asked.b % Byte # 0
<1>1. ASSUME EncodingInv, host = "little", ran # Nothing, shown # Nothing
      PROVE  ran # shown <=> Misread
  <2>1. ran = Taken(Encoded) /\ shown = Printed(Encoded)
    BY <1>1 DEF EncodingInv
  <2>2. asked \in Raw \cup Helped \cup Callee \cup Header
    BY <1>1, AskedAssumption DEF EncodingInv
  <2>3. CASE asked \in Helped \cup Callee \cup Header
    <3>1. Printed(Encoded) = Taken(Encoded)
      BY <1>1, <2>3, HelperTaken, FuncTaken, HeaderTaken
    <3>2. asked.kind # "ins"
      BY <2>3 DEF Helped, Callee, Header
    <3> QED BY <2>1, <3>1, <3>2
  <2>4. CASE asked \in Raw
    <3> DEFINE op == asked.op
               w  == Ins(op, asked.a, asked.b, asked.c)
               x  == asked.a % Byte
               y  == asked.b % Byte
               z  == asked.c % Byte
               imm16 == Signed(Low2(asked.b, asked.c), 2)
               imm24 == Signed(Low3(asked.a, asked.b, asked.c), 3)
    <3>1. /\ asked.kind = "ins" /\ op \in DOMAIN OpNumber
          /\ asked.a \in Int /\ asked.b \in Int /\ asked.c \in Int
      BY <2>4 DEF Raw
    <3>2. /\ Taken(Encoded) = WordOf(LittleEndian(Pack(4, w)))
          /\ Printed(Encoded) = Format(LittleEndian(Pack(4, w)))
      BY <1>1, <3>1 DEF Taken, Printed, Native, Encoded
    <3>3. /\ LittleEndian(Pack(4, w)) = w
          /\ WordOf(w) = Meaning(op, x, y, z, imm24, imm16)
          /\ Format(w) = Meaning(op, x, y, z, imm24, IF op \in Conditional THEN z ELSE imm16)
      BY <3>1, Decoded
    <3> HIDE DEF w, imm24
    <3>4. CASE op \in Conditional
      <4>1. ran = [op |-> op, r |-> x, n |-> imm16] /\ shown = [op |-> op, r |-> x, n |-> z]
        <5>1. \A imm : Meaning(op, x, y, z, imm24, imm) = [op |-> op, r |-> x, n |-> imm]
          <6> HIDE DEF op, x, y, z, imm16
          <6> QED BY <3>1, <3>4, MeaningOf
        <5> QED BY <2>1, <3>2, <3>3, <3>4, <5>1
      <4>2. imm16 = z <=> y = 0
        <5>1. y \in Digit /\ z \in Digit
          BY <3>1, Weights, Divided DEF Digit
        <5> QED BY <5>1, HighByte DEF Low2
      <4> HIDE DEF op, x, y, z, imm16
      <4>3. ran # shown <=> imm16 # z
        BY <4>1
      <4> QED BY <3>1, <3>4, <4>2, <4>3 DEF op, y
    <3>5. CASE op \notin Conditional
      BY <2>1, <3>2, <3>3, <3>5
    <3> QED BY <3>4, <3>5
  <2> QED BY <2>2, <2>3, <2>4
<1>2. EncodingInv => ShownIsRun
  BY <1>1 DEF ShownIsRun
<1> QED BY <1>2, EncodingInvariant, PTL

=============================================================================
