---------------------------- MODULE BackoffProofs ----------------------------
(***************************************************************************)
(* The arithmetic of the backoff delay: the limbs multiply modulo 2^64,    *)
(* and the delay keeps its type for any number of restarts, is the         *)
(* documented one for the first 34, and none from the 55th on.             *)
(***************************************************************************)
EXTENDS Backoff, Induction

Word == [1..4 -> 0..(Limb - 1)]

\* The number a word stands for, without a sign.
Number(a, b, c, d) == a + Limb * (b + Limb * (c + Limb * d))
Value(x) == Number(x[1], x[2], x[3], x[4])

\* n * 2^64
Over64(n) == Limb * (Limb * (Limb * (Limb * n)))

-----------------------------------------------------------------------------
(* Multiplication.                                                         *)

\* A limb is a natural number of 16 bits.
LEMMA LimbRange == \A v \in 0..(Limb - 1) : v \in Nat /\ v < Limb
<1>1. Limb \in Nat
  BY DEF Limb
<1> QED BY <1>1

\* The limbs of a word.
LEMMA Limbs ==
  ASSUME NEW x \in Word, NEW i \in 1..4
  PROVE  x[i] \in Nat /\ x[i] < Limb
<1>1. x[i] \in 0..(Limb - 1)
  BY DEF Word
<1> QED BY <1>1, LimbRange

\* A word is determined by its limbs.
LEMMA SameLimbs ==
  ASSUME NEW x \in Word, NEW y \in Word
  PROVE  x = y <=> x[1] = y[1] /\ x[2] = y[2] /\ x[3] = y[3] /\ x[4] = y[4]
<1>1. \A i \in 1..4 : i = 1 \/ i = 2 \/ i = 3 \/ i = 4
  OBVIOUS
<1>2. ASSUME x[1] = y[1] /\ x[2] = y[2] /\ x[3] = y[3] /\ x[4] = y[4]
      PROVE  x = y
  <2>1. \A i \in 1..4 : x[i] = y[i]
    BY <1>1, <1>2
  <2> QED BY <2>1 DEF Word
<1> QED BY <1>2

\* The value of a word.
LEMMA ValueType ==
  ASSUME NEW x \in Word
  PROVE  Value(x) \in Nat
<1>1. x[1] \in Nat /\ x[2] \in Nat /\ x[3] \in Nat /\ x[4] \in Nat
  BY Limbs
<1> QED BY <1>1 DEF Value, Number, Limb

\* The product of natural numbers is one.
LEMMA Products == \A a, b \in Nat : a * b \in Nat
OBVIOUS

\* One limb of a product, and what it leaves over.
LEMMA LimbTimes ==
  ASSUME NEW a \in Nat
  PROVE  /\ a % Limb \in 0..(Limb - 1)
         /\ a \div Limb \in Nat
         /\ a = (a % Limb) + Limb * (a \div Limb)
<1>1. a % Limb \in 0..(Limb - 1)
  <2>1. a % Limb \in Nat /\ a % Limb < Limb /\ Limb \in Nat
    BY DEF Limb
  <2>. DEFINE r == a % Limb
  <2>. HIDE DEF r
  <2>2. r \in Nat /\ r < Limb /\ Limb \in Nat
    BY <2>1, Zenon DEF r
  <2>3. r \in 0..(Limb - 1)
    BY ONLY <2>2
  <2> QED BY <2>3, Zenon DEF r
<1>2. a \div Limb \in Nat
  BY DEF Limb
<1>3. a = (a % Limb) + Limb * (a \div Limb)
  BY DEF Limb
<1> QED BY <1>1, <1>2, <1>3, Zenon

\* The carries of Times, and its limbs.
LEMMA Carries ==
  ASSUME NEW x \in Word, NEW k \in Nat
  PROVE  \E c \in [0..4 -> Nat] :
           /\ c[0] = 0
           /\ \A i \in 1..4 : c[i] = (x[i] * k + c[i - 1]) \div Limb
           /\ Times(x, k) = [i \in 1..4 |-> (x[i] * k + c[i - 1]) % Limb]
<1>. DEFINE P(i) == x[i] * k
            c0 == 0
            c1 == (P(1) + c0) \div Limb
            c2 == (P(2) + c1) \div Limb
            c3 == (P(3) + c2) \div Limb
            c4 == (P(4) + c3) \div Limb
            d == [i \in 0..4 |-> CASE i = 0 -> c0 [] i = 1 -> c1 [] i = 2 -> c2
                                   [] i = 3 -> c3 [] i = 4 -> c4]
            Satisfies(f) ==
              f = [i \in 0..4 |-> IF i = 0 THEN 0 ELSE (x[i] * k + f[i - 1]) \div Limb]
            c == CHOOSE f : Satisfies(f)
<1>1. \A i \in 1..4 : P(i) \in Nat
  <2>1. \A i \in 1..4 : x[i] \in Nat
    BY Limbs
  <2> QED BY <2>1, Products
<1>2. c1 \in Nat /\ c2 \in Nat /\ c3 \in Nat /\ c4 \in Nat
  <2>. HIDE DEF P
  <2>1. c1 \in Nat
    BY <1>1, LimbTimes
  <2>2. c2 \in Nat
    <3>. HIDE DEF c1
    <3> QED BY <1>1, <2>1, LimbTimes
  <2>3. c3 \in Nat
    <3>. HIDE DEF c2
    <3> QED BY <1>1, <2>2, LimbTimes
  <2>4. c4 \in Nat
    <3>. HIDE DEF c3
    <3> QED BY <1>1, <2>3, LimbTimes
  <2> QED BY <2>1, <2>2, <2>3, <2>4
<1>3. Satisfies(d)
  <2>1. d[0] = c0 /\ d[1] = c1 /\ d[2] = c2 /\ d[3] = c3 /\ d[4] = c4
    OBVIOUS
  <2>2. \A i \in 0..4 : d[i] = IF i = 0 THEN 0 ELSE (x[i] * k + d[i - 1]) \div Limb
    <3>. HIDE DEF d
    <3>1. \A i \in 0..4 : i = 0 \/ i = 1 \/ i = 2 \/ i = 3 \/ i = 4
      OBVIOUS
    <3> QED BY <2>1, <3>1
  <2>3. d = [i \in 0..4 |-> d[i]]
    OBVIOUS
  <2>. HIDE DEF d
  <2> QED BY <2>2, <2>3
<1>4. Satisfies(c)
  <2>. HIDE DEF d, Satisfies
  <2> QED BY <1>3
<1>5. c[0] = 0 /\ \A i \in 1..4 : c[i] = (x[i] * k + c[i - 1]) \div Limb
  <2>. HIDE DEF c
  <2> QED BY <1>4
<1>6. c \in [0..4 -> Nat]
  <2>1. c[1] = c1 /\ c[2] = c2 /\ c[3] = c3 /\ c[4] = c4
    <3>. HIDE DEF c
    <3> QED BY <1>5
  <2>2. \A i \in 0..4 : c[i] \in Nat
    <3>. HIDE DEF c, c1, c2, c3, c4
    <3> QED BY <1>2, <1>5, <2>1
  <2> QED
    <3>. HIDE DEF c
    <3> QED BY <1>4, <2>2
<1>7. Times(x, k) = [i \in 1..4 |-> (x[i] * k + c[i - 1]) % Limb]
  BY Zenon DEF Times
<1>. HIDE DEF c
<1> QED BY <1>5, <1>6, <1>7

\* A product is a word again.
LEMMA TimesType ==
  ASSUME NEW x \in Word, NEW k \in Nat
  PROVE  Times(x, k) \in Word
<1>1. PICK c \in [0..4 -> Nat] :
        Times(x, k) = [i \in 1..4 |-> (x[i] * k + c[i - 1]) % Limb]
  BY Carries
<1>2. \A i \in 1..4 : x[i] * k \in Nat
  <2>1. \A i \in 1..4 : x[i] \in Nat
    BY Limbs
  <2> QED BY <2>1, Products
<1>3. \A i \in 1..4 : (x[i] * k + c[i - 1]) % Limb \in 0..(Limb - 1)
  <2>1. \A i \in 1..4 : x[i] * k + c[i - 1] \in Nat
    BY <1>2
  <2> QED BY <2>1, LimbTimes
<1> QED BY <1>1, <1>3 DEF Word

\* It is the product of the numbers, modulo 2^64.
LEMMA TimesValue ==
  ASSUME NEW x \in Word, NEW k \in Nat
  PROVE  \E over \in Nat : Value(x) * k = Value(Times(x, k)) + Over64(over)
<1>1. PICK c \in [0..4 -> Nat] :
        /\ c[0] = 0
        /\ \A i \in 1..4 : c[i] = (x[i] * k + c[i - 1]) \div Limb
        /\ Times(x, k) = [i \in 1..4 |-> (x[i] * k + c[i - 1]) % Limb]
  BY Carries
<1>. DEFINE y == Times(x, k)
<1>2. \A i \in 1..4 : x[i] \in Nat /\ x[i] * k \in Nat
  <2>1. \A i \in 1..4 : x[i] \in Nat
    BY Limbs
  <2> QED BY <2>1, Products
<1>3. \A i \in 1..4 : y[i] \in Nat /\ x[i] * k + c[i - 1] = y[i] + Limb * c[i]
  <2>1. \A i \in 1..4 : x[i] * k + c[i - 1] \in Nat
    BY <1>2
  <2>2. \A i \in 1..4 : y[i] = (x[i] * k + c[i - 1]) % Limb
    BY <1>1
  <2>. HIDE DEF y
  <2> QED BY <1>1, <2>1, <2>2, LimbTimes
<1>4. /\ x[1] * k = y[1] + Limb * c[1]
      /\ x[2] * k + c[1] = y[2] + Limb * c[2]
      /\ x[3] * k + c[2] = y[3] + Limb * c[3]
      /\ x[4] * k + c[3] = y[4] + Limb * c[4]
  <2>. HIDE DEF y
  <2>1. x[1] * k + 0 = y[1] + Limb * c[1]
    BY <1>1, <1>3
  <2> QED BY <1>2, <1>3, <2>1
<1>. DEFINE a1 == x[1] * k  a2 == x[2] * k  a3 == x[3] * k  a4 == x[4] * k
            c1 == c[1]  c2 == c[2]  c3 == c[3]  c4 == c[4]
            y1 == y[1]  y2 == y[2]  y3 == y[3]  y4 == y[4]
<1>5. Value(x) * k = a1 + Limb * (a2 + Limb * (a3 + Limb * a4))
  <2>. DEFINE b1 == x[1]  b2 == x[2]  b3 == x[3]  b4 == x[4]
  <2>1. b1 \in Nat /\ b2 \in Nat /\ b3 \in Nat /\ b4 \in Nat
    BY <1>2
  <2>2. Value(x) = b1 + Limb * (b2 + Limb * (b3 + Limb * b4))
    BY DEF Value, Number
  <2>3. (b1 + Limb * (b2 + Limb * (b3 + Limb * b4))) * k
          = b1 * k + Limb * (b2 * k + Limb * (b3 * k + Limb * (b4 * k)))
    <3>. HIDE DEF b1, b2, b3, b4
    <3> QED BY <2>1 DEF Limb
  <2> QED BY <2>2, <2>3
<1>6. /\ a1 \in Nat /\ a2 \in Nat /\ a3 \in Nat /\ a4 \in Nat
      /\ c1 \in Nat /\ c2 \in Nat /\ c3 \in Nat /\ c4 \in Nat
      /\ y1 \in Nat /\ y2 \in Nat /\ y3 \in Nat /\ y4 \in Nat
  <2>. HIDE DEF y
  <2> QED BY <1>2, <1>3
<1>7. /\ a1 = y1 + Limb * c1 /\ a2 + c1 = y2 + Limb * c2
      /\ a3 + c2 = y3 + Limb * c3 /\ a4 + c3 = y4 + Limb * c4
  BY <1>4
<1>8. a1 + Limb * (a2 + Limb * (a3 + Limb * a4))
        = y1 + Limb * (y2 + Limb * (y3 + Limb * y4)) + Over64(c4)
  <2>. HIDE DEF a1, a2, a3, a4, c1, c2, c3, c4, y1, y2, y3, y4
  <2>1. a3 + Limb * a4 + c2 = y3 + Limb * y4 + Limb * (Limb * c4)
    BY ONLY <1>6, <1>7 DEF Limb
  <2>2. a2 + Limb * (a3 + Limb * a4) + c1
          = y2 + Limb * (y3 + Limb * y4) + Limb * (Limb * (Limb * c4))
    BY ONLY <1>6, <1>7, <2>1 DEF Limb
  <2> QED BY ONLY <1>6, <1>7, <2>2 DEF Limb, Over64
<1>9. Value(y) = y1 + Limb * (y2 + Limb * (y3 + Limb * y4))
  BY DEF Value, Number
<1> QED BY <1>5, <1>6, <1>8, <1>9

\* So it is the product itself if that has 64 bits.
LEMMA TimesExact ==
  ASSUME NEW x \in Word, NEW k \in Nat, Value(x) * k < Over64(1)
  PROVE  Value(Times(x, k)) = Value(x) * k
<1>1. PICK over \in Nat : Value(x) * k = Value(Times(x, k)) + Over64(over)
  BY TimesValue
<1>2. Value(Times(x, k)) \in Nat
  BY TimesType, ValueType
<1>3. Value(x) * k \in Nat
  <2>1. Value(x) \in Nat
    BY ValueType
  <2> QED BY <2>1, Products
<1> QED BY <1>1, <1>2, <1>3 DEF Over64, Limb

\* The highest limb that differs decides which value is greater.
LEMMA Comparing ==
  ASSUME NEW x \in Word, NEW y \in Word
  PROVE  /\ Value(x) >= Value(y) <=>
              \/ x[4] > y[4]
              \/ x[4] = y[4] /\ x[3] > y[3]
              \/ x[4] = y[4] /\ x[3] = y[3] /\ x[2] > y[2]
              \/ x[4] = y[4] /\ x[3] = y[3] /\ x[2] = y[2] /\ x[1] >= y[1]
         /\ Value(x) = Value(y) => x = y
<1>. DEFINE a1 == x[1]  a2 == x[2]  a3 == x[3]  a4 == x[4]
            b1 == y[1]  b2 == y[2]  b3 == y[3]  b4 == y[4]
            m == a1 + Limb * (a2 + Limb * (a3 + Limb * a4))
            n == b1 + Limb * (b2 + Limb * (b3 + Limb * b4))
<1>1. /\ a1 \in Nat /\ a2 \in Nat /\ a3 \in Nat /\ a4 \in Nat
      /\ b1 \in Nat /\ b2 \in Nat /\ b3 \in Nat /\ b4 \in Nat
      /\ a1 < Limb /\ a2 < Limb /\ a3 < Limb /\ a4 < Limb
      /\ b1 < Limb /\ b2 < Limb /\ b3 < Limb /\ b4 < Limb
  BY Limbs
<1>2. /\ m >= n <=> \/ a4 > b4
                    \/ a4 = b4 /\ a3 > b3
                    \/ a4 = b4 /\ a3 = b3 /\ a2 > b2
                    \/ a4 = b4 /\ a3 = b3 /\ a2 = b2 /\ a1 >= b1
      /\ m = n => a1 = b1 /\ a2 = b2 /\ a3 = b3 /\ a4 = b4
  <2>. HIDE DEF a1, a2, a3, a4, b1, b2, b3, b4
  <2> QED BY <1>1 DEF Limb
<1>3. Value(x) = m /\ Value(y) = n
  BY DEF Value, Number
<1> QED BY <1>2, <1>3, SameLimbs

\* AtLeast compares the numbers, for signed words that are not negative.
LEMMA AtLeastValue ==
  ASSUME NEW x \in Word, NEW y \in Word, ~Negative(x)
  PROVE  AtLeast(x, y) <=> Value(x) >= Value(y)
<1>. DEFINE Above(i) == x[i] > y[i] /\ \A j \in (i + 1)..4 : x[j] = y[j]
<1>1. /\ Above(1) <=> x[1] > y[1] /\ x[2] = y[2] /\ x[3] = y[3] /\ x[4] = y[4]
      /\ Above(2) <=> x[2] > y[2] /\ x[3] = y[3] /\ x[4] = y[4]
      /\ Above(3) <=> x[3] > y[3] /\ x[4] = y[4]
      /\ Above(4) <=> x[4] > y[4]
  OBVIOUS
<1>2. (\E i \in 1..4 : Above(i)) <=> Above(1) \/ Above(2) \/ Above(3) \/ Above(4)
  <2>1. \A i \in 1..4 : i = 1 \/ i = 2 \/ i = 3 \/ i = 4
    OBVIOUS
  <2>. HIDE DEF Above
  <2> QED BY <2>1
<1>3. AtLeast(x, y) <=> x = y \/ \E i \in 1..4 : Above(i)
  BY Zenon DEF AtLeast
<1>. DEFINE a1 == x[1]  a2 == x[2]  a3 == x[3]  a4 == x[4]
            b1 == y[1]  b2 == y[2]  b3 == y[3]  b4 == y[4]
<1>4. /\ a1 \in Nat /\ a2 \in Nat /\ a3 \in Nat /\ a4 \in Nat
      /\ b1 \in Nat /\ b2 \in Nat /\ b3 \in Nat /\ b4 \in Nat
  BY Limbs
<1>5. x = y <=> a1 = b1 /\ a2 = b2 /\ a3 = b3 /\ a4 = b4
  BY SameLimbs
<1>6. AtLeast(x, y) <=> \/ a1 = b1 /\ a2 = b2 /\ a3 = b3 /\ a4 = b4
                        \/ a1 > b1 /\ a2 = b2 /\ a3 = b3 /\ a4 = b4
                        \/ a2 > b2 /\ a3 = b3 /\ a4 = b4
                        \/ a3 > b3 /\ a4 = b4
                        \/ a4 > b4
  <2>. HIDE DEF Above
  <2> QED BY <1>1, <1>2, <1>3, <1>5
<1>7. AtLeast(x, y) <=> \/ a4 > b4
                        \/ a4 = b4 /\ a3 > b3
                        \/ a4 = b4 /\ a3 = b3 /\ a2 > b2
                        \/ a4 = b4 /\ a3 = b3 /\ a2 = b2 /\ a1 >= b1
  <2>. HIDE DEF a1, a2, a3, a4, b1, b2, b3, b4
  <2> QED BY <1>4, <1>6
<1> QED BY <1>7, Comparing

-----------------------------------------------------------------------------
(* The delay.                                                              *)

\* Multiplication by 2^16 and by 2^34.
LEMMA Scaled ==
  ASSUME NEW a \in Nat, NEW b \in Nat, a < b
  PROVE  Limb * a < Limb * b /\ Limb * a \in Nat /\ Limb * b \in Nat
BY DEF Limb

\* A delay of 300 s is below one of two limbs.
LEMMA ScaledTwice ==
  ASSUME NEW a \in Nat
  PROVE  a * 300 <= Limb * (Limb * (4 * a)) /\ a * 300 \in Nat /\ Limb * (Limb * (4 * a)) \in Nat
BY DEF Limb

\* 2^34 seconds have no more than 64 bits.
LEMMA Magnitudes ==
  ASSUME NEW s, s = 1000 * (1000 * 1000)
  PROVE  /\ s \in Nat /\ s > 0
         /\ Limb * (Limb * (4 * s)) < Over64(1)
         /\ s * 300 < Over64(1)
<1>1. 4 * s < Limb * Limb /\ 4 * s \in Nat /\ Limb * Limb \in Nat
  BY DEF Limb
<1>2. /\ Limb * (4 * s) < Limb * (Limb * Limb)
      /\ Limb * (4 * s) \in Nat /\ Limb * (Limb * Limb) \in Nat
  BY <1>1, Scaled
<1>3. /\ Limb * (Limb * (4 * s)) < Limb * (Limb * (Limb * Limb))
      /\ Limb * (Limb * (Limb * Limb)) \in Nat
  BY <1>2, Scaled
<1>4. Over64(1) = Limb * (Limb * (Limb * Limb))
  BY DEF Over64, Limb
<1>5. s \in Nat /\ s > 0
  OBVIOUS
<1>6. s * 300 <= Limb * (Limb * (4 * s)) /\ s * 300 \in Nat /\ Limb * (Limb * (4 * s)) \in Nat
  BY <1>5, ScaledTwice
<1>. DEFINE p == Limb * (Limb * (4 * s))  q == s * 300  r == Over64(1)
<1>7. p < r /\ q <= p /\ p \in Nat /\ q \in Nat /\ r \in Nat
  BY <1>3, <1>4, <1>6
<1>8. q < r
  <2>. HIDE DEF p, q, r
  <2> QED BY <1>7
<1> QED BY <1>5, <1>7, <1>8

\* A second, the cap, and what a float64 out of range becomes on amd64.
LEMMA Constants ==
  /\ Zero \in Word /\ Second \in Word /\ MinusSecond \in Word /\ maxDelayTime \in Word
  /\ Value(Second) = 1000 * (1000 * 1000)
  /\ Value(maxDelayTime) = Value(Second) * 300
<1>1. Zero \in Word /\ Second \in Word /\ MinusSecond \in Word
  <2>1. \A a, b, c, d \in 0..(Limb - 1) : <<a, b, c, d>> \in Word
    BY DEF Word
  <2>2. /\ 0 \in 0..(Limb - 1) /\ 51712 \in 0..(Limb - 1) /\ 15258 \in 0..(Limb - 1)
        /\ 13824 \in 0..(Limb - 1) /\ 50277 \in 0..(Limb - 1) /\ 65535 \in 0..(Limb - 1)
    BY DEF Limb
  <2> QED BY <2>1, <2>2 DEF Zero, Second, MinusSecond
<1>2. Value(Second) = 1000 * (1000 * 1000)
  BY DEF Value, Number, Second, Limb
<1>3. 300 \in Nat /\ Value(Second) * 300 < Over64(1)
  BY <1>2, Magnitudes
<1>4. maxDelayTime \in Word /\ Value(maxDelayTime) = Value(Second) * 300
  BY <1>1, <1>3, TimesType, TimesExact DEF maxDelayTime
<1> QED BY <1>1, <1>2, <1>4

\* Shifted is defined for 0..63, doubles from one number to the next, and keeps the type.
LEMMA Doubles ==
  /\ Shifted \in [0..63 -> Word]
  /\ Shifted[0] = Second
  /\ \A n \in 0..62 : Shifted[n + 1] = Times(Shifted[n], 2)
<1>. DEFINE step == [n \in Nat |-> [w \in Word |-> Times(w, 2)]]
<1>1. step \in [Nat -> [Word -> Word]]
  BY TimesType
<1>2. PICK f \in [0..63 -> Word] :
        f[0] = Second /\ \A n \in 1..63 : f[n] = Times(f[n - 1], 2)
  <2>. HIDE DEF step
  <2>1. PICK f : Iteration(f, Word, Second, step, 63)
    <3>1. Second \in Word /\ 63 \in Nat
      BY Constants
    <3> QED BY ONLY <1>1, <3>1, Iterates
  <2>2. f \in [0..63 -> Word] /\ f[0] = Second /\ \A n \in 1..63 : f[n] = step[n][f[n - 1]]
    BY <2>1, Zenon DEF Iteration
  <2>3. \A n \in 1..63 : n \in Nat /\ f[n - 1] \in Word
    BY <2>2
  <2> QED BY <2>2, <2>3 DEF step
<1>3. \A n \in 0..63 : n = 0 \/ n \in 1..63
  OBVIOUS
<1>4. f = [n \in 0..63 |-> IF n = 0 THEN Second ELSE Times(f[n - 1], 2)]
  <2>1. \A n \in 0..63 : f[n] = IF n = 0 THEN Second ELSE Times(f[n - 1], 2)
    BY <1>2, <1>3
  <2> QED BY <2>1
<1>5. Shifted = [n \in 0..63 |-> IF n = 0 THEN Second ELSE Times(Shifted[n - 1], 2)]
  BY <1>4, Zenon DEF Shifted
<1>. HIDE DEF step
<1>6. Shifted[0] = Second /\ \A n \in 0..62 : Shifted[n + 1] = Times(Shifted[n], 2)
  <2>1. \A n \in 0..62 : n + 1 \in 0..63 /\ n + 1 # 0 /\ (n + 1) - 1 = n
    OBVIOUS
  <2> QED BY <1>5, <2>1
<1>7. \A n \in 0..63 : Shifted[n] \in Word
  <2>. DEFINE T == {n \in Nat : n \in 0..63 => Shifted[n] \in Word}
  <2>1. 0 \in T
    BY <1>6, Constants
  <2>2. ASSUME NEW n \in T PROVE n + 1 \in T
    <3>1. CASE n \in 0..62
      <4>1. Shifted[n] \in Word /\ 2 \in Nat
        BY <3>1
      <4>2. Times(Shifted[n], 2) \in Word
        BY <4>1, TimesType
      <4> QED BY <1>6, <3>1, <4>2
    <3>2. CASE n \notin 0..62
      BY <3>2
    <3> QED BY <3>1, <3>2
  <2>3. T = Nat
    <3>. HIDE DEF T
    <3>1. T \in SUBSET Nat
      BY DEF T
    <3> QED BY <2>1, <2>2, <3>1, Upwards
  <2> QED BY <2>3
<1> QED BY <1>5, <1>6, <1>7

\* Every delay is a word.
LEMMA DelayType == \A n \in Nat : Product(n) \in Word /\ Delay(n) \in Word
<1>1. \A n \in Nat : n < 63 => n \in 0..63
  OBVIOUS
<1> QED BY <1>1, Constants, Doubles DEF Product, Delay

\* While there are bits enough, each step doubles the number: after eight steps it is
\* 256 times as much.
LEMMA EightDoublings ==
  ASSUME NEW n \in 0..55, Value(Shifted[n]) * 256 < Over64(1)
  PROVE  LET v(m) == Value(Shifted[m])
         IN  /\ v(n) \in Nat
             /\ v(n + 1) = v(n) * 2 /\ v(n + 2) = v(n) * 4
             /\ v(n + 3) = v(n) * 8 /\ v(n + 4) = v(n) * 16
             /\ v(n + 5) = v(n) * 32 /\ v(n + 6) = v(n) * 64
             /\ v(n + 7) = v(n) * 128 /\ v(n + 8) = v(n) * 256
<1>. DEFINE v == Value(Shifted[n])
<1>0. v \in Nat /\ v * 256 < Over64(1) /\ Over64(1) \in Nat /\ Value(Shifted[n]) = v
  <2>1. Shifted[n] \in Word
    BY Doubles
  <2> QED BY <2>1, ValueType DEF Over64, Limb
<1>. HIDE DEF v
<1>1. ASSUME NEW m \in 0..62, NEW u \in Nat, Value(Shifted[m]) = u, u * 2 < Over64(1)
      PROVE  Value(Shifted[m + 1]) = u * 2
  <2>1. Shifted[m] \in Word /\ Shifted[m + 1] = Times(Shifted[m], 2) /\ 2 \in Nat
    BY Doubles
  <2>2. Value(Shifted[m]) * 2 < Over64(1)
    BY <1>1
  <2> QED BY <1>1, <2>1, <2>2, TimesExact
<1>2. /\ v * 2 < Over64(1) /\ v * 4 < Over64(1) /\ v * 8 < Over64(1) /\ v * 16 < Over64(1)
      /\ v * 32 < Over64(1) /\ v * 64 < Over64(1) /\ v * 128 < Over64(1)
  BY <1>0
<1>3. Value(Shifted[n + 1]) = v * 2
  BY <1>0, <1>1, <1>2
<1>4. Value(Shifted[n + 2]) = v * 4
  <2>1. n + 1 \in 0..62 /\ v * 2 \in Nat /\ (v * 2) * 2 = v * 4 /\ (n + 1) + 1 = n + 2
    BY <1>0
  <2> QED BY <1>1, <1>2, <1>3, <2>1, SMTT(30)
<1>5. Value(Shifted[n + 3]) = v * 8
  <2>1. n + 2 \in 0..62 /\ v * 4 \in Nat /\ (v * 4) * 2 = v * 8 /\ (n + 2) + 1 = n + 3
    BY <1>0
  <2> QED BY <1>1, <1>2, <1>4, <2>1, SMTT(30)
<1>6. Value(Shifted[n + 4]) = v * 16
  <2>1. n + 3 \in 0..62 /\ v * 8 \in Nat /\ (v * 8) * 2 = v * 16 /\ (n + 3) + 1 = n + 4
    BY <1>0
  <2> QED BY <1>1, <1>2, <1>5, <2>1, SMTT(30)
<1>7. Value(Shifted[n + 5]) = v * 32
  <2>1. n + 4 \in 0..62 /\ v * 16 \in Nat /\ (v * 16) * 2 = v * 32 /\ (n + 4) + 1 = n + 5
    BY <1>0
  <2> QED BY <1>1, <1>2, <1>6, <2>1, SMTT(30)
<1>8. Value(Shifted[n + 6]) = v * 64
  <2>1. n + 5 \in 0..62 /\ v * 32 \in Nat /\ (v * 32) * 2 = v * 64 /\ (n + 5) + 1 = n + 6
    BY <1>0
  <2> QED BY <1>1, <1>2, <1>7, <2>1, SMTT(30)
<1>9. Value(Shifted[n + 7]) = v * 128
  <2>1. n + 6 \in 0..62 /\ v * 64 \in Nat /\ (v * 64) * 2 = v * 128 /\ (n + 6) + 1 = n + 7
    BY <1>0
  <2> QED BY <1>1, <1>2, <1>8, <2>1, SMTT(30)
<1>10. Value(Shifted[n + 8]) = v * 256
  <2>1. n + 7 \in 0..62 /\ v * 128 \in Nat /\ (v * 128) * 2 = v * 256 /\ (n + 7) + 1 = n + 8
    BY <1>0
  <2>2. (v * 128) * 2 < Over64(1)
    BY <1>0, <2>1
  <2> QED BY <1>1, <1>9, <2>1, <2>2, SMTT(30)
<1> QED BY <1>0, <1>3, <1>4, <1>5, <1>6, <1>7, <1>8, <1>9, <1>10 DEF v

\* A word of 63 bits is not negative.
LEMMA Positive ==
  ASSUME NEW x \in Word, Value(x) * 2 < Over64(1)
  PROVE  ~Negative(x)
<1>. DEFINE a1 == x[1]  a2 == x[2]  a3 == x[3]  a4 == x[4]
<1>1. a1 \in Nat /\ a2 \in Nat /\ a3 \in Nat /\ a4 \in Nat
  BY Limbs
<1>2. (a1 + Limb * (a2 + Limb * (a3 + Limb * a4))) * 2 < Over64(1)
  BY DEF Value, Number
<1>3. ~(a4 >= Limb \div 2)
  <2>. HIDE DEF a1, a2, a3, a4
  <2> QED BY <1>1, <1>2 DEF Over64, Limb
<1> QED BY <1>3 DEF Negative

\* So in eight steps it at least doubles, and stays within 256 times.
LEMMA Between ==
  ASSUME NEW n \in 0..55, Value(Shifted[n]) * 256 < Over64(1)
  PROVE  \A m \in (n + 1)..(n + 8) : /\ Value(Shifted[m]) \in Nat
                                    /\ Value(Shifted[m]) >= Value(Shifted[n]) * 2
                                    /\ Value(Shifted[m]) <= Value(Shifted[n]) * 256
<1>. DEFINE v == Value(Shifted[n])
            Doublings == {v * 2, v * 4, v * 8, v * 16, v * 32, v * 64, v * 128, v * 256}
<1>1. \A m \in (n + 1)..(n + 8) : \/ m = n + 1 \/ m = n + 2 \/ m = n + 3 \/ m = n + 4
                                 \/ m = n + 5 \/ m = n + 6 \/ m = n + 7 \/ m = n + 8
  OBVIOUS
<1>2. v \in Nat /\ \A m \in (n + 1)..(n + 8) : Value(Shifted[m]) \in Doublings
  BY <1>1, EightDoublings
<1>3. \A u \in Doublings : u \in Nat /\ u >= v * 2 /\ u <= v * 256
  <2>. HIDE DEF v
  <2> QED BY <1>2
<1>. HIDE DEF Doublings
<1> QED BY <1>2, <1>3

\* The first 34 delays, before the cap: the documented seconds, then more than the
\* cap, still without an overflow.
LEMMA Seconds ==
  LET s == Value(Second)
      v(n) == Value(Shifted[n])
  IN  /\ v(0) = s
      /\ v(1) = s * 2 /\ v(2) = s * 4 /\ v(3) = s * 8 /\ v(4) = s * 16
      /\ v(5) = s * 32 /\ v(6) = s * 64 /\ v(7) = s * 128 /\ v(8) = s * 256
      /\ \A n \in 9..33 : v(n) >= s * 512 /\ v(n) * 2 < Over64(1)
<1>. DEFINE s == Value(Second)
            v(n) == Value(Shifted[n])
            r == Over64(1)
<1>1. s \in Nat /\ s > 0 /\ Limb * (Limb * (4 * s)) < r /\ r \in Nat
  BY Constants, Magnitudes DEF Over64, Limb
<1>2. v(0) = s
  BY Doubles
<1>3. ASSUME NEW n \in 0..55, v(n) * 256 < r
      PROVE  v(n + 8) = v(n) * 256
  BY <1>3, EightDoublings
<1>4. ASSUME NEW n \in 0..55, v(n) * 256 < r
       PROVE  \A m \in (n + 1)..(n + 8) : /\ v(m) \in Nat
                                         /\ v(m) >= v(n) * 2
                                         /\ v(m) <= v(n) * 256
  BY <1>4, Between
<1>5. s * 256 < r => /\ v(0 + 1) = s * 2 /\ v(0 + 2) = s * 4 /\ v(0 + 3) = s * 8
                     /\ v(0 + 4) = s * 16 /\ v(0 + 5) = s * 32 /\ v(0 + 6) = s * 64
                     /\ v(0 + 7) = s * 128 /\ v(0 + 8) = s * 256
  BY <1>1, <1>2, EightDoublings
<1>6. ASSUME NEW n \in 0..54, NEW u \in Nat, v(n) = u, u * 2 < r
      PROVE  v(n + 1) = u * 2
  <2>1. Shifted[n] \in Word /\ Shifted[n + 1] = Times(Shifted[n], 2) /\ 2 \in Nat
    BY Doubles
  <2>2. Value(Shifted[n]) * 2 < Over64(1)
    BY <1>6
  <2> QED BY <1>6, <2>1, <2>2, TimesExact
<1>. DEFINE p == Limb * (Limb * (4 * s))
            u8 == s * 256
            u16 == u8 * 256
            u24 == u16 * 256
            u25 == u24 * 2
<1>. HIDE DEF s, v, r
<1>7. u8 \in Nat /\ u16 \in Nat /\ u24 \in Nat /\ u25 \in Nat /\ p \in Nat
  BY <1>1 DEF Limb
<1>8. u25 * 512 = p
  BY <1>1 DEF Limb
<1>. HIDE DEF p
<1>9. /\ s <= u8 /\ u8 <= u16 /\ u16 <= u24 /\ u24 <= u25
      /\ u16 >= u8 * 2 /\ u24 >= u8 * 2 /\ u25 >= u8 * 2
  BY <1>1
<1>. HIDE DEF u8, u16, u24, u25
<1>10. \A u \in {s, u8, u16, u24, u25} : u \in Nat /\ u * 512 < r /\ u * 256 < r /\ u * 2 < r
  <2>1. u25 * 512 < r
    BY <1>1, <1>8 DEF p
  <2>2. ASSUME NEW u \in Nat, u <= u25
        PROVE  u * 512 < r /\ u * 256 < r /\ u * 2 < r
    BY <1>1, <1>7, <2>1, <2>2
  <2>3. s <= u25 /\ u8 <= u25 /\ u16 <= u25 /\ u24 <= u25 /\ u25 <= u25
    BY <1>1, <1>7, <1>9
  <2> QED BY <1>1, <1>7, <2>2, <2>3
<1>11. v(8) = u8
  BY <1>5, <1>10 DEF u8
<1>12. v(16) = u16
  <2>1. v(8 + 8) = u8 * 256
    BY <1>3, <1>10, <1>11
  <2> QED BY <2>1 DEF u16
<1>13. v(24) = u24
  <2>1. v(16 + 8) = u16 * 256
    BY <1>3, <1>10, <1>12
  <2> QED BY <2>1 DEF u24
<1>14. v(25) = u25
  <2>1. v(24 + 1) = u24 * 2
    BY <1>6, <1>10, <1>13
  <2> QED BY <2>1 DEF u25
<1>15. \A n \in 9..33 : v(n) >= u8 * 2 /\ v(n) * 2 < r
  <2>1. ASSUME NEW n \in 0..55, NEW u \in {u8, u16, u24, u25}, v(n) = u
        PROVE  \A m \in (n + 1)..(n + 8) : v(m) >= u8 * 2 /\ v(m) * 2 < r
    <3>1. u \in Nat /\ u * 512 < r /\ u * 256 < r /\ u >= u8 /\ u8 \in Nat /\ r \in Nat
      BY <1>1, <1>7, <1>9, <1>10
    <3>2. \A m \in (n + 1)..(n + 8) : v(m) \in Nat /\ v(m) >= u * 2 /\ v(m) <= u * 256
      BY <1>4, <2>1, <3>1
    <3> QED BY <3>1, <3>2
  <2>2. \A m \in 9..16 : v(m) >= u8 * 2 /\ v(m) * 2 < r
    BY <1>11, <2>1
  <2>3. \A m \in 17..24 : v(m) >= u8 * 2 /\ v(m) * 2 < r
    BY <1>12, <2>1
  <2>4. \A m \in 26..33 : v(m) >= u8 * 2 /\ v(m) * 2 < r
    BY <1>14, <2>1
  <2>5. v(25) >= u8 * 2 /\ v(25) * 2 < r
    BY <1>9, <1>10, <1>14
  <2>6. \A m \in 9..33 : m \in 9..16 \/ m \in 17..24 \/ m = 25 \/ m \in 26..33
    OBVIOUS
  <2> QED BY <2>2, <2>3, <2>4, <2>5, <2>6
<1>16. u8 * 2 = s * 512
  BY <1>1 DEF u8
<1> QED BY <1>2, <1>5, <1>10, <1>15, <1>16 DEF s, v, r

\* The delay of the code is the documented one, for as long as the product of 2^n
\* seconds fits into 63 bits, or its conversion to nanoseconds into 64.
LEMMA DocumentedDelay == \A n \in 0..33 : Delay(n) = Documented(n)
<1>. DEFINE s == Value(Second)
            x(n) == Shifted[n]
<1>1. s \in Nat /\ s > 0 /\ s * 300 < Over64(1) /\ Over64(1) \in Nat
  BY Constants, Magnitudes DEF Over64, Limb
<1>2. \A n \in 0..33 : x(n) \in Word /\ Product(n) = x(n)
  BY Doubles DEF Product
<1>3. ASSUME NEW n \in 0..33, n < 9
      PROVE  Delay(n) = Documented(n)
  <2>1. \E k \in Nat : k = 2^n /\ k <= 256 /\ Value(x(n)) = s * k
    <3>1. /\ 2^0 = 1 /\ 2^1 = 2 /\ 2^2 = 4 /\ 2^3 = 8 /\ 2^4 = 16
          /\ 2^5 = 32 /\ 2^6 = 64 /\ 2^7 = 128 /\ 2^8 = 256
      OBVIOUS
    <3>2. n = 0 \/ n = 1 \/ n = 2 \/ n = 3 \/ n = 4 \/ n = 5 \/ n = 6 \/ n = 7 \/ n = 8
      BY <1>3
    <3>3. /\ Value(x(0)) = s /\ Value(x(1)) = s * 2 /\ Value(x(2)) = s * 4
          /\ Value(x(3)) = s * 8 /\ Value(x(4)) = s * 16 /\ Value(x(5)) = s * 32
          /\ Value(x(6)) = s * 64 /\ Value(x(7)) = s * 128 /\ Value(x(8)) = s * 256
      BY Seconds
    <3>. HIDE DEF s, x
    <3>4. s = s * 1
      BY <1>1
    <3>5. /\ 1 \in Nat /\ 2 \in Nat /\ 4 \in Nat /\ 8 \in Nat /\ 16 \in Nat /\ 32 \in Nat
          /\ 64 \in Nat /\ 128 \in Nat /\ 256 \in Nat /\ 1 <= 256 /\ 2 <= 256 /\ 4 <= 256
          /\ 8 <= 256 /\ 16 <= 256 /\ 32 <= 256 /\ 64 <= 256 /\ 128 <= 256 /\ 256 <= 256
      OBVIOUS
    <3>6. \A k \in {1, 2, 4, 8, 16, 32, 64, 128, 256} :
            2^n = k /\ Value(x(n)) = s * k
              => \E l \in Nat : l = 2^n /\ l <= 256 /\ Value(x(n)) = s * l
      BY <3>5
    <3>7. /\ n = 0 => 2^n = 1 /\ Value(x(n)) = s * 1
          /\ n = 1 => 2^n = 2 /\ Value(x(n)) = s * 2
          /\ n = 2 => 2^n = 4 /\ Value(x(n)) = s * 4
          /\ n = 3 => 2^n = 8 /\ Value(x(n)) = s * 8
          /\ n = 4 => 2^n = 16 /\ Value(x(n)) = s * 16
          /\ n = 5 => 2^n = 32 /\ Value(x(n)) = s * 32
          /\ n = 6 => 2^n = 64 /\ Value(x(n)) = s * 64
          /\ n = 7 => 2^n = 128 /\ Value(x(n)) = s * 128
          /\ n = 8 => 2^n = 256 /\ Value(x(n)) = s * 256
      <4>1. n = 0 => 2^n = 1 /\ Value(x(n)) = s * 1
        BY <3>1, <3>3, <3>4
      <4>2. n = 1 => 2^n = 2 /\ Value(x(n)) = s * 2
        BY <3>1, <3>3
      <4>3. n = 2 => 2^n = 4 /\ Value(x(n)) = s * 4
        BY <3>1, <3>3
      <4>4. n = 3 => 2^n = 8 /\ Value(x(n)) = s * 8
        BY <3>1, <3>3
      <4>5. n = 4 => 2^n = 16 /\ Value(x(n)) = s * 16
        BY <3>1, <3>3
      <4>6. n = 5 => 2^n = 32 /\ Value(x(n)) = s * 32
        BY <3>1, <3>3
      <4>7. n = 6 => 2^n = 64 /\ Value(x(n)) = s * 64
        BY <3>1, <3>3
      <4>8. n = 7 => 2^n = 128 /\ Value(x(n)) = s * 128
        BY <3>1, <3>3
      <4>9. n = 8 => 2^n = 256 /\ Value(x(n)) = s * 256
        BY <3>1, <3>3
      <4> QED BY <4>1, <4>2, <4>3, <4>4, <4>5, <4>6, <4>7, <4>8, <4>9
    <3> QED BY <3>2, <3>6, <3>7, ZenonT(60)
  <2>2. PICK k \in Nat : k = 2^n /\ k <= 256 /\ Value(x(n)) = s * k
    BY <2>1
  <2>3. s * k <= s * 256 /\ s * 256 < s * 300 /\ s * k \in Nat
    <3>. HIDE DEF s
    <3>1. s * k \in Nat
      BY <1>1, Products
    <3>2. \A a, b, c \in Nat : b <= c => a * b <= a * c
      OBVIOUS
    <3> QED BY <1>1, <2>2, <3>1, <3>2
  <2>4. Times(Second, k) = x(n)
    <3>1. Value(Second) * k < Over64(1)
      <4>. HIDE DEF s
      <4>1. s * k < Over64(1)
        BY <1>1, <2>3
      <4> QED BY <4>1 DEF s
    <3>2. Second \in Word /\ k \in Nat
      BY Constants
    <3>3. Value(Times(Second, k)) = Value(Second) * k
      BY <3>1, <3>2, TimesExact
    <3>4. Times(Second, k) \in Word
      BY <3>2, TimesType
    <3> QED BY <1>2, <2>2, <3>3, <3>4, Comparing
  <2>5. ~AtLeast(x(n), maxDelayTime)
    <3>1. SUFFICES ASSUME AtLeast(x(n), maxDelayTime) PROVE FALSE
      OBVIOUS
    <3>2. ~Negative(x(n))
      BY <3>1, Zenon DEF AtLeast
    <3>3. s * k >= s * 300
      BY <1>2, <2>2, <3>1, <3>2, AtLeastValue, Constants
    <3>. HIDE DEF s
    <3> QED BY <1>1, <2>3, <3>3
  <2>6. Delay(n) = x(n)
    BY <1>2, <2>5 DEF Delay
  <2>7. Documented(n) = Times(Second, k)
    BY <1>3, <2>2 DEF Documented
  <2> QED BY <2>4, <2>6, <2>7
<1>4. ASSUME NEW n \in 0..33, ~(n < 9)
      PROVE  Delay(n) = Documented(n)
  <2>1. n \in 9..33
    BY <1>4
  <2>2. Value(x(n)) >= s * 512 /\ Value(x(n)) * 2 < Over64(1) /\ Value(x(n)) \in Nat
    BY <1>2, <2>1, Seconds, ValueType
  <2>3. ~Negative(x(n))
    BY <1>2, <2>2, Positive
  <2>4. Value(x(n)) >= s * 300
    <3>. DEFINE u == Value(x(n))
    <3>. HIDE DEF s, u
    <3>1. u >= s * 512 /\ u \in Nat
      BY <2>2 DEF u
    <3>2. u >= s * 300
      BY <1>1, <3>1
    <3> QED BY <3>2 DEF u
  <2>5. AtLeast(x(n), maxDelayTime)
    BY <1>2, <2>3, <2>4, AtLeastValue, Constants
  <2>6. Delay(n) = maxDelayTime
    BY <1>2, <2>5 DEF Delay
  <2> QED BY <1>4, <2>6 DEF Documented, maxDelayTime
<1> QED BY <1>3, <1>4

-----------------------------------------------------------------------------
(* The delay when the product has overflowed.                              *)

Multiples(c) == {c * k : k \in Nat}

\* How products of natural numbers are regrouped.
LEMMA Regroup ==
  \A a, b, e \in Nat : (a * b) * e = a * (b * e) /\ a * b = b * a /\ a * b \in Nat
OBVIOUS

\* A word has no more than 64 bits, and one with the highest bit set is negative.
LEMMA WordBound ==
  ASSUME NEW x \in Word
  PROVE  /\ Value(x) \in Nat /\ Value(x) < Over64(1) /\ Over64(1) \in Nat
         /\ Value(x) * 2 >= Over64(1) => Negative(x)
<1>. DEFINE a1 == x[1]  a2 == x[2]  a3 == x[3]  a4 == x[4]
            v == a1 + Limb * (a2 + Limb * (a3 + Limb * a4))
<1>1. /\ a1 \in Nat /\ a2 \in Nat /\ a3 \in Nat /\ a4 \in Nat
      /\ a1 < Limb /\ a2 < Limb /\ a3 < Limb /\ a4 < Limb
  BY Limbs
<1>2. v < Over64(1) /\ Over64(1) \in Nat /\ (v * 2 >= Over64(1) => a4 >= Limb \div 2)
  <2>1. Limb \div 2 = 32768
    BY DEF Limb
  <2>. HIDE DEF a1, a2, a3, a4
  <2>. DEFINE l2 == Limb * Limb  l3 == Limb * l2
  <2>2. a3 + Limb * a4 < l2 /\ a3 + Limb * a4 \in Nat /\ l2 \in Nat
    BY <1>1 DEF Limb
  <2>3. a2 + Limb * (a3 + Limb * a4) < l3 /\ a2 + Limb * (a3 + Limb * a4) \in Nat /\ l3 \in Nat
    <3>. DEFINE b == a3 + Limb * a4
    <3>. HIDE DEF b, l2
    <3> QED BY <1>1, <2>2 DEF Limb, b
  <2>4. v < Limb * l3 /\ Limb * l3 \in Nat
    <3>. DEFINE b == a2 + Limb * (a3 + Limb * a4)
    <3>. HIDE DEF b, l3
    <3> QED BY <1>1, <2>3 DEF Limb, b
  <2>5. Over64(1) = Limb * l3
    BY DEF Over64, Limb
  <2>6. ASSUME a4 < 32768 PROVE v * 2 < Over64(1)
    <3>. DEFINE b3 == a3 + Limb * a4  b2 == a2 + Limb * b3  l1 == 32768
    <3>1. b3 < l1 * Limb /\ b3 \in Nat
      BY <1>1, <2>6 DEF Limb
    <3>2. b2 < (l1 * Limb) * Limb /\ b2 \in Nat
      <4>. HIDE DEF b3
      <4> QED BY <1>1, <3>1 DEF Limb
    <3>3. v < ((l1 * Limb) * Limb) * Limb /\ v \in Nat
      <4>1. v = a1 + Limb * b2
        OBVIOUS
      <4>2. a1 \in Nat /\ a1 < Limb
        BY <1>1
      <4>. HIDE DEF b2, v
      <4>3. \A a, b, c \in Nat : a < Limb /\ b < c => a + Limb * b \in Nat /\ a + Limb * b < c * Limb
        BY DEF Limb
      <4>4. (l1 * Limb) * Limb \in Nat
        BY DEF Limb
      <4> QED BY ONLY <3>2, <4>1, <4>2, <4>3, <4>4
    <3>4. Over64(1) = (((l1 * Limb) * Limb) * Limb) * 2
      BY DEF Over64, Limb
    <3>. HIDE DEF v
    <3> QED BY <3>3, <3>4 DEF Limb
  <2>7. v * 2 >= Over64(1) => a4 >= 32768
    <3>1. v \in Nat
      BY <1>1 DEF Limb
    <3>. HIDE DEF v
    <3> QED BY <1>1, <2>4, <2>5, <2>6, <3>1
  <2> QED BY <2>1, <2>4, <2>5, <2>7
<1>3. Value(x) = v
  BY DEF Value, Number
<1> QED BY <1>2, <1>3, ValueType DEF Negative

\* Doubling clears one bit more at the low end, even if it loses one at the high end.
LEMMA DoublingClears ==
  ASSUME NEW x \in Word, NEW c \in Nat, c > 0, Value(x) \in Multiples(c),
         Over64(1) \in Multiples(2 * c)
  PROVE  Value(Times(x, 2)) \in Multiples(2 * c)
<1>1. PICK m \in Nat, d \in Nat : Value(x) = c * m /\ Over64(1) = (2 * c) * d
  BY DEF Multiples
<1>2. PICK over \in Nat : Value(x) * 2 = Value(Times(x, 2)) + Over64(over)
  BY TimesValue
<1>3. Over64(over) = Over64(1) * over
  <2>1. Limb \in Nat /\ Limb * 1 = Limb
    BY DEF Limb
  <2>2. Limb * Limb \in Nat /\ Limb * (Limb * Limb) \in Nat
    BY <2>1, Products
  <2>3. Limb * over \in Nat /\ Limb * (Limb * over) \in Nat
    BY <2>1, Products
  <2>. HIDE DEF Limb
  <2> QED BY <2>1, <2>2, <2>3, Regroup DEF Over64
<1>. DEFINE v == Value(Times(x, 2))
            lost == d * over
<1>4. v \in Nat
  BY TimesType, ValueType
<1>5. lost \in Nat /\ Over64(over) = (2 * c) * lost
  <2>1. 2 * c \in Nat
    OBVIOUS
  <2> QED BY <1>1, <1>3, <2>1, Regroup
<1>6. v + (2 * c) * lost = (2 * c) * m
  BY <1>1, <1>2, <1>5
<1>. HIDE DEF v, lost
<1>7. lost <= m
  <2>1. \A a, b, e \in Nat : b < e /\ a > 0 => a * b < a * e
    OBVIOUS
  <2>2. ASSUME m < lost PROVE FALSE
    <3>1. 2 * c \in Nat /\ 2 * c > 0
      OBVIOUS
    <3>2. (2 * c) * m < (2 * c) * lost
      BY <1>5, <2>1, <2>2, <3>1
    <3> QED BY <1>4, <1>5, <1>6, <3>2, Products
  <2> QED BY <1>5, <2>2
<1>8. m - lost \in Nat /\ v = (2 * c) * (m - lost)
  BY <1>4, <1>5, <1>6, <1>7
<1> QED BY <1>8 DEF Multiples, v

\* p[n] is 2^n.
Powers(p) == p \in [0..64 -> Nat] /\ p[0] = 1 /\ \A n \in 0..63 : p[n + 1] = 2 * p[n]

\* There are such powers.
LEMMA PowersExist == \E p : Powers(p)
<1>. DEFINE step == [n \in Nat |-> [v \in Nat |-> 2 * v]]
<1>1. step \in [Nat -> [Nat -> Nat]]
  OBVIOUS
<1>2. PICK p : Iteration(p, Nat, 1, step, 64)
  <2>. HIDE DEF step
  <2>1. 1 \in Nat /\ 64 \in Nat
    OBVIOUS
  <2> QED BY ONLY <1>1, <2>1, Iterates
<1>3. p \in [0..64 -> Nat] /\ p[0] = 1 /\ \A n \in 1..64 : p[n] = step[n][p[n - 1]]
  <2>. HIDE DEF step
  <2> QED BY <1>2, Zenon DEF Iteration
<1>4. \A n \in 0..63 : n + 1 \in 1..64 /\ n + 1 \in Nat /\ (n + 1) - 1 = n /\ p[n] \in Nat
  BY <1>3
<1> QED BY <1>3, <1>4 DEF Powers

\* 2^9, 2^64, and that 2^64 is a multiple of each of them.
LEMMA PowersOfTwo ==
  ASSUME NEW p, Powers(p)
  PROVE  /\ p[9] = 512
         /\ \A n \in 0..64 : p[n] \in Nat /\ p[n] > 0
         /\ p[64] = Over64(1)
         /\ \A n \in 0..64 : Over64(1) \in Multiples(p[n])
<1>1. p \in [0..64 -> Nat] /\ p[0] = 1 /\ \A n \in 0..63 : p[n + 1] = 2 * p[n]
  BY DEF Powers
<1>2. p[9] = 512
  <2>1. p[1] = 2 /\ p[2] = 4 /\ p[3] = 8
    <3>1. p[0 + 1] = 2 * p[0] /\ p[1 + 1] = 2 * p[1] /\ p[2 + 1] = 2 * p[2]
      BY <1>1
    <3> QED BY <1>1, <3>1
  <2>2. p[4] = 16 /\ p[5] = 32 /\ p[6] = 64
    <3>1. p[3 + 1] = 2 * p[3] /\ p[4 + 1] = 2 * p[4] /\ p[5 + 1] = 2 * p[5]
      BY <1>1
    <3> QED BY <2>1, <3>1
  <2>3. p[6 + 1] = 2 * p[6] /\ p[7 + 1] = 2 * p[7] /\ p[8 + 1] = 2 * p[8]
    BY <1>1
  <2> QED BY <2>2, <2>3
<1>3. ASSUME NEW n \in 0..48 PROVE p[n + 16] = Limb * p[n]
  <2>1. ASSUME NEW m \in 0..60 PROVE p[m + 4] = 16 * p[m]
    <3>1. /\ m \in 0..63 /\ m + 1 \in 0..63 /\ m + 2 \in 0..63 /\ m + 3 \in 0..63
          /\ (m + 1) + 1 = m + 2 /\ (m + 2) + 1 = m + 3 /\ (m + 3) + 1 = m + 4
      OBVIOUS
    <3>2. /\ p[m + 1] = 2 * p[m] /\ p[m + 2] = 2 * p[m + 1]
          /\ p[m + 3] = 2 * p[m + 2] /\ p[m + 4] = 2 * p[m + 3] /\ p[m] \in Nat
      BY <1>1, <3>1
    <3> QED BY <3>2
  <2>2. /\ n \in 0..60 /\ n + 4 \in 0..60 /\ n + 8 \in 0..60 /\ n + 12 \in 0..60
        /\ (n + 4) + 4 = n + 8 /\ (n + 8) + 4 = n + 12 /\ (n + 12) + 4 = n + 16
    OBVIOUS
  <2>3. p[n + 4] = 16 * p[n] /\ p[(n + 4) + 4] = 16 * p[n + 4]
    BY <2>1, <2>2
  <2>4. p[(n + 8) + 4] = 16 * p[n + 8] /\ p[(n + 12) + 4] = 16 * p[n + 12]
    BY <2>1, <2>2
  <2>5. p[n] \in Nat
    BY <1>1
  <2> QED BY <2>2, <2>3, <2>4, <2>5 DEF Limb
<1>4. p[64] = Over64(1)
  <2>1. /\ p[0 + 16] = Limb * p[0] /\ p[16 + 16] = Limb * p[16]
        /\ p[32 + 16] = Limb * p[32] /\ p[48 + 16] = Limb * p[48]
    BY <1>3
  <2>2. /\ p[16] = Limb * 1 /\ p[32] = Limb * p[16] /\ p[48] = Limb * p[32]
        /\ p[64] = Limb * p[48]
    BY <1>1, <2>1
  <2> QED BY <2>2 DEF Over64
<1>5. \A n \in 0..64 : p[n] \in Nat /\ p[n] > 0
  <2>. DEFINE T == {n \in Nat : n \in 0..64 => p[n] > 0}
  <2>1. 0 \in T
    BY <1>1
  <2>2. ASSUME NEW n \in T PROVE n + 1 \in T
    <3>1. CASE n \in 0..63
      BY <1>1, <3>1
    <3>2. CASE n \notin 0..63
      BY <3>2
    <3> QED BY <3>1, <3>2
  <2>3. T = Nat
    <3>. HIDE DEF T
    <3>1. T \in SUBSET Nat
      BY DEF T
    <3> QED BY <2>1, <2>2, <3>1, Upwards
  <2> QED BY <1>1, <2>3
<1>6. \A n \in 0..64 : Over64(1) \in Multiples(p[n])
  <2>. DEFINE T == {k \in Nat : k \in 0..64 => Over64(1) \in Multiples(p[64 - k])}
  <2>1. 0 \in T
    <3>1. p[64] = p[64] * 1
      BY <1>5
    <3>2. 64 - 0 = 64
      OBVIOUS
    <3> QED BY <1>4, <3>1, <3>2 DEF Multiples
  <2>2. ASSUME NEW k \in T PROVE k + 1 \in T
    <3>1. SUFFICES ASSUME k \in 0..63 PROVE Over64(1) \in Multiples(p[64 - (k + 1)])
      OBVIOUS
    <3>. DEFINE j == 64 - (k + 1)
    <3>2. j \in 0..63 /\ j + 1 = 64 - k
      BY <3>1
    <3>. HIDE DEF j
    <3>3. p[64 - k] = 2 * p[j] /\ p[j] \in Nat
      BY <1>1, <3>2
    <3>4. PICK d \in Nat : Over64(1) = (2 * p[j]) * d
      BY <3>1, <3>3 DEF Multiples
    <3>5. (2 * p[j]) * d = p[j] * (2 * d) /\ 2 * d \in Nat
      <4>1. \A a, b \in Nat : (2 * a) * b = a * (2 * b) /\ 2 * b \in Nat
        OBVIOUS
      <4> QED BY <3>3, <4>1
    <3>6. Over64(1) \in Multiples(p[j])
      BY <3>4, <3>5 DEF Multiples
    <3> QED BY <3>6 DEF j
  <2>3. T = Nat
    <3>. HIDE DEF T
    <3>1. T \in SUBSET Nat
      BY DEF T
    <3> QED BY <2>1, <2>2, <3>1, Upwards
  <2>4. ASSUME NEW n \in 0..64 PROVE Over64(1) \in Multiples(p[n])
    <3>1. 64 - n \in Nat /\ 64 - n \in 0..64 /\ 64 - (64 - n) = n
      OBVIOUS
    <3>2. 64 - n \in T
      <4>. HIDE DEF T
      <4> QED BY <2>3, <3>1
    <3> QED BY <3>1, <3>2
  <2> QED BY <2>4
<1> QED BY <1>2, <1>4, <1>5, <1>6

\* 10^9 * 2^n, modulo 2^64, is a multiple of 2^(n + 9).
LEMMA Cleared ==
  ASSUME NEW p, Powers(p), NEW n \in 0..55
  PROVE  Value(Shifted[n]) \in Multiples(p[n + 9])
<1>. DEFINE T == {m \in Nat : m \in 0..55 => Value(Shifted[m]) \in Multiples(p[m + 9])}
<1>1. 0 \in T
  <2>1. 1000 * (1000 * 1000) = 512 * 1953125 /\ 0 + 9 = 9
    OBVIOUS
  <2>2. Value(Shifted[0]) = p[9] * 1953125
    BY <2>1, Constants, Doubles, PowersOfTwo
  <2> QED BY <2>1, <2>2 DEF Multiples
<1>2. ASSUME NEW m \in T PROVE m + 1 \in T
  <2>1. SUFFICES ASSUME m \in 0..54 PROVE Value(Shifted[m + 1]) \in Multiples(p[(m + 1) + 9])
    OBVIOUS
  <2>2. m \in 0..62 /\ m \in 0..63 /\ m + 9 \in 0..63 /\ (m + 1) + 9 = (m + 9) + 1
    BY <2>1
  <2>3. /\ Shifted[m] \in Word /\ Shifted[m + 1] = Times(Shifted[m], 2)
        /\ Value(Shifted[m]) \in Multiples(p[m + 9])
    BY <2>1, <2>2, Doubles
  <2>4. p[(m + 9) + 1] = 2 * p[m + 9]
    BY <2>2 DEF Powers
  <2>5. /\ p[m + 9] \in Nat /\ p[m + 9] > 0
        /\ Over64(1) \in Multiples(2 * p[m + 9])
    <3>1. m + 9 \in 0..64 /\ (m + 9) + 1 \in 0..64
      BY <2>2
    <3> QED BY <2>4, <3>1, PowersOfTwo
  <2>6. Value(Times(Shifted[m], 2)) \in Multiples(2 * p[m + 9])
    BY <2>3, <2>5, DoublingClears
  <2> QED BY <2>2, <2>3, <2>4, <2>6
<1>3. T = Nat
  <2>. HIDE DEF T
  <2>1. T \in SUBSET Nat
    BY DEF T
  <2> QED BY <1>1, <1>2, <2>1, Upwards
<1> QED BY <1>3

\* Nothing is below the cap.
LEMMA NothingIsShort == Value(Zero) = 0 /\ ~AtLeast(Zero, maxDelayTime)
<1>1. Value(Zero) = 0
  BY DEF Value, Number, Zero, Limb
<1>2. Value(Second) * 300 > 0
  <2>1. \A u \in Nat : u > 0 => u * 300 > 0
    OBVIOUS
  <2> QED BY <2>1, Constants, Magnitudes
<1>3. AtLeast(Zero, maxDelayTime) => 0 >= Value(Second) * 300
  <2>1. AtLeast(Zero, maxDelayTime) => ~Negative(Zero)
    BY Zenon DEF AtLeast
  <2> QED BY <1>1, <2>1, AtLeastValue, Constants
<1>4. Value(Second) * 300 \in Nat
  BY Constants, Magnitudes, ScaledTwice
<1> QED BY <1>1, <1>2, <1>3, <1>4

\* Of 10^9 * 2^54 only the sign may be left, of more doublings nothing.
LEMMA Emptied ==
  /\ Shifted[54] = Zero \/ Negative(Shifted[54])
  /\ \A n \in 55..63 : Shifted[n] = Zero
<1>. DEFINE v(n) == Value(Shifted[n])
<1>1. \A n \in 0..63 : /\ Shifted[n] \in Word /\ v(n) \in Nat /\ v(n) < Over64(1)
                       /\ v(n) = 0 => Shifted[n] = Zero
                       /\ v(n) * 2 >= Over64(1) => Negative(Shifted[n])
  <2>1. ASSUME NEW n \in 0..63
        PROVE  /\ Shifted[n] \in Word /\ v(n) \in Nat /\ v(n) < Over64(1)
               /\ v(n) = 0 => Shifted[n] = Zero
               /\ v(n) * 2 >= Over64(1) => Negative(Shifted[n])
    <3>1. Shifted[n] \in Word
      BY Doubles
    <3>2. v(n) = 0 => Shifted[n] = Zero
      <4>1. SUFFICES ASSUME Value(Shifted[n]) = Value(Zero) PROVE Shifted[n] = Zero
        BY NothingIsShort
      <4> QED BY <3>1, <4>1, Comparing, Constants
    <3> QED BY <3>1, <3>2, WordBound, SMTT(30)
  <2> QED BY <2>1
<1>2. PICK p : Powers(p)
  BY PowersExist
<1>3. /\ p[64] = 2 * p[63] /\ p[63] \in Nat /\ p[63] > 0
      /\ p[64] = Over64(1) /\ p[64] \in Nat /\ p[64] > 0
  <2>1. 63 \in 0..63 /\ 63 + 1 = 64 /\ 63 \in 0..64 /\ 64 \in 0..64
    OBVIOUS
  <2> QED BY <1>2, <2>1, PowersOfTwo DEF Powers
<1>4. \A a, k \in Nat : (a > 0 /\ a * k < a => k = 0) /\ (k # 0 => a * k >= a) /\ a * 0 = 0
  OBVIOUS
<1>5. Shifted[54] = Zero \/ Negative(Shifted[54])
  <2>1. 54 \in 0..55 /\ 54 \in 0..63 /\ 54 + 9 = 63
    OBVIOUS
  <2>2. PICK k \in Nat : v(54) = p[63] * k
    BY <1>2, <2>1, Cleared DEF Multiples
  <2>3. k = 0 => v(54) = 0
    BY <1>3, <1>4, <2>2
  <2>4. k # 0 => v(54) >= p[63]
    BY <1>3, <1>4, <2>2
  <2>5. v(54) \in Nat
    BY <1>1, <2>1
  <2>. HIDE DEF v
  <2>6. k # 0 => v(54) * 2 >= Over64(1)
    BY <1>3, <2>4, <2>5
  <2> QED BY <1>1, <2>1, <2>3, <2>6
<1>6. v(55) = 0
  <2>1. 55 \in 0..55 /\ 55 \in 0..63 /\ 55 + 9 = 64
    OBVIOUS
  <2>2. PICK k \in Nat : v(55) = p[64] * k
    BY <1>2, <2>1, Cleared DEF Multiples
  <2>3. v(55) < p[64]
    BY <1>1, <1>3, <2>1
  <2>. HIDE DEF v
  <2> QED BY <1>3, <1>4, <2>2, <2>3
<1>7. ASSUME NEW n \in 0..62, v(n) = 0
      PROVE  v(n + 1) = 0
  <2>1. n \in 0..63 /\ 2 \in Nat /\ v(n) * 2 = 0
    BY <1>7
  <2>2. Shifted[n] \in Word /\ v(n) * 2 < Over64(1)
    BY <1>1, <1>3, <2>1
  <2>3. Value(Times(Shifted[n], 2)) = Value(Shifted[n]) * 2
    BY <2>1, <2>2, TimesExact
  <2>4. Shifted[n + 1] = Times(Shifted[n], 2)
    BY Doubles
  <2> QED BY <2>1, <2>3, <2>4
<1>8. ASSUME NEW n \in 55..63
      PROVE  Shifted[n] = Zero
  <2>. DEFINE T == {k \in Nat : 55 + k \in 55..63 => v(55 + k) = 0}
  <2>1. 0 \in T
    <3>1. 55 + 0 = 55
      OBVIOUS
    <3> QED BY <1>6, <3>1
  <2>2. ASSUME NEW k \in T PROVE k + 1 \in T
    <3>1. SUFFICES ASSUME 55 + (k + 1) \in 55..63 PROVE v(55 + (k + 1)) = 0
      OBVIOUS
    <3>2. 55 + k \in 55..63 /\ 55 + k \in 0..62 /\ 55 + (k + 1) = (55 + k) + 1
      BY <3>1
    <3>3. v(55 + k) = 0
      BY <3>2
    <3>. HIDE DEF v
    <3> QED BY <1>7, <3>2, <3>3
  <2>3. T = Nat
    <3>. HIDE DEF T
    <3>1. T \in SUBSET Nat
      BY DEF T
    <3> QED BY <2>1, <2>2, <3>1, Upwards
  <2>4. n - 55 \in Nat /\ 55 + (n - 55) = n /\ n \in 0..63
    OBVIOUS
  <2>5. v(n) = 0
    <3>1. n - 55 \in T
      <4>. HIDE DEF T
      <4> QED BY <2>3, <2>4
    <3> QED BY <2>4, <3>1
  <2> QED BY <1>1, <2>4, <2>5
<1> QED BY <1>5, <1>8

\* From the 55th restart on backoff does not wait.
LEMMA NoDelayLater ==
  ASSUME NEW n \in Nat, n >= 54
  PROVE  Delay(n) = Zero \/ Negative(Delay(n))
<1>1. Product(n) = Zero \/ Negative(Product(n))
  <2>1. CASE n < 63
    <3>1. n = 54 \/ n \in 55..63
      BY <2>1
    <3>2. Product(n) = Shifted[n]
      BY <2>1 DEF Product
    <3> QED BY <3>1, <3>2, Emptied
  <2>2. CASE ~(n < 63)
    <3>1. Negative(MinusSecond)
      BY DEF Negative, MinusSecond, Limb
    <3>2. 63 \in 55..63
      OBVIOUS
    <3>3. Shifted[63] = Zero
      BY <3>2, Emptied
    <3> QED BY <2>2, <3>1, <3>3 DEF Product
  <2> QED BY <2>1, <2>2
<1>2. ~AtLeast(Product(n), maxDelayTime)
  <2>1. Negative(Product(n)) => ~AtLeast(Product(n), maxDelayTime)
    BY Zenon DEF AtLeast
  <2> QED BY <1>1, <2>1, NothingIsShort
<1> QED BY <1>1, <1>2 DEF Delay

-----------------------------------------------------------------------------
(* The specification.                                                      *)

\* The count and the delay keep their types: whatever overflows, a delay is a
\* 64-bit integer (backoff).
THEOREM TypeCorrect == Spec => []TypeOK
<1>1. Init => TypeOK
  BY Constants, BackoffAssumption DEF Init, TypeOK, Word
<1>2. TypeOK /\ [Next]_vars => TypeOK'
  <2> SUFFICES ASSUME TypeOK, [Next]_vars
               PROVE  TypeOK'
    OBVIOUS
  <2>1. CASE backoff
    <3>1. restartTimes \in Nat /\ restartTimes + 1 \in 0..MaxRestarts
      BY <2>1, BackoffAssumption DEF TypeOK, backoff
    <3>2. delayTime' \in Word
      BY <2>1, <3>1, DelayType DEF backoff
    <3> QED BY <2>1, <3>1, <3>2 DEF backoff, TypeOK, Word
  <2>2. CASE Reset
    BY <2>2, BackoffAssumption DEF Reset, TypeOK
  <2>3. CASE UNCHANGED vars
    BY <2>3 DEF vars, TypeOK
  <2> QED BY <2>1, <2>2, <2>3 DEF Next
<1> QED BY <1>1, <1>2, PTL DEF Spec

\* The first 34 delays in a row are the documented ones, 1 s, 2 s, 4 s, ..., capped
\* at five minutes (backoff).
THEOREM FirstDocumented == Spec => DocumentedAtFirst
<1>1. TypeOK /\ [Next]_vars =>
        [restartTimes' > restartTimes /\ restartTimes < 34 =>
           delayTime' = Documented(restartTimes)]_vars
  <2> SUFFICES ASSUME TypeOK, Next, restartTimes' > restartTimes, restartTimes < 34
               PROVE  delayTime' = Documented(restartTimes)
    BY DEF vars
  <2>1. backoff
    BY BackoffAssumption DEF Next, Reset, TypeOK
  <2>2. restartTimes \in 0..33
    BY BackoffAssumption DEF TypeOK
  <2> QED BY <2>1, <2>2, DocumentedDelay DEF backoff
<1> QED BY <1>1, TypeCorrect, PTL DEF Spec, DocumentedAtFirst
\* From the 55th restart in a row on Fluent Bit is started again at once, on both
\* processors: the delay is no delay (backoff).
THEOREM NoDelay == Spec => NoDelayAtLast
<1>1. TypeOK /\ [Next]_vars =>
        [restartTimes' > restartTimes /\ restartTimes >= 54 =>
           delayTime' = Zero \/ Negative(delayTime')]_vars
  <2> SUFFICES ASSUME TypeOK, Next, restartTimes' > restartTimes, restartTimes >= 54
               PROVE  delayTime' = Zero \/ Negative(delayTime')
    BY DEF vars
  <2>1. backoff
    BY BackoffAssumption DEF Next, Reset, TypeOK
  <2>2. restartTimes \in Nat
    BY BackoffAssumption DEF TypeOK
  <2> QED BY <2>1, <2>2, NoDelayLater DEF backoff
<1> QED BY <1>1, TypeCorrect, PTL DEF Spec, NoDelayAtLast
=============================================================================
