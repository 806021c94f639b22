------------------------- MODULE ReorderQueueProofs -------------------------
(***************************************************************************)
(* Facts about least numbers, remainders and the serial numbers of SeqNum, *)
(* for every modulus, and about the operations of ReorderQueue, for every  *)
(* queue size and kind of element too.                                     *)
(***************************************************************************)
EXTENDS ReorderQueue, FiniteSetTheorems, FunctionTheorems, TLAPS

-----------------------------------------------------------------------------
(* Least elements and remainders                                           *)

\* The least element of a set of natural numbers is one of its elements and
\* at most every other: the loops of reorderqueue.c stop where Least says.
LEMMA LeastNat ==
  ASSUME NEW S, S \subseteq Nat, S # {}
  PROVE  Least(S) \in S /\ \A m \in S : Least(S) <= m
PROOF
  <1> DEFINE R == {p \in Nat \X Nat : p[1] < p[2]}
  <1>1. OpToRel(<, Nat) = R
    BY Zenon DEF OpToRel
  <1>2. IsWellFoundedOn(R, Nat)
    BY <1>1, NatLessThanWellFounded
  <1>3. PICK n \in S : \A m \in S : ~(<<m, n>> \in R)
    <2> HIDE DEF R
    <2> QED BY <1>2, WFMin
  <1>4. ASSUME NEW m \in S PROVE n <= m
    <2>1. ~(m < n)
      <3>1. <<m, n>> \in Nat \X Nat /\ <<m, n>>[1] = m /\ <<m, n>>[2] = n
        OBVIOUS
      <3> QED BY <1>3, <3>1
    <2> QED BY <2>1
  <1> QED
    BY <1>4 DEF Least

\* A product with a positive factor is no less than the other factor.
LEMMA TimesPositive ==
  ASSUME NEW s \in Nat \ {0}, NEW d \in Nat \ {0}
  PROVE  s * d >= s
OBVIOUS

\* Quotient and remainder determine each other.
LEMMA ModUnique ==
  ASSUME NEW s \in Nat \ {0}, NEW q \in Int, NEW r \in 0..s-1,
         NEW p \in Int, NEW t \in 0..s-1, s * q + r = s * p + t
  PROVE  r = t
PROOF
  <1>1. s * (q - p) = t - r
    OBVIOUS
  <1>2. CASE q - p >= 1
    <2>1. s * (q - p) >= s
      BY <1>2, TimesPositive
    <2> QED BY <1>1, <2>1
  <1>3. CASE p - q >= 1
    <2>1. s * (p - q) >= s
      BY <1>3, TimesPositive
    <2>2. s * (p - q) = r - t
      BY <1>1
    <2> QED BY <2>1, <2>2
  <1>4. CASE q = p
    BY <1>4
  <1> QED BY <1>2, <1>3, <1>4

\* What is a multiple of s does not change the remainder by s.
LEMMA ModShift ==
  ASSUME NEW s \in Nat \ {0}, NEW m \in Nat, m % s = 0, NEW x \in Nat
  PROVE  (x + m) % s = x % s
PROOF
  <1> DEFINE a == x \div s
             b == m \div s
             c == (x + m) \div s
             r == x % s
             t == (x + m) % s
  <1>1. /\ a \in Int /\ b \in Int /\ c \in Int
        /\ x = s * a + r /\ r \in 0..s-1
        /\ m = s * b
        /\ x + m = s * c + t /\ t \in 0..s-1
    OBVIOUS
  <1> HIDE DEF a, b, c, r, t
  <1>2. a + b \in Int /\ s * (a + b) + r = s * c + t
    BY <1>1
  <1>3. r = t
    BY <1>1, <1>2, ModUnique
  <1> QED
    BY <1>3 DEF r, t

\* Numbers less than s apart differ modulo s.
LEMMA ModApart ==
  ASSUME NEW s \in Nat \ {0}, NEW x \in Nat, NEW y \in Nat, x < y, y - x < s
  PROVE  x % s # y % s
PROOF
  <1> DEFINE a == x \div s
             b == y \div s
             r == x % s
             t == y % s
             d == b - a
  <1>1. /\ a \in Int /\ x = s * a + r /\ r \in 0..s-1
        /\ b \in Int /\ y = s * b + t /\ t \in 0..s-1
    OBVIOUS
  <1> HIDE DEF a, b, r, t
  <1>2. SUFFICES ASSUME r = t PROVE FALSE
    BY DEF r, t
  <1>3. d \in Int /\ s * b - s * a = s * d
    BY <1>1
  <1>4. y - x = s * d
    BY <1>1, <1>2, <1>3
  <1> HIDE DEF d
  <1>5. CASE d <= 0
    <2>1. s * (0 - d) >= 0
      BY <1>3, <1>5
    <2> QED BY <1>3, <1>4, <2>1
  <1>6. CASE d > 0
    <2>1. s * d >= s
      BY <1>3, <1>6, TimesPositive
    <2> QED BY <1>3, <1>4, <2>1
  <1> QED BY <1>3, <1>5, <1>6

\* Adding less than s to a number takes its remainder around at most once.
LEMMA ModAdd ==
  ASSUME NEW s \in Nat \ {0}, NEW x \in Nat, NEW k \in 0..s-1
  PROVE  (x + k) % s = IF (x % s) + k < s THEN (x % s) + k ELSE (x % s) + k - s
PROOF
  <1> DEFINE a == x \div s
             c == (x + k) \div s
             r == x % s
             t == (x + k) % s
             u == IF r + k < s THEN r + k ELSE r + k - s
             b == IF r + k < s THEN a ELSE a + 1
  <1>1. /\ a \in Int /\ c \in Int /\ k \in Int
        /\ x = s * a + r /\ r \in 0..s-1
        /\ x + k = s * c + t /\ t \in 0..s-1
    OBVIOUS
  <1> HIDE DEF a, c, r, t
  <1>2. u \in 0..s-1 /\ b \in Int
    BY <1>1
  <1>3. s * b + u = s * c + t
    <2>1. s * (a + 1) = s * a + s
      BY <1>1
    <2> QED BY <1>1, <2>1
  <1> HIDE DEF u, b
  <1>4. t = u
    BY <1>1, <1>2, <1>3, ModUnique
  <1> QED BY <1>4 DEF r, t, u

-----------------------------------------------------------------------------
(* Sequence numbers                                                        *)

\* What the queue keeps as a sequence number: a number of the modulus, or a
\* sum of two that did not wrap.
RawSeq == 0..2*SeqMod-1

\* A cast takes a raw number to the modulus, and sees no multiple of it.
LEMMA CastRaw ==
  ASSUME NEW x \in RawSeq
  PROVE  /\ SeqCast(x) = IF x < SeqMod THEN x ELSE x - SeqMod
         /\ SeqCast(x) \in 0..SeqMod-1
BY SeqNumAssumption DEF SeqCast, RawSeq

\* SeqAdd adds to the cast number and stays raw, with or without promotion.
LEMMA CastAdd ==
  ASSUME NEW a \in RawSeq, NEW b \in 0..SeqMod-1
  PROVE  /\ SeqAdd(a, b) \in RawSeq
         /\ SeqCast(SeqAdd(a, b)) = IF SeqCast(a) + b < SeqMod
                                    THEN SeqCast(a) + b
                                    ELSE SeqCast(a) + b - SeqMod
PROOF
  <1>1. SeqMod \in Nat /\ SeqMod > 3 /\ PromotedAdd \in BOOLEAN
    BY SeqNumAssumption
  <1>2. b \in RawSeq /\ SeqCast(b) = b
    BY <1>1, CastRaw DEF RawSeq
  <1>3. SeqCast(a) \in 0..SeqMod-1
    BY CastRaw
  <1>4. SeqCast(a) + b \in RawSeq
    BY <1>1, <1>3 DEF RawSeq
  <1>5. SeqAdd(a, b) = IF PromotedAdd THEN SeqCast(a) + b ELSE SeqCast(SeqCast(a) + b)
    BY <1>2 DEF SeqAdd, SeqCast
  <1>6. SeqCast(SeqCast(a) + b) = IF SeqCast(a) + b < SeqMod
                                 THEN SeqCast(a) + b
                                 ELSE SeqCast(a) + b - SeqMod
    <2> DEFINE s == SeqCast(a) + b
    <2>1. s \in RawSeq
      BY <1>4
    <2> HIDE DEF s
    <2>2. SeqCast(s) = IF s < SeqMod THEN s ELSE s - SeqMod
      BY <2>1, CastRaw
    <2> QED BY <1>1, <1>3, <2>2 DEF s
  <1>7. CASE PromotedAdd
    BY <1>4, <1>5, <1>6, <1>7
  <1>8. CASE ~PromotedAdd
    <2>1. SeqAdd(a, b) = SeqCast(SeqCast(a) + b)
      BY <1>5, <1>8
    <2>2. SeqAdd(a, b) \in 0..SeqMod-1
      BY <2>1, <1>4, CastRaw
    <2>3. SeqAdd(a, b) \in RawSeq
      BY <2>2, <1>1 DEF RawSeq
    <2>4. SeqCast(SeqAdd(a, b)) = SeqAdd(a, b)
      BY <1>1, <2>2, <2>3, CastRaw
    <2> QED BY <2>1, <2>3, <2>4, <1>6
  <1> QED BY <1>1, <1>7, <1>8

\* Adding in two steps or in one makes no difference to a cast.
LEMMA CastAddAdd ==
  ASSUME NEW a \in RawSeq, NEW i \in Nat, NEW j \in Nat, i + j < SeqMod
  PROVE  SeqCast(SeqAdd(SeqAdd(a, i), j)) = SeqCast(SeqAdd(a, i + j))
PROOF
  <1>1. SeqMod \in Nat
    BY SeqNumAssumption
  <1>2. i \in 0..SeqMod-1 /\ j \in 0..SeqMod-1 /\ i + j \in 0..SeqMod-1
    BY <1>1
  <1> DEFINE c == SeqCast(a)
             u == SeqAdd(a, i)
  <1>3. c \in 0..SeqMod-1
    BY CastRaw
  <1>4. u \in RawSeq /\ SeqCast(u) = IF c + i < SeqMod THEN c + i ELSE c + i - SeqMod
    BY <1>2, CastAdd
  <1>5. SeqCast(SeqAdd(a, i + j)) = IF c + (i + j) < SeqMod THEN c + (i + j)
                                    ELSE c + (i + j) - SeqMod
    BY <1>2, CastAdd
  <1> HIDE DEF c, u
  <1>6. SeqCast(SeqAdd(u, j)) = IF SeqCast(u) + j < SeqMod THEN SeqCast(u) + j
                                ELSE SeqCast(u) + j - SeqMod
    BY <1>2, <1>4, CastAdd
  <1>7. SeqCast(SeqAdd(u, j)) = SeqCast(SeqAdd(a, i + j))
    BY <1>1, <1>2, <1>3, <1>4, <1>5, <1>6
  <1> QED
    BY <1>7 DEF u

\* Nor does it to a number the code advances one by one.
LEMMA CastAdvance ==
  ASSUME NEW a \in RawSeq, NEW k \in 0..SeqMod-1
  PROVE  /\ SeqAdvance(a, k) \in RawSeq
         /\ SeqCast(SeqAdvance(a, k)) = SeqCast(SeqAdd(a, k))
PROOF
  <1>1. SeqMod \in Nat /\ SeqMod > 3
    BY SeqNumAssumption
  <1>2. CASE k = 0
    <2>1. SeqCast(a) \in 0..SeqMod-1
      BY CastRaw
    <2> QED BY <1>1, <1>2, <2>1, CastAdd DEF SeqAdvance
  <1>3. CASE k # 0
    <2>1. k - 1 \in Nat /\ k - 1 \in 0..SeqMod-1 /\ 1 \in 0..SeqMod-1 /\ (k - 1) + 1 = k
      BY <1>1, <1>3
    <2>2. SeqAdd(a, k - 1) \in RawSeq
      BY <2>1, CastAdd
    <2>3. SeqAdd(SeqAdd(a, k - 1), 1) \in RawSeq
      BY <2>1, <2>2, CastAdd
    <2>4. SeqCast(SeqAdd(SeqAdd(a, k - 1), 1)) = SeqCast(SeqAdd(a, k))
      BY <1>1, <2>1, CastAddAdd
    <2> QED BY <1>3, <2>3, <2>4 DEF SeqAdvance
  <1> QED BY <1>2, <1>3

\* Comparisons depend on the casts of their arguments only.
LEMMA LtCast ==
  ASSUME NEW a, NEW b, NEW c, SeqCast(a) = SeqCast(b)
  PROVE  SeqLt(a, c) <=> SeqLt(b, c)
BY DEF SeqLt

\* The one number whose successor is the first not before the successor of
\* seq is seq: where the loop "while(lt(end, new_end))" stops.
LEMMA LtStops ==
  ASSUME NEW a \in RawSeq, NEW n \in 1..SeqMod-1, NEW seq \in 0..SeqMod-1,
         SeqLt(SeqAdd(a, n - 1), SeqAdd(seq, 1)),
         ~SeqLt(SeqAdd(a, n), SeqAdd(seq, 1))
  PROVE  SeqCast(SeqAdd(a, n - 1)) = seq
PROOF
  <1> DEFINE x == SeqCast(SeqAdd(a, n - 1))
             y == SeqCast(SeqAdd(seq, 1))
             z == SeqCast(SeqAdd(a, n))
  <1>1. /\ SeqMod \in Nat /\ SeqMod > 3 /\ 1 \in 0..SeqMod-1
        /\ n - 1 \in 0..SeqMod-1 /\ n \in 0..SeqMod-1
        /\ SeqHalf \in Nat /\ SeqHalf > 1 /\ SeqMod = 2 * SeqHalf
    BY SeqNumAssumption DEF SeqHalf
  <1>2. seq \in RawSeq /\ SeqCast(seq) = seq
    BY <1>1, CastRaw DEF RawSeq
  <1>3. x \in 0..SeqMod-1
    BY <1>1, CastAdd, CastRaw
  <1>4. y = IF seq + 1 < SeqMod THEN seq + 1 ELSE 0
    BY <1>1, <1>2, CastAdd
  <1>5. z = IF x + 1 < SeqMod THEN x + 1 ELSE 0
    <2> DEFINE c == SeqCast(a)
    <2>1. c \in 0..SeqMod-1
      BY CastRaw
    <2>2. x = IF c + (n - 1) < SeqMod THEN c + (n - 1) ELSE c + (n - 1) - SeqMod
      BY <1>1, CastAdd
    <2>3. z = IF c + n < SeqMod THEN c + n ELSE c + n - SeqMod
      BY <1>1, CastAdd
    <2> HIDE DEF c, x, z
    <2> QED BY <1>1, <2>1, <2>2, <2>3
  <1>6. /\ (x < y /\ y - x < SeqHalf) \/ (x > y /\ x - y > SeqHalf)
        /\ ~((z < y /\ y - z < SeqHalf) \/ (z > y /\ z - y > SeqHalf))
    BY DEF SeqLt
  <1> HIDE DEF x, y, z
  <1>7. x = seq
    BY <1>1, <1>3, <1>4, <1>5, <1>6
  <1> QED BY <1>7 DEF x

\* Comparing two numbers reached from the same one is comparing the ways there.
LEMMA LtAdd ==
  ASSUME NEW a \in RawSeq, NEW i \in 0..SeqMod-1, NEW j \in 0..SeqMod-1
  PROVE  SeqLt(SeqAdd(a, i), SeqAdd(a, j)) <=>
           \/ i < j /\ j - i < SeqHalf
           \/ i > j /\ i - j > SeqHalf
PROOF
  <1> DEFINE c == SeqCast(a)
             x == SeqCast(SeqAdd(a, i))
             y == SeqCast(SeqAdd(a, j))
  <1>1. /\ SeqMod \in Nat /\ SeqHalf \in Nat /\ SeqHalf > 1 /\ SeqMod = 2 * SeqHalf
    BY SeqNumAssumption DEF SeqHalf
  <1>2. c \in 0..SeqMod-1
    BY CastRaw
  <1>3. /\ x = IF c + i < SeqMod THEN c + i ELSE c + i - SeqMod
        /\ y = IF c + j < SeqMod THEN c + j ELSE c + j - SeqMod
    BY CastAdd
  <1>4. SeqLt(SeqAdd(a, i), SeqAdd(a, j)) <=>
          (x < y /\ y - x < SeqHalf) \/ (x > y /\ x - y > SeqHalf)
    BY DEF SeqLt
  <1> HIDE DEF c, x, y
  <1> QED
    BY <1>1, <1>2, <1>3, <1>4

\* Where a number is the remainder of x, the one k later is that of x + k.
LEMMA CastPlus ==
  ASSUME NEW a \in RawSeq, NEW x \in Nat, SeqCast(a) = x % SeqMod, NEW k \in 0..SeqMod-1
  PROVE  SeqCast(SeqAdd(a, k)) = (x + k) % SeqMod
PROOF
  <1>1. SeqMod \in Nat \ {0}
    BY SeqNumAssumption
  <1>2. (x + k) % SeqMod = IF (x % SeqMod) + k < SeqMod THEN (x % SeqMod) + k
                           ELSE (x % SeqMod) + k - SeqMod
    BY <1>1, ModAdd
  <1>3. SeqCast(SeqAdd(a, k)) = IF SeqCast(a) + k < SeqMod THEN SeqCast(a) + k
                                ELSE SeqCast(a) + k - SeqMod
    BY CastAdd
  <1> QED BY <1>2, <1>3

\* Two numbers less than half the modulus apart compare as they were counted.
LEMMA LtCounted ==
  ASSUME NEW a, NEW b, NEW x \in Nat, NEW y \in Nat, x < y, y - x < SeqHalf,
         SeqCast(a) = x % SeqMod, SeqCast(b) = y % SeqMod
  PROVE  SeqLt(a, b) /\ ~SeqLt(b, a) /\ SeqGe(b, a) /\ ~SeqGe(a, b)
PROOF
  <1> DEFINE k == y - x
             c == SeqCast(a)
             d == SeqCast(b)
  <1>1. /\ SeqMod \in Nat \ {0} /\ SeqHalf \in Nat /\ SeqMod = 2 * SeqHalf
        /\ k \in 0..SeqMod-1 /\ k > 0 /\ k < SeqHalf /\ x + k = y
    BY SeqNumAssumption DEF SeqHalf
  <1>2. c \in 0..SeqMod-1
    BY <1>1
  <1>3. d = IF c + k < SeqMod THEN c + k ELSE c + k - SeqMod
    <2>1. c = x % SeqMod /\ d = (x + k) % SeqMod
      BY <1>1
    <2>2. (x + k) % SeqMod = IF (x % SeqMod) + k < SeqMod THEN (x % SeqMod) + k
                             ELSE (x % SeqMod) + k - SeqMod
      <3> HIDE DEF k
      <3> QED BY <1>1, ModAdd
    <2> HIDE DEF c, d, k
    <2> QED BY <2>1, <2>2
  <1>4. /\ SeqLt(a, b) <=> (c < d /\ d - c < SeqHalf) \/ (c > d /\ c - d > SeqHalf)
        /\ SeqLt(b, a) <=> (d < c /\ c - d < SeqHalf) \/ (d > c /\ d - c > SeqHalf)
        /\ SeqGe(b, a) <=> b = a \/ (d < c /\ c - d > SeqHalf) \/ (d > c /\ d - c < SeqHalf)
        /\ SeqGe(a, b) <=> a = b \/ (c < d /\ d - c > SeqHalf) \/ (c > d /\ c - d < SeqHalf)
    BY DEF SeqLt, SeqGe, SeqGt
  <1>5. a = b => c = d
    OBVIOUS
  <1> HIDE DEF c, d, k
  <1> QED BY <1>1, <1>2, <1>3, <1>4, <1>5

\* What is subtracted from a remainder is subtracted from the number.
LEMMA ModSub ==
  ASSUME NEW s \in Nat \ {0}, NEW x \in Nat, NEW u \in Int
  PROVE  ((x % s) - u) % s = (x - u) % s
PROOF
  <1> DEFINE a == (x % s) - u
             b == x - u
             d == x \div s
             e == a \div s
             f == b \div s
  <1>1. x % s \in 0..s-1 /\ d \in Int /\ x = s * d + (x % s)
    OBVIOUS
  <1>2. a \in Int /\ b \in Int /\ b = s * d + a
    BY <1>1
  <1> HIDE DEF a, b, d
  <1>3. /\ a % s \in 0..s-1 /\ e \in Int /\ a = s * e + (a % s)
        /\ b % s \in 0..s-1 /\ f \in Int /\ b = s * f + (b % s)
    BY <1>2
  <1> HIDE DEF e, f
  <1>4. s * (d + e) = s * d + s * e /\ d + e \in Int
    BY <1>1, <1>3
  <1>5. s * (d + e) + (a % s) = s * f + (b % s)
    <2> DEFINE g == s * d
               h == s * e
               i == s * f
               j == s * (d + e)
               r == a % s
               t == b % s
    <2>1. g \in Int /\ h \in Int /\ i \in Int /\ r \in Int /\ t \in Int
      BY <1>1, <1>3
    <2>2. j = g + h /\ b = g + a /\ a = h + r /\ b = i + t
      BY <1>2, <1>3, <1>4
    <2> HIDE DEF g, h, i, j, r, t
    <2>3. j + r = i + t
      BY <2>1, <2>2
    <2> QED BY <2>3 DEF i, j, r, t
  <1>6. a % s = b % s
    BY <1>3, <1>4, <1>5, ModUnique
  <1> QED BY <1>6 DEF a, b

\* The distance of two numbers that were counted k apart.
LEMMA DistanceCounted ==
  ASSUME NEW a \in RawSeq, NEW b \in RawSeq, NEW x \in Nat, NEW k \in 0..SeqMod-1,
         SeqCast(a) = x % SeqMod, SeqCast(b) = (x + k) % SeqMod
  PROVE  (b - a) % SeqMod = k
PROOF
  <1> DEFINE c == SeqCast(a)
             d == SeqCast(b)
             z == b - a
             e == z \div SeqMod
  <1>1. SeqMod \in Nat \ {0}
    BY SeqNumAssumption
  <1>2. d = IF c + k < SeqMod THEN c + k ELSE c + k - SeqMod
    BY <1>1, ModAdd
  <1>3. /\ c = IF a < SeqMod THEN a ELSE a - SeqMod
        /\ d = IF b < SeqMod THEN b ELSE b - SeqMod
        /\ a \in Nat /\ b \in Nat
    BY CastRaw DEF RawSeq
  <1> HIDE DEF c, d
  <1>4. z \in Int /\ \E j \in Int : z = SeqMod * j + k
    <2>1. z \in {k, k + SeqMod, k - SeqMod, k - 2 * SeqMod}
      BY <1>1, <1>2, <1>3
    <2>2. /\ k = SeqMod * 0 + k /\ k + SeqMod = SeqMod * 1 + k
          /\ k - SeqMod = SeqMod * (0-1) + k /\ k - 2 * SeqMod = SeqMod * (0-2) + k
      BY <1>1
    <2>3. \E j \in {0, 1, 0-1, 0-2} : z = SeqMod * j + k
      <3> HIDE DEF z
      <3> QED BY <2>1, <2>2
    <2>4. {0, 1, 0-1, 0-2} \subseteq Int
      OBVIOUS
    <2>5. \E j \in Int : z = SeqMod * j + k
      <3> HIDE DEF z
      <3> QED BY <2>3, <2>4
    <2>6. z \in Int
      BY <1>3
    <2> HIDE DEF z
    <2> QED BY <2>5, <2>6
  <1>5. PICK j \in Int : z = SeqMod * j + k
    BY <1>4
  <1> HIDE DEF z
  <1>6. z % SeqMod \in 0..SeqMod-1 /\ e \in Int /\ z = SeqMod * e + (z % SeqMod)
    BY <1>1, <1>4
  <1> HIDE DEF e
  <1>7. SeqMod * e + (z % SeqMod) = SeqMod * j + k
    BY <1>5, <1>6
  <1>8. z % SeqMod = k
    BY <1>1, <1>6, <1>7, ModUnique
  <1> QED BY <1>8 DEF z

-----------------------------------------------------------------------------
(* The queue                                                               *)

\* The place in the ring depends on the cast only: the queue size divides the
\* modulus.
LEMMA IdxCast ==
  ASSUME NEW x \in RawSeq
  PROVE  Idx(x) = Idx(SeqCast(x)) /\ Idx(x) \in 0..QueueSize-1
PROOF
  <1>1. /\ SeqMod \in Nat /\ QueueSize \in Nat \ {0} /\ SeqMod % QueueSize = 0
        /\ x \in Nat
    BY SeqNumAssumption, ReorderQueueAssumption DEF RawSeq
  <1>2. x % QueueSize \in 0..QueueSize-1
    BY <1>1
  <1>3. CASE x < SeqMod
    BY <1>2, <1>3, CastRaw DEF Idx
  <1>4. CASE x >= SeqMod
    <2>1. x - SeqMod \in Nat /\ (x - SeqMod) + SeqMod = x
      BY <1>1, <1>4
    <2>2. x % QueueSize = (x - SeqMod) % QueueSize
      BY <1>1, <2>1, ModShift
    <2>3. SeqCast(x) = x - SeqMod
      BY <1>1, <1>4, CastRaw
    <2> QED BY <1>2, <2>2, <2>3 DEF Idx
  <1> QED BY <1>1, <1>3, <1>4

\* A queue over elements U, within its size, whose last place is not empty.
QueueOver(U) ==
  [begin : RawSeq, count : 0..QueueSize, slot : [0..QueueSize-1 -> U \union {NoUser}]]
LastIsSet(q) == q.count > 0 => UserAt(q, q.count - 1) # NoUser

\* The sizes in the form the steps below need them.
LEMMA Sizes ==
  /\ SeqMod \in Nat /\ SeqMod > 3 /\ QueueSize \in Nat \ {0}
  /\ 2 * QueueSize < SeqMod
BY SeqNumAssumption, ReorderQueueAssumption DEF SeqHalf

\* The entry at a place of the window is an element or the empty entry, and
\* depends only on the cast of the place's number.
LEMMA UserAtType ==
  ASSUME NEW U, NEW q \in QueueOver(U), NEW i \in 0..SeqMod-1
  PROVE  /\ SeqAt(q, i) \in RawSeq
         /\ Idx(SeqAt(q, i)) = Idx(SeqCast(SeqAt(q, i)))
         /\ Idx(SeqAt(q, i)) \in 0..QueueSize-1
         /\ UserAt(q, i) \in U \union {NoUser}
PROOF
  <1>1. q.begin \in RawSeq /\ q.slot \in [0..QueueSize-1 -> U \union {NoUser}]
    BY DEF QueueOver
  <1>2. SeqAt(q, i) \in RawSeq
    BY <1>1, CastAdd DEF SeqAt
  <1>3. Idx(SeqAt(q, i)) = Idx(SeqCast(SeqAt(q, i))) /\ Idx(SeqAt(q, i)) \in 0..QueueSize-1
    BY <1>2, IdxCast
  <1> QED BY <1>1, <1>2, <1>3 DEF UserAt

\* Moving the front of the window by k leaves the other places as they are.
LEMMA MovedFront ==
  ASSUME NEW U, NEW q \in QueueOver(U), NEW r \in QueueOver(U), NEW k \in 0..QueueSize,
         r.slot = q.slot, SeqCast(r.begin) = SeqCast(SeqAdd(q.begin, k)),
         NEW i \in Nat, k + i < SeqMod
  PROVE  /\ SeqCast(SeqAt(r, i)) = SeqCast(SeqAt(q, k + i))
         /\ UserAt(r, i) = UserAt(q, k + i)
PROOF
  <1>1. /\ q.begin \in RawSeq /\ k \in Nat
        /\ i \in 0..SeqMod-1 /\ k + i \in 0..SeqMod-1
    BY Sizes DEF QueueOver
  <1>2. SeqCast(SeqAdd(SeqAdd(q.begin, k), i)) = SeqCast(SeqAdd(q.begin, k + i))
    BY <1>1, CastAddAdd
  <1>3. SeqAdd(r.begin, i) = SeqAdd(SeqAdd(q.begin, k), i)
    BY DEF SeqAdd
  <1>4. SeqCast(SeqAt(r, i)) = SeqCast(SeqAt(q, k + i))
    BY <1>2, <1>3 DEF SeqAt
  <1>5. Idx(SeqAt(r, i)) = Idx(SeqAt(q, k + i))
    BY <1>1, <1>4, UserAtType
  <1> QED BY <1>4, <1>5 DEF UserAt

\* Pulling stops at the first empty place: what is left starts with a gap,
\* and what was pulled are elements.
LEMMA PullsOK ==
  ASSUME NEW U, NoUser \notin U, NEW q \in QueueOver(U), LastIsSet(q)
  PROVE  /\ PullCount(q) \in 0..q.count
         /\ AfterPulls(q) \in QueueOver(U)
         /\ AfterPulls(q).count = q.count - PullCount(q)
         /\ LastIsSet(AfterPulls(q))
         /\ AfterPulls(q).count > 0 => UserAt(AfterPulls(q), 0) = NoUser
         /\ Pulled(q) \in [1..PullCount(q) -> U]
PROOF
  <1> DEFINE S == {k \in 0..q.count : k = q.count \/ UserAt(q, k) = NoUser}
             n == PullCount(q)
             r == AfterPulls(q)
  <1>1. q.count \in 0..QueueSize /\ q.begin \in RawSeq
    BY DEF QueueOver
  <1>2. S \subseteq Nat /\ q.count \in S
    BY <1>1
  <1>3. n \in S /\ \A k \in S : n <= k
    BY <1>2, LeastNat DEF PullCount
  <1>4. n \in 0..q.count /\ n \in 0..SeqMod-1
    BY <1>1, <1>3, Sizes
  <1>5. /\ r \in QueueOver(U)
        /\ \A i \in Nat : n + i < SeqMod => UserAt(r, i) = UserAt(q, n + i)
    <2>1. /\ SeqAdvance(q.begin, n) \in RawSeq
          /\ SeqCast(SeqAdvance(q.begin, n)) = SeqCast(SeqAdd(q.begin, n))
      BY <1>1, <1>4, CastAdvance
    <2>2. /\ r = [begin |-> SeqAdvance(q.begin, n), count |-> q.count - n, slot |-> q.slot]
          /\ r.begin = SeqAdvance(q.begin, n) /\ r.slot = q.slot
      <3> HIDE DEF n
      <3>1. r = [q EXCEPT !.begin = SeqAdvance(q.begin, n), !.count = q.count - n]
        BY DEF AfterPulls, n
      <3>2. q \in [begin : RawSeq, count : 0..QueueSize, slot : [0..QueueSize-1 -> U \union {NoUser}]]
        BY DEF QueueOver
      <3> HIDE DEF r
      <3> QED BY <3>1, <3>2
    <2> HIDE DEF n, r
    <2>3. r \in QueueOver(U)
      BY <1>1, <1>4, <2>1, <2>2, Sizes DEF QueueOver
    <2>4. n \in 0..QueueSize
      BY <1>1, <1>4, Sizes
    <2> QED BY <2>1, <2>2, <2>3, <2>4, MovedFront
  <1>6. r.count = q.count - n
    BY DEF AfterPulls, QueueOver
  <1>7. ASSUME r.count > 0
        PROVE  UserAt(r, 0) = NoUser /\ UserAt(r, r.count - 1) # NoUser
    <2>1. n < q.count /\ UserAt(q, n) = NoUser
      BY <1>1, <1>3, <1>4, <1>6, <1>7
    <2>2. UserAt(r, 0) = UserAt(q, n + 0)
      BY <1>4, <1>5, Sizes
    <2>3. UserAt(r, r.count - 1) = UserAt(q, n + (r.count - 1)) /\ n + (r.count - 1) = q.count - 1
      <3>1. r.count - 1 \in Nat /\ n + (r.count - 1) = q.count - 1 /\ q.count - 1 < SeqMod
        BY <1>1, <1>4, <1>6, <1>7, Sizes
      <3> QED BY <1>5, <3>1
    <2>4. n + 0 = n
      BY <1>4
    <2>5. UserAt(q, q.count - 1) # NoUser
      BY <1>1, <1>4, <2>1 DEF LastIsSet
    <2> HIDE DEF n, r
    <2> QED BY <2>1, <2>2, <2>3, <2>4, <2>5
  <1>8. Pulled(q) \in [1..n -> U]
    <2>1. ASSUME NEW i \in 1..n PROVE UserAt(q, i - 1) \in U
      <3>1. i - 1 \in 0..q.count /\ i - 1 \in 0..SeqMod-1 /\ i - 1 < n
        BY <1>1, <1>4, Sizes
      <3>2. i - 1 \notin S
        BY <1>3, <1>4, <3>1
      <3>3. UserAt(q, i - 1) # NoUser
        BY <3>1, <3>2
      <3> QED BY <3>1, <3>3, UserAtType
    <2> QED BY <2>1 DEF Pulled
  <1> QED BY <1>4, <1>5, <1>6, <1>7, <1>8 DEF LastIsSet

\* Making room: the heads go until the new number fits in the ring or none is
\* left, so the window can then grow over it and stay within the ring.
LEMMA DropHeadsOK ==
  ASSUME NEW U, NEW q \in QueueOver(U), LastIsSet(q), NEW seq \in 0..SeqMod-1
  PROVE  LET d == DropHeads(q, seq)
         IN  /\ d \in QueueOver(U)
             /\ LastIsSet(d)
             /\ \E n \in d.count..QueueSize : ~SeqLt(SeqAt(d, n), SeqAdd(seq, 1))
             /\ q.count > 0 /\ d.count = 0 => d.begin = seq
PROOF
  <1> DEFINE d == DropHeads(q, seq)
             k == HeadsToDrop(q, seq)
             S == {j \in 0..q.count : j = q.count \/ ~Beyond(q, seq, j)}
  <1>1. /\ q.count \in 0..QueueSize /\ q.begin \in RawSeq
        /\ q \in [begin : RawSeq, count : 0..QueueSize,
                  slot : [0..QueueSize-1 -> U \union {NoUser}]]
    BY DEF QueueOver
  <1>2. k \in S
    <2>1. S \subseteq Nat /\ q.count \in S
      BY <1>1, Sizes
    <2> QED BY <2>1, LeastNat DEF HeadsToDrop
  <1>3. k \in 0..q.count /\ k \in 0..QueueSize /\ k \in 0..SeqMod-1
    BY <1>1, <1>2, Sizes
  <1>4. ASSUME NEW j \in 0..q.count
        PROVE  Beyond(q, seq, j) <=> SeqLt(SeqAdd(q.begin, QueueSize + j), SeqAdd(seq, 1))
    <2>1. /\ q.count \in Nat /\ QueueSize - q.count + j \in Nat
          /\ q.count + (QueueSize - q.count + j) = QueueSize + j
          /\ q.count + (QueueSize - q.count + j) < SeqMod
      BY <1>1, Sizes
    <2> DEFINE m == QueueSize - q.count + j
    <2> HIDE DEF m
    <2>2. SeqCast(SeqAdd(SeqAdd(q.begin, q.count), m)) = SeqCast(SeqAdd(q.begin, q.count + m))
      BY <1>1, <2>1, CastAddAdd DEF m
    <2>3. SeqCast(SeqAdd(SeqAdd(q.begin, q.count), m)) = SeqCast(SeqAdd(q.begin, QueueSize + j))
      BY <2>1, <2>2 DEF m
    <2> QED BY <2>3, LtCast DEF Beyond, QueueEnd, m
  <1>5. CASE ~Beyond(q, seq, 0)
    <2>1. d = q
      BY <1>5 DEF DropHeads
    <2>2. ~SeqLt(SeqAdd(q.begin, QueueSize + 0), SeqAdd(seq, 1))
      BY <1>1, <1>4, <1>5
    <2>3. QueueSize + 0 = QueueSize /\ QueueSize \in q.count..QueueSize
      BY <1>1, Sizes
    <2> QED BY <2>1, <2>2, <2>3 DEF SeqAt
  <1>6. CASE Beyond(q, seq, 0) /\ k = q.count
    <2>1. d.begin = seq /\ d.count = 0 /\ d = [begin |-> seq, count |-> 0, slot |-> q.slot]
      <3> HIDE DEF k
      <3>1. d = [q EXCEPT !.begin = seq, !.count = q.count - k]
        BY <1>6 DEF DropHeads, k
      <3>2. q.count - k = 0
        BY <1>1, <1>6, Sizes
      <3> HIDE DEF d
      <3> QED BY <1>1, <3>1, <3>2
    <2>2. seq \in RawSeq /\ 0 \in 0..QueueSize /\ 1 \in 0..QueueSize
      BY Sizes DEF RawSeq
    <2>3. d \in QueueOver(U)
      BY <1>1, <2>1, <2>2 DEF QueueOver
    <2>4. ~SeqLt(SeqAt(d, 1), SeqAdd(seq, 1))
      <3>1. SeqCast(SeqAdd(seq, 1)) \in 0..SeqMod-1
        BY <2>2, Sizes, CastAdd, CastRaw
      <3> QED BY <2>1, <3>1, Sizes DEF SeqAt, SeqLt
    <2> HIDE DEF d
    <2>5. 1 \in d.count..QueueSize
      BY <2>1, Sizes
    <2> QED BY <2>1, <2>3, <2>4, <2>5 DEF LastIsSet, d
  <1>7. CASE Beyond(q, seq, 0) /\ k # q.count
    <2>1. /\ SeqAdvance(q.begin, k) \in RawSeq
          /\ SeqCast(SeqAdvance(q.begin, k)) = SeqCast(SeqAdd(q.begin, k))
      BY <1>1, <1>3, CastAdvance
    <2>2. /\ d = [begin |-> SeqAdvance(q.begin, k), count |-> q.count - k, slot |-> q.slot]
          /\ d.begin = SeqAdvance(q.begin, k) /\ d.count = q.count - k /\ d.slot = q.slot
      <3> HIDE DEF k
      <3>1. d = [q EXCEPT !.begin = SeqAdvance(q.begin, k), !.count = q.count - k]
        BY <1>7 DEF DropHeads, k
      <3> HIDE DEF d
      <3> QED BY <1>1, <3>1
    <2> HIDE DEF d, k
    <2>3. d \in QueueOver(U) /\ d.count > 0
      BY <1>1, <1>3, <1>7, <2>1, <2>2, Sizes DEF QueueOver
    <2>4. \A i \in Nat : k + i < SeqMod => /\ SeqCast(SeqAt(d, i)) = SeqCast(SeqAt(q, k + i))
                                           /\ UserAt(d, i) = UserAt(q, k + i)
      BY <1>3, <2>1, <2>2, <2>3, MovedFront
    <2>5. LastIsSet(d)
      <3>1. /\ d.count - 1 \in Nat /\ k + (d.count - 1) = q.count - 1
            /\ k + (d.count - 1) < SeqMod /\ q.count > 0
        BY <1>1, <1>3, <1>7, <2>2, Sizes
      <3>2. UserAt(d, d.count - 1) = UserAt(q, q.count - 1)
        BY <2>4, <3>1
      <3> QED BY <3>1, <3>2 DEF LastIsSet
    <2>6. ~SeqLt(SeqAt(d, QueueSize), SeqAdd(seq, 1))
      <3>1. ~Beyond(q, seq, k)
        BY <1>2, <1>7
      <3>2. ~SeqLt(SeqAdd(q.begin, QueueSize + k), SeqAdd(seq, 1))
        BY <1>3, <1>4, <3>1
      <3>3. QueueSize \in Nat /\ k + QueueSize < SeqMod /\ k + QueueSize = QueueSize + k
        BY <1>3, Sizes
      <3>4. SeqCast(SeqAt(d, QueueSize)) = SeqCast(SeqAdd(q.begin, QueueSize + k))
        BY <2>4, <3>3 DEF SeqAt
      <3> QED BY <3>2, <3>4, LtCast
    <2>7. QueueSize \in d.count..QueueSize
      BY <1>1, <1>3, <2>2, Sizes
    <2> QED BY <2>3, <2>5, <2>6, <2>7 DEF d
  <1> QED BY <1>5, <1>6, <1>7

\* Growing the window over the new number ends within the ring (the assertion
\* in the loop of chiaki_reorder_queue_push), and leaves its entry set.
LEMMA ExtendOK ==
  ASSUME NEW U, NoUser \notin U, NEW d \in QueueOver(U), LastIsSet(d),
         NEW seq \in 0..SeqMod-1, NEW user \in U,
         \E n \in d.count..QueueSize : ~SeqLt(SeqAt(d, n), SeqAdd(seq, 1))
  PROVE  LET r == Store(ExtendTo(d, seq), seq, user)
         IN  /\ r \in QueueOver(U)
             /\ LastIsSet(r)
             /\ r.count >= d.count
             /\ d.begin = seq => r.count > 0
PROOF
  <1> DEFINE S == {m \in d.count..SeqMod-1 : ~SeqLt(SeqAt(d, m), SeqAdd(seq, 1))}
             n == ExtendedCount(d, seq)
             grown == {Idx(SeqAt(d, i)) : i \in d.count..n-1}
             e == ExtendTo(d, seq)
             r == Store(e, seq, user)
             slot == [i \in 0..QueueSize-1 |-> IF i \in grown THEN NoUser ELSE d.slot[i]]
  <1>1. /\ d.count \in 0..QueueSize /\ d.begin \in RawSeq
        /\ d.slot \in [0..QueueSize-1 -> U \union {NoUser}]
        /\ d \in [begin : RawSeq, count : 0..QueueSize,
                  slot : [0..QueueSize-1 -> U \union {NoUser}]]
    BY DEF QueueOver
  <1>2. n \in S /\ n \in d.count..QueueSize /\ \A m \in S : n <= m
    <2>1. PICK m \in d.count..QueueSize : ~SeqLt(SeqAt(d, m), SeqAdd(seq, 1))
      OBVIOUS
    <2>2. S \subseteq Nat /\ m \in S
      BY <1>1, <2>1, Sizes
    <2>3. n \in S /\ \A j \in S : n <= j
      BY <2>2, LeastNat DEF ExtendedCount
    <2> QED BY <1>1, <2>2, <2>3, Sizes
  <1>3. /\ e.begin = d.begin /\ e.count = n /\ e.slot = slot
        /\ e = [begin |-> d.begin, count |-> n, slot |-> slot]
    <2>1. e = [d EXCEPT !.count = n, !.slot = slot]
      BY DEF ExtendTo
    <2> HIDE DEF n, slot, e
    <2> QED BY <1>1, <2>1
  <1>4. slot \in [0..QueueSize-1 -> U \union {NoUser}]
    BY <1>1
  <1>5. seq \in RawSeq /\ SeqCast(seq) = seq /\ Idx(seq) \in 0..QueueSize-1
    BY Sizes, CastRaw, IdxCast DEF RawSeq
  <1>6. /\ r.begin = d.begin /\ r.count = n /\ r.slot = [slot EXCEPT ![Idx(seq)] = user]
        /\ r = [begin |-> d.begin, count |-> n, slot |-> r.slot]
    <2>1. r = [e EXCEPT !.slot = [e.slot EXCEPT ![Idx(seq)] = user]]
      BY DEF Store
    <2> HIDE DEF n, slot, e, r
    <2> QED BY <1>3, <2>1
  <1> HIDE DEF e, r, slot
  <1>7. r.slot \in [0..QueueSize-1 -> U \union {NoUser}]
    BY <1>4, <1>5, <1>6
  <1>8. r \in QueueOver(U)
    <2>1. n \in 0..QueueSize
      BY <1>1, <1>2, Sizes
    <2> HIDE DEF n
    <2> QED BY <1>1, <1>6, <1>7, <2>1 DEF QueueOver
  <1>9. r.count >= d.count
    BY <1>1, <1>2, <1>6, Sizes
  <1>10. ASSUME r.count > 0
         PROVE  UserAt(r, r.count - 1) # NoUser
    <2>1. n - 1 \in 0..SeqMod-1 /\ n \in 1..SeqMod-1
      BY <1>1, <1>2, <1>6, <1>10, Sizes
    <2>2. SeqAt(r, n - 1) = SeqAt(d, n - 1)
      BY <1>6 DEF SeqAt
    <2>3. Idx(SeqAt(d, n - 1)) = Idx(SeqCast(SeqAt(d, n - 1))) /\ Idx(SeqAt(d, n - 1)) \in 0..QueueSize-1
      BY <2>1, UserAtType
    <2>4. CASE Idx(SeqAt(d, n - 1)) = Idx(seq)
      BY <1>4, <1>5, <1>6, <2>2, <2>4 DEF UserAt
    <2>5. CASE Idx(SeqAt(d, n - 1)) # Idx(seq)
      <3>1. n = d.count
        <4>1. SUFFICES ASSUME n # d.count PROVE FALSE
          OBVIOUS
        <4>2. n - 1 \in d.count..SeqMod-1 /\ n - 1 < n
          BY <1>1, <1>2, <2>1, <4>1, Sizes
        <4>3. n - 1 \notin S
          BY <1>2, <2>1, <4>2
        <4>4. SeqLt(SeqAt(d, n - 1), SeqAdd(seq, 1)) /\ ~SeqLt(SeqAt(d, n), SeqAdd(seq, 1))
          BY <1>2, <4>2, <4>3
        <4> HIDE DEF n, S
        <4>5. SeqCast(SeqAt(d, n - 1)) = seq
          BY <1>1, <2>1, <4>4, LtStops DEF SeqAt
        <4> QED BY <2>3, <2>5, <4>5
      <3>2. grown = {}
        BY <1>1, <3>1, Sizes
      <3>3. r.slot[Idx(SeqAt(d, n - 1))] = d.slot[Idx(SeqAt(d, n - 1))]
        <4> HIDE DEF n, grown
        <4> QED BY <1>4, <1>5, <1>6, <2>3, <2>5, <3>2 DEF slot
      <3>4. UserAt(d, d.count - 1) # NoUser
        BY <1>1, <1>6, <1>10, <3>1 DEF LastIsSet
      <3> HIDE DEF n
      <3> QED BY <1>6, <2>2, <3>1, <3>3, <3>4 DEF UserAt
    <2> QED BY <2>4, <2>5
  <1>11. ASSUME d.begin = seq PROVE r.count > 0
    <2>1. SUFFICES ASSUME n = 0 PROVE FALSE
      BY <1>1, <1>2, <1>6, Sizes
    <2>2. ~SeqLt(SeqAdd(seq, 0), SeqAdd(seq, 1))
      BY <1>2, <1>11, <2>1 DEF SeqAt
    <2>3. /\ SeqCast(SeqAdd(seq, 0)) = seq
          /\ SeqCast(SeqAdd(seq, 1)) = IF seq + 1 < SeqMod THEN seq + 1 ELSE 0
      <3>1. 0 \in 0..SeqMod-1 /\ 1 \in 0..SeqMod-1
        BY Sizes
      <3> QED BY <1>5, <3>1, Sizes, CastAdd
    <2>4. SeqHalf \in Nat /\ SeqHalf > 1 /\ SeqMod = 2 * SeqHalf
      BY SeqNumAssumption DEF SeqHalf
    <2> QED BY <2>2, <2>3, <2>4, Sizes DEF SeqLt
  <1> QED BY <1>8, <1>9, <1>10, <1>11 DEF LastIsSet, r, e

\* The elements at some places of the window are finitely many.
LEMMA FiniteUsers ==
  ASSUME NEW q, NEW S, IsFiniteSet(S)
  PROVE  IsFiniteSet({UserAt(q, i) : i \in S})
PROOF
  <1> DEFINE f == [i \in S |-> UserAt(q, i)]
             T == {UserAt(q, i) : i \in S}
  <1>1. f \in Surjection(S, T)
    BY DEF Surjection
  <1> QED
    BY <1>1, FS_Surjection

\* chiaki_reorder_queue_push keeps the window within the ring and ending with
\* an element, and never empties a queue.  At most finitely many elements
\* go to the drop callback.
LEMMA PushOK ==
  ASSUME NEW U, NoUser \notin U, NEW q \in QueueOver(U), LastIsSet(q),
         NEW seq \in 0..SeqMod-1, NEW user \in U
  PROVE  LET p == Push(q, seq, user)
         IN  /\ p.queue \in QueueOver(U)
             /\ LastIsSet(p.queue)
             /\ q.count > 0 => p.queue.count > 0
             /\ IsFiniteSet(p.dropped)
PROOF
  <1> DEFINE r == Rebase(q, seq)
             d == DropHeads(r, seq)
             p == Push(q, seq, user)
  <1> SUFFICES /\ p.queue \in QueueOver(U)
               /\ LastIsSet(p.queue)
               /\ q.count > 0 => p.queue.count > 0
               /\ IsFiniteSet(p.dropped)
    OBVIOUS
  <1>1. /\ q.count \in 0..QueueSize /\ q.begin \in RawSeq
        /\ q.slot \in [0..QueueSize-1 -> U \union {NoUser}]
        /\ q \in [begin : RawSeq, count : 0..QueueSize,
                  slot : [0..QueueSize-1 -> U \union {NoUser}]]
    BY DEF QueueOver
  <1>2. seq \in RawSeq /\ Idx(seq) \in 0..QueueSize-1
    BY Sizes, IdxCast DEF RawSeq
  <1>3. CASE p = [queue |-> q, dropped |-> {user}]
    <2>1. p.queue = q /\ p.dropped = {user}
      BY <1>3
    <2> HIDE DEF p
    <2> QED BY <2>1, FS_Singleton
  <1>4. CASE ~Rejects(q, seq) /\ InWindow(q, seq)
    <2> DEFINE t == Store(q, seq, user)
    <2>1. p.queue = t /\ p.dropped = {}
      BY <1>4 DEF Push
    <2>2. /\ t.begin = q.begin /\ t.count = q.count /\ t.slot = [q.slot EXCEPT ![Idx(seq)] = user]
          /\ t = [begin |-> q.begin, count |-> q.count, slot |-> t.slot]
      <3>1. t = [q EXCEPT !.slot = [q.slot EXCEPT ![Idx(seq)] = user]]
        BY DEF Store
      <3> HIDE DEF t
      <3> QED BY <1>1, <3>1
    <2> HIDE DEF t, p
    <2>3. t \in QueueOver(U)
      BY <1>1, <1>2, <2>2 DEF QueueOver
    <2>4. LastIsSet(t)
      <3>1. SUFFICES ASSUME q.count > 0
                     PROVE  UserAt(t, q.count - 1) # NoUser
        BY <2>2 DEF LastIsSet
      <3>2. q.count - 1 \in 0..SeqMod-1 /\ UserAt(q, q.count - 1) # NoUser
        BY <1>1, <3>1, Sizes DEF LastIsSet
      <3>3. Idx(SeqAt(q, q.count - 1)) \in 0..QueueSize-1
        BY <3>2, UserAtType
      <3> QED BY <1>1, <1>2, <2>2, <3>2, <3>3 DEF UserAt, SeqAt
    <2>5. IsFiniteSet(p.dropped)
      BY <2>1, FS_EmptySet
    <2> QED BY <2>1, <2>2, <2>3, <2>4, <2>5
  <1>5. CASE /\ ~Rejects(q, seq) /\ ~InWindow(q, seq)
             /\ p = [queue |-> Store(ExtendTo(d, seq), seq, user), dropped |-> DroppedHeads(r, seq)]
    <2>1. r \in QueueOver(U) /\ LastIsSet(r) /\ r.count = q.count
      <3>1. CASE ~Unordered(q, seq)
        BY <3>1 DEF Rebase
      <3>2. CASE Unordered(q, seq)
        <4>1. q.count = 0
          BY <1>5, <3>2 DEF Rejects
        <4>2. r = [q EXCEPT !.begin = seq]
          BY <3>2 DEF Rebase
        <4> HIDE DEF r
        <4>3. r.count = 0 /\ r.count = q.count /\ r = [begin |-> seq, count |-> q.count, slot |-> q.slot]
          BY <1>1, <4>1, <4>2
        <4> QED BY <1>1, <1>2, <4>3 DEF QueueOver, LastIsSet
      <3> QED BY <3>1, <3>2
    <2> HIDE DEF r
    <2>2. /\ d \in QueueOver(U)
          /\ LastIsSet(d)
          /\ \E n \in d.count..QueueSize : ~SeqLt(SeqAt(d, n), SeqAdd(seq, 1))
          /\ r.count > 0 /\ d.count = 0 => d.begin = seq
      BY <2>1, DropHeadsOK
    <2> HIDE DEF d
    <2> DEFINE e == Store(ExtendTo(d, seq), seq, user)
    <2>3. /\ e \in QueueOver(U)
          /\ LastIsSet(e)
          /\ e.count >= d.count
          /\ d.begin = seq => e.count > 0
      BY <2>2, ExtendOK
    <2>4. p.queue = e /\ p.dropped = DroppedHeads(r, seq)
      BY <1>5
    <2> HIDE DEF e
    <2>5. d.count \in Nat /\ e.count \in Nat
      BY <2>2, <2>3, Sizes DEF QueueOver
    <2>6. q.count > 0 => e.count > 0
      BY <2>1, <2>2, <2>3, <2>5
    <2>7. IsFiniteSet(DroppedHeads(r, seq))
      <3> DEFINE S == SetIndices(r) \cap 0..HeadsToDrop(r, seq)-1
      <3>1. IsFiniteSet(S)
        <4>1. IsFiniteSet(0..r.count-1)
          <5>1. r.count - 1 \in Int
            BY <1>1, <2>1, Sizes
          <5> QED BY <5>1, FS_Interval
        <4>2. S \in SUBSET (0..r.count-1)
          BY DEF SetIndices
        <4> HIDE DEF S
        <4> QED BY <4>1, <4>2, FS_Subset
      <3>2. DroppedHeads(r, seq) = {} \/ DroppedHeads(r, seq) = {UserAt(r, i) : i \in S}
        BY DEF DroppedHeads
      <3> HIDE DEF S
      <3> QED BY <3>1, <3>2, FiniteUsers, FS_EmptySet
    <2> HIDE DEF p
    <2> QED BY <2>3, <2>4, <2>6, <2>7
  <1>6. \/ p = [queue |-> q, dropped |-> {user}]
        \/ ~Rejects(q, seq) /\ InWindow(q, seq)
        \/ /\ ~Rejects(q, seq) /\ ~InWindow(q, seq)
           /\ p = [queue |-> Store(ExtendTo(d, seq), seq, user), dropped |-> DroppedHeads(r, seq)]
    BY DEF Push
  <1> HIDE DEF p, d, r
  <1>7. QED BY <1>3, <1>4, <1>5, <1>6 DEF p

-----------------------------------------------------------------------------
(* Which element is at which place                                         *)

\* The place in the ring of a place of the window.
LEMMA IdxAt ==
  ASSUME NEW U, NEW q \in QueueOver(U), NEW i \in 0..SeqMod-1
  PROVE  Idx(SeqAt(q, i)) = (SeqCast(q.begin) + i) % QueueSize
PROOF
  <1> DEFINE c == SeqCast(q.begin)
  <1>1. q.begin \in RawSeq
    BY DEF QueueOver
  <1>2. c \in 0..SeqMod-1
    BY <1>1, CastRaw
  <1>3. Idx(SeqAt(q, i)) = SeqCast(SeqAt(q, i)) % QueueSize
    BY UserAtType DEF Idx
  <1>4. SeqCast(SeqAt(q, i)) = IF c + i < SeqMod THEN c + i ELSE c + i - SeqMod
    BY <1>1, CastAdd DEF SeqAt
  <1> HIDE DEF c
  <1>5. CASE c + i < SeqMod
    BY <1>3, <1>4, <1>5 DEF c
  <1>6. CASE ~(c + i < SeqMod)
    <2>1. c + i - SeqMod \in Nat /\ (c + i - SeqMod) + SeqMod = c + i
      BY <1>2, <1>6, Sizes
    <2>2. ((c + i - SeqMod) + SeqMod) % QueueSize = (c + i - SeqMod) % QueueSize
      BY <2>1, Sizes, ReorderQueueAssumption, ModShift
    <2> QED BY <1>3, <1>4, <1>6, <2>1, <2>2 DEF c
  <1> QED BY <1>5, <1>6

\* Two places of the window are never at the same place of the ring.
LEMMA IdxApart ==
  ASSUME NEW U, NEW q \in QueueOver(U), NEW i \in 0..QueueSize-1, NEW j \in 0..QueueSize-1,
         i # j
  PROVE  Idx(SeqAt(q, i)) # Idx(SeqAt(q, j))
PROOF
  <1> DEFINE c == SeqCast(q.begin)
  <1>1. i \in 0..SeqMod-1 /\ j \in 0..SeqMod-1 /\ QueueSize \in Nat \ {0} /\ i \in Nat /\ j \in Nat
    BY Sizes
  <1>2. c \in Nat
    <2>1. q.begin \in RawSeq
      BY DEF QueueOver
    <2> QED BY <2>1, CastRaw, Sizes
  <1>3. Idx(SeqAt(q, i)) = (c + i) % QueueSize /\ Idx(SeqAt(q, j)) = (c + j) % QueueSize
    BY <1>1, IdxAt
  <1> HIDE DEF c
  <1>4. CASE i < j
    <2>1. c + i \in Nat /\ c + j \in Nat /\ c + i < c + j /\ (c + j) - (c + i) < QueueSize
      BY <1>1, <1>2, <1>4
    <2> QED BY <1>1, <1>3, <2>1, ModApart
  <1>5. CASE j < i
    <2>1. c + i \in Nat /\ c + j \in Nat /\ c + j < c + i /\ (c + i) - (c + j) < QueueSize
      BY <1>1, <1>2, <1>5
    <2> QED BY <1>1, <1>3, <2>1, ModApart
  <1> QED BY <1>1, <1>4, <1>5

\* A number that push takes for one of the window is the number of a place.
LEMMA InWindowPlace ==
  ASSUME NEW U, NEW q \in QueueOver(U), NEW seq \in 0..SeqMod-1, InWindow(q, seq)
  PROVE  \E k \in 0..q.count-1 : SeqCast(SeqAt(q, k)) = seq
PROOF
  <1> DEFINE c == SeqCast(q.begin)
             e == SeqCast(QueueEnd(q))
             k == IF seq >= c THEN seq - c ELSE seq - c + SeqMod
  <1>1. /\ SeqMod \in Nat /\ SeqHalf \in Nat /\ SeqHalf > 1 /\ SeqMod = 2 * SeqHalf
        /\ q.count \in 0..QueueSize /\ q.count \in 0..SeqMod-1 /\ q.begin \in RawSeq
        /\ 2 * QueueSize <= SeqHalf /\ QueueSize \in Nat
    BY SeqNumAssumption, ReorderQueueAssumption, Sizes DEF SeqHalf, QueueOver
  <1>2. c \in 0..SeqMod-1 /\ seq \in RawSeq /\ SeqCast(seq) = seq
    BY <1>1, CastRaw DEF RawSeq
  <1>3. e = IF c + q.count < SeqMod THEN c + q.count ELSE c + q.count - SeqMod
    BY <1>1, CastAdd DEF QueueEnd
  <1>4. \/ seq = c
        \/ c < seq /\ seq - c < SeqHalf
        \/ c > seq /\ c - seq > SeqHalf
    BY <1>2 DEF InWindow, SeqGe, SeqGt
  <1>5. (seq < e /\ e - seq < SeqHalf) \/ (seq > e /\ seq - e > SeqHalf)
    BY <1>2 DEF InWindow, SeqLt
  <1> HIDE DEF c, e
  <1>6. k \in 0..q.count-1 /\ (IF c + k < SeqMod THEN c + k ELSE c + k - SeqMod) = seq
    BY <1>1, <1>2, <1>3, <1>4, <1>5
  <1>7. k \in 0..SeqMod-1
    BY <1>1, <1>6
  <1> HIDE DEF k
  <1>8. SeqCast(SeqAt(q, k)) = IF c + k < SeqMod THEN c + k ELSE c + k - SeqMod
    BY <1>1, <1>7, CastAdd DEF SeqAt, c
  <1> QED BY <1>6, <1>8

\* A number beyond the window, as push sees it, is at most half the modulus
\* beyond it.
LEMMA AheadOf ==
  ASSUME NEW U, NEW q \in QueueOver(U), NEW seq \in 0..SeqMod-1,
         ~InWindow(q, seq), ~SeqLt(seq, q.begin), ~Unordered(q, seq)
  PROVE  \E t \in q.count+1..q.count+SeqHalf :
           /\ t \in 0..SeqMod-1
           /\ SeqCast(SeqAdd(seq, 1)) = SeqCast(SeqAdd(q.begin, t))
           /\ SeqCast(SeqAdd(q.begin, t - 1)) = seq
PROOF
  <1> DEFINE c == SeqCast(q.begin)
             e == SeqCast(QueueEnd(q))
             y == SeqCast(SeqAdd(seq, 1))
             t == q.count + 1 + IF seq >= e THEN seq - e ELSE seq - e + SeqMod
  <1>1. /\ SeqMod \in Nat /\ SeqHalf \in Nat /\ SeqHalf > 1 /\ SeqMod = 2 * SeqHalf
        /\ q.count \in 0..QueueSize /\ q.count \in 0..SeqMod-1 /\ q.begin \in RawSeq
        /\ 2 * QueueSize <= SeqHalf /\ QueueSize \in Nat /\ 1 \in 0..SeqMod-1
    BY SeqNumAssumption, ReorderQueueAssumption, Sizes DEF SeqHalf, QueueOver
  <1>2. c \in 0..SeqMod-1 /\ seq \in RawSeq /\ SeqCast(seq) = seq
    BY <1>1, CastRaw DEF RawSeq
  <1>3. e = IF c + q.count < SeqMod THEN c + q.count ELSE c + q.count - SeqMod
    BY <1>1, CastAdd DEF QueueEnd
  <1>4. QueueEnd(q) \in RawSeq
    BY <1>1, CastAdd DEF QueueEnd
  <1>5. \/ seq = e
        \/ e < seq /\ seq - e < SeqHalf
        \/ e > seq /\ e - seq > SeqHalf
    BY <1>2 DEF InWindow, Unordered, SeqGe, SeqGt
  <1>6. y = IF seq + 1 < SeqMod THEN seq + 1 ELSE seq + 1 - SeqMod
    BY <1>1, <1>2, CastAdd
  <1> HIDE DEF c, e, y
  <1>7. /\ t \in q.count+1..q.count+SeqHalf /\ t \in 0..SeqMod-1 /\ t - 1 \in 0..SeqMod-1
        /\ (IF c + t < SeqMod THEN c + t ELSE c + t - SeqMod) = y
        /\ (IF c + (t - 1) < SeqMod THEN c + (t - 1) ELSE c + (t - 1) - SeqMod) = seq
    <2> DEFINE k == q.count
    <2>1. /\ SeqMod \in Nat /\ SeqHalf \in Nat /\ SeqHalf > 1 /\ SeqMod = 2 * SeqHalf
          /\ k \in Nat /\ 2 * k <= SeqHalf
          /\ c \in Nat /\ c < SeqMod /\ seq \in Nat /\ seq < SeqMod
      BY <1>1, <1>2
    <2>2. e \in Nat /\ e < SeqMod /\ (e = c + k \/ (e = c + k - SeqMod /\ c + k >= SeqMod))
      BY <1>3, <2>1
    <2>3. t = k + 1 + IF seq >= e THEN seq - e ELSE seq - e + SeqMod
      OBVIOUS
    <2> HIDE DEF k, t
    <2>4. CASE seq >= e
      <3>1. t = k + 1 + (seq - e) /\ seq - e < SeqHalf
        BY <1>5, <2>1, <2>2, <2>3, <2>4
      <3>2. t \in k+1..k+SeqHalf /\ t \in 0..SeqMod-1 /\ t - 1 \in 0..SeqMod-1
        BY <2>1, <2>2, <2>4, <3>1
      <3>3. CASE e = c + k
        <4>1. c + (t - 1) = seq /\ c + t = seq + 1
          BY <2>1, <2>2, <3>1, <3>3
        <4> QED BY <1>6, <2>1, <3>2, <4>1 DEF k
      <3>4. CASE e = c + k - SeqMod /\ c + k >= SeqMod
        <4>1. c + (t - 1) = seq + SeqMod /\ c + t = seq + 1 + SeqMod
          BY <2>1, <2>2, <3>1, <3>4
        <4>2. y = seq + 1
          BY <1>6, <2>1, <2>2, <3>1, <3>4
        <4> QED BY <2>1, <3>2, <4>1, <4>2 DEF k
      <3> QED BY <2>2, <3>3, <3>4
    <2>5. CASE seq < e
      <3>1. t = k + 1 + (seq - e) + SeqMod /\ e - seq > SeqHalf
        BY <1>5, <2>1, <2>2, <2>3, <2>5
      <3>2. t \in k+1..k+SeqHalf /\ t \in 0..SeqMod-1 /\ t - 1 \in 0..SeqMod-1
        BY <2>1, <2>2, <2>5, <3>1
      <3>3. e = c + k
        BY <2>1, <2>2, <3>1
      <3>4. c + (t - 1) = seq + SeqMod /\ c + t = seq + 1 + SeqMod
        BY <2>1, <2>2, <3>1, <3>3
      <3>5. y = seq + 1
        BY <1>6, <2>1, <2>2, <3>1
      <3> QED BY <2>1, <3>2, <3>4, <3>5 DEF k
    <2> QED BY <2>1, <2>2, <2>4, <2>5
  <1> HIDE DEF t
  <1>8. /\ SeqCast(SeqAdd(q.begin, t)) = IF c + t < SeqMod THEN c + t ELSE c + t - SeqMod
        /\ SeqCast(SeqAdd(q.begin, t - 1)) = IF c + (t - 1) < SeqMod THEN c + (t - 1)
                                             ELSE c + (t - 1) - SeqMod
    BY <1>1, <1>7, CastAdd DEF c
  <1> QED BY <1>7, <1>8 DEF y

\* Growing the window over a number ahead of its end: the new element is at
\* its last place, the places between are empty, the others are kept.
LEMMA ExtendPlaces ==
  ASSUME NEW U, NoUser \notin U, NEW d \in QueueOver(U), LastIsSet(d),
         NEW seq \in 0..SeqMod-1, NEW user \in U,
         SeqLt(SeqAt(d, d.count), SeqAdd(seq, 1)),
         \E n \in d.count..QueueSize : ~SeqLt(SeqAt(d, n), SeqAdd(seq, 1))
  PROVE  LET r == Store(ExtendTo(d, seq), seq, user)
         IN  /\ r.begin = d.begin
             /\ r.count \in d.count+1..QueueSize
             /\ SeqCast(SeqAt(r, r.count - 1)) = seq
             /\ \A i \in 0..r.count-1 :
                  UserAt(r, i) = IF i = r.count - 1 THEN user
                                 ELSE IF i < d.count THEN UserAt(d, i) ELSE NoUser
PROOF
  <1> DEFINE S == {m \in d.count..SeqMod-1 : ~SeqLt(SeqAt(d, m), SeqAdd(seq, 1))}
             n == ExtendedCount(d, seq)
             grown == {Idx(SeqAt(d, i)) : i \in d.count..n-1}
             e == ExtendTo(d, seq)
             r == Store(e, seq, user)
             slot == [i \in 0..QueueSize-1 |-> IF i \in grown THEN NoUser ELSE d.slot[i]]
  <1>1. /\ d.count \in 0..QueueSize /\ d.begin \in RawSeq
        /\ d.slot \in [0..QueueSize-1 -> U \union {NoUser}]
        /\ d \in [begin : RawSeq, count : 0..QueueSize,
                  slot : [0..QueueSize-1 -> U \union {NoUser}]]
    BY DEF QueueOver
  <1>2. n \in S /\ n \in d.count+1..QueueSize /\ \A m \in S : n <= m
    <2>1. PICK m \in d.count..QueueSize : ~SeqLt(SeqAt(d, m), SeqAdd(seq, 1))
      OBVIOUS
    <2>2. S \subseteq Nat /\ m \in S
      BY <1>1, <2>1, Sizes
    <2>3. n \in S /\ \A j \in S : n <= j
      BY <2>2, LeastNat DEF ExtendedCount
    <2>4. n # d.count
      BY <2>3
    <2> QED BY <1>1, <2>2, <2>3, <2>4, Sizes
  <1>3. /\ e.begin = d.begin /\ e.count = n /\ e.slot = slot
        /\ e = [begin |-> d.begin, count |-> n, slot |-> slot]
    <2>1. e = [d EXCEPT !.count = n, !.slot = slot]
      BY DEF ExtendTo
    <2> HIDE DEF n, slot, e
    <2> QED BY <1>1, <2>1
  <1>4. slot \in [0..QueueSize-1 -> U \union {NoUser}]
    BY <1>1
  <1>5. seq \in RawSeq /\ SeqCast(seq) = seq /\ Idx(seq) \in 0..QueueSize-1
    BY Sizes, CastRaw, IdxCast DEF RawSeq
  <1>6. r.begin = d.begin /\ r.count = n /\ r.slot = [slot EXCEPT ![Idx(seq)] = user]
    <2>1. r = [e EXCEPT !.slot = [e.slot EXCEPT ![Idx(seq)] = user]]
      BY DEF Store
    <2> HIDE DEF n, slot, e, r
    <2> QED BY <1>3, <2>1
  <1>7. n \in Nat /\ n - 1 \in 0..QueueSize-1 /\ n - 1 \in 0..SeqMod-1 /\ n \in 1..SeqMod-1
        /\ n - 1 \in d.count..SeqMod-1 /\ n - 1 < n
    BY <1>1, <1>2, Sizes
  <1>8. SeqCast(SeqAt(d, n - 1)) = seq /\ Idx(SeqAt(d, n - 1)) = Idx(seq)
    <2>1. SeqLt(SeqAt(d, n - 1), SeqAdd(seq, 1)) /\ ~SeqLt(SeqAt(d, n), SeqAdd(seq, 1))
      <3>1. n - 1 \notin S
        BY <1>2, <1>7
      <3> QED BY <1>2, <1>7, <3>1
    <2> HIDE DEF n, S
    <2>2. SeqCast(SeqAt(d, n - 1)) = seq
      BY <1>1, <1>7, <2>1, LtStops DEF SeqAt
    <2> QED BY <1>7, <2>2, UserAtType
  <1>9. ASSUME NEW i \in 0..n-1
        PROVE  UserAt(r, i) = IF i = n - 1 THEN user
                              ELSE IF i < d.count THEN UserAt(d, i) ELSE NoUser
    <2>1. i \in 0..QueueSize-1 /\ i \in 0..SeqMod-1
      BY <1>2, <1>7, Sizes
    <2>2. UserAt(r, i) = r.slot[Idx(SeqAt(d, i))] /\ Idx(SeqAt(d, i)) \in 0..QueueSize-1
      BY <1>6, <2>1, UserAtType DEF UserAt, SeqAt
    <2>3. CASE i = n - 1
      BY <1>4, <1>6, <1>8, <2>2, <2>3
    <2>4. CASE i # n - 1 /\ i < d.count
      <3>1. Idx(SeqAt(d, i)) # Idx(seq)
        BY <1>7, <1>8, <2>1, <2>4, IdxApart
      <3>2. ASSUME NEW j \in d.count..n-1 PROVE Idx(SeqAt(d, i)) # Idx(SeqAt(d, j))
        <4>1. j \in 0..QueueSize-1 /\ i # j
          <5>1. d.count \in Nat /\ QueueSize \in Nat /\ n - 1 \in 0..QueueSize-1 /\ n \in Nat
            BY <1>1, <1>7, Sizes
          <5>2. i < d.count /\ i \in Nat
            BY <2>1, <2>4
          <5> HIDE DEF n
          <5> QED BY <5>1, <5>2
        <4> QED BY <2>1, <4>1, IdxApart
      <3>3. Idx(SeqAt(d, i)) \notin grown
        BY <3>2
      <3>4. r.slot[Idx(SeqAt(d, i))] = d.slot[Idx(SeqAt(d, i))]
        <4> HIDE DEF grown, n, r
        <4> QED BY <1>4, <1>5, <1>6, <2>2, <3>1, <3>3
      <3> QED BY <2>2, <2>4, <3>4 DEF UserAt
    <2>5. CASE i # n - 1 /\ ~(i < d.count)
      <3>1. Idx(SeqAt(d, i)) # Idx(seq)
        BY <1>7, <1>8, <2>1, <2>5, IdxApart
      <3>2. i \in d.count..n-1
        BY <1>1, <1>7, <2>5
      <3>3. Idx(SeqAt(d, i)) \in grown
        BY <3>2
      <3>4. r.slot[Idx(SeqAt(d, i))] = NoUser
        <4> HIDE DEF grown, n, r
        <4> QED BY <1>4, <1>5, <1>6, <2>2, <3>1, <3>3
      <3> QED BY <2>2, <2>5, <3>4
    <2> QED BY <2>3, <2>4, <2>5
  <1>10. SeqAt(r, n - 1) = SeqAt(d, n - 1)
    BY <1>6 DEF SeqAt
  <1> HIDE DEF n, r, e
  <1> QED BY <1>1, <1>2, <1>6, <1>8, <1>9, <1>10 DEF r, e

\* The heads that go to make room, and what is left.  t is how far the window
\* would reach from its present begin.
LEMMA DropPlaces ==
  ASSUME NEW U, NEW q \in QueueOver(U), NEW seq \in 0..SeqMod-1,
         NEW t \in q.count+1..q.count+SeqHalf, t \in 0..SeqMod-1,
         SeqCast(SeqAdd(seq, 1)) = SeqCast(SeqAdd(q.begin, t)),
         t # QueueSize + SeqHalf
  PROVE  LET d == DropHeads(q, seq)
             k == IF t <= QueueSize THEN 0
                  ELSE IF t - QueueSize < q.count THEN t - QueueSize ELSE q.count
         IN  /\ Beyond(q, seq, 0) <=> t > QueueSize
             /\ k \in 0..q.count
             /\ DroppedHeads(q, seq) = {UserAt(q, i) : i \in SetIndices(q) \cap 0..k-1}
             /\ d.count = q.count - k
             /\ d.slot = q.slot
             /\ IF k = q.count /\ t > QueueSize THEN d.begin = seq
                ELSE SeqCast(d.begin) = SeqCast(SeqAdd(q.begin, k))
             /\ t <= QueueSize => d = q
             /\ SeqLt(SeqAt(d, d.count), SeqAdd(seq, 1))
PROOF
  <1> DEFINE d == DropHeads(q, seq)
             h == HeadsToDrop(q, seq)
             k == IF t <= QueueSize THEN 0
                  ELSE IF t - QueueSize < q.count THEN t - QueueSize ELSE q.count
             S == {j \in 0..q.count : j = q.count \/ ~Beyond(q, seq, j)}
  <1>1. /\ SeqMod \in Nat /\ SeqHalf \in Nat /\ SeqHalf > 1 /\ SeqMod = 2 * SeqHalf
        /\ q.count \in 0..QueueSize /\ q.count \in 0..SeqMod-1 /\ q.begin \in RawSeq
        /\ 2 * QueueSize <= SeqHalf /\ QueueSize \in Nat \ {0} /\ 1 \in 0..SeqMod-1
        /\ q \in [begin : RawSeq, count : 0..QueueSize,
                  slot : [0..QueueSize-1 -> U \union {NoUser}]]
        /\ t \in Nat /\ t < QueueSize + SeqHalf
    BY SeqNumAssumption, ReorderQueueAssumption, Sizes DEF SeqHalf, QueueOver
  <1>2. ASSUME NEW j \in 0..q.count
        PROVE  Beyond(q, seq, j) <=> j < t - QueueSize
    <2>1. /\ q.count \in Nat /\ QueueSize - q.count + j \in Nat
          /\ q.count + (QueueSize - q.count + j) = QueueSize + j
          /\ q.count + (QueueSize - q.count + j) < SeqMod
          /\ QueueSize + j \in 0..SeqMod-1
      BY <1>1
    <2> DEFINE m == QueueSize - q.count + j
    <2> HIDE DEF m
    <2>2. SeqCast(SeqAdd(SeqAdd(q.begin, q.count), m)) = SeqCast(SeqAdd(q.begin, QueueSize + j))
      BY <1>1, <2>1, CastAddAdd DEF m
    <2>3. Beyond(q, seq, j) <=> SeqLt(SeqAdd(q.begin, QueueSize + j), SeqAdd(q.begin, t))
      BY <2>2 DEF Beyond, QueueEnd, m, SeqLt
    <2>4. Beyond(q, seq, j) <=> \/ QueueSize + j < t /\ t - (QueueSize + j) < SeqHalf
                                \/ QueueSize + j > t /\ (QueueSize + j) - t > SeqHalf
      BY <1>1, <2>1, <2>3, LtAdd
    <2> QED BY <1>1, <2>1, <2>4
  <1>3. Beyond(q, seq, 0) <=> t > QueueSize
    <2>1. 0 \in 0..q.count
      BY <1>1
    <2>2. Beyond(q, seq, 0) <=> 0 < t - QueueSize
      BY <1>2, <2>1
    <2> QED BY <1>1, <2>2
  <1>4. h \in S /\ \A j \in S : h <= j
    <2>1. S \subseteq Nat /\ q.count \in S
      BY <1>1, Sizes
    <2> QED BY <2>1, LeastNat DEF HeadsToDrop
  <1>5. k \in 0..q.count /\ (t > QueueSize => h = k)
    <2>1. k \in 0..q.count
      BY <1>1
    <2>2. ASSUME t > QueueSize PROVE k \in S /\ \A j \in S : k <= j
      <3>1. k = q.count \/ ~(k < t - QueueSize)
        BY <1>1, <2>2
      <3>2. k \in S
        BY <1>2, <2>1, <3>1
      <3>3. ASSUME NEW j \in S PROVE k <= j
        <4>1. j \in 0..q.count /\ (j = q.count \/ ~(j < t - QueueSize))
          BY <1>2, <3>3
        <4> QED BY <1>1, <2>2, <4>1
      <3> QED BY <3>2, <3>3
    <2>3. h \in Nat /\ k \in Nat
      BY <1>1, <1>4, <2>1
    <2> HIDE DEF h, k, S
    <2>4. t > QueueSize => h <= k /\ k <= h
      BY <1>4, <2>2
    <2> QED BY <2>1, <2>3, <2>4
  <1>6. CASE t <= QueueSize
    <2>1. d = q /\ k = 0 /\ DroppedHeads(q, seq) = {}
      BY <1>1, <1>3, <1>6 DEF DropHeads, DroppedHeads
    <2>2. SetIndices(q) \cap 0..k-1 = {}
      BY <2>1
    <2>3. SeqCast(d.begin) = SeqCast(SeqAdd(q.begin, k))
      <3>1. 0 \in 0..SeqMod-1 /\ SeqCast(q.begin) \in 0..SeqMod-1
        BY <1>1, CastRaw
      <3>2. SeqCast(SeqAdd(q.begin, 0)) = SeqCast(q.begin)
        BY <1>1, <3>1, CastAdd
      <3> QED BY <2>1, <3>2
    <2>4. SeqLt(SeqAdd(q.begin, q.count), SeqAdd(q.begin, t))
      BY <1>1, <1>6, LtAdd
    <2>5. SeqLt(SeqAt(d, d.count), SeqAdd(seq, 1))
      BY <2>1, <2>4 DEF SeqAt, SeqLt
    <2> HIDE DEF d, k
    <2> QED BY <1>1, <1>3, <1>5, <1>6, <2>1, <2>2, <2>3, <2>5 DEF d, k
  <1>7. CASE t > QueueSize
    <2>1. Beyond(q, seq, 0) /\ h = k
      BY <1>3, <1>5, <1>7
    <2>2. DroppedHeads(q, seq) = {UserAt(q, i) : i \in SetIndices(q) \cap 0..k-1}
      <3> HIDE DEF k
      <3> QED BY <2>1 DEF DroppedHeads
    <2>3. d = [begin |-> IF k = q.count THEN seq ELSE SeqAdvance(q.begin, k),
               count |-> q.count - k, slot |-> q.slot]
      <3> HIDE DEF k
      <3>1. d = [q EXCEPT !.begin = IF k = q.count THEN seq ELSE SeqAdvance(q.begin, k),
                          !.count = q.count - k]
        BY <2>1 DEF DropHeads
      <3> HIDE DEF d
      <3> QED BY <1>1, <3>1
    <2>4. k \in 0..SeqMod-1 /\ q.count - k \in 0..SeqMod-1
      BY <1>1, <1>5
    <2>5. CASE k = q.count
      <3>1. d.begin = seq /\ d.count = 0
        BY <1>1, <2>3, <2>5
      <3>2. seq \in RawSeq /\ 0 \in 0..SeqMod-1
        BY <1>1 DEF RawSeq
      <3>3. SeqLt(SeqAdd(seq, 0), SeqAdd(seq, 1))
        BY <1>1, <3>2, LtAdd
      <3>4. SeqLt(SeqAt(d, d.count), SeqAdd(seq, 1))
        BY <3>1, <3>3 DEF SeqAt
      <3> HIDE DEF d, k
      <3> QED BY <1>1, <1>3, <1>5, <1>7, <2>2, <2>3, <2>5, <3>1, <3>4 DEF d, k
    <2>6. CASE k # q.count
      <3>1. d.begin = SeqAdvance(q.begin, k) /\ d.count = q.count - k /\ d.slot = q.slot
        BY <2>3, <2>6
      <3>2. SeqCast(d.begin) = SeqCast(SeqAdd(q.begin, k))
        BY <1>1, <2>4, <3>1, CastAdvance
      <3>3. SeqCast(SeqAt(d, d.count)) = SeqCast(SeqAdd(q.begin, q.count))
        <4>1. k \in Nat /\ d.count \in Nat /\ k + d.count = q.count /\ k + d.count < SeqMod
          <5> HIDE DEF k, d
          <5> QED BY <1>1, <2>4, <3>1
        <4>2. SeqAdd(d.begin, d.count) = SeqAdd(SeqAdd(q.begin, k), d.count)
          BY <3>2 DEF SeqAdd
        <4> HIDE DEF k, d
        <4>3. SeqCast(SeqAdd(SeqAdd(q.begin, k), d.count)) = SeqCast(SeqAdd(q.begin, q.count))
          BY <1>1, <4>1, CastAddAdd
        <4> QED BY <4>2, <4>3 DEF SeqAt
      <3>4. t - q.count < SeqHalf /\ q.count < t
        BY <1>1, <1>7, <2>6
      <3>5. SeqLt(SeqAdd(q.begin, q.count), SeqAdd(q.begin, t))
        BY <1>1, <3>4, LtAdd
      <3>6. SeqLt(SeqAt(d, d.count), SeqAdd(seq, 1))
        BY <3>3, <3>5 DEF SeqLt
      <3> HIDE DEF d, k
      <3> QED BY <1>1, <1>3, <1>5, <1>7, <2>2, <2>6, <3>1, <3>2, <3>6 DEF d, k
    <2> QED BY <2>5, <2>6
  <1> QED BY <1>1, <1>6, <1>7

\* What chiaki_reorder_queue_push does to the places of the window.  Either the
\* element is not taken; or it fills an empty place of its number; or some
\* heads are dropped and it becomes the last place.  It could also fall on a
\* place of another number: in a full window, half the modulus less one after
\* its end.
Reaches(q, seq) == q.count = QueueSize => seq # SeqCast(SeqAdd(QueueEnd(q), SeqHalf - 1))
NotTaken(q, user, p) == p = [queue |-> q, dropped |-> {user}]
FillsPlace(q, seq, user, p) ==
  /\ p.dropped = {}
  /\ p.queue.begin = q.begin
  /\ p.queue.count = q.count
  /\ \E k \in 0..q.count-1 :
       /\ SeqCast(SeqAt(q, k)) = seq
       /\ UserAt(q, k) = NoUser
       /\ \A i \in 0..q.count-1 : UserAt(p.queue, i) = IF i = k THEN user ELSE UserAt(q, i)
BecomesLast(q, seq, user, p, k) ==
  /\ p.dropped = {UserAt(q, i) : i \in SetIndices(q) \cap 0..k-1}
  /\ p.queue.count \in q.count-k+1..QueueSize
  /\ SeqCast(SeqAt(p.queue, p.queue.count - 1)) = seq
  /\ \A i \in 0..p.queue.count-1 :
       UserAt(p.queue, i) = IF i = p.queue.count - 1 THEN user
                            ELSE IF k + i < q.count THEN UserAt(q, k + i) ELSE NoUser
  /\ \/ k = 0 /\ p.queue.begin = q.begin
     \/ /\ DropStrategy = "begin"
        /\ Beyond(q, seq, 0)
        /\ SeqCast(p.queue.begin) = SeqCast(SeqAdd(q.begin, k))
     \/ /\ DropStrategy = "begin"
        /\ Beyond(q, seq, 0) \/ Unordered(q, seq)
        /\ p.queue.begin = seq /\ k = q.count /\ p.queue.count = 1

LEMMA PushPlaces ==
  ASSUME NEW U, NoUser \notin U, NEW q \in QueueOver(U), LastIsSet(q),
         NEW seq \in 0..SeqMod-1, NEW user \in U, Reaches(q, seq)
  PROVE  LET p == Push(q, seq, user)
         IN  \/ NotTaken(q, user, p)
             \/ FillsPlace(q, seq, user, p)
             \/ \E k \in 0..q.count : BecomesLast(q, seq, user, p, k)
PROOF
  <1> DEFINE r == Rebase(q, seq)
             d == DropHeads(r, seq)
             e == Store(ExtendTo(d, seq), seq, user)
             p == Push(q, seq, user)
  <1>1. /\ q.count \in 0..QueueSize /\ q.count \in 0..SeqMod-1 /\ q.begin \in RawSeq
        /\ q.slot \in [0..QueueSize-1 -> U \union {NoUser}]
        /\ q \in [begin : RawSeq, count : 0..QueueSize,
                  slot : [0..QueueSize-1 -> U \union {NoUser}]]
        /\ SeqMod \in Nat /\ SeqHalf \in Nat /\ SeqHalf > 1 /\ SeqMod = 2 * SeqHalf
        /\ 2 * QueueSize <= SeqHalf /\ QueueSize \in Nat \ {0}
    BY SeqNumAssumption, ReorderQueueAssumption, Sizes DEF SeqHalf, QueueOver
  <1>2. seq \in RawSeq /\ SeqCast(seq) = seq /\ Idx(seq) \in 0..QueueSize-1
    BY <1>1, CastRaw, IdxCast DEF RawSeq
  <1>3. CASE ~Rejects(q, seq) /\ InWindow(q, seq)
    <2> DEFINE t == Store(q, seq, user)
    <2>1. p = [queue |-> t, dropped |-> {}]
      BY <1>3 DEF Push
    <2>2. t.begin = q.begin /\ t.count = q.count /\ t.slot = [q.slot EXCEPT ![Idx(seq)] = user]
      <3>1. t = [q EXCEPT !.slot = [q.slot EXCEPT ![Idx(seq)] = user]]
        BY DEF Store
      <3> HIDE DEF t
      <3> QED BY <1>1, <3>1
    <2>3. PICK k \in 0..q.count-1 : SeqCast(SeqAt(q, k)) = seq
      BY <1>3, InWindowPlace
    <2>4. k \in 0..QueueSize-1 /\ k \in 0..SeqMod-1
      BY <1>1, <2>3
    <2>5. Idx(SeqAt(q, k)) = Idx(seq) /\ UserAt(q, k) = NoUser
      <3>1. Idx(SeqAt(q, k)) = Idx(seq)
        BY <2>3, <2>4, UserAtType
      <3> QED BY <1>3, <3>1 DEF Rejects, UserAt
    <2> HIDE DEF t
    <2>6. ASSUME NEW i \in 0..q.count-1
          PROVE  UserAt(t, i) = IF i = k THEN user ELSE UserAt(q, i)
      <3>1. i \in 0..QueueSize-1 /\ i \in 0..SeqMod-1
        BY <1>1
      <3>2. Idx(SeqAt(q, i)) \in 0..QueueSize-1 /\ SeqAt(t, i) = SeqAt(q, i)
        BY <2>2, <3>1, UserAtType DEF SeqAt
      <3>3. i # k => Idx(SeqAt(q, i)) # Idx(seq)
        BY <2>4, <2>5, <3>1, IdxApart
      <3> QED BY <1>1, <1>2, <2>2, <2>5, <3>2, <3>3 DEF UserAt
    <2>7. p.queue = t /\ p.dropped = {}
      BY <2>1
    <2> HIDE DEF p
    <2>8. FillsPlace(q, seq, user, p)
      BY <2>2, <2>3, <2>5, <2>6, <2>7 DEF FillsPlace
    <2> QED BY <2>8 DEF p
  <1>4. CASE /\ ~Rejects(q, seq) /\ ~InWindow(q, seq)
             /\ ~(Beyond(r, seq, 0) /\ DropStrategy = "end")
    <2>1. p.queue = e /\ p.dropped = DroppedHeads(r, seq)
      BY <1>4 DEF Push
    <2>2. ~SeqLt(seq, q.begin)
      BY <1>4 DEF Rejects
    <2>3. CASE Unordered(q, seq)
      <3>1. q.count = 0 /\ DropStrategy = "begin"
        BY <1>4, <2>3 DEF Rejects
      <3>2. r.begin = seq /\ r.count = 0 /\ r = [begin |-> seq, count |-> 0, slot |-> q.slot]
        <4>1. r = [q EXCEPT !.begin = seq]
          BY <2>3 DEF Rebase
        <4> HIDE DEF r
        <4> QED BY <1>1, <3>1, <4>1
      <3> HIDE DEF r
      <3>3. r \in QueueOver(U) /\ LastIsSet(r)
        BY <1>1, <1>2, <3>1, <3>2 DEF QueueOver, LastIsSet
      <3>4. 1 \in r.count+1..r.count+SeqHalf /\ 1 \in 0..SeqMod-1 /\ 1 # QueueSize + SeqHalf
            /\ 1 <= QueueSize /\ 0 \in 0..SeqMod-1
        BY <1>1, <3>2
      <3>5. SeqCast(SeqAdd(seq, 1)) = SeqCast(SeqAdd(r.begin, 1))
        BY <3>2
      <3>6. /\ d = r
            /\ DroppedHeads(r, seq) = {UserAt(r, i) : i \in SetIndices(r) \cap 0..-1}
            /\ SeqLt(SeqAt(d, d.count), SeqAdd(seq, 1))
        <4>1. ~(1 > QueueSize)
          BY <1>1, <3>4
        <4> QED BY <1>1, <3>3, <3>4, <3>5, <4>1, DropPlaces
      <3>7. DroppedHeads(r, seq) = {} /\ {UserAt(q, i) : i \in SetIndices(q) \cap 0..0-1} = {}
        BY <3>6
      <3>8. \E n \in d.count..QueueSize : ~SeqLt(SeqAt(d, n), SeqAdd(seq, 1))
        BY <3>3, DropHeadsOK
      <3>9. /\ e.begin = d.begin
            /\ e.count \in d.count+1..QueueSize
            /\ SeqCast(SeqAt(e, e.count - 1)) = seq
            /\ \A i \in 0..e.count-1 :
                 UserAt(e, i) = IF i = e.count - 1 THEN user
                                ELSE IF i < d.count THEN UserAt(d, i) ELSE NoUser
        <4>1. d \in QueueOver(U) /\ LastIsSet(d)
          BY <3>3, <3>6
        <4> HIDE DEF d
        <4> QED BY <3>6, <3>8, <4>1, ExtendPlaces
      <3>10. e.begin = seq /\ e.count \in 1..QueueSize
        BY <3>2, <3>6, <3>9
      <3>11. e.count = 1
        <4> HIDE DEF e
        <4>0. QueueSize \in Nat /\ SeqMod \in Nat /\ QueueSize < SeqMod
          BY <1>1
        <4>1. e.count - 1 \in 0..SeqMod-1
          BY <1>1, <3>10
        <4>2. SeqCast(SeqAdd(seq, e.count - 1)) = IF seq + (e.count - 1) < SeqMod THEN seq + (e.count - 1)
                                                 ELSE seq + (e.count - 1) - SeqMod
          BY <1>2, <4>1, CastAdd
        <4>3. SeqCast(SeqAdd(seq, e.count - 1)) = seq
          BY <3>9, <3>10 DEF SeqAt
        <4> DEFINE m == e.count - 1
        <4>4. m \in Nat /\ m < SeqMod /\ e.count = m + 1
          BY <3>10, <4>0, <4>1
        <4>5. seq = IF seq + m < SeqMod THEN seq + m ELSE seq + m - SeqMod
          BY <4>2, <4>3
        <4> HIDE DEF m
        <4>6. m = 0
          BY <4>0, <4>4, <4>5
        <4> QED BY <4>4, <4>6
      <3> HIDE DEF e, d, p
      <3>12. BecomesLast(q, seq, user, p, 0)
        BY <1>1, <2>1, <2>3, <3>1, <3>2, <3>6, <3>7, <3>9, <3>10, <3>11 DEF BecomesLast
      <3> QED BY <3>1, <3>12 DEF p
    <2>4. CASE ~Unordered(q, seq)
      <3>1. r = q
        BY <2>4 DEF Rebase
      <3>2. PICK t \in q.count+1..q.count+SeqHalf :
              /\ t \in 0..SeqMod-1
              /\ SeqCast(SeqAdd(seq, 1)) = SeqCast(SeqAdd(q.begin, t))
              /\ SeqCast(SeqAdd(q.begin, t - 1)) = seq
        BY <1>4, <2>2, <2>4, AheadOf
      <3>3. t # QueueSize + SeqHalf
        <4>1. SUFFICES ASSUME t = QueueSize + SeqHalf PROVE FALSE
          OBVIOUS
        <4> DEFINE m == SeqHalf - 1
        <4>2. q.count = QueueSize /\ m \in Nat /\ q.count + m = t - 1
              /\ q.count + m < SeqMod /\ q.count \in Nat
          BY <1>1, <3>2, <4>1
        <4> HIDE DEF m
        <4>3. SeqCast(SeqAdd(SeqAdd(q.begin, q.count), m)) = SeqCast(SeqAdd(q.begin, q.count + m))
          BY <1>1, <4>2, CastAddAdd
        <4>4. SeqCast(SeqAdd(QueueEnd(q), m)) = seq
          BY <3>2, <4>2, <4>3 DEF QueueEnd
        <4> QED BY <4>2, <4>4 DEF Reaches, m
      <3> DEFINE k == IF t <= QueueSize THEN 0
                      ELSE IF t - QueueSize < q.count THEN t - QueueSize ELSE q.count
      <3>4. /\ Beyond(q, seq, 0) <=> t > QueueSize
            /\ k \in 0..q.count
            /\ DroppedHeads(q, seq) = {UserAt(q, i) : i \in SetIndices(q) \cap 0..k-1}
            /\ d.count = q.count - k
            /\ d.slot = q.slot
            /\ IF k = q.count /\ t > QueueSize THEN d.begin = seq
               ELSE SeqCast(d.begin) = SeqCast(SeqAdd(q.begin, k))
            /\ t <= QueueSize => d = q
            /\ SeqLt(SeqAt(d, d.count), SeqAdd(seq, 1))
        <4> HIDE DEF r
        <4> QED BY <3>1, <3>2, <3>3, DropPlaces
      <3>5. /\ d \in QueueOver(U) /\ LastIsSet(d)
            /\ \E n \in d.count..QueueSize : ~SeqLt(SeqAt(d, n), SeqAdd(seq, 1))
        <4> HIDE DEF r
        <4> QED BY <3>1, DropHeadsOK
      <3> HIDE DEF d
      <3>6. /\ e.begin = d.begin
            /\ e.count \in d.count+1..QueueSize
            /\ SeqCast(SeqAt(e, e.count - 1)) = seq
            /\ \A i \in 0..e.count-1 :
                 UserAt(e, i) = IF i = e.count - 1 THEN user
                                ELSE IF i < d.count THEN UserAt(d, i) ELSE NoUser
        BY <3>4, <3>5, ExtendPlaces
      <3>7. ASSUME NEW i \in 0..e.count-1, i # e.count - 1
            PROVE  UserAt(e, i) = IF k + i < q.count THEN UserAt(q, k + i) ELSE NoUser
        <4>0. k \in Nat /\ q.count \in Nat /\ d.count \in Nat /\ i \in Nat /\ d.count = q.count - k
              /\ k + i < SeqMod /\ k \in 0..QueueSize /\ e.count \in 0..QueueSize
          <5>1. k \in 0..q.count /\ d.count = q.count - k
            BY <3>4
          <5>2. e.count \in d.count+1..QueueSize
            BY <3>6
          <5> HIDE DEF k, e
          <5>3. /\ q.count \in 0..QueueSize /\ QueueSize \in Nat /\ SeqMod \in Nat
                /\ 2 * QueueSize <= SeqMod /\ QueueSize > 0
            BY <1>1
          <5>4. k \in Nat /\ q.count \in Nat /\ d.count \in Nat /\ k \in 0..QueueSize
            BY <5>1, <5>3
          <5>5. e.count \in 0..QueueSize /\ e.count > d.count
            BY <5>2, <5>3, <5>4
          <5>6. i \in Nat /\ i < QueueSize
            BY <3>7, <5>3, <5>5
          <5> QED BY <5>1, <5>3, <5>4, <5>5, <5>6
        <4>1. (i < d.count) <=> (k + i < q.count)
          <5> HIDE DEF k
          <5> QED BY <4>0
        <4>2. CASE i < d.count
          <5>1. ~(k = q.count /\ t > QueueSize)
            BY <4>0, <4>2
          <5>2. UserAt(d, i) = UserAt(q, k + i)
            <6>1. SeqCast(d.begin) = SeqCast(SeqAdd(q.begin, k)) /\ d.slot = q.slot
              BY <3>4, <5>1
            <6> HIDE DEF k
            <6> QED BY <3>5, <4>0, <6>1, MovedFront
          <5> QED BY <3>6, <3>7, <4>1, <4>2, <5>2
        <4>3. CASE ~(i < d.count)
          BY <3>6, <3>7, <4>1, <4>3
        <4> QED BY <4>2, <4>3
      <3> HIDE DEF e
      <3>8. ASSUME k = q.count, t > QueueSize PROVE e.count = 1
        <4> DEFINE m == e.count - 1
        <4>0. e.count \in 1..QueueSize /\ e.begin = seq
          <5>1. q.count \in Nat /\ d.count = q.count - q.count /\ d.begin = seq
            BY <1>1, <3>4, <3>8
          <5> HIDE DEF k
          <5> QED BY <3>6, <5>1
        <4>1. e.begin = seq /\ e.count \in Nat /\ m \in 0..QueueSize-1 /\ m \in 0..SeqMod-1
          <5>1. QueueSize \in Nat /\ SeqMod \in Nat /\ QueueSize < SeqMod
            BY <1>1
          <5> QED BY <4>0, <5>1
        <4>2. SeqCast(SeqAdd(e.begin, m)) = seq
          BY <3>6 DEF SeqAt
        <4>3. m = e.count - 1
          OBVIOUS
        <4> HIDE DEF m
        <4>4. SeqCast(SeqAdd(seq, m)) = IF seq + m < SeqMod THEN seq + m ELSE seq + m - SeqMod
          BY <1>2, <4>1, CastAdd
        <4>5. SeqCast(SeqAdd(seq, m)) = seq
          BY <4>1, <4>2
        <4>6. m = 0
          BY <1>1, <4>1, <4>4, <4>5
        <4> QED BY <4>1, <4>3, <4>6
      <3>9. \/ k = 0 /\ e.begin = q.begin
            \/ /\ DropStrategy = "begin" /\ Beyond(q, seq, 0)
               /\ SeqCast(e.begin) = SeqCast(SeqAdd(q.begin, k))
            \/ /\ DropStrategy = "begin" /\ Beyond(q, seq, 0)
               /\ e.begin = seq /\ k = q.count /\ e.count = 1
        <4>1. CASE t <= QueueSize
          BY <3>4, <3>6, <4>1
        <4>2. CASE t > QueueSize
          <5>1. Beyond(q, seq, 0) /\ DropStrategy = "begin"
            <6>1. Beyond(q, seq, 0) /\ DropStrategy # "end"
              BY <1>4, <3>1, <3>4, <4>2
            <6> QED BY <6>1, ReorderQueueAssumption
          <5> HIDE DEF k
          <5> QED BY <3>4, <3>6, <3>8, <4>2, <5>1
        <4> QED BY <1>1, <4>1, <4>2
      <3>10. p.queue = e /\ p.dropped = DroppedHeads(q, seq)
        BY <2>1, <3>1
      <3> HIDE DEF k, p, r
      <3>11. BecomesLast(q, seq, user, p, k)
        BY <3>4, <3>6, <3>7, <3>9, <3>10 DEF BecomesLast
      <3> QED BY <3>4, <3>11 DEF p
    <2> QED BY <2>3, <2>4
  <1>5. CASE p = [queue |-> q, dropped |-> {user}]
    BY <1>5 DEF NotTaken
  <1>6. \/ p = [queue |-> q, dropped |-> {user}]
        \/ ~Rejects(q, seq) /\ InWindow(q, seq)
        \/ /\ ~Rejects(q, seq) /\ ~InWindow(q, seq)
           /\ ~(Beyond(r, seq, 0) /\ DropStrategy = "end")
    BY DEF Push
  <1> QED BY <1>3, <1>4, <1>5, <1>6

\* Pulling takes the elements at the places before the first empty one, in
\* order; the places from there on are kept.
LEMMA PullPlaces ==
  ASSUME NEW U, NoUser \notin U, NEW q \in QueueOver(U), LastIsSet(q)
  PROVE  LET k == PullCount(q)
             r == AfterPulls(q)
         IN  /\ k \in 0..q.count
             /\ r.count = q.count - k
             /\ SeqCast(r.begin) = SeqCast(SeqAdd(q.begin, k))
             /\ k = 0 => r = q
             /\ k > 0 => \E b \in RawSeq : r.begin = SeqAdd(b, 1)
             /\ \A i \in 0..r.count-1 : /\ UserAt(r, i) = UserAt(q, k + i)
                                        /\ SeqCast(SeqAt(r, i)) = SeqCast(SeqAt(q, k + i))
             /\ \A i \in 0..k-1 : UserAt(q, i) # NoUser
             /\ \A i \in 1..k : Pulled(q)[i] = UserAt(q, i - 1)
             /\ Pulled(q) = [i \in 1..k |-> UserAt(q, i - 1)]
PROOF
  <1> DEFINE S == {j \in 0..q.count : j = q.count \/ UserAt(q, j) = NoUser}
             k == PullCount(q)
             r == AfterPulls(q)
  <1>1. /\ q.count \in 0..QueueSize /\ q.begin \in RawSeq
        /\ q \in [begin : RawSeq, count : 0..QueueSize,
                  slot : [0..QueueSize-1 -> U \union {NoUser}]]
        /\ QueueSize \in Nat /\ 2 * QueueSize < SeqMod /\ SeqMod \in Nat
    BY Sizes DEF QueueOver
  <1>2. k \in S /\ \A j \in S : k <= j
    <2>1. S \subseteq Nat /\ q.count \in S
      BY <1>1
    <2> QED BY <2>1, LeastNat DEF PullCount
  <1>3. k \in 0..q.count /\ k \in 0..QueueSize /\ k \in 0..SeqMod-1
    BY <1>1, <1>2
  <1>4. r \in QueueOver(U) /\ r.count = q.count - k
    BY PullsOK
  <1>5. /\ r = [begin |-> SeqAdvance(q.begin, k), count |-> q.count - k, slot |-> q.slot]
        /\ r.begin = SeqAdvance(q.begin, k) /\ r.slot = q.slot
    <2> HIDE DEF k
    <2>1. r = [q EXCEPT !.begin = SeqAdvance(q.begin, k), !.count = q.count - k]
      BY DEF AfterPulls, k
    <2> HIDE DEF r
    <2> QED BY <1>1, <2>1
  <1>6. Pulled(q) = [i \in 1..k |-> UserAt(q, i - 1)]
    BY DEF Pulled
  <1>7. ASSUME NEW i \in 0..k-1 PROVE UserAt(q, i) # NoUser
    <2>1. i \in 0..q.count /\ i < k
      BY <1>1, <1>3
    <2>2. i \notin S
      BY <1>2, <1>3, <2>1
    <2> QED BY <2>1, <2>2
  <1> HIDE DEF k, r, S
  <1>8. SeqCast(r.begin) = SeqCast(SeqAdd(q.begin, k))
    BY <1>1, <1>3, <1>5, CastAdvance
  <1>9. ASSUME NEW i \in 0..r.count-1
        PROVE  UserAt(r, i) = UserAt(q, k + i) /\ SeqCast(SeqAt(r, i)) = SeqCast(SeqAt(q, k + i))
    <2>1. i \in Nat /\ k + i < SeqMod
      BY <1>1, <1>3, <1>4
    <2> QED BY <1>3, <1>4, <1>5, <1>8, <2>1, MovedFront
  <1>10. ASSUME k = 0 PROVE r = q
    <2>1. r = [begin |-> q.begin, count |-> q.count, slot |-> q.slot]
      BY <1>1, <1>5, <1>10 DEF SeqAdvance
    <2> QED BY <1>1, <2>1
  <1>11. ASSUME k > 0 PROVE \E b \in RawSeq : r.begin = SeqAdd(b, 1)
    <2>1. k - 1 \in 0..SeqMod-1 /\ k # 0
      BY <1>1, <1>3, <1>11
    <2>2. SeqAdd(q.begin, k - 1) \in RawSeq
      BY <1>1, <2>1, CastAdd
    <2> QED BY <1>5, <2>1, <2>2 DEF SeqAdvance
  <1>12. \A i \in 1..k : Pulled(q)[i] = UserAt(q, i - 1)
    BY <1>6
  <1> QED BY <1>3, <1>4, <1>6, <1>7, <1>8, <1>9, <1>10, <1>11, <1>12 DEF k, r
=============================================================================
