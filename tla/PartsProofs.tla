---------------------------- MODULE PartsProofs ----------------------------
(***************************************************************************)
(* Two properties of Parts, for every value of the constants: what a       *)
(* packet is encrypted and decrypted with is the key stream of its own     *)
(* position (KeyStreamRight), and what the parts report is what is         *)
(* (ReportedAsItIs).                                                       *)
(* The variables of Parts are those of the part's module, in the order of  *)
(* its INSTANCE:                                                           *)
(*   keys       s1 prev, s2 min, s3 populated, s4 start, s5 last, s6 buf,  *)
(*              s7 thread, s8 reader, s9 read, s10 closer;                 *)
(*   crypt      s1 crypt, s2 keyPos, s3 gmacIndex, s4 holds, s5 sent;      *)
(*   stats      s1 gen, s2 seqMin, s3 seqMax, s4 seqReceived, s5 pusher,   *)
(*              s6 getter, s7 pushed, s8 reported, s9 report;              *)
(*   feedback   s1 controller, s2 changed, s3 events, s4 history,          *)
(*              s5 queue, s6 overflow, s7 setter, s8 thread, s9 sentPrev,  *)
(*              s10 console, s11 closer;                                   *)
(*   discovery  s1 hosts, s2 infos, s3 ping, s4 service, s5 receiver,      *)
(*              s6 answer, s7 stop, s8 stopPipe, s9 closer, s10 reported,  *)
(*              s11 heard;                                                 *)
(*   input      s1 pad, s2 micPush, s3 keyboard, s4 mouse, s5 touch,       *)
(*              s6 tracker, s7 dpad, s8 regular, s9 switched, s10 block,   *)
(*              s11 sent, s12 held, s13 stuck, s14 over, s15 begun;        *)
(*   effects    s1 stream, s2 effect, s3 takion, s4 gui, s5 posted,        *)
(*              s6 manager, s7 pads, s8 haptics, s9 humming, s10 unheard,  *)
(*              s11 leveled, s12 count.                                    *)
(***************************************************************************)
EXTENDS Parts, FiniteSetTheorems, FunctionTheorems, TLAPS

-----------------------------------------------------------------------------
(* Least elements and remainders                                           *)

\* A product with a positive factor is no less than the other factor.
LEMMA TimesPositive ==
  ASSUME NEW s \in Nat \ {0}, NEW d \in Nat \ {0}
  PROVE  s * d >= s
OBVIOUS

\* Quotient and remainder determine each other.
LEMMA ModUnique ==
  ASSUME NEW s \in Nat \ {0}, NEW q \in Int, NEW r \in 0..s-1,
         NEW p \in Int, NEW t \in 0..s-1, s * q + r = s * p + t
  PROVE  r = t
PROOF
  <1>1. s * (q - p) = t - r
    OBVIOUS
  <1>2. CASE q - p >= 1
    <2>1. s * (q - p) >= s
      BY <1>2, TimesPositive
    <2> QED BY <1>1, <2>1
  <1>3. CASE p - q >= 1
    <2>1. s * (p - q) >= s
      BY <1>3, TimesPositive
    <2>2. s * (p - q) = r - t
      BY <1>1
    <2> QED BY <2>1, <2>2
  <1>4. CASE q = p
    BY <1>4
  <1> QED BY <1>2, <1>3, <1>4

\* What is a multiple of s does not change the remainder by s.
LEMMA ModShift ==
  ASSUME NEW s \in Nat \ {0}, NEW m \in Nat, m % s = 0, NEW x \in Nat
  PROVE  (x + m) % s = x % s
PROOF
  <1> DEFINE a == x \div s
             b == m \div s
             c == (x + m) \div s
             r == x % s
             t == (x + m) % s
  <1>1. /\ a \in Int /\ b \in Int /\ c \in Int
        /\ x = s * a + r /\ r \in 0..s-1
        /\ m = s * b
        /\ x + m = s * c + t /\ t \in 0..s-1
    OBVIOUS
  <1> HIDE DEF a, b, c, r, t
  <1>2. a + b \in Int /\ s * (a + b) + r = s * c + t
    BY <1>1
  <1>3. r = t
    BY <1>1, <1>2, ModUnique
  <1> QED
    BY <1>3 DEF r, t

\* Numbers less than s apart differ modulo s.
LEMMA ModApart ==
  ASSUME NEW s \in Nat \ {0}, NEW x \in Nat, NEW y \in Nat, x < y, y - x < s
  PROVE  x % s # y % s
PROOF
  <1> DEFINE a == x \div s
             b == y \div s
             r == x % s
             t == y % s
             d == b - a
  <1>1. /\ a \in Int /\ x = s * a + r /\ r \in 0..s-1
        /\ b \in Int /\ y = s * b + t /\ t \in 0..s-1
    OBVIOUS
  <1> HIDE DEF a, b, r, t
  <1>2. SUFFICES ASSUME r = t PROVE FALSE
    BY DEF r, t
  <1>3. d \in Int /\ s * b - s * a = s * d
    BY <1>1
  <1>4. y - x = s * d
    BY <1>1, <1>2, <1>3
  <1> HIDE DEF d
  <1>5. CASE d <= 0
    <2>1. s * (0 - d) >= 0
      BY <1>3, <1>5
    <2> QED BY <1>3, <1>4, <2>1
  <1>6. CASE d > 0
    <2>1. s * d >= s
      BY <1>3, <1>6, TimesPositive
    <2> QED BY <1>3, <1>4, <2>1
  <1> QED BY <1>3, <1>5, <1>6

\* What is subtracted from a remainder is subtracted from the number.
LEMMA ModSub ==
  ASSUME NEW s \in Nat \ {0}, NEW x \in Nat, NEW u \in Int
  PROVE  ((x % s) - u) % s = (x - u) % s
PROOF
  <1> DEFINE a == (x % s) - u
             b == x - u
             d == x \div s
             e == a \div s
             f == b \div s
  <1>1. x % s \in 0..s-1 /\ d \in Int /\ x = s * d + (x % s)
    OBVIOUS
  <1>2. a \in Int /\ b \in Int /\ b = s * d + a
    BY <1>1
  <1> HIDE DEF a, b, d
  <1>3. /\ a % s \in 0..s-1 /\ e \in Int /\ a = s * e + (a % s)
        /\ b % s \in 0..s-1 /\ f \in Int /\ b = s * f + (b % s)
    BY <1>2
  <1> HIDE DEF e, f
  <1>4. s * (d + e) = s * d + s * e /\ d + e \in Int
    BY <1>1, <1>3
  <1>5. s * (d + e) + (a % s) = s * f + (b % s)
    <2> DEFINE g == s * d
               h == s * e
               i == s * f
               j == s * (d + e)
               r == a % s
               t == b % s
    <2>1. g \in Int /\ h \in Int /\ i \in Int /\ r \in Int /\ t \in Int
      BY <1>1, <1>3
    <2>2. j = g + h /\ b = g + a /\ a = h + r /\ b = i + t
      BY <1>2, <1>3, <1>4
    <2> HIDE DEF g, h, i, j, r, t
    <2>3. j + r = i + t
      BY <2>1, <2>2
    <2> QED BY <2>3 DEF i, j, r, t
  <1>6. a % s = b % s
    BY <1>3, <1>4, <1>5, ModUnique
  <1> QED BY <1>6 DEF a, b

-----------------------------------------------------------------------------
(* Receiving: gkcrypt.c                                                    *)

\* The constants of the key stream, as numbers.
LEMMA KeyConstants ==
  /\ KeyMod \in Nat /\ KeyMod > 3 /\ KeyMod % 2 = 0
  /\ KeyChunk \in Nat \ {0} /\ KeyBuffer \in Nat \ {0} /\ KeyLast \in Nat /\ KeyLen \in Nat
  /\ KeyBuffer % KeyChunk = 0
BY PartsAssumption DEF Cipher!KeyStreamConstantsOK

\* Different places of the ring buffer have different offsets.
LEMMA PlacesApart ==
  ASSUME NEW st \in Nat, NEW i \in 0..KeyBuffer-1, NEW j \in 0..KeyBuffer-1, i # j
  PROVE  (st + i) % KeyBuffer # (st + j) % KeyBuffer
PROOF
  <1>1. KeyBuffer \in Nat \ {0} /\ i \in Int /\ j \in Int
    BY KeyConstants
  <1> DEFINE x == st + i
             y == st + j
  <1>2. x \in Nat /\ y \in Nat /\ x # y /\ x - y < KeyBuffer /\ y - x < KeyBuffer
    BY <1>1
  <1> HIDE DEF x, y
  <1>3. x % KeyBuffer # y % KeyBuffer
    <2>1. CASE x < y
      BY <1>1, <1>2, <2>1, ModApart, KeyConstants
    <2>2. CASE y < x
      BY <1>1, <1>2, <2>2, ModApart, KeyConstants
    <2> QED BY <1>2, <2>1, <2>2
  <1> QED BY <1>3 DEF x, y

\* Multiples of the chunk stay multiples, and leave room for a whole one.
LEMMA WholeChunks ==
  ASSUME NEW n \in Nat, n % KeyChunk = 0
  PROVE  /\ (n + KeyChunk) % KeyChunk = 0
         /\ n >= KeyChunk => (n - KeyChunk) % KeyChunk = 0
         /\ n < KeyBuffer => n + KeyChunk <= KeyBuffer
PROOF
  <1> DEFINE c == KeyChunk
  <1>1. c \in Nat \ {0} /\ KeyBuffer \in Nat \ {0} /\ KeyBuffer % c = 0
    BY KeyConstants
  <1>2. c % c = 0
    <2>1. c = c * 1 + 0 /\ c = c * (c \div c) + (c % c) /\ c % c \in 0..c-1 /\ c \div c \in Int
      BY <1>1
    <2> QED BY <1>1, <2>1, ModUnique, KeyConstants
  <1>3. (n + c) % c = 0
    BY <1>1, <1>2, ModShift, KeyConstants
  <1>4. ASSUME n >= c PROVE (n - c) % c = 0
    <2> DEFINE k == n - c
    <2>1. k \in Nat /\ k + c = n
      BY <1>1, <1>4
    <2> HIDE DEF k
    <2>2. (k + c) % c = k % c
      BY <1>1, <1>2, <2>1, ModShift, KeyConstants
    <2> QED BY <2>1, <2>2 DEF k
  <1>5. ASSUME n < KeyBuffer PROVE n + c <= KeyBuffer
    <2> DEFINE a == n \div c
               b == KeyBuffer \div c
    <2>1. a \in Int /\ b \in Int /\ n = c * a /\ KeyBuffer = c * b
      BY <1>1
    <2> HIDE DEF a, b
    <2>2. SUFFICES ASSUME KeyBuffer - n < c PROVE FALSE
      BY <1>1
    <2> DEFINE d == b - a
    <2>3. d \in Int /\ c * d = KeyBuffer - n
      BY <1>1, <2>1
    <2> HIDE DEF d
    <2>4. CASE d <= 0
      <3>1. c * (0 - d) >= 0
        BY <1>1, <2>3, <2>4
      <3> QED BY <1>1, <1>5, <2>3, <3>1
    <2>5. CASE d > 0
      <3>1. c * d >= c
        BY <1>1, <2>3, <2>5, TimesPositive, KeyConstants
      <3> QED BY <1>1, <2>2, <2>3, <3>1
    <2> QED BY <2>3, <2>4, <2>5
  <1> QED BY <1>3, <1>4, <1>5

\* chiaki_key_state_request_pos gives the true position back, as long as it is
\* nearer to the one before than half of what the low half counts.
LEMMA Completed ==
  ASSUME s1 \in Nat, NEW p \in Nat, p - s1 < Cipher!SeqHalf, s1 - p < Cipher!SeqHalf
  PROVE  Cipher!RequestPos(p % KeyMod) = p
PROOF
  <1> DEFINE m == KeyMod
             h == Cipher!SeqHalf
             a == s1 \div m
             r == s1 % m
             b == p \div m
             t == p % m
             d == b - a
  <1>1. m \in Nat \ {0} /\ h \in Nat \ {0} /\ m = 2 * h
    BY KeyConstants DEF Cipher!SeqHalf
  <1>2. /\ a \in Int /\ s1 = m * a + r /\ r \in 0..m-1 /\ s1 \in Int
        /\ b \in Int /\ p = m * b + t /\ t \in 0..m-1 /\ p \in Int
    BY <1>1
  <1>3. t % m = t /\ r % m = r
    BY <1>1, <1>2
  <1> HIDE DEF m, h, a, b, r, t
  <1>4. /\ Cipher!SeqGt(t, r) <=> (t < r /\ r - t > h) \/ (t > r /\ t - r < h)
        /\ Cipher!SeqLt(t, r) <=> (t < r /\ r - t < h) \/ (t > r /\ t - r > h)
    BY <1>3 DEF Cipher!SeqGt, Cipher!SeqLt, Cipher!SeqCast, m, h
  <1>5. d \in Int /\ m * b - m * a = m * d
    BY <1>1, <1>2
  <1>6. m * d = (p - s1) + (r - t)
    BY <1>1, <1>2, <1>5
  <1>7. p - s1 < h /\ s1 - p < h
    BY DEF h
  <1> HIDE DEF d
  <1> DEFINE g == m * d
             e == CASE Cipher!SeqGt(t, r) /\ t < r -> a + 1
                    [] Cipher!SeqLt(t, r) /\ t > r /\ a > 0 -> a - 1
                    [] OTHER -> a
  <1>8. Cipher!RequestPos(t) = e * m + t
    BY DEF Cipher!RequestPos, m, a, r, e
  <1>9. e = b
    <2>1. CASE d = 0
      <3>1. b = a /\ g = 0
        BY <1>1, <1>2, <2>1 DEF d
      <3> HIDE DEF g
      <3>2. p - s1 = t - r
        BY <1>1, <1>2, <1>6, <3>1 DEF g
      <3>3. ~(Cipher!SeqGt(t, r) /\ t < r) /\ ~(Cipher!SeqLt(t, r) /\ t > r)
        <4>1. t \in Int /\ r \in Int /\ h \in Int
          BY <1>1, <1>2
        <4>2. t - r < h /\ r - t < h
          BY <1>7, <3>2, <4>1
        <4> QED BY <1>4, <4>1, <4>2
      <3> QED BY <3>1, <3>3
    <2>2. CASE d = 1
      <3>1. b = a + 1 /\ g = m
        BY <1>1, <1>2, <2>2 DEF d
      <3> HIDE DEF g
      <3>2. p - s1 = m + (t - r)
        BY <1>1, <1>2, <1>6, <3>1 DEF g
      <3>3. Cipher!SeqGt(t, r) /\ t < r
        <4>1. t \in Int /\ r \in Int /\ h \in Nat
          BY <1>1, <1>2
        <4>2. r - t > h /\ t < r
          BY <1>1, <1>2, <1>7, <3>2
        <4>3. Cipher!SeqGt(t, r)
          BY <1>4, <4>2
        <4> QED BY <4>2, <4>3
      <3>4. ~(Cipher!SeqLt(t, r) /\ t > r)
        BY <1>2, <3>3
      <3> QED BY <3>1, <3>3, <3>4
    <2>3. CASE d = -1
      <3>0. b >= 0
        <4>1. ASSUME b < 0 PROVE FALSE
          <5>1. m * (0 - b) >= m /\ m * (0 - b) = 0 - m * b
            BY <1>1, <1>2, <4>1, TimesPositive, KeyConstants
          <5> QED BY <1>1, <1>2, <5>1
        <4> QED BY <1>2, <4>1
      <3>1. b = a - 1 /\ a > 0 /\ g = 0 - m
        BY <1>1, <1>2, <2>3, <3>0 DEF d
      <3> HIDE DEF g
      <3>2. s1 - p = m + (r - t)
        BY <1>1, <1>2, <1>6, <3>1 DEF g
      <3>3. Cipher!SeqLt(t, r) /\ t > r
        BY <1>1, <1>2, <1>4, <1>7, <3>2
      <3>4. ~(Cipher!SeqGt(t, r) /\ t < r)
        BY <1>2, <3>3
      <3> QED BY <3>1, <3>3, <3>4
    <2>4. CASE d >= 2
      <3>1. m * (d - 1) >= m /\ m * (d - 1) = m * d - m
        BY <1>1, <1>5, <2>4, TimesPositive, KeyConstants
      <3> QED BY <1>1, <1>2, <1>6, <1>7, <3>1
    <2>5. CASE d <= -2
      <3>1. m * ((0 - d) - 1) >= m /\ m * ((0 - d) - 1) = (0 - m * d) - m
        BY <1>1, <1>5, <2>5, TimesPositive, KeyConstants
      <3> QED BY <1>1, <1>2, <1>6, <1>7, <3>1
    <2> QED BY <1>5, <2>1, <2>2, <2>3, <2>4, <2>5
  <1>10. e * m + t = p
    BY <1>1, <1>2, <1>9
  <1> QED BY <1>8, <1>10 DEF t, m

\* What the thread computes lands behind what the buffer holds, each block at
\* the offset of its position, and nothing else is touched.
LEMMA ChunkPlaced ==
  ASSUME Cipher!RoomForChunk, Cipher!BufferHolds, Cipher!ChunkDone
  PROVE  Cipher!BufferHolds'
PROOF
  <1> DEFINE st == s4
             n == s3
             c == KeyChunk
             B == KeyBuffer
             o(k) == (st + k) % B
  <1>1. c \in Nat \ {0} /\ B \in Nat \ {0}
    BY KeyConstants
  <1>2. st \in Nat /\ n \in Nat /\ s2 \in Nat /\ n + c <= B /\ DOMAIN s6 = 0..B-1
    BY <1>1 DEF Cipher!RoomForChunk, Cipher!ChunkDone
  <1>3. /\ s2' = s2 /\ s4' = s4 /\ s3' = n + c
        /\ s6' = [j \in 0..B-1 |-> IF j \in Cipher!Target
                                   THEN (s2 + n) + ((j - (st + n)) % B) ELSE s6[j]]
    BY <1>2 DEF Cipher!ChunkDone
  <1>4. \A k \in 0..n-1 : s6[o(k)] = s2 + k
    BY DEF Cipher!BufferHolds
  <1>5. \A k \in Nat : o(k) \in 0..B-1
    BY <1>1, <1>2
  <1> HIDE DEF B, c, n, st
  <1>6. SUFFICES ASSUME NEW k \in 0..(n + c)-1 PROVE s6'[o(k)] = s2 + k
    BY <1>3 DEF Cipher!BufferHolds, st, B
  <1>7. k \in Nat /\ k \in 0..B-1
    BY <1>1, <1>2
  <1>8. CASE k < n
    <2>1. o(k) \notin Cipher!Target
      <3>1. SUFFICES ASSUME NEW i \in 0..c-1, o(k) = ((st + n) + i) % B PROVE FALSE
        BY DEF Cipher!Target, st, n, B, c
      <3>2. (st + n) + i = st + (n + i) /\ n + i \in 0..B-1 /\ k # n + i
        BY <1>1, <1>2, <1>7, <1>8
      <3>3. (st + k) % B # (st + (n + i)) % B
        BY <1>2, <1>7, <3>2, PlacesApart DEF B
      <3> QED BY <3>1, <3>2, <3>3
    <2>2. k \in 0..n-1
      BY <1>2, <1>7, <1>8
    <2> QED BY <1>3, <1>4, <1>5, <1>7, <2>1, <2>2
  <1>9. CASE k >= n
    <2> DEFINE i == k - n
               x == st + k
    <2>1. i \in 0..c-1 /\ (st + n) + i = x /\ x \in Nat /\ st + n \in Int
      BY <1>1, <1>2, <1>7, <1>9
    <2>2. o(k) \in Cipher!Target
      <3>1. o(k) = ((st + n) + i) % B
        BY <2>1
      <3> HIDE DEF i, o
      <3> QED BY <2>1, <3>1 DEF Cipher!Target, st, n, B, c
    <2>3. x - (st + n) = i /\ i % B = i
      BY <1>1, <1>2, <1>7, <2>1
    <2> HIDE DEF x
    <2>4. ((x % B) - (st + n)) % B = (x - (st + n)) % B
      BY <1>1, <2>1, ModSub, KeyConstants
    <2>5. (o(k) - (st + n)) % B = i
      BY <2>3, <2>4 DEF x
    <2>6. s6'[o(k)] = (s2 + n) + i
      BY <1>3, <1>5, <1>7, <2>2, <2>5
    <2> QED BY <1>2, <1>7, <1>9, <2>6
  <1> QED BY <1>2, <1>7, <1>8, <1>9

\* What is torn for the next chunk is no place of what the buffer holds.
LEMMA TornBehind ==
  ASSUME NEW st \in 0..KeyBuffer-1, NEW n \in Nat, n + KeyChunk <= KeyBuffer,
         NEW k \in 0..n-1
  PROVE  (st + k) % KeyBuffer \notin {((st + n) + i) % KeyBuffer : i \in 0..KeyChunk-1}
PROOF
  <1>1. KeyChunk \in Nat \ {0} /\ KeyBuffer \in Nat \ {0}
    BY KeyConstants
  <1>2. SUFFICES ASSUME NEW i \in 0..KeyChunk-1, (st + k) % KeyBuffer = ((st + n) + i) % KeyBuffer
                 PROVE FALSE
    OBVIOUS
  <1>3. /\ (st + n) + i = st + (n + i) /\ n + i \in 0..KeyBuffer-1 /\ k \in 0..KeyBuffer-1
        /\ k # n + i /\ st \in Nat
    BY <1>1
  <1>4. (st + k) % KeyBuffer # (st + (n + i)) % KeyBuffer
    BY <1>3, PlacesApart
  <1> QED BY <1>2, <1>3, <1>4

\* Moving the buffer, to what was asked for last or by one chunk, keeps what it
\* holds where it is, and makes room for a chunk.
LEMMA RoomMade ==
  ASSUME Cipher!RoomForChunk, Cipher!BufferHolds, Cipher!MakeRoom, s5 \in Nat,
         s3 < KeyBuffer \/ Cipher!ShouldGenerate
  PROVE  /\ s2' \in Nat /\ s3' \in Nat /\ s3' % KeyChunk = 0 /\ s4' \in 0..KeyBuffer-1
         /\ s3' + KeyChunk <= KeyBuffer
         /\ \A k \in 0..s3'-1 : s6[(s4' + k) % KeyBuffer] = s2' + k
PROOF
  <1> DEFINE c == KeyChunk
             B == KeyBuffer
             skip == s5 > s2 + s3
             full == s3 = B
  <1>1. c \in Nat \ {0} /\ B \in Nat \ {0}
    BY KeyConstants
  <1>2. s2 \in Nat /\ s3 \in 0..B /\ s3 % c = 0 /\ s4 \in 0..B-1
    BY DEF Cipher!RoomForChunk
  <1>3. \A k \in 0..s3-1 : s6[(s4 + k) % B] = s2 + k
    BY DEF Cipher!BufferHolds
  <1>4. /\ s2' = IF skip THEN (s5 \div c) * c ELSE IF full THEN s2 + c ELSE s2
        /\ s4' = IF skip THEN 0 ELSE IF full THEN (s4 + c) % B ELSE s4
        /\ s3' = IF skip THEN 0 ELSE IF full THEN s3 - c ELSE s3
    BY DEF Cipher!MakeRoom
  <1> HIDE DEF c, B
  <1>5. 0 % c = 0 /\ c <= B
    <2>1. 0 % c = 0
      BY <1>1
    <2>2. 0 + c <= B
      <3>1. 0 \in Nat /\ 0 % KeyChunk = 0 /\ 0 < KeyBuffer
        BY <1>1, <2>1 DEF c, B
      <3>2. 0 + KeyChunk <= KeyBuffer
        BY <3>1, WholeChunks
      <3> QED BY <3>2 DEF c, B
    <2> QED BY <1>1, <2>1, <2>2
  <1>6. CASE skip
    <2>1. s2' = (s5 \div c) * c /\ s4' = 0 /\ s3' = 0
      BY <1>4, <1>6
    <2> DEFINE q == s5 \div c
    <2>2. q \in Nat
      <3>1. q \in Int /\ s5 = c * q + (s5 % c) /\ s5 % c \in 0..c-1
        BY <1>1
      <3> HIDE DEF q
      <3>2. ASSUME q < 0 PROVE FALSE
        <4>1. c * (0 - q) >= c /\ c * (0 - q) = 0 - c * q
          BY <1>1, <3>1, <3>2, TimesPositive, KeyConstants
        <4> QED BY <1>1, <3>1, <4>1
      <3> QED BY <3>1, <3>2
    <2> HIDE DEF q
    <2>3. q * c \in Nat
      BY <1>1, <2>2
    <2> QED BY <1>1, <1>5, <2>1, <2>3 DEF q, c, B
  <1>7. CASE ~skip /\ full
    <2>1. s2' = s2 + c /\ s4' = (s4 + c) % B /\ s3' = B - c /\ s3 = B
      BY <1>4, <1>7
    <2>2. s2' \in Nat /\ s4' \in 0..B-1 /\ s3' \in Nat /\ s3' + c <= B
      BY <1>1, <1>2, <1>5, <2>1
    <2>3. s3' % c = 0
      <3>1. B \in Nat /\ s3' = B - c /\ c <= B
        BY <1>1, <1>5, <2>1
      <3>2. KeyBuffer \in Nat /\ KeyBuffer % KeyChunk = 0 /\ KeyBuffer >= KeyChunk
        BY <3>1, KeyConstants DEF c, B
      <3>3. (KeyBuffer - KeyChunk) % KeyChunk = 0
        BY <3>2, WholeChunks
      <3> QED BY <3>1, <3>3 DEF c, B
    <2>4. ASSUME NEW k \in 0..s3'-1 PROVE s6[(s4' + k) % B] = s2' + k
      <3> DEFINE x == s4 + c
                 u == 0 - k
      <3>1. x \in Nat /\ u \in Int /\ k \in Nat /\ c + k \in 0..s3-1 /\ x - u = s4 + (c + k)
        BY <1>1, <1>2, <2>1, <2>4
      <3>2. (x % B) - u = s4' + k
        BY <1>1, <1>2, <2>1, <2>2, <3>1
      <3> HIDE DEF x, u
      <3>3. ((x % B) - u) % B = (x - u) % B
        BY <1>1, <3>1, ModSub, KeyConstants
      <3>4. (s4' + k) % B = (s4 + (c + k)) % B
        BY <3>1, <3>2, <3>3
      <3>5. s6[(s4 + (c + k)) % B] = s2 + (c + k)
        BY <1>3, <3>1
      <3> QED BY <1>1, <1>2, <2>1, <3>1, <3>4, <3>5
    <2> QED BY <2>2, <2>3, <2>4 DEF c, B
  <1>8. CASE ~skip /\ ~full
    <2>1. s2' = s2 /\ s4' = s4 /\ s3' = s3
      BY <1>4, <1>8
    <2>2. s3 < B
      BY <1>1, <1>2, <1>8
    <2>3. s3 + c <= B
      <3>1. s3 \in Nat /\ s3 % KeyChunk = 0 /\ s3 < KeyBuffer
        BY <1>1, <1>2, <2>2 DEF c, B
      <3>2. s3 + KeyChunk <= KeyBuffer
        BY <3>1, WholeChunks
      <3> QED BY <3>2 DEF c, B
    <2> QED BY <1>1, <1>2, <1>3, <2>1, <2>3 DEF c, B
  <1> QED BY <1>6, <1>7, <1>8

\* A round of the thread keeps the room and what the buffer holds.
LEMMA RoundKeeps ==
  ASSUME Cipher!KeyStreamInv, Cipher!ThreadRound
  PROVE  Cipher!KeyStreamInv'
PROOF
  <1> USE DEF Cipher!KeyStreamInv
  <1>1. KeyBuffer \in Nat \ {0} /\ KeyChunk \in Nat \ {0}
    BY KeyConstants
  <1>2. /\ s7 = "awake" /\ s1' = s1 /\ s5' = s5 /\ s8' = s8 /\ s9' = s9 /\ s10' = s10
        /\ s5 \in Nat /\ s1 \in Nat
    BY DEF Cipher!ThreadRound, Cipher!RoomForChunk
  <1>3. Cipher!DecryptedWithItsOwn'
    BY <1>2 DEF Cipher!DecryptedWithItsOwn
  <1>4. CASE s10 # "no"
    <2>1. s7' = "ended" /\ s2' = s2 /\ s4' = s4 /\ s3' = s3 /\ s6' = s6
      BY <1>4 DEF Cipher!ThreadRound
    <2>2. Cipher!RoomForChunk'
      BY <1>2, <2>1 DEF Cipher!RoomForChunk
    <2>3. Cipher!BufferHolds'
      BY <2>1 DEF Cipher!BufferHolds
    <2>4. Cipher!SleepsOverFullBuffer'
      BY <2>1 DEF Cipher!SleepsOverFullBuffer
    <2> QED BY <1>3, <2>2, <2>3, <2>4
  <1>5. CASE s10 = "no" /\ ~(s3 < KeyBuffer \/ Cipher!ShouldGenerate)
    <2>1. s7' = "asleep" /\ s2' = s2 /\ s4' = s4 /\ s3' = s3 /\ s6' = s6
      BY <1>5 DEF Cipher!ThreadRound
    <2>2. Cipher!RoomForChunk'
      BY <1>2, <2>1 DEF Cipher!RoomForChunk
    <2>3. Cipher!BufferHolds'
      BY <2>1 DEF Cipher!BufferHolds
    <2>4. Cipher!SleepsOverFullBuffer'
      <3>1. s3' = KeyBuffer
        BY <1>1, <1>5, <2>1 DEF Cipher!RoomForChunk
      <3>2. ~Cipher!ShouldGenerate'
        BY <1>2, <1>5, <2>1 DEF Cipher!ShouldGenerate
      <3> QED BY <3>1, <3>2 DEF Cipher!SleepsOverFullBuffer
    <2> QED BY <1>3, <2>2, <2>3, <2>4
  <1>6. CASE s10 = "no" /\ (s3 < KeyBuffer \/ Cipher!ShouldGenerate)
    <2>1. /\ Cipher!MakeRoom /\ s7' = "generating"
          /\ s6' = [o \in DOMAIN s6 |-> IF o \in Cipher!Target' THEN Cipher!Torn ELSE s6[o]]
      BY <1>6 DEF Cipher!ThreadRound
    <2>2. /\ s2' \in Nat /\ s3' \in Nat /\ s3' % KeyChunk = 0 /\ s4' \in 0..KeyBuffer-1
          /\ s3' + KeyChunk <= KeyBuffer
          /\ \A k \in 0..s3'-1 : s6[(s4' + k) % KeyBuffer] = s2' + k
      BY <1>2, <1>6, <2>1, RoomMade
    <2>3. PICK st, n : st = s4' /\ n = s3'
      OBVIOUS
    <2>4. st \in 0..KeyBuffer-1 /\ n \in Nat /\ n + KeyChunk <= KeyBuffer
      BY <2>3, <2>2
    <2>5. n \in 0..KeyBuffer /\ \A k \in 0..n-1 : st + k \in Nat
      BY <1>1, <2>4
    <2>6. s6 \in [0..KeyBuffer-1 -> Int]
      BY DEF Cipher!RoomForChunk
    <2>7. s6' \in [0..KeyBuffer-1 -> Int]
      BY <2>1, <2>6 DEF Cipher!Torn
    <2>8. Cipher!RoomForChunk'
      <3>1. {s1', s2', s5'} \subseteq Nat
        BY <1>2, <2>2
      <3>2. s3' \in 0..KeyBuffer
        BY <2>3, <2>5
      <3> QED BY <2>2, <2>7, <3>1, <3>2 DEF Cipher!RoomForChunk
    <2>9. Cipher!BufferHolds'
      <3>1. SUFFICES ASSUME NEW k \in 0..s3'-1
                     PROVE  s6'[(s4' + k) % KeyBuffer] = s2' + k
        BY DEF Cipher!BufferHolds
      <3>2. s4' + k \in Nat
        BY <2>3, <2>5
      <3>3. (s4' + k) % KeyBuffer \in 0..KeyBuffer-1
        BY <1>1, <3>2
      <3>4. (s4' + k) % KeyBuffer \notin Cipher!Target'
        <4>1. k \in 0..n-1
          BY <2>3
        <4>2. (st + k) % KeyBuffer \notin {((st + n) + i) % KeyBuffer : i \in 0..KeyChunk-1}
          BY <2>4, <4>1, TornBehind
        <4>3. Cipher!Target' = {((st + n) + i) % KeyBuffer : i \in 0..KeyChunk-1}
          BY <2>3 DEF Cipher!Target
        <4> QED BY <2>3, <4>2, <4>3
      <3>5. s6[(s4' + k) % KeyBuffer] = s2' + k
        BY <2>2
      <3> QED BY <2>1, <2>6, <3>3, <3>4, <3>5
    <2>10. Cipher!SleepsOverFullBuffer'
      BY <2>1 DEF Cipher!SleepsOverFullBuffer
    <2> QED BY <1>3, <2>8, <2>9, <2>10
  <1> QED BY <1>4, <1>5, <1>6

\* A packet reads the key stream of its true position.
LEMMA PacketReads ==
  ASSUME Cipher!KeyStreamInv, NEW p \in 0..KeyLast, NEW len \in 1..KeyLen,
         Cipher!Packet(p, len)
  PROVE  s1' = p /\ s5' \in Nat /\ Cipher!DecryptedWithItsOwn'
PROOF
  <1>1. /\ KeyBuffer \in Nat \ {0} /\ p \in Nat /\ len \in Nat
    BY KeyConstants
  <1>2. s1 \in Nat /\ s2 \in Nat /\ s3 \in Nat /\ s4 \in Nat /\ s5 \in Nat
    BY <1>1 DEF Cipher!KeyStreamInv, Cipher!RoomForChunk
  <1>3. Cipher!RequestPos(p % KeyMod) = p
    BY <1>1, <1>2, Completed DEF Cipher!Packet
  <1> DEFINE from == p + 1
  <1>4. /\ s1' = p
        /\ s5' = IF from + len > s5 THEN from + len ELSE s5
        /\ s9' = [from |-> from, blocks |-> [i \in 1..len |-> Cipher!Block(from, len, i - 1)]]
    BY <1>3 DEF Cipher!Packet
  <1>5. s5' \in Nat
    BY <1>1, <1>2, <1>4
  <1>6. ASSUME NEW i \in 1..len PROVE Cipher!Block(from, len, i - 1) = from + i - 1
    <2>1. i \in Int /\ 1 <= i /\ i <= len /\ from \in Nat
      BY <1>1
    <2>2. CASE from < s2 \/ from + len >= s2 + s3
      <3>1. Cipher!Block(from, len, i - 1) = from + (i - 1)
        BY <2>2 DEF Cipher!Block
      <3> QED BY <2>1, <3>1
    <2>3. CASE ~(from < s2 \/ from + len >= s2 + s3)
      <3> DEFINE k == (from - s2) + (i - 1)
                 x == (from - s2 + s4) + (i - 1)
      <3>1. Cipher!Block(from, len, i - 1) = s6[x % KeyBuffer]
        BY <2>3 DEF Cipher!Block
      <3>2. k \in 0..s3-1 /\ x = s4 + k /\ s2 + k = from + i - 1
        BY <1>1, <1>2, <2>1, <2>3
      <3> HIDE DEF k, x
      <3>3. s6[(s4 + k) % KeyBuffer] = s2 + k
        BY <3>2 DEF Cipher!KeyStreamInv, Cipher!BufferHolds
      <3> QED BY <3>1, <3>2, <3>3
    <2> QED BY <2>2, <2>3
  <1>7. Cipher!DecryptedWithItsOwn'
    <2> DEFINE blocks == [i \in 1..len |-> Cipher!Block(from, len, i - 1)]
    <2>1. s9'.from = from /\ s9'.blocks = blocks
      BY <1>4
    <2>2. \A i \in DOMAIN blocks : blocks[i] = from + i - 1
      BY <1>6
    <2> HIDE DEF blocks, from
    <2> QED BY <2>1, <2>2 DEF Cipher!DecryptedWithItsOwn
  <1> QED BY <1>4, <1>5, <1>7

\* Every step of the part "keys" keeps its invariant.
LEMMA KeyStreamNext ==
  ASSUME Cipher!KeyStreamInv, Cipher!Next
  PROVE  Cipher!KeyStreamInv'
PROOF
  <1>1. ASSUME NEW p \in 0..KeyLast, NEW len \in 1..KeyLen, Cipher!Packet(p, len)
        PROVE  Cipher!KeyStreamInv'
    <2>1. s1' = p /\ s5' \in Nat /\ Cipher!DecryptedWithItsOwn'
      BY <1>1, PacketReads
    <2>2. /\ s2' = s2 /\ s3' = s3 /\ s4' = s4 /\ s6' = s6 /\ s7' = s7
          /\ s8' = IF Cipher!ShouldGenerate' THEN "signal" ELSE "idle"
      BY <1>1 DEF Cipher!Packet
    <2>3. p \in Nat
      BY KeyConstants
    <2>4. Cipher!RoomForChunk'
      BY <2>1, <2>2, <2>3 DEF Cipher!KeyStreamInv, Cipher!RoomForChunk
    <2>5. Cipher!BufferHolds'
      BY <2>2 DEF Cipher!KeyStreamInv, Cipher!BufferHolds
    <2>6. Cipher!SleepsOverFullBuffer'
      BY <2>2 DEF Cipher!KeyStreamInv, Cipher!SleepsOverFullBuffer
    <2> QED BY <2>1, <2>4, <2>5, <2>6 DEF Cipher!KeyStreamInv
  <1>2. CASE Cipher!ReaderSignals
    <2>1. /\ s1' = s1 /\ s2' = s2 /\ s3' = s3 /\ s4' = s4 /\ s5' = s5 /\ s6' = s6 /\ s9' = s9
          /\ s7' = IF s7 = "asleep" THEN "awake" ELSE s7
      BY <1>2 DEF Cipher!ReaderSignals, Cipher!Signal
    <2>2. Cipher!RoomForChunk'
      BY <2>1 DEF Cipher!KeyStreamInv, Cipher!RoomForChunk
    <2>3. Cipher!BufferHolds' /\ Cipher!DecryptedWithItsOwn'
      BY <2>1 DEF Cipher!KeyStreamInv, Cipher!BufferHolds, Cipher!DecryptedWithItsOwn
    <2>4. Cipher!SleepsOverFullBuffer'
      BY <2>1 DEF Cipher!SleepsOverFullBuffer
    <2> QED BY <2>2, <2>3, <2>4 DEF Cipher!KeyStreamInv
  <1>3. CASE Cipher!ThreadRound
    BY <1>3, RoundKeeps
  <1>4. CASE Cipher!ChunkDone
    <2>1. Cipher!RoomForChunk /\ Cipher!BufferHolds
      BY DEF Cipher!KeyStreamInv
    <2>2. Cipher!BufferHolds'
      BY <1>4, <2>1, ChunkPlaced
    <2>3. /\ s1' = s1 /\ s2' = s2 /\ s3' = s3 + KeyChunk /\ s4' = s4 /\ s5' = s5 /\ s9' = s9
          /\ s7 = "generating" /\ s7' = "awake"
          /\ s6' = [o \in DOMAIN s6 |->
                      IF o \in Cipher!Target THEN s2 + s3 + ((o - (s4 + s3)) % KeyBuffer)
                      ELSE s6[o]]
      BY <1>4 DEF Cipher!ChunkDone
    <2>4. /\ s2 \in Nat /\ s3 \in Nat /\ s4 \in Nat /\ s6 \in [0..KeyBuffer-1 -> Int]
          /\ s3 % KeyChunk = 0 /\ s3 + KeyChunk <= KeyBuffer /\ {s1, s2, s5} \subseteq Nat
          /\ KeyBuffer \in Nat \ {0} /\ KeyChunk \in Nat \ {0}
      BY <2>1, <2>3, KeyConstants DEF Cipher!RoomForChunk
    <2>5. s3' \in 0..KeyBuffer /\ s3' % KeyChunk = 0
      <3>1. (s3 + KeyChunk) % KeyChunk = 0
        BY <2>4, WholeChunks
      <3> QED BY <2>3, <2>4, <3>1
    <2>6. s6' \in [0..KeyBuffer-1 -> Int]
      <3>1. ASSUME NEW o \in 0..KeyBuffer-1
            PROVE  s2 + s3 + ((o - (s4 + s3)) % KeyBuffer) \in Int
        BY <2>4
      <3> QED BY <2>3, <2>4, <3>1
    <2>7. Cipher!RoomForChunk'
      BY <2>1, <2>3, <2>4, <2>5, <2>6 DEF Cipher!RoomForChunk
    <2>8. Cipher!DecryptedWithItsOwn' /\ Cipher!SleepsOverFullBuffer'
      BY <2>3 DEF Cipher!KeyStreamInv, Cipher!DecryptedWithItsOwn, Cipher!SleepsOverFullBuffer
    <2> QED BY <2>2, <2>7, <2>8 DEF Cipher!KeyStreamInv
  <1>5. CASE Cipher!StopSignals
    <2>1. /\ s1' = s1 /\ s2' = s2 /\ s3' = s3 /\ s4' = s4 /\ s5' = s5 /\ s6' = s6 /\ s9' = s9
          /\ s7' = IF s7 = "asleep" THEN "awake" ELSE s7
      BY <1>5 DEF Cipher!StopSignals, Cipher!Signal
    <2>2. Cipher!RoomForChunk'
      BY <2>1 DEF Cipher!KeyStreamInv, Cipher!RoomForChunk
    <2>3. Cipher!BufferHolds' /\ Cipher!DecryptedWithItsOwn'
      BY <2>1 DEF Cipher!KeyStreamInv, Cipher!BufferHolds, Cipher!DecryptedWithItsOwn
    <2>4. Cipher!SleepsOverFullBuffer'
      BY <2>1 DEF Cipher!SleepsOverFullBuffer
    <2> QED BY <2>2, <2>3, <2>4 DEF Cipher!KeyStreamInv
  <1>6. CASE Cipher!Join \/ Cipher!Stop
    <2>1. /\ s1' = s1 /\ s2' = s2 /\ s3' = s3 /\ s4' = s4 /\ s5' = s5 /\ s6' = s6
          /\ s7' = s7 /\ s8' = s8 /\ s9' = s9
      BY <1>6 DEF Cipher!Join, Cipher!Stop
    <2> QED BY <2>1 DEF Cipher!KeyStreamInv, Cipher!RoomForChunk, Cipher!BufferHolds,
               Cipher!DecryptedWithItsOwn, Cipher!SleepsOverFullBuffer, Cipher!ShouldGenerate
  <1>7. CASE Cipher!ChunkFails
    <2>1. /\ s1' = s1 /\ s2' = s2 /\ s3' = s3 /\ s4' = s4 /\ s5' = s5 /\ s6' = s6
          /\ s7' = "ended" /\ s8' = s8 /\ s9' = s9
      BY <1>7 DEF Cipher!ChunkFails
    <2> QED BY <2>1 DEF Cipher!KeyStreamInv, Cipher!RoomForChunk, Cipher!BufferHolds,
               Cipher!DecryptedWithItsOwn, Cipher!SleepsOverFullBuffer, Cipher!ShouldGenerate
  <1> QED BY <1>1, <1>2, <1>3, <1>4, <1>5, <1>6, <1>7 DEF Cipher!Next, Cipher!Steps

\* It holds at the start, with an empty buffer.
LEMMA KeyStreamInit ==
  ASSUME Cipher!Init
  PROVE  Cipher!KeyStreamInv
PROOF
  <1>1. KeyBuffer \in Nat \ {0} /\ KeyChunk \in Nat \ {0}
    BY KeyConstants
  <1>2. /\ s1 = 0 /\ s2 = 0 /\ s3 = 0 /\ s4 = 0 /\ s5 = 0 /\ s7 = "awake"
        /\ s6 = [o \in 0..KeyBuffer-1 |-> Cipher!Torn]
        /\ s9 = [from |-> 0, blocks |-> <<>>]
    BY DEF Cipher!Init
  <1>3. 0 % KeyChunk = 0
    BY <1>1
  <1>4. s6 \in [0..KeyBuffer-1 -> Int]
    BY <1>2 DEF Cipher!Torn
  <1>5. Cipher!RoomForChunk
    BY <1>1, <1>2, <1>3, <1>4 DEF Cipher!RoomForChunk
  <1>6. Cipher!BufferHolds /\ Cipher!SleepsOverFullBuffer /\ Cipher!DecryptedWithItsOwn
    BY <1>2 DEF Cipher!BufferHolds, Cipher!SleepsOverFullBuffer, Cipher!DecryptedWithItsOwn
  <1> QED BY <1>5, <1>6 DEF Cipher!KeyStreamInv

-----------------------------------------------------------------------------
(* Sending: takion.c                                                       *)

\* What a packet takes of the key stream covers it.
LEMMA AdvanceCovers ==
  ASSUME NEW size \in CryptSizes
  PROVE  /\ size \in Nat \ {0} /\ CryptBlock + size \in Nat \ {0}
         /\ Crypt!Advance(size) \in Nat /\ Crypt!Advance(size) >= size
         /\ Crypt!Advance(size + CryptBlock) \in Nat
         /\ Crypt!Advance(size + CryptBlock) >= CryptBlock + size
PROOF
  <1>1. size \in Nat \ {0} /\ CryptBlock \in Nat \ {0}
    BY PartsAssumption DEF Crypt!SendCryptConstantsOK
  <1>2. ASSUME NEW n \in Nat PROVE Crypt!Advance(n) \in Nat /\ Crypt!Advance(n) >= n
    <2>1. n % CryptBlock \in 0..CryptBlock-1
      BY <1>1
    <2> DEFINE r == n % CryptBlock
    <2> HIDE DEF r
    <2>2. n + r \in Nat /\ n + r >= n
      BY <1>1, <2>1 DEF r
    <2> QED BY <2>2 DEF Crypt!Advance, r
  <1>3. size + CryptBlock \in Nat /\ size + CryptBlock = CryptBlock + size /\ CryptBlock + size \in Nat \ {0}
    BY <1>1
  <1>4. Crypt!Advance(size) \in Nat /\ Crypt!Advance(size) >= size
    BY <1>1, <1>2
  <1>5. Crypt!Advance(size + CryptBlock) \in Nat /\ Crypt!Advance(size + CryptBlock) >= size + CryptBlock
    BY <1>2, <1>3
  <1> QED BY <1>1, <1>3, <1>4, <1>5

\* chiaki_gkcrypt_gmac uses the key of the position it is given, new, kept or
\* made for it.
LEMMA KeyOfPosition ==
  ASSUME s3 \in Nat, NEW pos \in Nat
  PROVE  /\ Crypt!Gmac(pos).used = Crypt!IndexOf(pos)
         /\ Crypt!Gmac(pos).current \in Nat
PROOF
  <1>1. CryptRefresh \in Nat \ {0}
    BY PartsAssumption DEF Crypt!SendCryptConstantsOK
  <1> DEFINE n == IF pos > 0 THEN pos - 1 ELSE 0
  <1>2. n \in Nat
    OBVIOUS
  <1>3. n \div CryptRefresh \in Int
    BY <1>1, <1>2
  <1>4. Crypt!IndexOf(pos) \in Int
    BY <1>3 DEF Crypt!IndexOf
  <1> QED BY <1>4 DEF Crypt!Gmac

\* A range that was taken stays taken when more is.
LEMMA StaysTaken ==
  ASSUME NEW p, Crypt!Taken(p), s2 \in Nat, s2' \in Nat, s2' >= s2
  PROVE  Crypt!Taken(p)'
BY DEF Crypt!Taken

\* The two sections of a data packet: it takes its range,
LEMMA TakeKeeps ==
  ASSUME Crypt!SendCryptInv, NEW s \in CryptSenders, NEW size \in CryptSizes, Crypt!Take(s, size)
  PROVE  Crypt!SendCryptInv'
PROOF
  <1>0. PICK h : h = [pos |-> IF s1 THEN s2 ELSE 0, size |-> size, keyed |-> s1]
    OBVIOUS
  <1>1. /\ s4[s] = Crypt!NoPacket /\ s4' = [s4 EXCEPT ![s] = h]
        /\ s1' = s1 /\ s3' = s3 /\ s5' = s5
        /\ s2' = IF s1 THEN s2 + Crypt!Advance(size) ELSE s2
    BY <1>0 DEF Crypt!Take
  <1>2. s1 \in BOOLEAN /\ s2 \in Nat /\ s3 \in Nat /\ DOMAIN s4 = CryptSenders
    BY DEF Crypt!SendCryptInv
  <1>3. s2' \in Nat /\ s2' >= s2 /\ (s1 => s2 + size <= s2')
    BY <1>1, <1>2, AdvanceCovers
  <1>4. /\ h.size = size /\ size \in Nat \ {0} /\ h.keyed = s1
        /\ (s1 => h.pos = s2) /\ (~s1 => h.pos = 0)
    BY <1>0, AdvanceCovers
  <1>5. /\ DOMAIN s4' = CryptSenders /\ s4'[s] = h
        /\ \A t \in CryptSenders : t # s => s4'[t] = s4[t]
    BY <1>1, <1>2
  <1>6. ASSUME NEW q, Crypt!Taken(q) PROVE Crypt!Taken(q)'
    BY <1>2, <1>3, <1>6, StaysTaken
  <1>7. \A t \in CryptSenders : s4[t].keyed => s1 /\ Crypt!Taken(s4[t])
    BY DEF Crypt!SendCryptInv, Crypt!HeldInv
  <1>8. \A p \in s5 : p.keyed => Crypt!Taken(p)
    BY DEF Crypt!SendCryptInv, Crypt!SentInv
  <1>9. \A q : Crypt!Taken(q) /\ s1 => Crypt!Apart(h, q) /\ Crypt!Apart(q, h)
    BY <1>4 DEF Crypt!Taken, Crypt!Apart
  <1>10. \A t \in CryptSenders : s4'[t].keyed => s1' /\ Crypt!Taken(s4[t])'
    <2>1. SUFFICES ASSUME NEW t \in CryptSenders, s4'[t].keyed PROVE s1 /\ Crypt!Taken(s4[t])'
      BY <1>1
    <2>2. CASE t = s
      <3>1. s1
        BY <1>4, <1>5, <2>1, <2>2
      <3>2. s4'[t].pos = s2 /\ s4'[t].size = size
        BY <1>4, <1>5, <2>2, <3>1
      <3> QED BY <1>2, <1>3, <1>4, <3>1, <3>2 DEF Crypt!Taken
    <2>3. CASE t # s
      <3>1. s4'[t] = s4[t]
        BY <1>5, <2>3
      <3>2. s1 /\ Crypt!Taken(s4[t])
        BY <1>7, <2>1, <3>1
      <3>3. PICK q : q = s4[t]
        OBVIOUS
      <3>4. Crypt!Taken(q)'
        BY <1>6, <3>2, <3>3
      <3> QED BY <3>1, <3>2, <3>3, <3>4 DEF Crypt!Taken
    <2> QED BY <2>2, <2>3
  <1>11. \A t \in CryptSenders : s4'[t] # Crypt!NoPacket /\ ~s4'[t].keyed => s4'[t].pos = 0
    BY <1>4, <1>5 DEF Crypt!SendCryptInv, Crypt!HeldInv
  <1>12. s1' => \A t \in CryptSenders : s4'[t] # Crypt!NoPacket /\ ~s4'[t].keyed =>
                  t = CryptReporter /\ \A p \in s5' : p.keyed
    BY <1>1, <1>4, <1>5 DEF Crypt!SendCryptInv, Crypt!HeldInv
  <1>13. \A t, u \in CryptSenders : t # u /\ s4'[t].keyed /\ s4'[u].keyed => Crypt!Apart(s4'[t], s4'[u])
    <2>1. SUFFICES ASSUME NEW t \in CryptSenders, NEW u \in CryptSenders, t # u,
                          s4'[t].keyed, s4'[u].keyed
                   PROVE  Crypt!Apart(s4'[t], s4'[u])
      OBVIOUS
    <2>2. CASE t = s
      BY <1>4, <1>5, <1>7, <1>9, <2>1, <2>2
    <2>3. CASE u = s
      BY <1>4, <1>5, <1>7, <1>9, <2>1, <2>3
    <2>4. CASE t # s /\ u # s
      BY <1>5, <2>1, <2>4 DEF Crypt!SendCryptInv, Crypt!HeldInv
    <2> QED BY <2>2, <2>3, <2>4
  <1>14. \A t \in CryptSenders, p \in s5' : s4'[t].keyed /\ p.keyed => Crypt!Apart(s4'[t], p)
    <2>1. SUFFICES ASSUME NEW t \in CryptSenders, NEW p \in s5, s4'[t].keyed, p.keyed
                   PROVE  Crypt!Apart(s4'[t], p)
      BY <1>1
    <2>2. CASE t = s
      BY <1>4, <1>5, <1>8, <1>9, <2>1, <2>2
    <2>3. CASE t # s
      BY <1>5, <2>1, <2>3 DEF Crypt!SendCryptInv, Crypt!HeldInv
    <2> QED BY <2>2, <2>3
  <1>15. Crypt!HeldInv'
    BY <1>10, <1>11, <1>12, <1>13, <1>14 DEF Crypt!HeldInv, Crypt!NoPacket, Crypt!Apart
  <1>16. Crypt!SentInv'
    <2>1. \A p \in s5' : p.keyed => Crypt!Taken(p)'
      BY <1>1, <1>6, <1>8
    <2> QED BY <1>1, <2>1 DEF Crypt!SendCryptInv, Crypt!SentInv, Crypt!IndexOf, Crypt!Apart
  <1> QED BY <1>1, <1>2, <1>3, <1>5, <1>15, <1>16 DEF Crypt!SendCryptInv

\* and goes out, signed with the key of its position.
LEMMA SendKeeps ==
  ASSUME Crypt!SendCryptInv, NEW s \in CryptSenders, Crypt!Send(s)
  PROVE  Crypt!SendCryptInv'
PROOF
  <1>1. /\ s4[s] # Crypt!NoPacket /\ s4' = [s4 EXCEPT ![s] = Crypt!NoPacket]
        /\ s1' = s1 /\ s2' = s2
    BY DEF Crypt!Send
  <1>2. s1 \in BOOLEAN /\ s2 \in Nat /\ s3 \in Nat /\ DOMAIN s4 = CryptSenders
    BY DEF Crypt!SendCryptInv
  <1>3. ~Crypt!NoPacket.keyed
    BY DEF Crypt!NoPacket
  <1>4. /\ DOMAIN s4' = CryptSenders /\ s4'[s] = Crypt!NoPacket
        /\ \A t \in CryptSenders : t # s => s4'[t] = s4[t]
    BY <1>1, <1>2
  <1>5. \A q : Crypt!Taken(q) => Crypt!Taken(q)'
    BY <1>1 DEF Crypt!Taken
  <1>6. /\ \A t \in CryptSenders : s4'[t].keyed => t # s /\ s4'[t] = s4[t]
        /\ \A t \in CryptSenders : s4'[t] # Crypt!NoPacket => t # s /\ s4'[t] = s4[t]
    BY <1>3, <1>4
  <1>7. \A t \in CryptSenders : s4'[t].keyed => s1' /\ Crypt!Taken(s4[t])'
    <2>1. \A t \in CryptSenders : s4'[t].keyed => s1 /\ Crypt!Taken(s4[t]) /\ s4'[t] = s4[t]
      BY <1>6 DEF Crypt!SendCryptInv, Crypt!HeldInv
    <2> QED BY <1>1, <2>1 DEF Crypt!Taken
  <1>8. \A t, u \in CryptSenders : t # u /\ s4'[t].keyed /\ s4'[u].keyed => Crypt!Apart(s4'[t], s4'[u])
    BY <1>6 DEF Crypt!SendCryptInv, Crypt!HeldInv
  <1>9. \A t \in CryptSenders : s4'[t] # Crypt!NoPacket /\ ~s4'[t].keyed => s4'[t].pos = 0
    BY <1>6 DEF Crypt!SendCryptInv, Crypt!HeldInv
  <1>10. CASE ~s1
    <2>1. s3' = s3 /\ s5' = s5 /\ s5 = {}
      BY <1>10 DEF Crypt!Send, Crypt!SendCryptInv, Crypt!SentInv
    <2>2. Crypt!HeldInv'
      BY <1>1, <1>7, <1>8, <1>9, <1>10, <2>1 DEF Crypt!HeldInv, Crypt!NoPacket, Crypt!Apart
    <2>3. Crypt!SentInv'
      BY <2>1 DEF Crypt!SentInv
    <2> QED BY <1>1, <1>2, <1>4, <2>1, <2>2, <2>3 DEF Crypt!SendCryptInv
  <1>11. CASE s1
    <2>1. PICK r : r = [pos |-> s4[s].pos, size |-> s4[s].size, keyed |-> s4[s].keyed,
                        key |-> Crypt!Gmac(s4[s].pos).used]
      OBVIOUS
    <2>2. s3' = Crypt!Gmac(s4[s].pos).current /\ s5' = s5 \union {r}
      BY <1>11, <2>1 DEF Crypt!Send
    <2>3. /\ r.pos = s4[s].pos /\ r.size = s4[s].size /\ r.keyed = s4[s].keyed
          /\ r.key = Crypt!Gmac(s4[s].pos).used
      BY <2>1
    <2>4. /\ s4[s].keyed => Crypt!Taken(s4[s])
          /\ ~s4[s].keyed => s4[s].pos = 0
      BY <1>1 DEF Crypt!SendCryptInv, Crypt!HeldInv
    <2>5. r.pos \in Nat
      BY <2>3, <2>4 DEF Crypt!Taken
    <2>6. r.key = Crypt!IndexOf(r.pos) /\ s3' \in Nat
      BY <1>2, <2>2, <2>3, <2>5, KeyOfPosition
    <2>7. r.keyed => Crypt!Taken(r)
      BY <2>3, <2>4 DEF Crypt!Taken
    <2>8. ~r.keyed => r.pos = 0 /\ \A p \in s5 : p.keyed
      BY <1>1, <1>11, <2>3, <2>4 DEF Crypt!SendCryptInv, Crypt!HeldInv
    <2>9. \A q : Crypt!Apart(s4[s], q) => Crypt!Apart(r, q) /\ Crypt!Apart(q, r)
      BY <2>3 DEF Crypt!Apart
    <2>10. \A q \in s5 : r.keyed /\ q.keyed => Crypt!Apart(r, q) /\ Crypt!Apart(q, r)
      BY <2>3, <2>9 DEF Crypt!SendCryptInv, Crypt!HeldInv
    <2>11. \A t \in CryptSenders : t # s /\ s4[t].keyed /\ r.keyed => Crypt!Apart(s4[t], r)
      BY <2>3, <2>9 DEF Crypt!SendCryptInv, Crypt!HeldInv
    <2>12. \A p \in s5' : p.key = Crypt!IndexOf(p.pos) /\ (p.keyed => Crypt!Taken(p)) /\ (~p.keyed => p.pos = 0)
      BY <2>2, <2>6, <2>7, <2>8 DEF Crypt!SendCryptInv, Crypt!SentInv
    <2>13. \A p, q \in s5' : p.keyed /\ q.keyed /\ p # q => Crypt!Apart(p, q)
      BY <2>2, <2>10 DEF Crypt!SendCryptInv, Crypt!SentInv
    <2>14. \A p, q \in s5' : ~p.keyed /\ ~q.keyed => p = q
      BY <2>2, <2>8 DEF Crypt!SendCryptInv, Crypt!SentInv
    <2>15. Crypt!SentInv'
      <3>1. \A p \in s5' : p.keyed => Crypt!Taken(p)'
        BY <1>5, <2>12
      <3> QED BY <1>1, <1>11, <2>12, <2>13, <2>14, <3>1 DEF Crypt!SentInv, Crypt!IndexOf, Crypt!Apart
    <2>16. \A t \in CryptSenders, p \in s5' : s4'[t].keyed /\ p.keyed => Crypt!Apart(s4'[t], p)
      <3>1. \A t \in CryptSenders, p \in s5 : s4[t].keyed /\ p.keyed => Crypt!Apart(s4[t], p)
        BY DEF Crypt!SendCryptInv, Crypt!HeldInv
      <3> QED BY <1>6, <2>2, <2>11, <3>1
    <2>17. \A t \in CryptSenders : s4'[t] # Crypt!NoPacket /\ ~s4'[t].keyed =>
                  t = CryptReporter /\ \A p \in s5' : p.keyed
      <3>1. SUFFICES ASSUME NEW t \in CryptSenders, s4'[t] # Crypt!NoPacket, ~s4'[t].keyed
                     PROVE  t = CryptReporter /\ \A p \in s5' : p.keyed
        OBVIOUS
      <3>2. t # s /\ s4[t] # Crypt!NoPacket /\ ~s4[t].keyed
        BY <1>6, <3>1
      <3>3. t = CryptReporter /\ \A p \in s5 : p.keyed
        BY <1>11, <3>2 DEF Crypt!SendCryptInv, Crypt!HeldInv
      <3>4. r.keyed
        BY <1>1, <1>11, <2>3, <3>2, <3>3 DEF Crypt!SendCryptInv, Crypt!HeldInv
      <3> QED BY <2>2, <3>3, <3>4
    <2>18. Crypt!HeldInv'
      BY <1>7, <1>8, <1>9, <2>16, <2>17 DEF Crypt!HeldInv, Crypt!NoPacket, Crypt!Apart
    <2> QED BY <1>1, <1>2, <1>4, <2>6, <2>15, <2>18 DEF Crypt!SendCryptInv
  <1> QED BY <1>2, <1>10, <1>11

\* Feedback and voice take their range and go out in one section.
LEMMA SendEncryptedKeeps ==
  ASSUME Crypt!SendCryptInv, NEW s \in CryptSenders, NEW size \in CryptSizes,
         Crypt!SendEncrypted(s, size)
  PROVE  Crypt!SendCryptInv'
PROOF
  <1>1. PICK r : r = [pos |-> s2, size |-> CryptBlock + size, keyed |-> TRUE,
                      key |-> Crypt!Gmac(s2).used]
    OBVIOUS
  <1>2. /\ s1 /\ s1' = s1 /\ s4' = s4
        /\ s3' = Crypt!Gmac(s2).current /\ s5' = s5 \union {r}
        /\ s2' = s2 + Crypt!Advance(size + CryptBlock)
    BY <1>1 DEF Crypt!SendEncrypted
  <1>3. s1 \in BOOLEAN /\ s2 \in Nat /\ s3 \in Nat /\ DOMAIN s4 = CryptSenders
    BY DEF Crypt!SendCryptInv
  <1>4. r.pos = s2 /\ r.size = CryptBlock + size /\ r.keyed /\ r.key = Crypt!Gmac(s2).used
    BY <1>1
  <1>5. /\ CryptBlock + size \in Nat \ {0}
        /\ s2' \in Nat /\ s2' >= s2 /\ s2 + (CryptBlock + size) <= s2'
    BY <1>2, <1>3, AdvanceCovers
  <1>6. r.key = Crypt!IndexOf(r.pos) /\ s3' \in Nat
    BY <1>2, <1>3, <1>4, KeyOfPosition
  <1>7. Crypt!Taken(r)'
    BY <1>3, <1>4, <1>5 DEF Crypt!Taken
  <1>8. \A q : Crypt!Taken(q) => /\ Crypt!Taken(q)'
                                /\ Crypt!Apart(r, q) /\ Crypt!Apart(q, r)
    <2>1. ASSUME NEW q, Crypt!Taken(q) PROVE Crypt!Taken(q)'
      BY <1>3, <1>5, <2>1, StaysTaken
    <2>2. ASSUME NEW q, Crypt!Taken(q) PROVE Crypt!Apart(r, q) /\ Crypt!Apart(q, r)
      BY <1>4, <2>2 DEF Crypt!Taken, Crypt!Apart
    <2> QED BY <2>1, <2>2
  <1>9. \A t \in CryptSenders : s4[t].keyed => Crypt!Taken(s4[t])
    BY DEF Crypt!SendCryptInv, Crypt!HeldInv
  <1>10. \A p \in s5 : p.keyed => Crypt!Taken(p)
    BY DEF Crypt!SendCryptInv, Crypt!SentInv
  <1>11. Crypt!SentInv'
    <2>1. \A p \in s5' : p.key = Crypt!IndexOf(p.pos) /\ (p.keyed => Crypt!Taken(p)') /\ (~p.keyed => p.pos = 0)
      BY <1>2, <1>4, <1>6, <1>7, <1>8, <1>10 DEF Crypt!SendCryptInv, Crypt!SentInv
    <2>2. \A p, q \in s5' : p.keyed /\ q.keyed /\ p # q => Crypt!Apart(p, q)
      BY <1>2, <1>8, <1>10 DEF Crypt!SendCryptInv, Crypt!SentInv
    <2>3. \A p, q \in s5' : ~p.keyed /\ ~q.keyed => p = q
      BY <1>2, <1>4 DEF Crypt!SendCryptInv, Crypt!SentInv
    <2> QED BY <1>2, <2>1, <2>2, <2>3 DEF Crypt!SentInv, Crypt!IndexOf, Crypt!Apart
  <1>12. \A t \in CryptSenders : s4'[t].keyed => s1' /\ Crypt!Taken(s4[t])'
    BY <1>2, <1>3, <1>5, <1>9 DEF Crypt!Taken
  <1>13. \A t \in CryptSenders, p \in s5' : s4'[t].keyed /\ p.keyed => Crypt!Apart(s4'[t], p)
    <2>1. \A t \in CryptSenders, p \in s5 : s4[t].keyed /\ p.keyed => Crypt!Apart(s4[t], p)
      BY DEF Crypt!SendCryptInv, Crypt!HeldInv
    <2>2. \A t \in CryptSenders : s4[t].keyed => Crypt!Apart(s4[t], r)
      BY <1>8, <1>9
    <2> QED BY <1>2, <2>1, <2>2
  <1>14. s1' => \A t \in CryptSenders : s4'[t] # Crypt!NoPacket /\ ~s4'[t].keyed =>
                  t = CryptReporter /\ \A p \in s5' : p.keyed
    BY <1>2, <1>4 DEF Crypt!SendCryptInv, Crypt!HeldInv
  <1>15. /\ \A t \in CryptSenders : s4'[t] # Crypt!NoPacket /\ ~s4'[t].keyed => s4'[t].pos = 0
         /\ \A t, u \in CryptSenders : t # u /\ s4'[t].keyed /\ s4'[u].keyed => Crypt!Apart(s4'[t], s4'[u])
    BY <1>2 DEF Crypt!SendCryptInv, Crypt!HeldInv
  <1>16. Crypt!HeldInv'
    BY <1>12, <1>13, <1>14, <1>15 DEF Crypt!HeldInv, Crypt!NoPacket, Crypt!Apart
  <1> QED BY <1>2, <1>3, <1>5, <1>6, <1>11, <1>16 DEF Crypt!SendCryptInv

\* Every step of the part "crypt" keeps its invariant. When the key comes only
\* congestion control holds a packet, at position 0, and nothing was signed.
LEMMA SendCryptNext ==
  ASSUME Crypt!SendCryptInv, Crypt!Next
  PROVE  Crypt!SendCryptInv'
PROOF
  <1>1. CASE Crypt!SetCrypt
    <2>1. /\ ~s1 /\ s1' = TRUE /\ s2' = s2 /\ s3' = s3 /\ s4' = s4 /\ s5' = s5
          /\ \A s \in CryptSenders \ {CryptReporter} : s4[s] = Crypt!NoPacket
      BY <1>1 DEF Crypt!SetCrypt
    <2>2. s5 = {}
      BY <2>1 DEF Crypt!SendCryptInv, Crypt!SentInv
    <2>3. \A s \in CryptSenders : ~s4[s].keyed
      BY <2>1 DEF Crypt!SendCryptInv, Crypt!HeldInv
    <2>4. \A s \in CryptSenders : s4[s] # Crypt!NoPacket => s = CryptReporter /\ s4[s].pos = 0
      BY <2>1, <2>3 DEF Crypt!SendCryptInv, Crypt!HeldInv
    <2>5. Crypt!HeldInv'
      BY <2>1, <2>2, <2>3, <2>4 DEF Crypt!HeldInv, Crypt!NoPacket
    <2>6. Crypt!SentInv'
      BY <2>1, <2>2 DEF Crypt!SentInv
    <2> QED BY <2>1, <2>5, <2>6 DEF Crypt!SendCryptInv
  <1>2. ASSUME NEW s \in CryptSenders, NEW size \in CryptSizes,
               Crypt!Take(s, size) \/ Crypt!SendEncrypted(s, size)
        PROVE  Crypt!SendCryptInv'
    BY <1>2, TakeKeeps, SendEncryptedKeeps
  <1>3. ASSUME NEW s \in CryptSenders, Crypt!Send(s) PROVE Crypt!SendCryptInv'
    BY <1>3, SendKeeps
  <1> QED BY <1>1, <1>2, <1>3 DEF Crypt!Next

\* It holds at the start.
LEMMA SendCryptInit ==
  ASSUME Crypt!Init
  PROVE  Crypt!SendCryptInv
BY DEF Crypt!Init, Crypt!SendCryptInv, Crypt!HeldInv, Crypt!SentInv, Crypt!NoPacket

\* The invariant is strong enough: what is held and what was sent are apart,
\* and what is held twice would overlap itself.
LEMMA RangesRight ==
  ASSUME Crypt!SendCryptInv
  PROVE  Crypt!RangesApart /\ Crypt!KeyOfItsPosition
PROOF
  <1>1. Crypt!KeyOfItsPosition
    BY DEF Crypt!SendCryptInv, Crypt!SentInv, Crypt!KeyOfItsPosition
  <1>2. SUFFICES ASSUME s1 PROVE Crypt!RangesApart
    BY <1>1 DEF Crypt!RangesApart
  <1>3. /\ \A t \in CryptSenders : s4[t].keyed => Crypt!Taken(s4[t])
        /\ \A t, u \in CryptSenders :
             t # u /\ s4[t].keyed /\ s4[u].keyed => Crypt!Apart(s4[t], s4[u])
        /\ \A t \in CryptSenders, p \in s5 : s4[t].keyed /\ p.keyed => Crypt!Apart(s4[t], p)
        /\ \A p, q \in s5 : p.keyed /\ q.keyed /\ p # q => Crypt!Apart(p, q)
    BY DEF Crypt!SendCryptInv, Crypt!HeldInv, Crypt!SentInv
  <1>4. \A p, q : Crypt!Apart(p, q) => /\ Crypt!Apart(Crypt!Extent(p), Crypt!Extent(q))
                                      /\ Crypt!Apart(Crypt!Extent(q), Crypt!Extent(p))
    BY DEF Crypt!Apart, Crypt!Extent
  <1>5. /\ \A p : Crypt!Extent(p).keyed = p.keyed
        /\ \A x \in Crypt!Used :
             \/ \E p \in s5 : x = Crypt!Extent(p)
             \/ \E t \in CryptSenders : s4[t] # Crypt!NoPacket /\ x = Crypt!Extent(s4[t])
    BY DEF Crypt!Used, Crypt!Extent
  <1>6. \A x, y \in Crypt!Used : x.keyed /\ y.keyed /\ x # y => Crypt!Apart(x, y)
    <2>1. SUFFICES ASSUME NEW x \in Crypt!Used, NEW y \in Crypt!Used, x.keyed, y.keyed, x # y
                   PROVE  Crypt!Apart(x, y)
      OBVIOUS
    <2>2. CASE \E p \in s5 : x = Crypt!Extent(p)
      <3>1. PICK p \in s5 : x = Crypt!Extent(p)
        BY <2>2
      <3> QED BY <1>3, <1>4, <1>5, <2>1, <3>1
    <2>3. CASE \E t \in CryptSenders : x = Crypt!Extent(s4[t])
      <3>1. PICK t \in CryptSenders : x = Crypt!Extent(s4[t])
        BY <2>3
      <3> QED BY <1>3, <1>4, <1>5, <2>1, <3>1
    <2> QED BY <1>5, <2>2, <2>3
  <1>7. ASSUME NEW t \in CryptSenders, NEW u \in CryptSenders, t # u, s4[t] # Crypt!NoPacket,
               s4[t] = s4[u]
        PROVE  FALSE
    <2>1. CASE s4[t].keyed
      <3>1. Crypt!Apart(s4[t], s4[t]) /\ Crypt!Taken(s4[t])
        BY <1>3, <1>7, <2>1
      <3> QED BY <3>1 DEF Crypt!Apart, Crypt!Taken
    <2>2. CASE ~s4[t].keyed
      <3>1. t = CryptReporter /\ u = CryptReporter
        BY <1>2, <1>7, <2>2 DEF Crypt!SendCryptInv, Crypt!HeldInv
      <3> QED BY <1>7, <3>1
    <2> QED BY <2>1, <2>2
  <1>8. \A t \in CryptSenders : s4[t] # Crypt!NoPacket /\ ~s4[t].keyed =>
          t = CryptReporter /\ s4[t].pos = 0 /\ \A p \in s5 : p.keyed
    BY <1>2 DEF Crypt!SendCryptInv, Crypt!HeldInv
  <1>9. \A p, q \in s5 : ~p.keyed /\ ~q.keyed => p = q /\ p.pos = 0
    BY DEF Crypt!SendCryptInv, Crypt!SentInv
  <1> QED BY <1>6, <1>7, <1>8, <1>9 DEF Crypt!RangesApart

-----------------------------------------------------------------------------
(* What is reported: the parts "stats", "feedback", "discovery", "input"   *)
(* and "effects"                                                           *)

\* The instances count as everybody does.
LEMMA CardinalityIs ==
  ASSUME NEW S
  PROVE  /\ Discovery!Cardinality(S) = Cardinality(S)
         /\ Feedback!Cardinality(S) = Cardinality(S)
         /\ Effects!Cardinality(S) = Cardinality(S)
         /\ Feedback!IsFiniteSet(S) <=> IsFiniteSet(S)
BY DEF Cardinality, IsFiniteSet, Discovery!Cardinality, Feedback!Cardinality,
   Effects!Cardinality, Feedback!IsFiniteSet

-----------------------------------------------------------------------------
(* What congestion control reports: packetstats.c                          *)

\* Adding nothing, and adding something twice in either order.
LEMMA PlusUnits ==
  ASSUME NEW u \in [received : Nat, lost : Nat], NEW v \in [received : Nat, lost : Nat],
         NEW w \in [received : Nat, lost : Nat]
  PROVE  /\ Stats!Plus(u, v) \in [received : Nat, lost : Nat]
         /\ Stats!Plus(u, Stats!NoUnits) = u
         /\ Stats!Plus(Stats!Plus(u, v), w) = Stats!Plus(u, Stats!Plus(v, w))
PROOF
  <1>1. /\ u.received \in Nat /\ u.lost \in Nat /\ v.received \in Nat /\ v.lost \in Nat
        /\ w.received \in Nat /\ w.lost \in Nat
        /\ u = [received |-> u.received, lost |-> u.lost]
    OBVIOUS
  <1> QED BY <1>1 DEF Stats!Plus, Stats!NoUnits

\* Pushing units and reporting them keep what is pushed equal to what was and
\* what will be reported.
LEMMA StatsNext ==
  ASSUME Stats!StatsInv, Stats!Next
  PROVE  Stats!StatsInv'
PROOF
  <1> DEFINE Units == [received : Nat, lost : Nat]
  <1>1. /\ s1 \in Units /\ s7 \in Units /\ s8 \in Units
        /\ s7 = IF s6.at = "locked" THEN s8 ELSE Stats!Plus(s8, s1)
    BY DEF Stats!StatsInv, Stats!UnitsReportedOnce
  <1>2. Stats!NoUnits \in Units
    BY DEF Stats!NoUnits
  <1>3. SUFFICES /\ s1' \in Units /\ s7' \in Units /\ s8' \in Units
                 /\ s7' = IF s6'.at = "locked" THEN s8' ELSE Stats!Plus(s8', s1')
    BY DEF Stats!StatsInv, Stats!UnitsReportedOnce
  <1>4. ASSUME NEW u \in [received : StatsReceived, lost : StatsLost], Stats!PushGeneration(u)
        PROVE  s1' \in Units /\ s7' \in Units /\ s8' \in Units /\ ~(s6'.at = "locked")
               /\ s7' = Stats!Plus(s8', s1')
    <2>1. u \in Units
      BY PartsAssumption DEF Stats!PacketStatsConstantsOK
    <2>2. /\ s1' = Stats!Plus(s1, u) /\ s7' = Stats!Plus(s7, u) /\ s8' = s8 /\ s6' = s6
          /\ ~(s6.at = "locked")
      BY <1>4 DEF Stats!PushGeneration
    <2>3. s7 = Stats!Plus(s8, s1)
      BY <1>1, <2>2
    <2> QED BY <1>1, <2>1, <2>2, <2>3, PlusUnits
  <1>5. CASE Stats!PushSeq \/ Stats!PushSeqMax
    BY <1>1, <1>5 DEF Stats!PushSeq, Stats!PushSeqMax
  <1>6. CASE Stats!Get
    <2>1. /\ s8' = Stats!Plus(s8, s1) /\ s1' = s1 /\ s7' = s7 /\ s6'.at = "locked"
          /\ s6.at = "wait"
      BY <1>6 DEF Stats!Get
    <2> QED BY <1>1, <2>1, PlusUnits
  <1>7. CASE Stats!Reset
    <2>1. /\ s1' = Stats!NoUnits /\ s8' = s8 /\ s7' = s7 /\ s6.at = "locked"
          /\ s6' = [s6 EXCEPT !.at = "send"]
      BY <1>7 DEF Stats!Reset
    <2>2. s6'.at # "locked"
      BY <2>1
    <2> QED BY <1>1, <1>2, <2>1, <2>2, PlusUnits
  <1>8. CASE Stats!SendCongestion
    <2>1. s1' = s1 /\ s8' = s8 /\ s7' = s7 /\ s6.at = "send" /\ s6'.at = "wait"
      BY <1>8 DEF Stats!SendCongestion
    <2> QED BY <1>1, <2>1
  <1> QED BY <1>4, <1>5, <1>6, <1>7, <1>8 DEF Stats!Next

\* It holds at the beginning.
LEMMA StatsInit ==
  ASSUME Stats!Init
  PROVE  Stats!StatsInv
PROOF
  <1>1. s1 = Stats!NoUnits /\ s7 = Stats!NoUnits /\ s8 = Stats!NoUnits /\ s6.at = "wait"
    BY DEF Stats!Init
  <1>2. Stats!NoUnits \in [received : Nat, lost : Nat]
    BY DEF Stats!NoUnits
  <1> QED BY <1>1, <1>2, PlusUnits DEF Stats!StatsInv, Stats!UnitsReportedOnce

-----------------------------------------------------------------------------
(* The controller's packets: feedbacksender.c                              *)

\* Packets of events whose first ones increase and are not after e, and among
\* which all events up to e are.
EventPackets == Seq(Nat) \ {<<>>}
Heads(s, e) ==
  /\ \A i, k \in 1..Len(s) : i < k => s[i][1] < s[k][1]
  /\ \A i \in 1..Len(s) : s[i][1] <= e
Newest(s, e) == s # <<>> /\ s[Len(s)][1] = e
Whole(s, e) == \A n \in 1..e : \E i \in 1..Len(s) : \E j \in DOMAIN s[i] : s[i][j] = n

\* The last k events, of which the nth is numbered n; the newest is first.
LastEvents(e, k) == [i \in 1..k |-> e + 1 - i]

\* The first event of a packet, and the parts of a concatenation.
LEMMA Joined ==
  ASSUME NEW a \in Seq(EventPackets), NEW b \in Seq(EventPackets)
  PROVE  /\ Len(a) \in Nat /\ Len(b) \in Nat
         /\ a \o b \in Seq(EventPackets) /\ Len(a \o b) = Len(a) + Len(b)
         /\ \A i \in 1..Len(a) : (a \o b)[i] = a[i]
         /\ \A i \in 1..Len(b) : (a \o b)[Len(a) + i] = b[i]
         /\ \A i \in 1..Len(a) : a[i] \in EventPackets /\ a[i][1] \in Nat
PROOF
  <1> DEFINE P == EventPackets
  <1>1. \A p \in P : p[1] \in Nat
    BY DEF EventPackets
  <1> HIDE DEF P
  <1>2. a \in Seq(P) /\ b \in Seq(P)
    BY DEF P
  <1>3. /\ Len(a) \in Nat /\ Len(b) \in Nat
        /\ a \o b \in Seq(P) /\ Len(a \o b) = Len(a) + Len(b)
        /\ \A i \in 1..Len(a) : (a \o b)[i] = a[i]
        /\ \A i \in 1..Len(b) : (a \o b)[Len(a) + i] = b[i]
        /\ \A i \in 1..Len(a) : a[i] \in P
    BY <1>2
  <1> QED BY <1>1, <1>3 DEF P

\* A packet whose n first events are those after e.
LEMMA HeadsAppend ==
  ASSUME NEW s \in Seq(EventPackets), NEW e \in Nat, NEW n \in Nat, n > 0,
         NEW m \in Nat, m >= n, NEW r, r = LastEvents(e + n, m), r \in Seq(Nat),
         Heads(s, e)
  PROVE  /\ Append(s, r) \in Seq(EventPackets)
         /\ Heads(Append(s, r), e + n)
         /\ Newest(Append(s, r), e + n)
         /\ Whole(s, e) => Whole(Append(s, r), e + n)
PROOF
  <1> DEFINE P == EventPackets
             t == Append(s, r)
             k == Len(s)
  <1>1. r \in P /\ r[1] = e + n /\ DOMAIN r = 1..m
    <2>1. DOMAIN r = 1..m /\ 1 \in 1..m
      BY DEF LastEvents
    <2>2. r[1] = e + n
      BY <2>1 DEF LastEvents
    <2>3. r # <<>>
      BY <2>1
    <2> QED BY <2>1, <2>2, <2>3 DEF EventPackets
  <1>2. \A i \in 1..k : s[i] \in P /\ s[i][1] \in Nat
    BY Joined
  <1> HIDE DEF P
  <1>3. s \in Seq(P) /\ k \in Nat
    BY DEF P
  <1>4. /\ t \in Seq(P) /\ Len(t) = k + 1 /\ t[k + 1] = r
        /\ \A i \in 1..k : t[i] = s[i]
    BY <1>1, <1>3
  <1>5. \A i \in 1..(k + 1) : i \in 1..k \/ i = k + 1
    BY <1>3
  <1>6. \A i \in 1..k : t[i][1] \in Nat /\ t[i][1] <= e /\ t[i][1] < e + n
    BY <1>2, <1>4 DEF Heads
  <1>7. t[k + 1][1] = e + n
    BY <1>1, <1>4
  <1>8. ASSUME NEW i \in 1..(k + 1), NEW j \in 1..(k + 1), i < j PROVE t[i][1] < t[j][1]
    <2>1. i \in 1..k
      BY <1>3, <1>8
    <2>2. CASE j \in 1..k
      BY <1>4, <1>8, <2>1, <2>2 DEF Heads
    <2>3. CASE j = k + 1
      BY <1>6, <1>7, <2>1, <2>3
    <2> QED BY <1>5, <2>2, <2>3
  <1>9. ASSUME NEW i \in 1..(k + 1) PROVE t[i][1] <= e + n
    <2>1. CASE i \in 1..k
      BY <1>6, <2>1
    <2>2. CASE i = k + 1
      BY <1>7, <2>2
    <2> QED BY <1>5, <2>1, <2>2
  <1>10. Heads(t, e + n)
    BY <1>4, <1>8, <1>9 DEF Heads
  <1>11. ASSUME Whole(s, e), NEW x \in 1..(e + n)
         PROVE  \E i \in 1..(k + 1) : \E j \in DOMAIN t[i] : t[i][j] = x
    <2>1. CASE x \in 1..e
      <3>1. PICK i \in 1..k : \E j \in DOMAIN s[i] : s[i][j] = x
        BY <1>11, <2>1 DEF Whole
      <3>2. t[i] = s[i] /\ i \in 1..(k + 1)
        BY <1>3, <1>4, <3>1
      <3> QED BY <3>1, <3>2
    <2>2. CASE x > e
      <3>5. \A i \in 1..m : r[i] = e + n + 1 - i
        BY DEF LastEvents
      <3>1. (e + n + 1) - x \in 1..m
        BY <1>11, <2>2
      <3>2. t[k + 1][(e + n + 1) - x] = x
        BY <1>4, <1>11, <3>5, <3>1
      <3>3. k + 1 \in 1..(k + 1)
        BY <1>3
      <3>4. DOMAIN t[k + 1] = 1..m
        BY <1>1, <1>4
      <3> QED BY <3>1, <3>2, <3>3, <3>4
    <2> QED BY <1>11, <2>1, <2>2
  <1>12. Whole(s, e) => Whole(t, e + n)
    BY <1>4, <1>11 DEF Whole
  <1>13. Newest(t, e + n)
    <2>1. Len(<<>>) = 0 /\ Len(t) # 0
      BY <1>3, <1>4
    <2> HIDE DEF t
    <2> QED BY <1>4, <1>7, <2>1 DEF Newest
  <1> QED BY <1>4, <1>10, <1>12, <1>13 DEF P

\* Without one in the middle the others are in order.
LEMMA HeadsSkip ==
  ASSUME NEW a \in Seq(EventPackets), NEW b \in Seq(EventPackets), b # <<>>, NEW e \in Nat,
         Heads(a \o b, e)
  PROVE  /\ Tail(b) \in Seq(EventPackets)
         /\ Heads(a \o Tail(b), e)
PROOF
  <1> DEFINE P == EventPackets
             n == Len(a)
             m == Len(b)
             At(i) == IF i <= n THEN i ELSE i + 1
  <1>1. /\ Tail(b) \in Seq(P) /\ Len(Tail(b)) = m - 1 /\ m \in Nat /\ m > 0
        /\ \A i \in 1..(m - 1) : Tail(b)[i] = b[i + 1]
    <2> HIDE DEF P
    <2>1. b \in Seq(P) /\ b # <<>>
      BY DEF P
    <2> QED BY <2>1
  <1>2. /\ n \in Nat /\ Len(a \o b) = n + m /\ Len(a \o Tail(b)) = n + (m - 1)
        /\ \A i \in 1..n : (a \o b)[i] = a[i] /\ (a \o Tail(b))[i] = a[i]
        /\ \A i \in 1..m : (a \o b)[n + i] = b[i]
        /\ \A i \in 1..(m - 1) : (a \o Tail(b))[n + i] = Tail(b)[i]
    BY <1>1, Joined
  <1> HIDE DEF n, m
  <1>3. \A i \in 1..(n + (m - 1)) : At(i) \in 1..(n + m) /\ (a \o Tail(b))[i] = (a \o b)[At(i)]
    <2>1. SUFFICES ASSUME NEW i \in 1..(n + (m - 1))
                   PROVE  At(i) \in 1..(n + m) /\ (a \o Tail(b))[i] = (a \o b)[At(i)]
      OBVIOUS
    <2>2. At(i) \in 1..(n + m)
      BY <1>1, <1>2
    <2>3. CASE i <= n
      BY <1>2, <2>1, <2>3
    <2>4. CASE ~(i <= n)
      <3>1. /\ i - n \in 1..(m - 1) /\ n + (i - n) = i /\ (i - n) + 1 \in 1..m
            /\ n + ((i - n) + 1) = i + 1
        BY <1>1, <1>2, <2>1, <2>4
      <3>2. (a \o Tail(b))[i] = b[(i - n) + 1]
        BY <1>1, <1>2, <3>1
      <3>3. (a \o b)[i + 1] = b[(i - n) + 1]
        BY <1>2, <3>1
      <3> QED BY <2>2, <2>4, <3>2, <3>3
    <2> QED BY <2>3, <2>4
  <1>4. \A i, j \in 1..(n + (m - 1)) : i < j => At(i) < At(j)
    BY <1>1, <1>2
  <1>5. /\ \A i, j \in 1..(n + m) : i < j => (a \o b)[i][1] < (a \o b)[j][1]
        /\ \A i \in 1..(n + m) : (a \o b)[i][1] <= e
    BY <1>2 DEF Heads
  <1> HIDE DEF At
  <1>6. /\ \A i, j \in 1..(n + (m - 1)) : i < j => (a \o Tail(b))[i][1] < (a \o Tail(b))[j][1]
        /\ \A i \in 1..(n + (m - 1)) : (a \o Tail(b))[i][1] <= e
    BY <1>3, <1>4, <1>5
  <1> QED BY <1>1, <1>2, <1>6 DEF Heads

\* Sequences with the same elements.
LEMMA SequencesEqual ==
  ASSUME NEW S, NEW s \in Seq(S), NEW t \in Seq(S), Len(s) = Len(t),
         \A i \in 1..Len(s) : s[i] = t[i]
  PROVE  s = t
PROOF
  <1>1. s \in [1..Len(s) -> S] /\ t \in [1..Len(s) -> S]
    OBVIOUS
  <1> QED BY <1>1

\* Concatenation may be read from either side.
LEMMA Associative ==
  ASSUME NEW S, NEW a \in Seq(S), NEW b \in Seq(S), NEW c \in Seq(S)
  PROVE  (a \o b) \o c = a \o (b \o c)
PROOF
  <1>1. /\ Len(a) \in Nat /\ Len(b) \in Nat /\ Len(c) \in Nat
        /\ a \o b \in Seq(S) /\ b \o c \in Seq(S)
        /\ Len(a \o b) = Len(a) + Len(b) /\ Len(b \o c) = Len(b) + Len(c)
    OBVIOUS
  <1>2. /\ (a \o b) \o c \in Seq(S) /\ a \o (b \o c) \in Seq(S)
        /\ Len((a \o b) \o c) = (Len(a) + Len(b)) + Len(c)
        /\ Len(a \o (b \o c)) = Len(a) + (Len(b) + Len(c))
    BY <1>1
  <1>3. ASSUME NEW i \in 1..((Len(a) + Len(b)) + Len(c))
        PROVE  ((a \o b) \o c)[i] = (a \o (b \o c))[i]
    <2>1. CASE i <= Len(a)
      BY <1>1, <1>3, <2>1
    <2>2. CASE i > Len(a) /\ i <= Len(a) + Len(b)
      <3>1. ((a \o b) \o c)[i] = b[i - Len(a)]
        BY <1>1, <1>3, <2>2
      <3>2. (a \o (b \o c))[i] = (b \o c)[i - Len(a)]
        BY <1>1, <1>3, <2>2
      <3>3. (b \o c)[i - Len(a)] = b[i - Len(a)]
        BY <1>1, <1>3, <2>2
      <3> QED BY <3>1, <3>2, <3>3
    <2>3. CASE i > Len(a) + Len(b)
      <3>1. ((a \o b) \o c)[i] = c[i - (Len(a) + Len(b))]
        BY <1>1, <1>3, <2>3
      <3>2. (a \o (b \o c))[i] = (b \o c)[i - Len(a)]
        BY <1>1, <1>3, <2>3
      <3>3. (b \o c)[i - Len(a)] = c[(i - Len(a)) - Len(b)]
        BY <1>1, <1>3, <2>3
      <3>4. (i - Len(a)) - Len(b) = i - (Len(a) + Len(b))
        BY <1>1, <1>3
      <3> QED BY <3>1, <3>2, <3>3, <3>4
    <2> QED BY <1>1, <1>3, <2>1, <2>2, <2>3
  <1> QED BY <1>1, <1>2, <1>3, SequencesEqual

\* What was recorded before moves up.
LEMMA LastEventsRecorded ==
  ASSUME NEW e \in Nat, NEW h \in 0..e, NEW n \in Nat
  PROVE  [i \in 1..n |-> e + n + 1 - i] \o LastEvents(e, h) = LastEvents(e + n, n + h)
PROOF
  <1> DEFINE a == [i \in 1..n |-> e + n + 1 - i]
             b == LastEvents(e, h)
             c == LastEvents(e + n, n + h)
  <1>1. a \in Seq(Nat) /\ Len(a) = n /\ \A i \in 1..n : a[i] = e + n + 1 - i
    OBVIOUS
  <1>2. b \in Seq(Nat) /\ Len(b) = h /\ \A i \in 1..h : b[i] = e + 1 - i
    BY DEF LastEvents
  <1>3. c \in Seq(Nat) /\ Len(c) = n + h /\ \A i \in 1..(n + h) : c[i] = e + n + 1 - i
    BY DEF LastEvents
  <1> HIDE DEF a, b, c
  <1>4. a \o b \in Seq(Nat) /\ Len(a \o b) = n + h
    BY <1>1, <1>2
  <1>5. \A i \in 1..(n + h) : (a \o b)[i] = c[i]
    <2>1. SUFFICES ASSUME NEW i \in 1..(n + h) PROVE (a \o b)[i] = e + n + 1 - i
      BY <1>3
    <2>2. CASE i <= n
      BY <1>1, <1>2, <2>1, <2>2
    <2>3. CASE ~(i <= n)
      <3>1. i - n \in 1..h /\ b[i - n] = e + 1 - (i - n)
        BY <1>2, <2>1, <2>3
      <3>2. (a \o b)[i] = b[i - n]
        BY <1>1, <1>2, <2>1, <2>3
      <3> QED BY <2>1, <3>1, <3>2
    <2> QED BY <2>2, <2>3
  <1>6. a \o b = c
    BY <1>3, <1>4, <1>5, SequencesEqual
  <1> QED BY <1>6 DEF a, b, c

\* The newest of the last events.
LEMMA LastEventsAtMost ==
  ASSUME NEW e \in Nat, NEW k \in 0..e, NEW max \in Nat
  PROVE  Feedback!AtMost(LastEvents(e, k), max) = LastEvents(e, IF k > max THEN max ELSE k)
PROOF
  <1> DEFINE s == LastEvents(e, k)
             m == IF k > max THEN max ELSE k
  <1>1. s \in Seq(Nat) /\ Len(s) = k /\ \A i \in 1..k : s[i] = e + 1 - i
    BY DEF LastEvents
  <1>2. m \in 0..k
    OBVIOUS
  <1> HIDE DEF s
  <1>3. SubSeq(s, 1, m) = [i \in 1..m |-> s[i]]
    <2> HIDE DEF m
    <2> QED BY <1>1, <1>2
  <1>4. [i \in 1..m |-> s[i]] = LastEvents(e, m)
    BY <1>1, <1>2 DEF LastEvents
  <1> QED BY <1>1, <1>3, <1>4 DEF Feedback!AtMost, s

\* The constants of the feedback sender.
LEMMA FeedbackConstants ==
  /\ IsFiniteSet(FeedbackButtons) /\ Cardinality(FeedbackButtons) <= FeedbackHistory
  /\ FeedbackQueue \in Nat \ {0} /\ FeedbackHistory \in Nat \ {0} /\ FeedbackResend \in Nat \ {0}
BY PartsAssumption, CardinalityIs DEF Feedback!FeedbackConstantsOK

\* The invariant of the packets in these terms, before and after a step.
LEMMA QueuePlaces ==
  /\ Feedback!QueueInv <=>
       /\ s3 \in Nat /\ Len(s5) <= FeedbackQueue /\ s4 \in Seq(Nat) /\ Len(s4) <= s3
       /\ s4 = LastEvents(s3, Len(s4))
       /\ s8.at # "sending" => s8.history = <<>>
       /\ s10.packets \in Seq(EventPackets) /\ s8.history \in Seq(EventPackets)
       /\ s5 \in Seq(EventPackets)
       /\ Heads((s10.packets \o s8.history) \o s5, s3)
       /\ s3 > 0 => Newest((s10.packets \o s8.history) \o s5, s3)
       /\ ~s6 => Whole((s10.packets \o s8.history) \o s5, s3)
  /\ Feedback!QueueInv' <=>
       /\ s3' \in Nat /\ Len(s5') <= FeedbackQueue /\ s4' \in Seq(Nat) /\ Len(s4') <= s3'
       /\ s4' = LastEvents(s3', Len(s4'))
       /\ s8'.at # "sending" => s8'.history = <<>>
       /\ s10'.packets \in Seq(EventPackets) /\ s8'.history \in Seq(EventPackets)
       /\ s5' \in Seq(EventPackets)
       /\ Heads((s10'.packets \o s8'.history) \o s5', s3')
       /\ s3' > 0 => Newest((s10'.packets \o s8'.history) \o s5', s3')
       /\ ~s6' => Whole((s10'.packets \o s8'.history) \o s5', s3')
PROOF
  <1> DEFINE s == (s10.packets \o s8.history) \o s5
  <1>1. ASSUME s10.packets \in Seq(EventPackets), s8.history \in Seq(EventPackets),
               s5 \in Seq(EventPackets)
        PROVE  DOMAIN s = 1..Len(s)
    <2>1. s \in Seq(EventPackets)
      BY <1>1, Joined
    <2> QED BY <2>1
  <1>2. ASSUME s10'.packets \in Seq(EventPackets), s8'.history \in Seq(EventPackets),
               s5' \in Seq(EventPackets)
        PROVE  DOMAIN s' = 1..Len(s')
    <2>1. s' \in Seq(EventPackets)
      BY <1>2, Joined
    <2> QED BY <2>1
  <1>3. s = Feedback!Packets /\ s' = Feedback!Packets'
    BY DEF Feedback!Packets
  <1> HIDE DEF s
  <1>4. Feedback!QueueInv <=>
          /\ s3 \in Nat /\ Len(s5) <= FeedbackQueue /\ s4 \in Seq(Nat) /\ Len(s4) <= s3
          /\ s4 = LastEvents(s3, Len(s4))
          /\ s8.at # "sending" => s8.history = <<>>
          /\ s10.packets \in Seq(EventPackets) /\ s8.history \in Seq(EventPackets)
          /\ s5 \in Seq(EventPackets)
          /\ Heads(s, s3)
          /\ s3 > 0 => Newest(s, s3)
          /\ ~s6 => Whole(s, s3)
    <2> DEFINE typed == /\ s10.packets \in Seq(EventPackets)
                        /\ s8.history \in Seq(EventPackets) /\ s5 \in Seq(EventPackets)
               ordered == Feedback!EventsInOrder
               heads == \A i \in DOMAIN s : s[i][1] <= s3
    <2>1. ASSUME typed
          PROVE  ordered /\ heads <=>
                   /\ Heads(s, s3)
                   /\ s3 > 0 => Newest(s, s3)
                   /\ ~s6 => Whole(s, s3)
      <3>1. DOMAIN s = 1..Len(s)
        BY <1>1, <2>1
      <3> QED BY <1>3, <3>1 DEF Feedback!EventsInOrder, Heads, Newest, Whole
    <2>2. typed <=> {s10.packets, s8.history, s5} \subseteq Seq(Seq(Nat) \ {<<>>})
      BY DEF EventPackets
    <2>3. [i \in 1..Len(s4) |-> s3 + 1 - i] = LastEvents(s3, Len(s4))
      BY DEF LastEvents
    <2>4. Feedback!QueueInv <=>
            /\ s3 \in Nat /\ Len(s5) <= FeedbackQueue
            /\ s4 \in Seq(Nat) /\ Len(s4) <= s3
            /\ s4 = [i \in 1..Len(s4) |-> s3 + 1 - i]
            /\ s8.at # "sending" => s8.history = <<>>
            /\ {s10.packets, s8.history, s5} \subseteq Seq(Seq(Nat) \ {<<>>})
            /\ ordered /\ heads
      BY <1>3 DEF Feedback!QueueInv
    <2> HIDE DEF ordered, heads
    <2> QED BY <2>1, <2>2, <2>3, <2>4
  <1>5. Feedback!QueueInv' <=>
          /\ s3' \in Nat /\ Len(s5') <= FeedbackQueue /\ s4' \in Seq(Nat) /\ Len(s4') <= s3'
          /\ s4' = LastEvents(s3', Len(s4'))
          /\ s8'.at # "sending" => s8'.history = <<>>
          /\ s10'.packets \in Seq(EventPackets) /\ s8'.history \in Seq(EventPackets)
          /\ s5' \in Seq(EventPackets)
          /\ Heads(s', s3')
          /\ s3' > 0 => Newest(s', s3')
          /\ ~s6' => Whole(s', s3')
    <2> DEFINE typed == /\ s10'.packets \in Seq(EventPackets)
                        /\ s8'.history \in Seq(EventPackets) /\ s5' \in Seq(EventPackets)
               ordered == Feedback!EventsInOrder'
               heads == \A i \in DOMAIN s' : s'[i][1] <= s3'
    <2>1. ASSUME typed
          PROVE  ordered /\ heads <=>
                   /\ Heads(s', s3')
                   /\ s3' > 0 => Newest(s', s3')
                   /\ ~s6' => Whole(s', s3')
      <3>1. DOMAIN s' = 1..Len(s')
        BY <1>2, <2>1
      <3> QED BY <1>3, <3>1 DEF Feedback!EventsInOrder, Heads, Newest, Whole
    <2>2. typed <=> {s10'.packets, s8'.history, s5'} \subseteq Seq(Seq(Nat) \ {<<>>})
      BY DEF EventPackets
    <2>3. [i \in 1..Len(s4') |-> s3' + 1 - i] = LastEvents(s3', Len(s4'))
      BY DEF LastEvents
    <2>4. Feedback!QueueInv' <=>
            /\ s3' \in Nat /\ Len(s5') <= FeedbackQueue
            /\ s4' \in Seq(Nat) /\ Len(s4') <= s3'
            /\ s4' = [i \in 1..Len(s4') |-> s3' + 1 - i]
            /\ s8'.at # "sending" => s8'.history = <<>>
            /\ {s10'.packets, s8'.history, s5'} \subseteq Seq(Seq(Nat) \ {<<>>})
            /\ ordered /\ heads
      BY <1>3 DEF Feedback!QueueInv
    <2> HIDE DEF ordered, heads
    <2> QED BY <2>1, <2>2, <2>3, <2>4
  <1> QED BY <1>4, <1>5 DEF s

\* A packet of the newest events goes into the queue, behind or instead of others.
LEMMA EnqueueKeeps ==
  ASSUME NEW a \in Seq(EventPackets), NEW q \in Seq(EventPackets), Len(q) <= FeedbackQueue,
         NEW e \in Nat, NEW n \in Nat, n > 0, NEW m \in Nat, m >= n, NEW o,
         LastEvents(e + n, m) \in Seq(Nat),
         Heads(a \o q, e), ~o => Whole(a \o q, e),
         NEW q2, q2 = IF Len(q) < FeedbackQueue THEN Append(q, LastEvents(e + n, m))
                      ELSE Append(Tail(q), LastEvents(e + n, m))
  PROVE  /\ q2 \in Seq(EventPackets) /\ Len(q2) <= FeedbackQueue
         /\ Heads(a \o q2, e + n)
         /\ Newest(a \o q2, e + n)
         /\ ~(o \/ Len(q) = FeedbackQueue) => Whole(a \o q2, e + n)
PROOF
  <1> DEFINE r == LastEvents(e + n, m)
             P == EventPackets
  <1>1. r = LastEvents(e + n, m) /\ r \in Seq(Nat)
    OBVIOUS
  <1>2. r \in P
    <2>1. DOMAIN r = 1..m /\ 1 \in 1..m
      BY <1>1 DEF LastEvents
    <2>2. r # <<>>
      BY <2>1
    <2> QED BY <1>1, <2>2 DEF EventPackets
  <1>3. Len(q) \in Nat
    OBVIOUS
  <1>4. ASSUME NEW p \in Seq(P) PROVE a \o Append(p, r) = Append(a \o p, r)
    <2> HIDE DEF P, r
    <2>1. a \in Seq(P)
      BY DEF P
    <2>2. /\ a \o Append(p, r) \in Seq(P) /\ Append(a \o p, r) \in Seq(P)
          /\ Len(a \o Append(p, r)) = Len(a) + (Len(p) + 1)
          /\ Len(Append(a \o p, r)) = (Len(a) + Len(p)) + 1
          /\ Len(a) \in Nat /\ Len(p) \in Nat
      BY <1>2, <1>4, <2>1
    <2>3. \A i \in 1..(Len(a) + (Len(p) + 1)) : (a \o Append(p, r))[i] = Append(a \o p, r)[i]
      <3>1. SUFFICES ASSUME NEW i \in 1..(Len(a) + (Len(p) + 1))
                     PROVE  (a \o Append(p, r))[i] = Append(a \o p, r)[i]
        OBVIOUS
      <3>2. CASE i <= Len(a)
        BY <1>2, <1>4, <2>1, <3>1, <3>2
      <3>3. CASE i > Len(a) /\ i <= Len(a) + Len(p)
        <4>1. i - Len(a) \in 1..Len(p)
          BY <2>2, <3>1, <3>3
        <4>2. (a \o Append(p, r))[i] = Append(p, r)[i - Len(a)]
          BY <1>2, <1>4, <2>1, <3>1, <3>3
        <4>3. Append(p, r)[i - Len(a)] = p[i - Len(a)]
          BY <1>2, <1>4, <4>1
        <4>4. Append(a \o p, r)[i] = (a \o p)[i]
          BY <1>2, <1>4, <2>1, <3>1, <3>3
        <4>5. (a \o p)[i] = p[i - Len(a)]
          BY <1>4, <2>1, <3>1, <3>3
        <4> QED BY <4>2, <4>3, <4>4, <4>5
      <3>4. CASE i = Len(a) + (Len(p) + 1)
        <4>1. (a \o Append(p, r))[i] = r
          BY <1>2, <1>4, <2>1, <2>2, <3>4
        <4>2. Append(a \o p, r)[i] = r
          BY <1>2, <1>4, <2>1, <2>2, <3>4
        <4> QED BY <4>1, <4>2
      <3> QED BY <2>2, <3>1, <3>2, <3>3, <3>4
    <2> QED BY <2>2, <2>3, SequencesEqual
  <1>5. CASE Len(q) < FeedbackQueue
    <2>1. q2 = Append(q, r) /\ a \o q2 = Append(a \o q, r)
      BY <1>4, <1>5
    <2> DEFINE s == a \o q
    <2>2. s \in Seq(EventPackets) /\ Heads(s, e) /\ (~o => Whole(s, e))
      BY Joined
    <2> HIDE DEF r, s
    <2>3. /\ Heads(Append(s, r), e + n)
          /\ Newest(Append(s, r), e + n)
          /\ Whole(s, e) => Whole(Append(s, r), e + n)
      BY <1>1, <2>2, HeadsAppend
    <2>4. Append(q, r) \in Seq(P) /\ Len(Append(q, r)) = Len(q) + 1
      <3> HIDE DEF P
      <3>1. q \in Seq(P)
        BY DEF P
      <3> QED BY <1>2, <3>1
    <2>5. Len(q2) <= FeedbackQueue
      BY <1>3, <1>5, <2>1, <2>4, FeedbackConstants
    <2> QED BY <1>5, <2>1, <2>3, <2>4, <2>5 DEF s
  <1>6. CASE ~(Len(q) < FeedbackQueue)
    <2>1. Len(q) = FeedbackQueue /\ q # <<>>
      <3>1. Len(<<>>) = 0
        OBVIOUS
      <3> QED BY <1>3, <1>6, <3>1, FeedbackConstants
    <2>2. Tail(q) \in Seq(EventPackets) /\ Heads(a \o Tail(q), e)
      BY <2>1, HeadsSkip
    <2>3. q2 = Append(Tail(q), r) /\ a \o q2 = Append(a \o Tail(q), r)
      BY <1>4, <1>6, <2>2
    <2> DEFINE s == a \o Tail(q)
    <2>4. s \in Seq(EventPackets) /\ Heads(s, e)
      BY <2>2, Joined
    <2> HIDE DEF r, s
    <2>5. /\ Heads(Append(s, r), e + n)
          /\ Newest(Append(s, r), e + n)
      BY <1>1, <2>4, HeadsAppend
    <2>6. Append(Tail(q), r) \in Seq(P) /\ Len(Append(Tail(q), r)) = Len(Tail(q)) + 1
      <3> HIDE DEF P
      <3>1. Tail(q) \in Seq(P)
        BY <2>2 DEF P
      <3> QED BY <1>2, <3>1
    <2>7. Len(Tail(q)) = Len(q) - 1
      BY <2>1
    <2>8. Len(q2) = FeedbackQueue
      BY <2>1, <1>3, <2>3, <2>6, <2>7
    <2> QED BY <2>1, <2>3, <2>5, <2>6, <2>8, FeedbackConstants DEF s
  <1> QED BY <1>5, <1>6

\* What is recorded are the last events, the new ones among them.
LEMMA RecordedIs ==
  ASSUME Feedback!QueueInv, NEW n \in Nat, n > 0, n <= FeedbackHistory
  PROVE  \E m \in Nat :
           /\ m >= n /\ m <= s3 + n
           /\ Feedback!Recorded(n) = LastEvents(s3 + n, m)
           /\ LastEvents(s3 + n, m) \in Seq(Nat) /\ Len(LastEvents(s3 + n, m)) = m
PROOF
  <1>1. s3 \in Nat /\ s4 \in Seq(Nat) /\ Len(s4) <= s3 /\ s4 = LastEvents(s3, Len(s4))
    BY QueuePlaces
  <1>2. PICK h \in 0..s3 : h = Len(s4)
    BY <1>1
  <1>3. [i \in 1..n |-> s3 + n + 1 - i] \o s4 = LastEvents(s3 + n, n + h)
    BY <1>1, <1>2, LastEventsRecorded
  <1> DEFINE k == n + h
             m == IF k > FeedbackHistory THEN FeedbackHistory ELSE k
  <1>4. k \in 0..(s3 + n) /\ s3 + n \in Nat /\ k >= n
    BY <1>1, <1>2
  <1>5. m \in Nat /\ m >= n /\ m <= s3 + n
    BY <1>4, FeedbackConstants
  <1> HIDE DEF k
  <1>6. Feedback!AtMost(LastEvents(s3 + n, k), FeedbackHistory) = LastEvents(s3 + n, m)
    BY <1>4, LastEventsAtMost, FeedbackConstants
  <1> HIDE DEF m
  <1>7. Feedback!Recorded(n) = LastEvents(s3 + n, m)
    BY <1>3, <1>6 DEF Feedback!Recorded, k
  <1>8. LastEvents(s3 + n, m) \in Seq(Nat) /\ Len(LastEvents(s3 + n, m)) = m
    BY <1>4, <1>5 DEF LastEvents
  <1> QED BY <1>5, <1>7, <1>8

\* The application sets a state.
LEMMA SetStateKeeps ==
  ASSUME Feedback!FeedbackInv, NEW state \in Feedback!States,
         Feedback!SetControllerState(state)
  PROVE  Feedback!FeedbackInv'
PROOF
  <1> DEFINE n == Cardinality((state.down \ s1.down) \union (s1.down \ state.down))
             a == s10.packets \o s8.history
  <1>1. Feedback!QueueInv /\ Feedback!SticksInv
    BY DEF Feedback!FeedbackInv
  <1>2. /\ s1' = state /\ s3' = s3 + n /\ s2' = TRUE /\ s7' = "signal"
        /\ s8' = s8 /\ s9' = s9 /\ s10' = s10
        /\ IF n > 0
           THEN Feedback!Enqueue(Feedback!Recorded(n))
                /\ s4' = Feedback!AtMost(Feedback!Recorded(n), FeedbackResend)
           ELSE s4' = s4 /\ s5' = s5 /\ s6' = s6
    BY CardinalityIs DEF Feedback!SetControllerState
  <1>3. n \in Nat /\ n <= FeedbackHistory
    <2> DEFINE d == (state.down \ s1.down) \union (s1.down \ state.down)
    <2>1. d \subseteq FeedbackButtons
      BY <1>1 DEF Feedback!States, Feedback!SticksInv
    <2>2. IsFiniteSet(d) /\ Cardinality(d) <= Cardinality(FeedbackButtons)
      BY <2>1, FS_Subset, FeedbackConstants
    <2>3. Cardinality(d) \in Nat /\ Cardinality(FeedbackButtons) \in Nat
      BY <2>2, FS_CardinalityType, FeedbackConstants
    <2> HIDE DEF d
    <2>4. n = Cardinality(d)
      BY DEF d
    <2> QED BY <2>2, <2>3, <2>4, FeedbackConstants
  <1>4. Feedback!SticksInv'
    BY <1>1, <1>2 DEF Feedback!SticksInv, Feedback!States, Feedback!Waiting
  <1> HIDE DEF n, a
  <1>5. /\ s3 \in Nat /\ Len(s5) <= FeedbackQueue /\ s4 \in Seq(Nat) /\ Len(s4) <= s3
        /\ s4 = LastEvents(s3, Len(s4))
        /\ s8.at # "sending" => s8.history = <<>>
        /\ s10.packets \in Seq(EventPackets) /\ s8.history \in Seq(EventPackets)
        /\ s5 \in Seq(EventPackets)
        /\ Heads(a \o s5, s3)
        /\ s3 > 0 => Newest(a \o s5, s3)
        /\ ~s6 => Whole(a \o s5, s3)
    BY <1>1, QueuePlaces DEF a
  <1>6. CASE ~(n > 0)
    <2>1. s3' = s3 /\ s4' = s4 /\ s5' = s5 /\ s6' = s6
      BY <1>2, <1>3, <1>5, <1>6
    <2> QED BY <1>2, <1>4, <1>5, <2>1, QueuePlaces DEF a, Feedback!FeedbackInv
  <1>7. CASE n > 0
    <2>1. PICK m \in Nat :
            /\ m >= n /\ m <= s3 + n
            /\ Feedback!Recorded(n) = LastEvents(s3 + n, m)
            /\ LastEvents(s3 + n, m) \in Seq(Nat) /\ Len(LastEvents(s3 + n, m)) = m
      BY <1>1, <1>3, <1>7, RecordedIs
    <2>2. /\ s5' = IF Len(s5) < FeedbackQueue THEN Append(s5, LastEvents(s3 + n, m))
                   ELSE Append(Tail(s5), LastEvents(s3 + n, m))
          /\ s6' = (s6 \/ Len(s5) = FeedbackQueue)
          /\ s4' = Feedback!AtMost(LastEvents(s3 + n, m), FeedbackResend)
      BY <1>2, <1>7, <2>1 DEF Feedback!Enqueue
    <2>3. a \in Seq(EventPackets)
      BY <1>5, Joined DEF a
    <2>4. /\ s5' \in Seq(EventPackets) /\ Len(s5') <= FeedbackQueue
          /\ Heads(a \o s5', s3 + n) /\ Newest(a \o s5', s3 + n)
          /\ ~(s6 \/ Len(s5) = FeedbackQueue) => Whole(a \o s5', s3 + n)
      BY <1>3, <1>5, <1>7, <2>1, <2>2, <2>3, EnqueueKeeps
    <2> DEFINE k == IF m > FeedbackResend THEN FeedbackResend ELSE m
    <2>5. k \in Nat /\ k <= s3 + n /\ s3 + n \in Nat /\ m \in 0..(s3 + n)
      BY <1>3, <1>5, <2>1, FeedbackConstants
    <2>6. s4' = LastEvents(s3 + n, k)
      BY <2>2, <2>5, LastEventsAtMost, FeedbackConstants
    <2> HIDE DEF k
    <2>7. s4' \in Seq(Nat) /\ Len(s4') = k
      BY <2>5, <2>6 DEF LastEvents
    <2> QED BY <1>2, <1>4, <1>5, <2>2, <2>4, <2>5, <2>6, <2>7, QueuePlaces
            DEF a, Feedback!FeedbackInv
  <1> QED BY <1>6, <1>7

\* The thread takes a packet into its hands, and the state if it has to.
LEMMA RoundTripKeeps ==
  ASSUME Feedback!FeedbackInv, NEW elapsed \in BOOLEAN, Feedback!RoundTrip(elapsed),
         s8 = Feedback!Awake \/ s8 = Feedback!Waiting
  PROVE  Feedback!FeedbackInv'
PROOF
  <1>1. Feedback!QueueInv /\ Feedback!SticksInv
    BY DEF Feedback!FeedbackInv
  <1>2. /\ s2' = FALSE /\ s1' = s1 /\ s3' = s3 /\ s4' = s4 /\ s6' = s6 /\ s9' = s9 /\ s10' = s10
        /\ s8'.at = "sending" /\ s8'.history = Feedback!AtMost(s5, 1)
        /\ s8'.state = IF (IF s2 THEN s1.sticks # s9 ELSE elapsed) THEN <<s1.sticks>> ELSE <<>>
        /\ s5' = IF s5 = <<>> THEN <<>> ELSE Tail(s5)
    BY DEF Feedback!RoundTrip
  <1>3. s8.history = <<>> /\ s8.state = <<>> /\ s8.at # "sending"
    BY DEF Feedback!Awake, Feedback!Waiting
  <1>4. Feedback!SticksInv'
    BY <1>1, <1>2, <1>3 DEF Feedback!SticksInv, Feedback!Waiting
  <1>5. /\ s3 \in Nat /\ Len(s5) <= FeedbackQueue
        /\ s10.packets \in Seq(EventPackets) /\ s5 \in Seq(EventPackets)
    BY <1>1, QueuePlaces
  <1> DEFINE P == EventPackets
  <1> HIDE DEF P
  <1>6. s10.packets \in Seq(P) /\ s5 \in Seq(P)
    BY <1>5 DEF P
  <1>7. /\ s8'.history \in Seq(P) /\ s5' \in Seq(P) /\ Len(s5') <= FeedbackQueue
        /\ s8'.history \o s5' = s5
    <2>1. CASE s5 = <<>>
      <3>1. s8'.history = <<>> /\ s5' = <<>>
        BY <1>2, <2>1 DEF Feedback!AtMost
      <3> QED BY <1>5, <1>6, <2>1, <3>1
    <2>2. CASE s5 # <<>>
      <3>1. Len(s5) \in Nat /\ Len(s5) > 0
        BY <1>6, <2>2
      <3>2. SubSeq(s5, 1, 1) = <<s5[1]>> /\ s5[1] \in P
        <4>1. 1 \in 1..Len(s5) /\ s5[1] \in P
          BY <1>6, <3>1
        <4>2. /\ SubSeq(s5, 1, 1) \in Seq(P) /\ Len(SubSeq(s5, 1, 1)) = 1
              /\ SubSeq(s5, 1, 1)[1] = s5[1]
          BY <1>6, <3>1, <4>1
        <4>3. <<s5[1]>> \in Seq(P) /\ Len(<<s5[1]>>) = 1 /\ <<s5[1]>>[1] = s5[1]
          BY <4>1
        <4>4. \A i \in 1..1 : i = 1
          OBVIOUS
        <4> QED BY <4>1, <4>2, <4>3, <4>4, SequencesEqual
      <3>3. s8'.history = <<s5[1]>>
        BY <1>2, <3>1, <3>2 DEF Feedback!AtMost
      <3>4. s5' = Tail(s5) /\ s5' \in Seq(P) /\ Len(s5') = Len(s5) - 1
        BY <1>2, <1>6, <2>2
      <3>5. <<s5[1]>> \o Tail(s5) = s5
        BY <1>6, <2>2
      <3> QED BY <1>5, <3>1, <3>2, <3>3, <3>4, <3>5, FeedbackConstants
    <2> QED BY <2>1, <2>2
  <1>8. (s10'.packets \o s8'.history) \o s5' = (s10.packets \o s8.history) \o s5
    <2>1. s10.packets \o <<>> = s10.packets
      BY <1>6
    <2>2. (s10.packets \o s8'.history) \o s5' = s10.packets \o (s8'.history \o s5')
      <3> DEFINE a == s10.packets
                 b == s8'.history
                 c == s5'
      <3>1. a \in Seq(P) /\ b \in Seq(P) /\ c \in Seq(P)
        BY <1>6, <1>7
      <3> HIDE DEF a, b, c
      <3>2. (a \o b) \o c = a \o (b \o c)
        BY <3>1, Associative
      <3> QED BY <3>2 DEF a, b, c
    <2> QED BY <1>2, <1>3, <1>7, <2>1, <2>2
  <1>9. Feedback!QueueInv'
    BY <1>1, <1>2, <1>7, <1>8, QueuePlaces DEF P
  <1> QED BY <1>4, <1>9 DEF Feedback!FeedbackInv

\* It sends what it has in its hands.
LEMMA SentKeeps ==
  ASSUME Feedback!FeedbackInv, Feedback!Sent
  PROVE  Feedback!FeedbackInv'
PROOF
  <1>1. Feedback!QueueInv /\ Feedback!SticksInv
    BY DEF Feedback!FeedbackInv
  <1>2. /\ s1' = s1 /\ s2' = s2 /\ s3' = s3 /\ s4' = s4 /\ s5' = s5 /\ s6' = s6
        /\ s8' = Feedback!Awake
        /\ s10'.packets = s10.packets \o s8.history
        /\ s10'.sticks = IF s8.state = <<>> THEN s10.sticks ELSE s8.state[1]
        /\ s9' = IF s8.state = <<>> THEN s9 ELSE s8.state[1]
    BY DEF Feedback!Sent, Feedback!appVars
  <1>3. s8'.history = <<>> /\ s8'.state = <<>> /\ s8'.at = "awake"
    BY <1>2 DEF Feedback!Awake
  <1>4. Feedback!SticksInv'
    BY <1>1, <1>2, <1>3 DEF Feedback!SticksInv, Feedback!Waiting
  <1>5. s10.packets \in Seq(EventPackets) /\ s8.history \in Seq(EventPackets)
    BY <1>1, QueuePlaces
  <1>6. /\ s10'.packets \in Seq(EventPackets) /\ s8'.history \in Seq(EventPackets)
        /\ s10'.packets \o s8'.history = s10.packets \o s8.history
    <2> DEFINE P == EventPackets
    <2> HIDE DEF P
    <2>1. s10.packets \in Seq(P) /\ s8.history \in Seq(P)
      BY <1>5 DEF P
    <2>2. s10.packets \o s8.history \in Seq(P)
      BY <2>1
    <2>3. (s10.packets \o s8.history) \o <<>> = s10.packets \o s8.history
      BY <2>2
    <2>4. <<>> \in Seq(P)
      OBVIOUS
    <2> QED BY <1>2, <1>3, <2>2, <2>3, <2>4 DEF P
  <1>7. Feedback!QueueInv'
    BY <1>1, <1>2, <1>3, <1>6, QueuePlaces
  <1> QED BY <1>4, <1>7 DEF Feedback!FeedbackInv

\* Every step of the part "feedback" keeps its invariant.
LEMMA FeedbackNext ==
  ASSUME Feedback!FeedbackInv, Feedback!Next
  PROVE  Feedback!FeedbackInv'
PROOF
  <1>1. Feedback!QueueInv /\ Feedback!SticksInv
    BY DEF Feedback!FeedbackInv
  <1>2. ASSUME s3' = s3, s4' = s4, s5' = s5, s6' = s6, s10' = s10,
               s8'.history = s8.history, s8.at = "sending" => s8'.at = "sending"
        PROVE  Feedback!QueueInv'
    <2>1. s8.at # "sending" => s8.history = <<>>
      BY <1>1 DEF Feedback!QueueInv
    <2>2. s8'.at # "sending" => s8'.history = <<>>
      BY <1>2, <2>1
    <2> QED BY <1>1, <1>2, <2>2, QueuePlaces
  <1>3. ASSUME s1' = s1, s2' = s2, s3' = s3, s4' = s4, s5' = s5, s6' = s6, s9' = s9, s10' = s10,
               s8'.history = s8.history, s8'.state = s8.state,
               s8'.at = "sending" <=> s8.at = "sending",
               s8' = Feedback!Waiting /\ s7' = "idle" => s5 = <<>> /\ ~s2
        PROVE  Feedback!FeedbackInv'
    <2>1. Feedback!SticksInv'
      BY <1>1, <1>3 DEF Feedback!SticksInv, Feedback!Waiting
    <2> QED BY <1>2, <1>3, <2>1 DEF Feedback!FeedbackInv
  <1>4. CASE Feedback!SetterSignals
    BY <1>1, <1>3, <1>4 DEF Feedback!SetterSignals, Feedback!Signal, Feedback!Awake,
       Feedback!Waiting, Feedback!appVars
  <1>5. CASE Feedback!Wait
    BY <1>1, <1>3, <1>5 DEF Feedback!Wait, Feedback!Awake, Feedback!Waiting, Feedback!appVars
  <1>6. CASE Feedback!Stops
    BY <1>1, <1>3, <1>6 DEF Feedback!Stops, Feedback!Awake, Feedback!Waiting, Feedback!appVars
  <1>7. CASE Feedback!Fini
    <2>1. s8' = s8 \/ (s8 = Feedback!Waiting /\ s8' = Feedback!Awake)
      BY <1>7 DEF Feedback!Fini, Feedback!Signal
    <2>2. /\ s1' = s1 /\ s2' = s2 /\ s3' = s3 /\ s4' = s4 /\ s5' = s5 /\ s6' = s6
          /\ s7' = s7 /\ s9' = s9 /\ s10' = s10
      BY <1>7 DEF Feedback!Fini, Feedback!appVars
    <2>3. s8 = Feedback!Waiting /\ s7 = "idle" => s5 = <<>> /\ ~s2
      BY <1>1 DEF Feedback!SticksInv
    <2> QED BY <1>3, <2>1, <2>2, <2>3 DEF Feedback!Awake, Feedback!Waiting
  <1>8. CASE Feedback!Round \/ Feedback!Timeout
    BY <1>8, RoundTripKeeps DEF Feedback!Round, Feedback!Timeout
  <1>9. CASE Feedback!Sent
    BY <1>9, SentKeeps
  <1>10. ASSUME NEW state \in Feedback!States, Feedback!SetControllerState(state)
         PROVE  Feedback!FeedbackInv'
    BY <1>10, SetStateKeeps
  <1> QED BY <1>4, <1>5, <1>6, <1>7, <1>8, <1>9, <1>10 DEF Feedback!Next

\* It holds at the start.
LEMMA FeedbackInit ==
  ASSUME Feedback!Init
  PROVE  Feedback!FeedbackInv
PROOF
  <1>1. /\ s1 = [sticks |-> 0, down |-> {}] /\ s2 = FALSE /\ s3 = 0 /\ s4 = <<>> /\ s5 = <<>>
        /\ s8 = [at |-> "awake", state |-> <<>>, history |-> <<>>] /\ s9 = 0
        /\ s10 = [sticks |-> 0, packets |-> <<>>]
    BY DEF Feedback!Init, Feedback!Awake
  <1>2. Feedback!SticksInv
    BY <1>1 DEF Feedback!SticksInv, Feedback!Waiting
  <1>3. /\ s3 \in Nat /\ Len(s5) <= FeedbackQueue /\ s4 \in Seq(Nat) /\ Len(s4) <= s3
        /\ s4 = LastEvents(s3, Len(s4)) /\ ~(s3 > 0)
    BY <1>1, FeedbackConstants DEF LastEvents
  <1>4. /\ s10.packets = <<>> /\ s8.history = <<>> /\ s5 = <<>>
        /\ <<>> \in Seq(EventPackets)
    BY <1>1
  <1>5. (s10.packets \o s8.history) \o s5 = <<>>
    BY <1>4
  <1>6. Heads(<<>>, 0) /\ Whole(<<>>, 0)
    BY DEF Heads, Whole
  <1>7. Feedback!QueueInv
    BY <1>1, <1>3, <1>4, <1>5, <1>6, QueuePlaces
  <1> QED BY <1>2, <1>7 DEF Feedback!FeedbackInv

\* It is strong enough.
LEMMA FeedbackRight ==
  ASSUME Feedback!FeedbackInv
  PROVE  Feedback!EventsInOrder /\ Feedback!UpToDateWhenAsleep
BY DEF Feedback!FeedbackInv, Feedback!QueueInv, Feedback!SticksInv, Feedback!UpToDateWhenAsleep,
   Feedback!Waiting

-----------------------------------------------------------------------------
(* The list of consoles: discoveryservice.c                                *)

\* The constants of the list.
LEMMA DiscoveryConstants ==
  Discovery!NoId \notin DiscoveryIds /\ DiscoveryDrop \in Nat /\ DiscoveryHosts \in Nat
BY PartsAssumption DEF Discovery!DiscoveryConstantsOK

\* The invariant of the list in terms of its places, before and after a step.
LEMMA ListPlaces ==
  /\ Discovery!ListInv <=>
       /\ s1 \in Seq([id : DiscoveryIds, data : DiscoveryData]) /\ s2 \in Seq(Nat)
       /\ Len(s2) = Len(s1) /\ s3 \in Nat /\ s6 \in Discovery!Answers /\ s10 = s1
       /\ s11 \in [DiscoveryIds -> Nat] /\ \A id \in DiscoveryIds : s11[id] <= s3
       /\ \A i, j \in 1..Len(s1) : s1[i].id = s1[j].id => i = j
       /\ \A i \in 1..Len(s1) : /\ s2[i] = s11[s1[i].id]
                                /\ s2[i] + DiscoveryDrop + Discovery!Grace(i) >= s3
  /\ Discovery!ListInv' <=>
       /\ s1' \in Seq([id : DiscoveryIds, data : DiscoveryData]) /\ s2' \in Seq(Nat)
       /\ Len(s2') = Len(s1') /\ s3' \in Nat /\ s6' \in Discovery!Answers /\ s10' = s1'
       /\ s11' \in [DiscoveryIds -> Nat] /\ \A id \in DiscoveryIds : s11'[id] <= s3'
       /\ \A i, j \in 1..Len(s1') : s1'[i].id = s1'[j].id => i = j
       /\ \A i \in 1..Len(s1') : /\ s2'[i] = s11'[s1'[i].id]
                                 /\ s2'[i] + DiscoveryDrop + Discovery!Grace(i)' >= s3'
PROOF
  <1>1. s1 \in Seq([id : DiscoveryIds, data : DiscoveryData]) => DOMAIN s1 = 1..Len(s1)
    OBVIOUS
  <1>2. s1' \in Seq([id : DiscoveryIds, data : DiscoveryData]) => DOMAIN s1' = 1..Len(s1')
    OBVIOUS
  <1>3. \A i : /\ Discovery!Grace(i) = (IF i = 1 THEN 1 ELSE 0) + (IF s4 = "drop" THEN 1 ELSE 0)
               /\ Discovery!Grace(i)' = (IF i = 1 THEN 1 ELSE 0) + (IF s4' = "drop" THEN 1 ELSE 0)
    BY DEF Discovery!Grace
  <1>4. Discovery!Answers' = Discovery!Answers
    BY DEF Discovery!Answers
  <1>5. (Discovery!ListInv <=> TRUE) <=> Discovery!ListInv
    OBVIOUS
  <1> QED BY <1>1, <1>2, <1>4 DEF Discovery!ListInv, Discovery!ListReported

\* Dropping keeps the consoles that are fresh, and the second one behind a
\* first one that is dropped, which is then the first.
LEMMA DropKeeps ==
  ASSUME Discovery!ListInv, Discovery!DropOld
  PROVE  Discovery!ListInv'
PROOF
  <1> DEFINE Host == [id : DiscoveryIds, data : DiscoveryData]
  <1>1. /\ s1 \in Seq(Host) /\ s2 \in Seq(Nat) /\ Len(s2) = Len(s1) /\ s3 \in Nat
        /\ s6 \in Discovery!Answers /\ s10 = s1
        /\ s11 \in [DiscoveryIds -> Nat] /\ \A id \in DiscoveryIds : s11[id] <= s3
        /\ \A i, j \in 1..Len(s1) : s1[i].id = s1[j].id => i = j
        /\ \A i \in 1..Len(s1) : /\ s2[i] = s11[s1[i].id]
                                 /\ s2[i] + DiscoveryDrop + Discovery!Grace(i) >= s3
    BY ListPlaces
  <1>2. s3' = s3 /\ s6' = s6 /\ s11' = s11 /\ s4 = "drop" /\ s4' = "send" /\ Discovery!Drop
    BY DEF Discovery!DropOld
  <1>3. \A i : /\ Discovery!Grace(i) = (IF i = 1 THEN 1 ELSE 0) + 1
               /\ Discovery!Grace(i)' = (IF i = 1 THEN 1 ELSE 0) + 0
    BY <1>2 DEF Discovery!Grace
  <1>4. /\ DOMAIN s1 = 1..Len(s1) /\ Len(s1) \in Nat
        /\ \A i \in 1..Len(s1) : s2[i] \in Nat
        /\ \A i \in 1..Len(s1) : s1[i] \in Host
    <2> HIDE DEF Host
    <2>1. s1 \in Seq(Host) /\ s2 \in Seq(Nat) /\ Len(s2) = Len(s1)
      BY <1>1
    <2>2. \A i \in 1..Len(s1) : s1[i] \in Host
      BY <2>1
    <2>3. \A i \in 1..Len(s2) : s2[i] \in Nat
      BY <2>1
    <2> QED BY <2>1, <2>2, <2>3
  \* what stays is fresh, but for the second behind a first that goes
  <1>5. \A i \in Discovery!Kept : /\ i \in 1..Len(s1)
                                  /\ s2[i] + DiscoveryDrop >= s3 \/ (i = 2 /\ s2[1] + DiscoveryDrop < s3)
    BY <1>1, <1>4, DiscoveryConstants DEF Discovery!Kept, Discovery!Stale
  <1>6. CASE Discovery!Kept = DOMAIN s1
    <2>1. s1' = s1 /\ s2' = s2 /\ s10' = s10
      BY <1>2, <1>6 DEF Discovery!Drop
    <2>2. \A i \in 1..Len(s1) : s2[i] + DiscoveryDrop + Discovery!Grace(i)' >= s3
      <3>1. SUFFICES ASSUME NEW i \in 1..Len(s1)
                     PROVE  s2[i] + DiscoveryDrop + ((IF i = 1 THEN 1 ELSE 0) + 0) >= s3
        BY <1>3
      <3>2. s2[i] \in Nat /\ i \in Nat
        BY <1>4, <3>1
      <3>3. CASE s2[i] + DiscoveryDrop >= s3
        BY <1>1, <3>2, <3>3, DiscoveryConstants
      <3>4. CASE i = 2 /\ s2[1] + DiscoveryDrop < s3
        <4>1. 1 \in Discovery!Kept
          BY <1>4, <1>6, <3>1, <3>4
        <4>2. s2[1] + DiscoveryDrop >= s3 \/ 1 = 2
          BY <1>5, <4>1
        <4> QED BY <1>1, <1>4, <3>4, <4>2, DiscoveryConstants
      <3> QED BY <1>4, <1>5, <1>6, <3>1, <3>3, <3>4
    <2> QED BY <1>1, <1>2, <2>1, <2>2, ListPlaces
  <1>7. CASE Discovery!Kept # DOMAIN s1
    <2>1. PICK order \in Discovery!InOrder :
             /\ s1' = [i \in DOMAIN order |-> s1[order[i]]]
             /\ s2' = [i \in DOMAIN order |-> s2[order[i]]]
             /\ s10' = s1'
      BY <1>2, <1>7 DEF Discovery!Drop
    <2> DEFINE n == Cardinality(Discovery!Kept)
    <2>2. n \in Nat
      <3>1. IsFiniteSet(1..Len(s1))
        BY <1>4, FS_Interval
      <3>2. Discovery!Kept \subseteq 1..Len(s1)
        BY <1>5
      <3> QED BY <3>1, <3>2, FS_Subset, FS_CardinalityType
    <2>3. /\ order \in [1..n -> Discovery!Kept] /\ DOMAIN order = 1..n
          /\ \A i, j \in 1..n : i < j => order[i] < order[j]
      <3>1. /\ order \in [1..n -> Discovery!Kept]
            /\ \A i, j \in DOMAIN order : i < j => order[i] < order[j]
        BY <2>1, CardinalityIs DEF Discovery!InOrder
      <3> HIDE DEF n
      <3>2. DOMAIN order = 1..n
        BY <3>1
      <3> QED BY <3>1, <3>2
    <2> HIDE DEF n, Host
    <2>4. \A i \in 1..n : order[i] \in 1..Len(s1)
      BY <1>5, <2>3
    <2>5. /\ s1' \in Seq(Host) /\ Len(s1') = n /\ s2' \in Seq(Nat) /\ Len(s2') = n
          /\ \A i \in 1..n : s1'[i] = s1[order[i]] /\ s2'[i] = s2[order[i]]
      <3>1. \A i \in 1..n : s1[order[i]] \in Host /\ s2[order[i]] \in Nat
        BY <1>4, <2>4
      <3>2. s1' \in [1..n -> Host] /\ s2' \in [1..n -> Nat]
        BY <2>1, <2>3, <3>1
      <3> QED BY <2>1, <2>2, <2>3, <3>2
    <2>6. \A i, j \in 1..n : s1'[i].id = s1'[j].id => i = j
      <3>1. SUFFICES ASSUME NEW i \in 1..n, NEW j \in 1..n, s1'[i].id = s1'[j].id PROVE i = j
        OBVIOUS
      <3>2. order[i] = order[j]
        <4>1. s1[order[i]].id = s1[order[j]].id
          BY <2>5, <3>1
        <4>2. order[i] \in 1..Len(s1) /\ order[j] \in 1..Len(s1)
          BY <2>4, <3>1
        <4> QED BY <1>1, <4>1, <4>2
      <3>3. order[i] \in Nat /\ ~(i < j) /\ ~(j < i)
        BY <1>4, <2>3, <2>4, <3>1, <3>2
      <3> QED BY <2>2, <3>1, <3>3
    <2>7. \A i \in 1..n : /\ s2'[i] = s11[s1'[i].id]
                          /\ s2'[i] + DiscoveryDrop + Discovery!Grace(i)' >= s3
      <3>1. SUFFICES ASSUME NEW i \in 1..n
                     PROVE  /\ s2[order[i]] = s11[s1[order[i]].id]
                            /\ s2[order[i]] + DiscoveryDrop + ((IF i = 1 THEN 1 ELSE 0) + 0) >= s3
        BY <1>3, <2>5
      <3>2. s2[order[i]] = s11[s1[order[i]].id]
        BY <1>1, <2>4, <3>1
      <3>3. /\ s2[order[i]] \in Nat /\ order[i] \in Discovery!Kept /\ order[i] \in 1..Len(s1)
            /\ i \in Nat /\ i > 0
        BY <1>4, <2>3, <2>4, <3>1
      <3>4. CASE s2[order[i]] + DiscoveryDrop >= s3
        BY <1>1, <3>2, <3>3, <3>4, DiscoveryConstants
      <3>5. CASE order[i] = 2 /\ s2[1] + DiscoveryDrop < s3
        \* the first one was not kept, so this one is the first now
        <4>1. i = 1
          <5>1. SUFFICES ASSUME i # 1 PROVE FALSE
            OBVIOUS
          <5>2. 1 \in 1..n /\ 1 < i
            BY <2>2, <3>1, <5>1
          <5>3. order[1] < 2 /\ order[1] \in Discovery!Kept /\ order[1] \in 1..Len(s1)
            BY <2>3, <2>4, <3>1, <3>5, <5>2
          <5>4. order[1] = 1
            BY <1>4, <5>3
          <5>5. s2[1] + DiscoveryDrop >= s3 \/ 1 = 2
            BY <1>5, <5>3, <5>4
          <5>6. s2[1] \in Nat
            BY <1>4, <5>3, <5>4
          <5> QED BY <1>1, <3>5, <5>5, <5>6, DiscoveryConstants
        <4>2. s2[2] + DiscoveryDrop + ((IF 2 = 1 THEN 1 ELSE 0) + 1) >= s3
          BY <1>1, <1>3, <3>3, <3>5
        <4> QED BY <1>1, <3>2, <3>3, <3>5, <4>1, <4>2, DiscoveryConstants
      <3>6. \/ s2[order[i]] + DiscoveryDrop >= s3
            \/ order[i] = 2 /\ s2[1] + DiscoveryDrop < s3
        BY <1>5, <3>3
      <3>7. s2[order[i]] + DiscoveryDrop + ((IF i = 1 THEN 1 ELSE 0) + 0) >= s3
        BY <3>4, <3>5, <3>6
      <3> QED BY <3>2, <3>7
    <2>8. /\ s1' \in Seq([id : DiscoveryIds, data : DiscoveryData]) /\ Len(s1') = n
          /\ s2' \in Seq(Nat) /\ Len(s2') = n
      BY <2>5 DEF Host
    <2>9. /\ s3' \in Nat /\ s6' \in Discovery!Answers /\ s10' = s1'
          /\ s11' \in [DiscoveryIds -> Nat] /\ \A id \in DiscoveryIds : s11'[id] <= s3'
      BY <1>1, <1>2, <2>1
    <2>10. \A i \in 1..n : /\ s2'[i] = s11'[s1'[i].id]
                            /\ s2'[i] + DiscoveryDrop + Discovery!Grace(i)' >= s3'
      BY <1>2, <2>7
    <2> QED BY <2>6, <2>8, <2>9, <2>10, ListPlaces
  <1> QED BY <1>6, <1>7

\* An answer replaces the console it is of, or becomes the last of the list.
LEMMA HostReceivedKeeps ==
  ASSUME Discovery!ListInv, Discovery!HostReceived
  PROVE  Discovery!ListInv'
PROOF
  <1> DEFINE Host == [id : DiscoveryIds, data : DiscoveryData]
             id == s6.id
             known == Discovery!Indices(id) # {}
             place == IF known THEN CHOOSE j \in Discovery!Indices(id) : TRUE ELSE Len(s1) + 1
             taken == ~(id = Discovery!NoId \/ (~known /\ Len(s1) = DiscoveryHosts))
  <1>1. /\ s1 \in Seq(Host) /\ s2 \in Seq(Nat) /\ Len(s2) = Len(s1) /\ s3 \in Nat
        /\ s6 \in Discovery!Answers /\ s10 = s1
        /\ s11 \in [DiscoveryIds -> Nat] /\ \A c \in DiscoveryIds : s11[c] <= s3
        /\ \A i, j \in 1..Len(s1) : s1[i].id = s1[j].id => i = j
        /\ \A i \in 1..Len(s1) : /\ s2[i] = s11[s1[i].id]
                                 /\ s2[i] + DiscoveryDrop + Discovery!Grace(i) >= s3
    BY ListPlaces
  <1>2. /\ s4' = s4 /\ s6' = Discovery!None
        /\ IF ~taken THEN s1' = s1 /\ s2' = s2 /\ s3' = s3 /\ s10' = s10 /\ s11' = s11
           ELSE /\ s1' = IF known THEN [s1 EXCEPT ![place] = s6] ELSE Append(s1, s6)
                /\ s2' = IF known THEN [s2 EXCEPT ![place] = s3] ELSE Append(s2, s3)
                /\ s10' = IF s1' # s1 THEN s1' ELSE s10
                /\ s11' = [s11 EXCEPT ![id] = s3]
                /\ s3' = s3
    BY DEF Discovery!HostReceived, Discovery!listVars
  <1>3. s6' \in Discovery!Answers
    BY <1>2 DEF Discovery!Answers
  <1>4. \A i : /\ Discovery!Grace(i)' = Discovery!Grace(i)
               /\ Discovery!Grace(i) \in Nat
    BY <1>2 DEF Discovery!Grace
  <1>5. CASE ~taken
    BY <1>1, <1>2, <1>3, <1>4, <1>5, ListPlaces
  <1>6. CASE taken
    <2>1. s6 \in Host /\ id \in DiscoveryIds
      BY <1>1, <1>6 DEF Discovery!Answers, Discovery!None
    <2>2. /\ DOMAIN s1 = 1..Len(s1) /\ Len(s1) \in Nat /\ DOMAIN s2 = 1..Len(s1)
          /\ \A i \in 1..Len(s1) : s2[i] \in Nat
          /\ \A i \in 1..Len(s1) : s1[i] \in Host
      <3> HIDE DEF Host
      <3>1. \A i \in 1..Len(s1) : s1[i] \in Host
        BY <1>1
      <3>2. \A i \in 1..Len(s2) : s2[i] \in Nat
        BY <1>1
      <3> QED BY <1>1, <3>1, <3>2
    <2>3. \A i \in 1..Len(s1) : s1[i].id \in DiscoveryIds
      BY <2>2
    <2>4. /\ s11' \in [DiscoveryIds -> Nat] /\ s11'[id] = s3
          /\ \A c \in DiscoveryIds : c # id => s11'[c] = s11[c]
      BY <1>1, <1>2, <1>6, <2>1
    <2>5. \A c \in DiscoveryIds : s11'[c] <= s3
      <3>1. s3 \in Nat /\ s3 <= s3
        BY <1>1
      <3> HIDE DEF id
      <3> QED BY <1>1, <2>4, <3>1
    <2>6. s10' = s1' /\ s3' = s3
      BY <1>1, <1>2, <1>6
    <2>7. CASE known
      <3>1. place \in 1..Len(s1) /\ s1[place].id = id
        BY <2>7 DEF Discovery!Indices
      <3>2. s1' = [s1 EXCEPT ![place] = s6] /\ s2' = [s2 EXCEPT ![place] = s3]
        BY <1>2, <1>6, <2>7
      <3> HIDE DEF place, known, taken, id, Host
      <3>3. /\ s1' \in Seq(Host) /\ Len(s1') = Len(s1)
            /\ s1'[place] = s6 /\ \A i \in 1..Len(s1) : i # place => s1'[i] = s1[i]
        BY <1>1, <2>1, <2>2, <3>1, <3>2
      <3>4. /\ s2' \in Seq(Nat) /\ Len(s2') = Len(s1)
            /\ s2'[place] = s3 /\ \A i \in 1..Len(s1) : i # place => s2'[i] = s2[i]
        BY <1>1, <2>2, <3>1, <3>2
      <3>5. s6.id = id
        BY DEF id
      <3>6. \A i \in 1..Len(s1) : s1'[i].id = s1[i].id
        BY <3>1, <3>3, <3>5
      <3>7. \A i \in 1..Len(s1) : s2'[i] = s11'[s1'[i].id]
        <4>1. SUFFICES ASSUME NEW i \in 1..Len(s1) PROVE s2'[i] = s11'[s1[i].id]
          BY <3>6
        <4>2. CASE i = place
          BY <2>4, <3>1, <3>4, <4>2
        <4>3. CASE i # place
          <5>1. s1[i].id # id /\ s1[i].id \in DiscoveryIds
            BY <1>1, <2>3, <3>1, <4>1, <4>3
          <5>2. s2'[i] = s2[i] /\ s2[i] = s11[s1[i].id]
            BY <1>1, <3>4, <4>1, <4>3
          <5> QED BY <2>4, <5>1, <5>2
        <4> QED BY <4>2, <4>3
      <3>8. \A i \in 1..Len(s1) : s2'[i] + DiscoveryDrop + Discovery!Grace(i)' >= s3
        <4>1. SUFFICES ASSUME NEW i \in 1..Len(s1)
                       PROVE  s2'[i] + DiscoveryDrop + Discovery!Grace(i) >= s3
          BY <1>4
        <4>2. s2[i] + DiscoveryDrop + Discovery!Grace(i) >= s3 /\ s2'[i] \in {s2[i], s3}
          BY <1>1, <3>4, <4>1
        <4>3. s2[i] \in Nat /\ Discovery!Grace(i) \in Nat /\ s3 \in Nat
          BY <1>1, <1>4, <2>2, <4>1
        <4> QED BY <4>2, <4>3, DiscoveryConstants
      <3>9. \A i, j \in 1..Len(s1) : s1'[i].id = s1'[j].id => i = j
        BY <1>1, <3>6
      <3> QED BY <1>1, <1>3, <2>4, <2>5, <2>6, <3>3, <3>4, <3>7, <3>8, <3>9, ListPlaces DEF Host
    <2>8. CASE ~known
      <3>1. \A i \in 1..Len(s1) : s1[i].id # id
        BY <2>8 DEF Discovery!Indices
      <3>2. s1' = Append(s1, s6) /\ s2' = Append(s2, s3)
        BY <1>2, <1>6, <2>8
      <3> HIDE DEF place, known, taken, id, Host
      <3> DEFINE n == Len(s1) + 1
      <3>3. /\ s1' \in Seq(Host) /\ Len(s1') = n
            /\ s1'[n] = s6 /\ \A i \in 1..Len(s1) : s1'[i] = s1[i]
        BY <1>1, <2>1, <3>2
      <3>4. /\ s2' \in Seq(Nat) /\ Len(s2') = n
            /\ s2'[n] = s3 /\ \A i \in 1..Len(s1) : s2'[i] = s2[i]
        BY <1>1, <3>2
      <3>5. s6.id = id
        BY DEF id
      <3>6. \A i \in 1..n : i \in 1..Len(s1) \/ i = n
        BY <2>2
      <3> HIDE DEF n
      <3>7. \A i \in 1..n : s2'[i] = s11'[s1'[i].id]
        <4>1. SUFFICES ASSUME NEW i \in 1..n PROVE s2'[i] = s11'[s1'[i].id]
          OBVIOUS
        <4>2. CASE i = n
          BY <2>4, <3>3, <3>4, <3>5, <4>2
        <4>3. CASE i \in 1..Len(s1)
          <5>1. s1[i].id # id /\ s1[i].id \in DiscoveryIds
            BY <2>3, <3>1, <4>3
          <5>2. s2'[i] = s2[i] /\ s2[i] = s11[s1[i].id] /\ s1'[i] = s1[i]
            BY <1>1, <3>3, <3>4, <4>3
          <5> QED BY <2>4, <5>1, <5>2
        <4> QED BY <3>6, <4>1, <4>2, <4>3
      <3>8. \A i \in 1..n : s2'[i] + DiscoveryDrop + Discovery!Grace(i)' >= s3
        <4>1. SUFFICES ASSUME NEW i \in 1..n
                       PROVE  s2'[i] + DiscoveryDrop + Discovery!Grace(i) >= s3
          BY <1>4
        <4>2. CASE i = n
          <5>1. s2'[i] = s3 /\ s3 \in Nat /\ Discovery!Grace(i) \in Nat
            BY <1>1, <1>4, <3>4, <4>2
          <5> QED BY <5>1, DiscoveryConstants
        <4>3. CASE i \in 1..Len(s1)
          BY <1>1, <3>4, <4>3
        <4> QED BY <3>6, <4>1, <4>2, <4>3
      <3>9. \A i, j \in 1..n : s1'[i].id = s1'[j].id => i = j
        <4>1. SUFFICES ASSUME NEW i \in 1..n, NEW j \in 1..n, s1'[i].id = s1'[j].id PROVE i = j
          OBVIOUS
        <4>2. CASE i = n \/ j = n
          BY <3>1, <3>3, <3>5, <3>6, <4>1, <4>2
        <4>3. CASE i \in 1..Len(s1) /\ j \in 1..Len(s1)
          BY <1>1, <3>3, <4>1, <4>3
        <4> QED BY <3>6, <4>1, <4>2, <4>3
      <3> QED BY <1>1, <1>3, <2>4, <2>5, <2>6, <3>3, <3>4, <3>7, <3>8, <3>9, ListPlaces DEF Host
    <2> QED BY <2>7, <2>8
  <1> QED BY <1>5, <1>6

\* Every step of the part "discovery" keeps its invariant.
LEMMA DiscoveryNext ==
  ASSUME Discovery!DiscoveryInv, Discovery!Next
  PROVE  Discovery!DiscoveryInv'
PROOF
  <1>1. Discovery!ListInv /\ Discovery!ThreadsInv
    BY DEF Discovery!DiscoveryInv
  <1>2. Discovery!ThreadsInv'
    BY <1>1 DEF Discovery!Next, Discovery!Ping, Discovery!DropOld, Discovery!SendSearch,
       Discovery!StopReceiver, Discovery!ServiceEnds, Discovery!Receive, Discovery!Canceled,
       Discovery!HostReceived, Discovery!Fini, Discovery!FiniJoins, Discovery!ThreadsInv,
       Discovery!QuietAfterFini
  <1>3. CASE Discovery!Ping
    <2>1. /\ s3' = s3 + 1 /\ s4 # "drop" /\ s4' = "drop" /\ s6' = s6
          /\ s1' = s1 /\ s2' = s2 /\ s10' = s10 /\ s11' = s11
      BY <1>3 DEF Discovery!Ping
    <2>2. /\ s2 \in Seq(Nat) /\ Len(s2) = Len(s1) /\ s3 \in Nat
          /\ s11 \in [DiscoveryIds -> Nat] /\ \A id \in DiscoveryIds : s11[id] <= s3
          /\ \A i \in 1..Len(s1) : s2[i] + DiscoveryDrop + Discovery!Grace(i) >= s3
      BY <1>1, ListPlaces
    <2>3. \A i : Discovery!Grace(i) \in Nat /\ Discovery!Grace(i)' = Discovery!Grace(i) + 1
      BY <2>1 DEF Discovery!Grace
    <2>4. \A i \in 1..Len(s1) : s2[i] \in Nat
      BY <2>2
    <2>5. /\ \A i \in 1..Len(s1) : s2[i] + DiscoveryDrop + Discovery!Grace(i)' >= s3'
          /\ \A id \in DiscoveryIds : s11[id] <= s3'
          /\ s3' \in Nat
      BY <2>1, <2>2, <2>3, <2>4, DiscoveryConstants
    <2>6. Discovery!ListInv'
      BY <1>1, <2>1, <2>5, ListPlaces
    <2> QED BY <1>2, <2>6 DEF Discovery!DiscoveryInv
  <1>4. CASE Discovery!DropOld
    BY <1>1, <1>2, <1>4, DropKeeps DEF Discovery!DiscoveryInv
  <1>5. CASE Discovery!HostReceived
    BY <1>1, <1>2, <1>5, HostReceivedKeeps DEF Discovery!DiscoveryInv
  <1>6. ASSUME s1' = s1, s2' = s2, s3' = s3, s10' = s10, s11' = s11, s6' \in Discovery!Answers,
               (s4' = "drop") = (s4 = "drop")
        PROVE  Discovery!DiscoveryInv'
    <2>1. \A i : Discovery!Grace(i)' = Discovery!Grace(i)
      BY <1>6 DEF Discovery!Grace
    <2>2. Discovery!ListInv'
      BY <1>1, <1>6, <2>1, ListPlaces
    <2> QED BY <1>2, <2>2 DEF Discovery!DiscoveryInv
  <1>7. s6 \in Discovery!Answers
    BY <1>1 DEF Discovery!ListInv
  <1>8. CASE Discovery!SendSearch \/ Discovery!StopReceiver \/ Discovery!ServiceEnds
             \/ Discovery!Canceled \/ Discovery!Fini \/ Discovery!FiniJoins
    BY <1>6, <1>7, <1>8 DEF Discovery!SendSearch, Discovery!StopReceiver, Discovery!ServiceEnds,
       Discovery!Canceled, Discovery!Fini, Discovery!FiniJoins, Discovery!listVars
  <1>9. ASSUME NEW host \in Discovery!Answers, Discovery!Receive(host)
        PROVE  Discovery!DiscoveryInv'
    BY <1>6, <1>9 DEF Discovery!Receive, Discovery!listVars
  <1> QED BY <1>3, <1>4, <1>5, <1>8, <1>9 DEF Discovery!Next

\* It holds at the start.
LEMMA DiscoveryInit ==
  ASSUME Discovery!Init
  PROVE  Discovery!DiscoveryInv
PROOF
  <1>1. /\ s1 = <<>> /\ s2 = <<>> /\ s3 = 0 /\ s6 = Discovery!None /\ s10 = s1
        /\ s11 = [id \in DiscoveryIds |-> 0]
    BY DEF Discovery!Init
  <1>2. Discovery!ListInv
    BY <1>1, ListPlaces DEF Discovery!Answers
  <1> QED BY <1>2 DEF Discovery!Init, Discovery!DiscoveryInv, Discovery!ThreadsInv,
             Discovery!QuietAfterFini

\* It is strong enough.
LEMMA DiscoveryRight ==
  ASSUME Discovery!DiscoveryInv
  PROVE  Discovery!ListReported /\ Discovery!ListedWhileHeard /\ Discovery!QuietAfterFini
PROOF
  <1>1. /\ s1 \in Seq([id : DiscoveryIds, data : DiscoveryData]) /\ s2 \in Seq(Nat)
        /\ Len(s2) = Len(s1) /\ s3 \in Nat
        /\ \A i \in 1..Len(s1) : /\ s2[i] = s11[s1[i].id]
                                 /\ s2[i] + DiscoveryDrop + Discovery!Grace(i) >= s3
    BY ListPlaces DEF Discovery!DiscoveryInv
  <1>2. DOMAIN s1 = 1..Len(s1) /\ \A i \in 1..Len(s1) : s2[i] \in Nat
    BY <1>1
  <1>3. s4 # "drop" => \A i : Discovery!Grace(i) \in 0..1
    BY DEF Discovery!Grace
  <1>4. s4 # "drop" => \A i \in 1..Len(s1) : s2[i] + DiscoveryDrop + 1 >= s3
    <2>1. SUFFICES ASSUME s4 # "drop", NEW i \in 1..Len(s1)
                   PROVE  s2[i] + DiscoveryDrop + 1 >= s3
      OBVIOUS
    <2> DEFINE x == s2[i]
               g == Discovery!Grace(i)
    <2>2. x + DiscoveryDrop + g >= s3 /\ x \in Nat /\ s3 \in Nat
      BY <1>1, <1>2
    <2>3. g \in 0..1 /\ DiscoveryDrop \in Nat
      BY <1>3, <2>1, DiscoveryConstants
    <2> HIDE DEF x, g
    <2>4. x + DiscoveryDrop + 1 >= s3
      BY <2>2, <2>3
    <2> QED BY <2>4 DEF x
  <1>5. Discovery!ListedWhileHeard
    BY <1>1, <1>2, <1>4 DEF Discovery!ListedWhileHeard
  <1> QED BY <1>5 DEF Discovery!DiscoveryInv, Discovery!ListInv, Discovery!ThreadsInv

-----------------------------------------------------------------------------
(* The application's input: streamsession.cpp                              *)

\* The constants of the input.
LEMMA InputConstants ==
  /\ InputIds \in Nat /\ InputPlaces \in Nat /\ InputTouches \in Nat /\ InputTouches < InputIds
  /\ Input!Slots = 1..InputPlaces
BY PartsAssumption DEF Input!InputConstantsOK, Input!Slots

\* What SendFeedbackState makes of the sources.
LEMMA SendGives ==
  ASSUME NEW pb, NEW kb, NEW ts, NEW timer \in BOOLEAN, NEW ob \in 0..2,
         Input!Send(pb, kb, ts, timer, ob)
  PROVE  LET all == (pb \cup kb.buttons) \cup ts.buttons
             lifted == ob = 2 /\ all = {}
             blocked == ob # 0 /\ ~lifted
         IN  /\ s10' = IF blocked THEN ob ELSE 0
             /\ s3' = IF blocked THEN Input!Idle ELSE kb
             /\ s11' \in [buttons : SUBSET (IF blocked THEN {} ELSE all),
                          touching : SUBSET {"mouse", "finger", "dpad"}]
             /\ "mouse" \in s11'.touching => ~blocked /\ Input!Ids(kb) # {}
             /\ "finger" \in s11'.touching => ~blocked /\ Input!Ids(ts) # {}
             /\ s14' = IF s10' = 0 THEN s14 \cap s12' ELSE s12'
             /\ \/ /\ ~blocked /\ "dpad" \in all /\ ~s8'
                   /\ s7' = [touching |-> TRUE, moves |-> s7.moves \/ ~timer,
                             stops |-> s7.stops /\ timer]
                \/ s7' = [s7 EXCEPT !.stops = @ \/ s7.touching]
BY DEF Input!Send

\* Each button of the sources has something among q that holds it down.
Backed(q, missed, pb, kb, ts) ==
  /\ \A b \in pb : <<"pad", b>> \in q \/ b \in missed
  /\ \A b \in kb.buttons :
       <<"key", b>> \in q \/ (b = "touchpad" /\ \E h \in q : h[1] = "mouse")
  /\ ts.buttons # {} => ts.buttons = {"touchpad"} /\ \E h \in q : h[1] = "finger"

\* What is sent then has it too: with a menu that was just closed nothing is
\* pressed, and with one that is open nothing is sent.
LEMMA SendButtons ==
  ASSUME NEW pb, NEW kb \in Input!States, NEW ts \in Input!States, NEW timer \in BOOLEAN,
         NEW ob \in 0..2, Input!Send(pb, kb, ts, timer, ob), s1' = pb, s5' = ts,
         Backed(IF ob = 0 THEN s12' \ s14 ELSE s12', s13', pb, kb, ts)
  PROVE  Input!ButtonsInv'
PROOF
  <1> DEFINE all == (pb \cup kb.buttons) \cup ts.buttons
             lifted == ob = 2 /\ all = {}
             blocked == ob # 0 /\ ~lifted
             touching == {"mouse", "finger", "dpad"}
  <1>1. /\ s10' = IF blocked THEN ob ELSE 0
        /\ s3' = IF blocked THEN Input!Idle ELSE kb
        /\ s11' \in [buttons : SUBSET (IF blocked THEN {} ELSE all), touching : SUBSET touching]
        /\ s14' = IF s10' = 0 THEN s14 \cap s12' ELSE s12'
    BY SendGives
  <1>2. Input!Idle \in Input!States /\ Input!Idle.buttons = {}
    BY InputConstants DEF Input!Idle, Input!States
  <1>3. s14' \subseteq s12' /\ s10' \in 0..2 /\ s3' \in Input!States /\ s5' \in Input!States
    BY <1>1, <1>2
  <1>4. CASE blocked
    <2>1. /\ s10' = ob /\ s10' # 0 /\ s3' = Input!Idle
          /\ s11' \in [buttons : SUBSET {}, touching : SUBSET touching]
      BY <1>1, <1>4
    <2>2. Input!Pressing' = s12'
      BY <2>1 DEF Input!Pressing
    <2>3. Backed(s12', s13', s1', s3', s5')
      BY <1>2, <1>4, <2>1 DEF Backed
    <2>4. s11'.buttons = {} /\ s11' \in [buttons : SUBSET ((s1' \cup s3'.buttons) \cup s5'.buttons),
                                         touching : SUBSET touching]
      BY <2>1
    <2> HIDE DEF blocked
    <2> QED BY <1>3, <2>1, <2>2, <2>3, <2>4 DEF Input!ButtonsInv, Backed
  <1>5. CASE ~blocked
    <2>1. /\ s10' = 0 /\ s3' = kb /\ s14' = s14 \cap s12'
          /\ s11' \in [buttons : SUBSET all, touching : SUBSET touching]
      BY <1>1, <1>5
    <2>2. Input!Pressing' = s12' \ s14
      BY <2>1 DEF Input!Pressing
    <2>3. Backed(s12' \ s14, s13', s1', s3', s5')
      <3>1. CASE ob = 0
        BY <2>1, <3>1
      <3>2. CASE ob # 0
        <4>1. all = {}
          BY <1>5, <3>2
        <4> QED BY <2>1, <4>1 DEF Backed
      <3> QED BY <3>1, <3>2
    <2>4. s11' \in [buttons : SUBSET ((s1' \cup s3'.buttons) \cup s5'.buttons),
                    touching : SUBSET touching]
      BY <2>1
    <2> HIDE DEF blocked
    <2> QED BY <1>3, <2>1, <2>2, <2>3, <2>4 DEF Input!ButtonsInv, Backed
  <1> QED BY <1>4, <1>5

\* The touches of the mouse and of the screen, if the sources have those of
\* what is held.
LEMMA SendTouches ==
  ASSUME NEW pb, NEW kb \in Input!States, NEW ts \in Input!States, NEW timer \in BOOLEAN,
         NEW ob \in 0..2, Input!Send(pb, kb, ts, timer, ob), s5' = ts,
         s4' \in -1 .. (InputIds - 1), Input!Ids(kb) \subseteq {s4'},
         s4' # -1 => <<"mouse", "left">> \in s12',
         s15' \in 0 .. InputTouches, ts.next <= s15',
         \A i \in Input!Slots : ts.slots[i] < ts.next,
         \A i, j \in Input!Slots : ts.slots[i] = ts.slots[j] => i = j \/ ts.slots[i] = -1,
         {s6'[f] : f \in DOMAIN s6'} = Input!Ids(ts),
         \A f, g \in DOMAIN s6' : s6'[f] = s6'[g] => f = g,
         \A f \in DOMAIN s6' : <<"finger", f>> \in s12'
  PROVE  Input!TouchesInv'
PROOF
  <1>1. /\ s3' = Input!Idle \/ s3' = kb
        /\ "mouse" \in s11'.touching => Input!Ids(kb) # {}
        /\ "finger" \in s11'.touching => Input!Ids(ts) # {}
    BY SendGives
  <1>2. Input!Ids(Input!Idle) = {}
    BY DEF Input!Ids, Input!Idle
  <1>3. -1 \notin Input!Ids(kb)
    BY DEF Input!Ids
  <1>4. "mouse" \in s11'.touching => <<"mouse", "left">> \in s12'
    BY <1>1, <1>3
  <1>5. "finger" \in s11'.touching => \E h \in s12' : h[1] = "finger"
    <2>1. SUFFICES ASSUME "finger" \in s11'.touching PROVE \E h \in s12' : h[1] = "finger"
      OBVIOUS
    <2>2. PICK f \in DOMAIN s6' : TRUE
      BY <1>1, <2>1
    <2> QED BY <2>2
  <1>6. Input!Ids(s3') \subseteq {s4'}
    BY <1>1, <1>2
  <1>7. Input!TouchesAreFingers'
    BY DEF Input!TouchesAreFingers, Input!Ids, Input!Slots
  <1>8. Input!Ids(s3)' = Input!Ids(s3')
    BY DEF Input!Ids, Input!Slots
  <1> QED BY <1>4, <1>5, <1>6, <1>7, <1>8 DEF Input!TouchesInv, Input!Slots

\* The touch of the directional buttons goes on with the timer that moves it,
\* or the timer that lifts it is started.
LEMMA SendDpad ==
  ASSUME Input!DpadInv, NEW pb, NEW kb, NEW ts, NEW timer \in BOOLEAN, NEW ob \in 0..2,
         Input!Send(pb, kb, ts, timer, ob), s1' = pb, ts.buttons \subseteq {"touchpad"},
         timer => s7.moves
  PROVE  Input!DpadInv'
PROOF
  <1> DEFINE all == (pb \cup kb.buttons) \cup ts.buttons
             lifted == ob = 2 /\ all = {}
             blocked == ob # 0 /\ ~lifted
  <1>1. /\ s10' = IF blocked THEN ob ELSE 0
        /\ s3' = IF blocked THEN Input!Idle ELSE kb
        /\ \/ /\ ~blocked /\ "dpad" \in all /\ ~s8'
              /\ s7' = [touching |-> TRUE, moves |-> s7.moves \/ ~timer,
                        stops |-> s7.stops /\ timer]
           \/ s7' = [s7 EXCEPT !.stops = @ \/ s7.touching]
    BY SendGives
  <1>2. /\ s7 \in [touching : BOOLEAN, moves : BOOLEAN, stops : BOOLEAN]
        /\ s7.touching => s7.moves
        /\ s7.stops => s7.touching
    BY DEF Input!DpadInv, Input!DpadTouchIsLifted
  <1>3. CASE /\ ~blocked /\ "dpad" \in all /\ ~s8'
             /\ s7' = [touching |-> TRUE, moves |-> s7.moves \/ ~timer,
                       stops |-> s7.stops /\ timer]
    <2>1. s7'.touching = TRUE /\ s7'.moves = TRUE /\ s7'.stops \in BOOLEAN
          /\ s7' \in [touching : BOOLEAN, moves : BOOLEAN, stops : BOOLEAN]
      BY <1>2, <1>3
    <2>2. s10' = 0 /\ s3' = kb
      BY <1>1, <1>3
    <2>3. "dpad" \in s1' \cup s3'.buttons
      BY <1>3, <2>2
    <2> QED BY <1>3, <2>1, <2>2, <2>3 DEF Input!DpadInv, Input!DpadTouchIsLifted
  <1>4. CASE s7' = [s7 EXCEPT !.stops = @ \/ s7.touching]
    BY <1>2, <1>4 DEF Input!DpadInv, Input!DpadTouchIsLifted
  <1> QED BY <1>1, <1>3, <1>4

\* A nonempty set of natural numbers has a least one.
LEMMA LeastOf ==
  ASSUME NEW S, S \subseteq Nat, S # {}
  PROVE  \E n \in S : \A m \in S : n <= m
PROOF
  <1> DEFINE R == {p \in Nat \X Nat : p[1] < p[2]}
  <1>1. OpToRel(<, Nat) = R
    BY Zenon DEF OpToRel
  <1>2. IsWellFoundedOn(R, Nat)
    BY <1>1, NatLessThanWellFounded
  <1>3. PICK n \in S : \A m \in S : ~(<<m, n>> \in R)
    <2> HIDE DEF R
    <2> QED BY <1>2, WFMin
  <1>4. ASSUME NEW m \in S PROVE n <= m
    <2>1. ~(m < n)
      <3>1. <<m, n>> \in Nat \X Nat /\ <<m, n>>[1] = m /\ <<m, n>>[2] = n
        OBVIOUS
      <3> QED BY <1>3, <3>1
    <2> QED BY <2>1
  <1> QED BY <1>4

\* A touch that begins takes a free place, if there is one.
LEMMA StartTouchTakes ==
  ASSUME NEW s \in Input!States
  PROVE  LET t == Input!StartTouch(s)
         IN  /\ t \in Input!States /\ t.buttons = s.buttons
             /\ Input!TouchId(s) \in -1 .. (InputIds - 1)
             /\ \/ t = s /\ Input!TouchId(s) = -1
                \/ /\ Input!TouchId(s) = s.next /\ t.next = (s.next + 1) % InputIds
                   /\ \E i \in Input!Slots :
                        s.slots[i] = -1 /\ t.slots = [s.slots EXCEPT ![i] = s.next]
PROOF
  <1> DEFINE free == Input!FreeSlots(s)
             i == CHOOSE j \in free : \A k \in free : j <= k
             t == Input!StartTouch(s)
  <1>1. s.slots \in [Input!Slots -> -1 .. (InputIds - 1)] /\ s.next \in 0 .. (InputIds - 1)
        /\ s.buttons \subseteq InputPad \cup InputKeys \cup {"touchpad"}
        /\ s = [buttons |-> s.buttons, slots |-> s.slots, next |-> s.next]
    BY DEF Input!States
  <1>2. CASE free = {}
    BY <1>1, <1>2, InputConstants DEF Input!StartTouch, Input!TouchId
  <1>3. CASE free # {}
    <2>1. free \subseteq Nat /\ free \subseteq Input!Slots /\ \A j \in free : s.slots[j] < 0
      BY InputConstants DEF Input!FreeSlots
    <2>2. i \in free
      <3> HIDE DEF free
      <3> QED BY <1>3, <2>1, LeastOf
    <2>3. i \in Input!Slots /\ s.slots[i] = -1
      <3> HIDE DEF i
      <3>1. i \in Input!Slots /\ s.slots[i] < 0
        BY <2>1, <2>2
      <3> QED BY <1>1, <3>1, InputConstants
    <2>4. t = [s EXCEPT !.slots[i] = s.next, !.next = (s.next + 1) % InputIds]
          /\ Input!TouchId(s) = s.next
      BY <1>3 DEF Input!StartTouch, Input!TouchId
    <2> HIDE DEF i, t, free
    <2>5. /\ t.slots = [s.slots EXCEPT ![i] = s.next] /\ t.next = (s.next + 1) % InputIds
          /\ t.buttons = s.buttons
          /\ t = [buttons |-> s.buttons, slots |-> t.slots, next |-> t.next]
      BY <1>1, <2>4
    <2>6. (s.next + 1) % InputIds \in 0 .. (InputIds - 1)
      <3>1. s.next + 1 \in Nat /\ InputIds \in Nat \ {0}
        BY <1>1, InputConstants
      <3> QED BY <3>1
    <2>7. t.slots \in [Input!Slots -> -1 .. (InputIds - 1)]
      <3>1. s.next \in -1 .. (InputIds - 1)
        BY <1>1, InputConstants
      <3> QED BY <1>1, <2>5, <3>1
    <2>8. t \in Input!States
      BY <1>1, <2>5, <2>6, <2>7 DEF Input!States
    <2>9. Input!TouchId(s) \in -1 .. (InputIds - 1)
      BY <1>1, <2>4, InputConstants
    <2> QED BY <2>3, <2>4, <2>5, <2>8, <2>9 DEF t
  <1> QED BY <1>2, <1>3

\* A touch that ends leaves its places.
LEMMA StopTouchLeaves ==
  ASSUME NEW s \in Input!States, NEW id
  PROVE  LET t == Input!StopTouch(s, id)
         IN  /\ t \in Input!States /\ t.buttons = s.buttons /\ t.next = s.next
             /\ t.slots = [i \in Input!Slots |-> IF s.slots[i] = id THEN -1 ELSE s.slots[i]]
             /\ Input!Ids(t) = Input!Ids(s) \ {id}
PROOF
  <1> DEFINE t == Input!StopTouch(s, id)
  <1>1. s.slots \in [Input!Slots -> -1 .. (InputIds - 1)] /\ s.next \in 0 .. (InputIds - 1)
        /\ s.buttons \subseteq InputPad \cup InputKeys \cup {"touchpad"}
        /\ s = [buttons |-> s.buttons, slots |-> s.slots, next |-> s.next]
    BY DEF Input!States
  <1>2. /\ t.slots = [i \in Input!Slots |-> IF s.slots[i] = id THEN -1 ELSE s.slots[i]]
        /\ t.buttons = s.buttons /\ t.next = s.next
        /\ t = [buttons |-> s.buttons, slots |-> t.slots, next |-> s.next]
    BY <1>1 DEF Input!StopTouch
  <1> HIDE DEF t
  <1>3. -1 \in -1 .. (InputIds - 1)
    BY InputConstants
  <1>4. t.slots \in [Input!Slots -> -1 .. (InputIds - 1)]
    BY <1>1, <1>2, <1>3
  <1>5. t \in Input!States
    BY <1>1, <1>2, <1>4 DEF Input!States
  <1>6. Input!Ids(t) = Input!Ids(s) \ {id}
    <2>1. \A i \in Input!Slots : t.slots[i] = IF s.slots[i] = id THEN -1 ELSE s.slots[i]
      BY <1>2
    <2> QED BY <2>1 DEF Input!Ids
  <1> QED BY <1>2, <1>5, <1>6 DEF t

\* What is pressed before a handler has something that holds it down.
LEMMA BackedBefore ==
  ASSUME Input!ButtonsInv
  PROVE  /\ Backed(Input!Pressing, s13, s1, s3, s5)
         /\ s10 \in 0..2 /\ s3 \in Input!States /\ s5 \in Input!States /\ s14 \subseteq s12
         /\ Input!Pressing = IF s10 = 0 THEN s12 \ s14 ELSE s12
BY DEF Input!ButtonsInv, Backed, Input!Pressing

\* A handler that leaves the touch screen alone keeps the invariant when its
\* sources are backed and the keyboard has no touch but the mouse's.
LEMMA SourcesKeep ==
  ASSUME Input!InputInv, NEW pb, NEW kb \in Input!States, NEW timer \in BOOLEAN,
         NEW ob \in 0..2, Input!Send(pb, kb, s5, timer, ob), s1' = pb,
         s5' = s5, s6' = s6, s15' = s15,
         \A f : <<"finger", f>> \in s12 => <<"finger", f>> \in s12',
         Backed(IF ob = 0 THEN s12' \ s14 ELSE s12', s13', pb, kb, s5),
         s4' \in -1 .. (InputIds - 1), Input!Ids(kb) \subseteq {s4'},
         s4' # -1 => <<"mouse", "left">> \in s12', timer => s7.moves
  PROVE  Input!InputInv'
PROOF
  <1>1. Input!ButtonsInv /\ Input!TouchesInv /\ Input!DpadInv /\ s5 \in Input!States
    BY DEF Input!InputInv, Input!ButtonsInv
  <1>2. Input!ButtonsInv'
    BY <1>1, SendButtons
  <1>3. Input!TouchesInv'
    <2>1. /\ s15' \in 0 .. InputTouches /\ s5.next <= s15'
          /\ \A i \in Input!Slots : s5.slots[i] < s5.next
          /\ \A i, j \in Input!Slots : s5.slots[i] = s5.slots[j] => i = j \/ s5.slots[i] = -1
          /\ {s6'[f] : f \in DOMAIN s6'} = Input!Ids(s5)
          /\ \A f, g \in DOMAIN s6' : s6'[f] = s6'[g] => f = g
          /\ \A f \in DOMAIN s6' : <<"finger", f>> \in s12'
      BY <1>1 DEF Input!TouchesInv, Input!TouchesAreFingers
    <2> QED BY <1>1, <2>1, SendTouches
  <1>4. Input!DpadInv'
    <2>1. s5.buttons \subseteq {"touchpad"}
      BY DEF Backed
    <2> QED BY <1>1, <2>1, SendDpad
  <1> QED BY <1>2, <1>3, <1>4 DEF Input!InputInv

\* The mouse's touch, when neither it nor the keyboard's touches change.
LEMMA MouseStill ==
  ASSUME Input!TouchesInv, NEW kb, kb.slots = s3.slots, s4' = s4,
         <<"mouse", "left">> \in s12 => <<"mouse", "left">> \in s12'
  PROVE  /\ s4' \in -1 .. (InputIds - 1) /\ Input!Ids(kb) \subseteq {s4'}
         /\ s4' # -1 => <<"mouse", "left">> \in s12'
BY DEF Input!TouchesInv, Input!Ids

\* A button of a pad is pressed.
LEMMA PadPressedKeeps ==
  ASSUME Input!InputInv, NEW b \in InputPad, Input!PadPressed(b)
  PROVE  Input!InputInv'
PROOF
  <1> DEFINE q == IF s10 = 0 THEN s12' \ s14 ELSE s12'
  <1>1. /\ <<"pad", b>> \notin s12 /\ s12' = s12 \cup {<<"pad", b>>}
        /\ s1' \subseteq s1 \cup {b} /\ s13' = s13 \ {b}
        /\ Input!Send(s1', s3, s5, FALSE, s10)
        /\ s4' = s4 /\ s5' = s5 /\ s6' = s6 /\ s15' = s15
    BY DEF Input!PadPressed
  <1>2. /\ Backed(Input!Pressing, s13, s1, s3, s5) /\ Input!TouchesInv
        /\ s10 \in 0..2 /\ s3 \in Input!States /\ s14 \subseteq s12
        /\ Input!Pressing = IF s10 = 0 THEN s12 \ s14 ELSE s12
    BY BackedBefore DEF Input!InputInv
  <1>3. Input!Pressing \subseteq q /\ <<"pad", b>> \in q
    BY <1>1, <1>2
  <1> HIDE DEF q
  <1>4. Backed(q, s13', s1', s3, s5)
    BY <1>1, <1>2, <1>3 DEF Backed
  <1>5. /\ s4' \in -1 .. (InputIds - 1) /\ Input!Ids(s3) \subseteq {s4'}
        /\ s4' # -1 => <<"mouse", "left">> \in s12'
    BY <1>1, <1>2, MouseStill
  <1>6. \A f : <<"finger", f>> \in s12 => <<"finger", f>> \in s12'
    BY <1>1
  <1> QED BY <1>1, <1>2, <1>4, <1>5, <1>6, SourcesKeep DEF q

\* A button of a pad is released, and what was sent stays if it is taken for
\* the one that mutes.
LEMMA PadReleasedKeeps ==
  ASSUME Input!InputInv, NEW b \in InputPad, Input!PadReleased(b)
  PROVE  Input!InputInv'
PROOF
  <1> DEFINE q == IF s10 = 0 THEN s12' \ s14 ELSE s12'
             p == <<"pad", b>>
  <1>1. /\ s12' = s12 \ {p}
        /\ s4' = s4 /\ s5' = s5 /\ s6' = s6 /\ s15' = s15
    BY DEF Input!PadReleased
  <1>2. /\ Backed(Input!Pressing, s13, s1, s3, s5) /\ Input!TouchesInv
        /\ s10 \in 0..2 /\ s3 \in Input!States /\ s14 \subseteq s12
        /\ Input!Pressing = IF s10 = 0 THEN s12 \ s14 ELSE s12
    BY BackedBefore DEF Input!InputInv
  <1>3. Input!Pressing \ {p} \subseteq q
    BY <1>1, <1>2
  <1> HIDE DEF q
  <1>4. /\ \A x : x # b => <<"pad", x>> # p
        /\ \A x : <<"key", x>> # p /\ <<"finger", x>> # p /\ <<"mouse", x>> # p
        /\ p[1] # "mouse" /\ p[1] # "finger"
    OBVIOUS
  <1> HIDE DEF p
  <1>5. ASSUME NEW missed, NEW pb, pb \ {b} \subseteq s1, s13 \ {b} \subseteq missed,
               b \notin pb \/ b \in missed
        PROVE  Backed(q, missed, pb, s3, s5)
    <2>1. \A x \in pb : <<"pad", x>> \in q \/ x \in missed
      BY <1>2, <1>3, <1>4, <1>5 DEF Backed
    <2>2. \A x \in s3.buttons :
            <<"key", x>> \in q \/ (x = "touchpad" /\ \E h \in q : h[1] = "mouse")
      BY <1>2, <1>3, <1>4 DEF Backed
    <2>3. s5.buttons # {} => s5.buttons = {"touchpad"} /\ \E h \in q : h[1] = "finger"
      BY <1>2, <1>3, <1>4 DEF Backed
    <2> QED BY <2>1, <2>2, <2>3 DEF Backed
  <1>6. /\ s4' \in -1 .. (InputIds - 1) /\ Input!Ids(s3) \subseteq {s4'}
        /\ s4' # -1 => <<"mouse", "left">> \in s12'
    BY <1>1, <1>2, <1>4, MouseStill
  <1>7. \A f : <<"finger", f>> \in s12 => <<"finger", f>> \in s12'
    BY <1>1, <1>4
  <1>8. CASE /\ s1' = s1 \ {b} /\ s13' = s13 \ {b}
             /\ Input!Send(s1', s3, s5, FALSE, s10)
    <2>1. Backed(q, s13', s1', s3, s5)
      BY <1>5, <1>8
    <2> QED BY <1>1, <1>2, <1>6, <1>7, <1>8, <2>1, SourcesKeep DEF q
  <1>9. CASE /\ s13' = s13 \cup ({b} \cap s1) /\ s14' = s14 \cap s12'
             /\ UNCHANGED <<s1, s3, s7, s8, s9, s10, s11>>
    <2>1. Backed(q, s13', s1', s3, s5)
      BY <1>5, <1>9
    <2>2. Input!Pressing' = q
      BY <1>9 DEF Input!Pressing, q
    <2>3. Input!ButtonsInv'
      <3>1. s14' \subseteq s12' /\ s3' = s3 /\ s5' = s5 /\ s10' = s10 /\ s11' = s11 /\ s1' = s1
        BY <1>1, <1>9
      <3> QED BY <2>1, <2>2, <3>1 DEF Input!InputInv, Input!ButtonsInv, Backed
    <2>4. Input!TouchesInv'
      <3>1. s3' = s3 /\ s11' = s11
        BY <1>9
      <3>2. \A h : h[1] = "finger" => h # p
        BY <1>4
      <3>3. Input!Ids(s3)' = Input!Ids(s3) /\ Input!Ids(s5)' = Input!Ids(s5)
        BY <1>1, <3>1 DEF Input!Ids, Input!Slots
      <3>4. Input!TouchesAreFingers'
        BY <1>1, <1>2, <1>7, <3>3 DEF Input!TouchesInv, Input!TouchesAreFingers
      <3>5. "mouse" \in s11'.touching => <<"mouse", "left">> \in s12'
        BY <1>1, <1>2, <1>4, <3>1 DEF Input!TouchesInv
      <3>6. "finger" \in s11'.touching => \E h \in s12' : h[1] = "finger"
        BY <1>1, <1>2, <3>1, <3>2 DEF Input!TouchesInv
      <3> QED BY <1>1, <1>2, <1>6, <3>1, <3>3, <3>4, <3>5, <3>6 DEF Input!TouchesInv, Input!Slots
    <2>5. Input!DpadInv'
      BY <1>9 DEF Input!InputInv, Input!DpadInv, Input!DpadTouchIsLifted
    <2> QED BY <2>3, <2>4, <2>5 DEF Input!InputInv
  <1> QED BY <1>8, <1>9 DEF Input!PadReleased

\* The pad is gone, and its state with it.
LEMMA PadRemovedKeeps ==
  ASSUME Input!InputInv, Input!PadRemoved
  PROVE  Input!InputInv'
PROOF
  <1> DEFINE q == IF s10 = 0 THEN s12' \ s14 ELSE s12'
  <1>1. /\ s12' = {h \in s12 : h[1] # "pad"} /\ s1' = {} /\ s13' = {}
        /\ Input!Send(s1', s3, s5, FALSE, s10)
        /\ s4' = s4 /\ s5' = s5 /\ s6' = s6 /\ s15' = s15
    BY DEF Input!PadRemoved
  <1>2. /\ Backed(Input!Pressing, s13, s1, s3, s5) /\ Input!TouchesInv
        /\ s10 \in 0..2 /\ s3 \in Input!States /\ s14 \subseteq s12
        /\ Input!Pressing = IF s10 = 0 THEN s12 \ s14 ELSE s12
    BY BackedBefore DEF Input!InputInv
  <1>3. \A h \in Input!Pressing : h[1] # "pad" => h \in q
    BY <1>1, <1>2
  <1> HIDE DEF q
  <1>4. \A x : /\ <<"key", x>>[1] # "pad" /\ <<"finger", x>>[1] # "pad"
               /\ <<"mouse", x>>[1] # "pad"
    OBVIOUS
  <1>5. Backed(q, s13', s1', s3, s5)
    <2>1. \A x \in s3.buttons :
            <<"key", x>> \in q \/ (x = "touchpad" /\ \E h \in q : h[1] = "mouse")
      BY <1>2, <1>3, <1>4 DEF Backed
    <2>2. s5.buttons # {} => s5.buttons = {"touchpad"} /\ \E h \in q : h[1] = "finger"
      BY <1>2, <1>3 DEF Backed
    <2> QED BY <1>1, <2>1, <2>2 DEF Backed
  <1>6. /\ s4' \in -1 .. (InputIds - 1) /\ Input!Ids(s3) \subseteq {s4'}
        /\ s4' # -1 => <<"mouse", "left">> \in s12'
    BY <1>1, <1>2, <1>4, MouseStill
  <1>7. \A f : <<"finger", f>> \in s12 => <<"finger", f>> \in s12'
    BY <1>1, <1>4
  <1> QED BY <1>1, <1>2, <1>5, <1>6, <1>7, SourcesKeep DEF q

\* A key is pressed or released.
LEMMA KeyEventKeeps ==
  ASSUME Input!InputInv, NEW b \in InputKeys, Input!KeyEvent(b)
  PROVE  Input!InputInv'
PROOF
  <1> DEFINE q == IF s10 = 0 THEN s12' \ s14 ELSE s12'
             p == <<"key", b>>
             press == p \notin s12
             kb == [s3 EXCEPT !.buttons = IF press THEN @ \cup {b} ELSE @ \ {b}]
  <1>1. /\ s12' = IF press THEN s12 \cup {p} ELSE s12 \ {p}
        /\ Input!Send(s1, kb, s5, FALSE, s10)
        /\ s1' = s1 /\ s13' = s13 /\ s4' = s4 /\ s5' = s5 /\ s6' = s6 /\ s15' = s15
    BY DEF Input!KeyEvent
  <1>2. /\ Backed(Input!Pressing, s13, s1, s3, s5) /\ Input!TouchesInv
        /\ s10 \in 0..2 /\ s3 \in Input!States /\ s14 \subseteq s12
        /\ Input!Pressing = IF s10 = 0 THEN s12 \ s14 ELSE s12
    BY BackedBefore DEF Input!InputInv
  <1>3. Input!Pressing \ {p} \subseteq q /\ (press => p \in q)
    BY <1>1, <1>2
  <1>4. /\ kb \in Input!States /\ kb.slots = s3.slots
        /\ kb.buttons = IF press THEN s3.buttons \cup {b} ELSE s3.buttons \ {b}
    BY <1>2 DEF Input!States
  <1> HIDE DEF q
  <1>5. /\ \A x : x # b => <<"key", x>> # p
        /\ \A x : <<"pad", x>> # p /\ <<"finger", x>> # p /\ <<"mouse", x>> # p
        /\ p[1] # "mouse" /\ p[1] # "finger"
    OBVIOUS
  <1> HIDE DEF p, kb
  <1>6. Backed(q, s13', s1, kb, s5)
    <2>1. \A x \in s1 : <<"pad", x>> \in q \/ x \in s13'
      BY <1>1, <1>2, <1>3, <1>5 DEF Backed
    <2>2. ASSUME NEW x \in kb.buttons
          PROVE  <<"key", x>> \in q \/ (x = "touchpad" /\ \E h \in q : h[1] = "mouse")
      <3>1. CASE x = b
        BY <1>3, <1>4, <2>2, <3>1 DEF p
      <3>2. CASE x # b
        <4>1. <<"key", x>> \in Input!Pressing
              \/ (x = "touchpad" /\ \E h \in Input!Pressing : h[1] = "mouse")
          BY <1>2, <1>4, <2>2, <3>2 DEF Backed
        <4> QED BY <1>3, <1>5, <3>2, <4>1
      <3> QED BY <3>1, <3>2
    <2>3. s5.buttons # {} => s5.buttons = {"touchpad"} /\ \E h \in q : h[1] = "finger"
      BY <1>2, <1>3, <1>5 DEF Backed
    <2> QED BY <2>1, <2>2, <2>3 DEF Backed
  <1>7. /\ s4' \in -1 .. (InputIds - 1) /\ Input!Ids(kb) \subseteq {s4'}
        /\ s4' # -1 => <<"mouse", "left">> \in s12'
    BY <1>1, <1>2, <1>4, <1>5, MouseStill
  <1>8. \A f : <<"finger", f>> \in s12 => <<"finger", f>> \in s12'
    BY <1>1, <1>5
  <1> QED BY <1>1, <1>2, <1>4, <1>6, <1>7, <1>8, SourcesKeep DEF q

\* A button of the mouse is pressed: all but the left one click.
LEMMA MousePressedKeeps ==
  ASSUME Input!InputInv, NEW m \in {"left", "right"}, Input!MousePressed(m)
  PROVE  Input!InputInv'
PROOF
  <1> DEFINE q == IF s10 = 0 THEN s12' \ s14 ELSE s12'
             p == <<"mouse", m>>
             kb == IF m = "left" THEN s3 ELSE [s3 EXCEPT !.buttons = @ \cup {"touchpad"}]
  <1>1. /\ p \notin s12 /\ s12' = s12 \cup {p}
        /\ Input!Send(s1, kb, s5, FALSE, s10)
        /\ s1' = s1 /\ s13' = s13 /\ s4' = s4 /\ s5' = s5 /\ s6' = s6 /\ s15' = s15
    BY DEF Input!MousePressed
  <1>2. /\ Backed(Input!Pressing, s13, s1, s3, s5) /\ Input!TouchesInv
        /\ s10 \in 0..2 /\ s3 \in Input!States /\ s14 \subseteq s12
        /\ Input!Pressing = IF s10 = 0 THEN s12 \ s14 ELSE s12
    BY BackedBefore DEF Input!InputInv
  <1>3. Input!Pressing \subseteq q /\ p \in q
    BY <1>1, <1>2
  <1>4. /\ kb \in Input!States /\ kb.slots = s3.slots
        /\ kb.buttons \subseteq s3.buttons \cup {"touchpad"}
    BY <1>2 DEF Input!States
  <1> HIDE DEF q
  <1>5. p[1] = "mouse"
    OBVIOUS
  <1> HIDE DEF p, kb
  <1>6. Backed(q, s13', s1, kb, s5)
    BY <1>1, <1>2, <1>3, <1>4, <1>5 DEF Backed
  <1>7. /\ s4' \in -1 .. (InputIds - 1) /\ Input!Ids(kb) \subseteq {s4'}
        /\ s4' # -1 => <<"mouse", "left">> \in s12'
    BY <1>1, <1>2, <1>4, MouseStill
  <1>8. \A f : <<"finger", f>> \in s12 => <<"finger", f>> \in s12'
    BY <1>1
  <1> QED BY <1>1, <1>2, <1>4, <1>6, <1>7, <1>8, SourcesKeep DEF q

\* The mouse is moved, which may begin its touch.
LEMMA MouseMovedKeeps ==
  ASSUME Input!InputInv, Input!MouseMoved
  PROVE  Input!InputInv'
PROOF
  <1> DEFINE q == IF s10 = 0 THEN s12' \ s14 ELSE s12'
  <1>1. /\ s12' = s12 /\ s1' = s1 /\ s13' = s13 /\ s5' = s5 /\ s6' = s6 /\ s15' = s15
    BY DEF Input!MouseMoved
  <1>2. /\ Backed(Input!Pressing, s13, s1, s3, s5) /\ Input!TouchesInv
        /\ s10 \in 0..2 /\ s3 \in Input!States /\ s14 \subseteq s12
        /\ Input!Pressing = IF s10 = 0 THEN s12 \ s14 ELSE s12
    BY BackedBefore DEF Input!InputInv
  <1>3. Input!Pressing = q
    BY <1>1, <1>2
  <1> HIDE DEF q
  <1>4. \A f : <<"finger", f>> \in s12 => <<"finger", f>> \in s12'
    BY <1>1
  <1>5. CASE s4' = s4 /\ Input!Send(s1, s3, s5, FALSE, s10)
    <2>1. /\ s4' \in -1 .. (InputIds - 1) /\ Input!Ids(s3) \subseteq {s4'}
          /\ s4' # -1 => <<"mouse", "left">> \in s12'
      BY <1>1, <1>2, <1>5, MouseStill
    <2> QED BY <1>1, <1>2, <1>3, <1>4, <1>5, <2>1, SourcesKeep DEF q
  <1>6. CASE /\ {h \in s12 : h[1] = "mouse"} = {<<"mouse", "left">>} /\ s4 < 0
             /\ s4' = Input!TouchId(s3)
             /\ Input!Send(s1, Input!StartTouch(s3), s5, FALSE, s10)
    <2> DEFINE kb == Input!StartTouch(s3)
    <2>1. /\ kb \in Input!States /\ kb.buttons = s3.buttons
          /\ Input!TouchId(s3) \in -1 .. (InputIds - 1)
          /\ \/ kb = s3 /\ Input!TouchId(s3) = -1
             \/ /\ Input!TouchId(s3) = s3.next
                /\ \E i \in Input!Slots :
                     s3.slots[i] = -1 /\ kb.slots = [s3.slots EXCEPT ![i] = s3.next]
      BY <1>2, StartTouchTakes
    <2>2. s4 = -1 /\ Input!Ids(s3) = {}
      <3>1. s4 = -1
        BY <1>2, <1>6, InputConstants DEF Input!TouchesInv
      <3> QED BY <1>2, <3>1 DEF Input!TouchesInv, Input!Ids
    <2>3. Input!Ids(kb) \subseteq {s4'}
      <3>1. CASE kb = s3
        BY <2>2, <3>1
      <3>2. ASSUME NEW i \in Input!Slots, kb.slots = [s3.slots EXCEPT ![i] = s3.next],
                   Input!TouchId(s3) = s3.next
            PROVE  Input!Ids(kb) \subseteq {s4'}
        <4>1. \A j \in Input!Slots : s3.slots[j] = -1
          BY <2>2 DEF Input!Ids
        <4>2. s3.slots \in [Input!Slots -> -1 .. (InputIds - 1)]
          BY <1>2 DEF Input!States
        <4>3. \A j \in Input!Slots : kb.slots[j] = -1 \/ kb.slots[j] = s4'
          <5> HIDE DEF kb
          <5> QED BY <1>6, <3>2, <4>1, <4>2
        <4> HIDE DEF kb
        <4> QED BY <4>3 DEF Input!Ids
      <3> QED BY <2>1, <3>1, <3>2
    <2>4. s4' \in -1 .. (InputIds - 1) /\ <<"mouse", "left">> \in s12'
      BY <1>1, <1>6, <2>1
    <2>5. Backed(q, s13', s1, kb, s5)
      BY <1>1, <1>2, <1>3, <2>1 DEF Backed
    <2> QED BY <1>1, <1>2, <1>4, <1>6, <2>1, <2>3, <2>4, <2>5, SourcesKeep DEF q
  <1> QED BY <1>5, <1>6 DEF Input!MouseMoved

\* A button of the mouse is released: the click ends, and the left one's touch.
LEMMA MouseReleasedKeeps ==
  ASSUME Input!InputInv, NEW m \in {"left", "right"}, Input!MouseReleased(m)
  PROVE  Input!InputInv'
PROOF
  <1> DEFINE q == IF s10 = 0 THEN s12' \ s14 ELSE s12'
             p == <<"mouse", m>>
             ended == IF m = "left" /\ s4 >= 0 THEN Input!StopTouch(s3, s4) ELSE s3
             kb == [ended EXCEPT !.buttons = @ \ {"touchpad"}]
  <1>1. /\ s12' = s12 \ {p} /\ s4' = IF m = "left" THEN -1 ELSE s4
        /\ Input!Send(s1, kb, s5, FALSE, s10)
        /\ s1' = s1 /\ s13' = s13 /\ s5' = s5 /\ s6' = s6 /\ s15' = s15
    BY DEF Input!MouseReleased
  <1>2. /\ Backed(Input!Pressing, s13, s1, s3, s5) /\ Input!TouchesInv
        /\ s10 \in 0..2 /\ s3 \in Input!States /\ s14 \subseteq s12
        /\ Input!Pressing = IF s10 = 0 THEN s12 \ s14 ELSE s12
    BY BackedBefore DEF Input!InputInv
  <1>3. Input!Pressing \ {p} \subseteq q
    BY <1>1, <1>2
  <1>4. ended \in Input!States /\ ended.buttons = s3.buttons
        /\ Input!Ids(ended) = IF m = "left" /\ s4 >= 0 THEN Input!Ids(s3) \ {s4} ELSE Input!Ids(s3)
    BY <1>2, StopTouchLeaves
  <1> HIDE DEF ended
  <1>5. kb \in Input!States /\ kb.slots = ended.slots /\ kb.buttons = s3.buttons \ {"touchpad"}
    BY <1>4 DEF Input!States
  <1> HIDE DEF q, kb
  <1>6. /\ \A x : <<"pad", x>> # p /\ <<"key", x>> # p /\ <<"finger", x>> # p
        /\ p[1] # "finger" /\ (m # "left" => <<"mouse", "left">> # p)
    OBVIOUS
  <1> HIDE DEF p
  <1>7. Backed(q, s13', s1, kb, s5)
    <2>1. \A x \in s1 : <<"pad", x>> \in q \/ x \in s13'
      BY <1>1, <1>2, <1>3, <1>6 DEF Backed
    <2>2. \A x \in kb.buttons : <<"key", x>> \in q
      BY <1>2, <1>3, <1>5, <1>6 DEF Backed
    <2>3. s5.buttons # {} => s5.buttons = {"touchpad"} /\ \E h \in q : h[1] = "finger"
      BY <1>2, <1>3, <1>6 DEF Backed
    <2> QED BY <2>1, <2>2, <2>3 DEF Backed
  <1>8. Input!Ids(kb) = Input!Ids(ended)
    BY <1>5 DEF Input!Ids
  <1>9. /\ s4 \in -1 .. (InputIds - 1) /\ Input!Ids(s3) \subseteq {s4} /\ -1 \notin Input!Ids(s3)
        /\ s4 # -1 => <<"mouse", "left">> \in s12
    BY <1>2 DEF Input!TouchesInv, Input!Ids
  <1>10. /\ s4' \in -1 .. (InputIds - 1) /\ Input!Ids(kb) \subseteq {s4'}
         /\ s4' # -1 => <<"mouse", "left">> \in s12'
    <2>1. CASE m = "left"
      <3>1. s4' = -1 /\ -1 \in -1 .. (InputIds - 1)
        BY <1>1, <2>1, InputConstants
      <3>2. Input!Ids(kb) = {}
        <4>1. CASE s4 >= 0
          BY <1>4, <1>8, <1>9, <2>1, <4>1
        <4>2. CASE ~(s4 >= 0)
          <5>1. s4 = -1
            BY <1>9, <4>2, InputConstants
          <5> QED BY <1>4, <1>8, <1>9, <4>2, <5>1
        <4> QED BY <4>1, <4>2
      <3> QED BY <3>1, <3>2
    <2>2. CASE m # "left"
      BY <1>1, <1>4, <1>6, <1>8, <1>9, <2>2
    <2> QED BY <2>1, <2>2
  <1>11. \A f : <<"finger", f>> \in s12 => <<"finger", f>> \in s12'
    BY <1>1, <1>6
  <1> QED BY <1>1, <1>2, <1>5, <1>7, <1>10, <1>11, SourcesKeep DEF q

\* A touch of the screen begins: its number was never used before.
LEMMA FingerDownKeeps ==
  ASSUME Input!InputInv, NEW f \in InputFingers, Input!FingerDown(f)
  PROVE  Input!InputInv'
PROOF
  <1> DEFINE q == IF s10 = 0 THEN s12' \ s14 ELSE s12'
             p == <<"finger", f>>
             id == Input!TouchId(s5)
             t == Input!StartTouch(s5)
  <1>1. /\ p \notin s12 /\ s12' = s12 \cup {p} /\ s15 < InputTouches /\ s15' = s15 + 1
        /\ Input!Send(s1, s3, s5', FALSE, s10)
        /\ s6' = IF id < 0 THEN s6 ELSE [g \in DOMAIN s6 \cup {f} |-> IF g = f THEN id ELSE s6[g]]
        /\ s1' = s1 /\ s13' = s13 /\ s4' = s4
    BY DEF Input!FingerDown
  <1>2. PICK click \in BOOLEAN : s5' = Input!Clicked(t, click)
    BY DEF Input!FingerDown
  <1>3. /\ Backed(Input!Pressing, s13, s1, s3, s5) /\ Input!TouchesInv /\ Input!DpadInv
        /\ s10 \in 0..2 /\ s3 \in Input!States /\ s5 \in Input!States /\ s14 \subseteq s12
        /\ Input!Pressing = IF s10 = 0 THEN s12 \ s14 ELSE s12
    BY BackedBefore DEF Input!InputInv
  <1>4. Input!Pressing \subseteq q /\ p \in q
    BY <1>1, <1>3
  <1>5. /\ t \in Input!States /\ t.buttons = s5.buttons
        /\ id \in -1 .. (InputIds - 1)
        /\ \/ t = s5 /\ id = -1
           \/ /\ id = s5.next /\ t.next = (s5.next + 1) % InputIds
              /\ \E i \in Input!Slots :
                   s5.slots[i] = -1 /\ t.slots = [s5.slots EXCEPT ![i] = s5.next]
    BY <1>3, StartTouchTakes
  <1> HIDE DEF t, id
  <1>6. /\ s5' \in Input!States /\ s5'.slots = t.slots /\ s5'.next = t.next
        /\ s5'.buttons \in {{"touchpad"}, {}}
    BY <1>2, <1>5 DEF Input!Clicked, Input!States
  <1> HIDE DEF q
  <1>7. p[1] = "finger" /\ \A g : g # f => <<"finger", g>> # p
    OBVIOUS
  <1> HIDE DEF p
  <1>8. Backed(q, s13', s1, s3, s5')
    BY <1>1, <1>3, <1>4, <1>6, <1>7 DEF Backed
  <1>9. Input!ButtonsInv'
    BY <1>1, <1>3, <1>6, <1>8, SendButtons DEF q
  <1>10. Input!DpadInv'
    <2>1. s5'.buttons \subseteq {"touchpad"}
      BY <1>6
    <2> QED BY <1>1, <1>3, <2>1, SendDpad
  <1>11. /\ s4' \in -1 .. (InputIds - 1) /\ Input!Ids(s3) \subseteq {s4'}
         /\ s4' # -1 => <<"mouse", "left">> \in s12'
    BY <1>1, <1>3, MouseStill
  <1>12. /\ s5.slots \in [Input!Slots -> -1 .. (InputIds - 1)] /\ s5.next \in 0 .. (InputIds - 1)
         /\ s15 \in 0 .. InputTouches /\ s5.next <= s15 /\ s15' \in 0 .. InputTouches
         /\ \A i \in Input!Slots : s5.slots[i] < s5.next
         /\ \A i, j \in Input!Slots : s5.slots[i] = s5.slots[j] => i = j \/ s5.slots[i] = -1
         /\ {s6[g] : g \in DOMAIN s6} = Input!Ids(s5)
         /\ \A g, h \in DOMAIN s6 : s6[g] = s6[h] => g = h
         /\ \A g \in DOMAIN s6 : <<"finger", g>> \in s12
    <2>1. s15' \in 0 .. InputTouches
      BY <1>1, <1>3, InputConstants DEF Input!TouchesInv
    <2> QED BY <1>3, <2>1 DEF Input!TouchesInv, Input!TouchesAreFingers, Input!States
  <1> DEFINE Followed ==
         /\ s5'.next <= s15'
         /\ \A i \in Input!Slots : s5'.slots[i] < s5'.next
         /\ \A i, j \in Input!Slots : s5'.slots[i] = s5'.slots[j] => i = j \/ s5'.slots[i] = -1
         /\ {s6'[g] : g \in DOMAIN s6'} = Input!Ids(s5')
         /\ \A g, h \in DOMAIN s6' : s6'[g] = s6'[h] => g = h
         /\ \A g \in DOMAIN s6' : <<"finger", g>> \in s12'
  <1>13. Followed
    <2>1. CASE t = s5 /\ id = -1
      <3>1. s5'.slots = s5.slots /\ s5'.next = s5.next /\ s6' = s6
        BY <1>1, <1>6, <2>1
      <3>2. Input!Ids(s5') = Input!Ids(s5)
        BY <3>1 DEF Input!Ids
      <3>3. s5'.next <= s15'
        BY <1>1, <1>12, <3>1, InputConstants
      <3>4. /\ \A i \in Input!Slots : s5'.slots[i] < s5'.next
            /\ \A i, j \in Input!Slots : s5'.slots[i] = s5'.slots[j]
                                           => i = j \/ s5'.slots[i] = -1
        BY <1>12, <3>1
      <3>5. {s6'[g] : g \in DOMAIN s6'} = Input!Ids(s5')
        BY <1>12, <3>1, <3>2
      <3>6. /\ \A g, h \in DOMAIN s6' : s6'[g] = s6'[h] => g = h
            /\ \A g \in DOMAIN s6' : <<"finger", g>> \in s12'
        BY <1>1, <1>12, <3>1
      <3> QED BY <3>3, <3>4, <3>5, <3>6
    <2>2. ASSUME id = s5.next, t.next = (s5.next + 1) % InputIds,
                 NEW i \in Input!Slots, s5.slots[i] = -1,
                 t.slots = [s5.slots EXCEPT ![i] = s5.next]
          PROVE  Followed
      <3>1. s5.next + 1 < InputIds /\ s5.next + 1 \in Nat /\ InputIds \in Nat \ {0}
        BY <1>1, <1>12, InputConstants
      <3>2. s5'.next = s5.next + 1
        <4>1. (s5.next + 1) % InputIds = s5.next + 1
          BY <3>1
        <4> QED BY <1>6, <2>2, <4>1
      <3>3. s5'.slots[i] = id /\ \A j \in Input!Slots : j # i => s5'.slots[j] = s5.slots[j]
        BY <1>6, <1>12, <2>2
      <3>4. s5'.next <= s15' /\ \A j \in Input!Slots : s5'.slots[j] < s5'.next
        <4>1. s5'.next <= s15'
          BY <1>1, <1>12, <3>2, InputConstants
        <4>2. ASSUME NEW j \in Input!Slots PROVE s5'.slots[j] < s5'.next
          <5>1. s5.slots[j] \in Int /\ s5.next \in Int /\ s5.slots[j] < s5.next
            BY <1>12, InputConstants
          <5> QED BY <2>2, <3>2, <3>3, <5>1
        <4> QED BY <4>1, <4>2
      <3>5. id \in Nat /\ \A j \in Input!Slots : s5.slots[j] # id
        <4>1. id \in Nat
          BY <1>12, <2>2, InputConstants
        <4>2. ASSUME NEW j \in Input!Slots PROVE s5.slots[j] # id
          <5>1. s5.slots[j] \in Int /\ s5.next \in Int /\ s5.slots[j] < s5.next
            BY <1>12, InputConstants
          <5> QED BY <2>2, <5>1
        <4> QED BY <4>1, <4>2
      <3>6. \A j, k \in Input!Slots : s5'.slots[j] = s5'.slots[k] => j = k \/ s5'.slots[j] = -1
        BY <1>12, <3>3, <3>5
      <3>7. Input!Ids(s5') = Input!Ids(s5) \cup {id}
        <4>1. id # -1
          BY <3>5
        <4> QED BY <2>2, <3>3, <4>1 DEF Input!Ids
      <3>8. s6' = [g \in DOMAIN s6 \cup {f} |-> IF g = f THEN id ELSE s6[g]]
        BY <1>1, <3>5
      <3>9. f \notin DOMAIN s6
        BY <1>1, <1>12 DEF p
      <3>10. DOMAIN s6' = DOMAIN s6 \cup {f} /\ s6'[f] = id /\ \A g \in DOMAIN s6 : s6'[g] = s6[g]
        BY <3>8, <3>9
      <3>11. {s6'[g] : g \in DOMAIN s6'} = Input!Ids(s5')
        BY <1>12, <3>7, <3>10
      <3>12. id \notin Input!Ids(s5)
        BY <3>5 DEF Input!Ids
      <3>13. \A g, h \in DOMAIN s6' : s6'[g] = s6'[h] => g = h
        <4>1. \A g \in DOMAIN s6 : s6[g] # id
          BY <1>12, <3>12
        <4> QED BY <1>12, <3>10, <4>1
      <3>14. \A g \in DOMAIN s6' : <<"finger", g>> \in s12'
        BY <1>1, <1>12, <3>10 DEF p
      <3> QED BY <3>4, <3>6, <3>11, <3>13, <3>14
    <2> QED BY <1>5, <2>1, <2>2
  <1>14. Input!TouchesInv'
    <2>1. /\ Input!Send(s1, s3, s5', FALSE, s10) /\ s3 \in Input!States
          /\ s5' \in Input!States /\ s10 \in 0..2 /\ s15' \in 0 .. InputTouches
      BY <1>1, <1>3, <1>6, <1>12
    <2>2. /\ s5'.next <= s15'
          /\ \A i \in Input!Slots : s5'.slots[i] < s5'.next
          /\ \A i, j \in Input!Slots : s5'.slots[i] = s5'.slots[j] => i = j \/ s5'.slots[i] = -1
          /\ {s6'[g] : g \in DOMAIN s6'} = Input!Ids(s5')
          /\ \A g, h \in DOMAIN s6' : s6'[g] = s6'[h] => g = h
          /\ \A g \in DOMAIN s6' : <<"finger", g>> \in s12'
      BY <1>13
    <2> QED BY <1>11, <2>1, <2>2, SendTouches
  <1> QED BY <1>9, <1>10, <1>14 DEF Input!InputInv

\* A finger leaves the screen, and its touch ends.
LEMMA FingerUpKeeps ==
  ASSUME Input!InputInv, NEW f \in InputFingers, Input!FingerUp(f)
  PROVE  Input!InputInv'
PROOF
  <1> DEFINE q == IF s10 = 0 THEN s12' \ s14 ELSE s12'
             p == <<"finger", f>>
             t == IF f \in DOMAIN s6 THEN Input!StopTouch(s5, s6[f]) ELSE s5
  <1>1. /\ s12' = s12 \ {p} /\ s15' = s15
        /\ Input!Send(s1, s3, s5', FALSE, s10)
        /\ s6' = [g \in DOMAIN s6 \ {f} |-> s6[g]]
        /\ s5' = Input!Clicked(t, FALSE)
        /\ s1' = s1 /\ s13' = s13 /\ s4' = s4
    BY DEF Input!FingerUp
  <1>2. /\ Backed(Input!Pressing, s13, s1, s3, s5) /\ Input!TouchesInv /\ Input!DpadInv
        /\ s10 \in 0..2 /\ s3 \in Input!States /\ s5 \in Input!States /\ s14 \subseteq s12
        /\ Input!Pressing = IF s10 = 0 THEN s12 \ s14 ELSE s12
    BY BackedBefore DEF Input!InputInv
  <1>3. Input!Pressing \ {p} \subseteq q
    BY <1>1, <1>2
  <1>4. /\ t \in Input!States /\ t.next = s5.next
        /\ \A i \in Input!Slots : t.slots[i] = s5.slots[i] \/ t.slots[i] = -1
        /\ Input!Ids(t) = IF f \in DOMAIN s6 THEN Input!Ids(s5) \ {s6[f]} ELSE Input!Ids(s5)
    <2>1. CASE f \in DOMAIN s6
      <3>1. t = Input!StopTouch(s5, s6[f])
        BY <2>1
      <3> HIDE DEF t
      <3>2. /\ t \in Input!States /\ t.next = s5.next
            /\ t.slots = [i \in Input!Slots |-> IF s5.slots[i] = s6[f] THEN -1 ELSE s5.slots[i]]
            /\ Input!Ids(t) = Input!Ids(s5) \ {s6[f]}
        BY <1>2, <3>1, StopTouchLeaves
      <3> QED BY <2>1, <3>2
    <2>2. CASE f \notin DOMAIN s6
      BY <1>2, <2>2
    <2> QED BY <2>1, <2>2
  <1> HIDE DEF t, q
  <1>5. /\ s5' \in Input!States /\ s5'.slots = t.slots /\ s5'.next = t.next
        /\ s5'.buttons = {}
    BY <1>1, <1>4 DEF Input!Clicked, Input!States
  <1>6. /\ \A x : <<"pad", x>> # p /\ <<"key", x>> # p /\ <<"mouse", x>> # p
        /\ p[1] # "mouse" /\ \A g : g # f => <<"finger", g>> # p
    OBVIOUS
  <1> HIDE DEF p
  <1>7. Backed(q, s13', s1, s3, s5')
    <2>1. \A x \in s1 : <<"pad", x>> \in q \/ x \in s13'
      BY <1>1, <1>2, <1>3, <1>6 DEF Backed
    <2>2. \A x \in s3.buttons :
            <<"key", x>> \in q \/ (x = "touchpad" /\ \E h \in q : h[1] = "mouse")
      BY <1>2, <1>3, <1>6 DEF Backed
    <2> QED BY <1>5, <2>1, <2>2 DEF Backed
  <1>8. Input!ButtonsInv'
    BY <1>1, <1>2, <1>5, <1>7, SendButtons DEF q
  <1>9. Input!DpadInv'
    <2>1. s5'.buttons \subseteq {"touchpad"}
      BY <1>5
    <2> QED BY <1>1, <1>2, <2>1, SendDpad
  <1>10. /\ s4' \in -1 .. (InputIds - 1) /\ Input!Ids(s3) \subseteq {s4'}
         /\ s4' # -1 => <<"mouse", "left">> \in s12'
    BY <1>1, <1>2, <1>6, MouseStill
  <1>11. /\ s15 \in 0 .. InputTouches /\ s5.next <= s15 /\ s5.next \in 0 .. (InputIds - 1)
         /\ \A i \in Input!Slots : s5.slots[i] < s5.next
         /\ \A i, j \in Input!Slots : s5.slots[i] = s5.slots[j] => i = j \/ s5.slots[i] = -1
         /\ {s6[g] : g \in DOMAIN s6} = Input!Ids(s5)
         /\ \A g, h \in DOMAIN s6 : s6[g] = s6[h] => g = h
         /\ \A g \in DOMAIN s6 : <<"finger", g>> \in s12
    BY <1>2 DEF Input!TouchesInv, Input!TouchesAreFingers, Input!States
  <1>12. /\ \A i \in Input!Slots : s5'.slots[i] < s5'.next
         /\ \A i, j \in Input!Slots : s5'.slots[i] = s5'.slots[j] => i = j \/ s5'.slots[i] = -1
    <2>1. -1 < s5.next
      BY <1>11, InputConstants
    <2> QED BY <1>4, <1>5, <1>11, <2>1
  <1>13. /\ DOMAIN s6' = DOMAIN s6 \ {f} /\ \A g \in DOMAIN s6' : s6'[g] = s6[g]
    BY <1>1
  <1>14. {s6'[g] : g \in DOMAIN s6'} = Input!Ids(s5')
    <2>1. Input!Ids(s5') = Input!Ids(t)
      BY <1>5 DEF Input!Ids
    <2>2. CASE f \in DOMAIN s6
      <3>1. {s6'[g] : g \in DOMAIN s6'} = {s6[g] : g \in DOMAIN s6} \ {s6[f]}
        BY <1>11, <1>13, <2>2
      <3> QED BY <1>4, <1>11, <2>1, <2>2, <3>1
    <2>3. CASE f \notin DOMAIN s6
      <3>1. {s6'[g] : g \in DOMAIN s6'} = {s6[g] : g \in DOMAIN s6}
        BY <1>13, <2>3
      <3> QED BY <1>4, <1>11, <2>1, <2>3, <3>1
    <2> QED BY <2>2, <2>3
  <1>15. /\ \A g, h \in DOMAIN s6' : s6'[g] = s6'[h] => g = h
         /\ \A g \in DOMAIN s6' : <<"finger", g>> \in s12'
    BY <1>1, <1>6, <1>11, <1>13
  <1>16. s5'.next <= s15' /\ s15' \in 0 .. InputTouches
    BY <1>1, <1>4, <1>5, <1>11
  <1>17. Input!TouchesInv'
    BY <1>1, <1>2, <1>5, <1>10, <1>12, <1>14, <1>15, <1>16, SendTouches
  <1> QED BY <1>8, <1>9, <1>17 DEF Input!InputInv

\* A menu opens or is closed, or the timer moves the directional buttons' touch.
LEMMA SourcesStillKeeps ==
  ASSUME Input!InputInv, NEW timer \in BOOLEAN, NEW ob \in 0..2, ob = s10 \/ ob # 0,
         Input!Send(s1, s3, s5, timer, ob), s12' = s12, timer => s7.moves,
         UNCHANGED <<s1, s2, s4, s5, s6, s13, s15>>
  PROVE  Input!InputInv'
PROOF
  <1> DEFINE q == IF ob = 0 THEN s12' \ s14 ELSE s12'
  <1>1. s1' = s1 /\ s4' = s4 /\ s5' = s5 /\ s6' = s6 /\ s13' = s13 /\ s15' = s15
    OBVIOUS
  <1>2. /\ Backed(Input!Pressing, s13, s1, s3, s5) /\ Input!TouchesInv
        /\ s10 \in 0..2 /\ s3 \in Input!States /\ s14 \subseteq s12
        /\ Input!Pressing = IF s10 = 0 THEN s12 \ s14 ELSE s12
    BY BackedBefore DEF Input!InputInv
  <1>3. Input!Pressing \subseteq q
    BY <1>2
  <1> HIDE DEF q
  <1>4. Backed(q, s13', s1, s3, s5)
    BY <1>1, <1>2, <1>3 DEF Backed
  <1>5. /\ s4' \in -1 .. (InputIds - 1) /\ Input!Ids(s3) \subseteq {s4'}
        /\ s4' # -1 => <<"mouse", "left">> \in s12'
    BY <1>1, <1>2, MouseStill
  <1>6. \A f : <<"finger", f>> \in s12 => <<"finger", f>> \in s12'
    OBVIOUS
  <1> QED BY <1>1, <1>2, <1>4, <1>5, <1>6, SourcesKeep DEF q

\* The touch of the directional buttons is lifted.
LEMMA DpadStopsKeeps ==
  ASSUME Input!InputInv, Input!DpadStops
  PROVE  Input!InputInv'
PROOF
  <1>1. /\ s7' = [touching |-> FALSE, moves |-> FALSE, stops |-> FALSE]
        /\ s11' = [s11 EXCEPT !.touching = @ \ {"dpad"}]
        /\ UNCHANGED <<s1, s2, s3, s4, s5, s6, s8, s9, s10, s12, s13, s14, s15>>
    BY DEF Input!DpadStops
  <1>2. Input!ButtonsInv /\ Input!TouchesInv
    BY DEF Input!InputInv
  <1>3. s11 \in [buttons : SUBSET ((s1 \cup s3.buttons) \cup s5.buttons),
                 touching : SUBSET {"mouse", "finger", "dpad"}]
    BY <1>2 DEF Input!ButtonsInv
  <1>4. /\ s11'.buttons = s11.buttons /\ s11'.touching \subseteq s11.touching
        /\ s11' \in [buttons : SUBSET ((s1 \cup s3.buttons) \cup s5.buttons),
                     touching : SUBSET {"mouse", "finger", "dpad"}]
    BY <1>1, <1>3
  <1>5. Input!ButtonsInv'
    BY <1>1, <1>2, <1>4 DEF Input!ButtonsInv, Input!Pressing
  <1>6. Input!TouchesInv'
    <2>1. Input!Ids(s3)' = Input!Ids(s3) /\ Input!TouchesAreFingers'
      BY <1>1, <1>2 DEF Input!TouchesInv, Input!TouchesAreFingers, Input!Ids, Input!Slots
    <2> QED BY <1>1, <1>2, <1>4, <2>1 DEF Input!TouchesInv, Input!Slots
  <1>7. Input!DpadInv'
    BY <1>1 DEF Input!DpadInv, Input!DpadTouchIsLifted
  <1> QED BY <1>5, <1>6, <1>7 DEF Input!InputInv

\* Every handler keeps the invariant.
LEMMA InputNext ==
  ASSUME Input!InputInv, Input!Next
  PROVE  Input!InputInv'
PROOF
  <1>1. ASSUME NEW on \in BOOLEAN, Input!BlockInput(on) PROVE Input!InputInv'
    <2>1. (IF on THEN 1 ELSE 2) \in 0..2 /\ (IF on THEN 1 ELSE 2) # 0
      OBVIOUS
    <2>2. /\ Input!Send(s1, s3, s5, FALSE, IF on THEN 1 ELSE 2) /\ s12' = s12
          /\ UNCHANGED <<s1, s2, s4, s5, s6, s13, s15>>
      BY <1>1 DEF Input!BlockInput
    <2> QED BY <2>1, <2>2, SourcesStillKeeps
  <1>2. ASSUME Input!DpadMoves PROVE Input!InputInv'
    <2>1. s10 \in 0..2
      BY DEF Input!InputInv, Input!ButtonsInv
    <2>2. /\ Input!Send(s1, s3, s5, TRUE, s10) /\ s12' = s12 /\ s7.moves
          /\ UNCHANGED <<s1, s2, s4, s5, s6, s13, s15>>
      BY <1>2 DEF Input!DpadMoves
    <2> QED BY <2>1, <2>2, SourcesStillKeeps
  <1> QED BY <1>1, <1>2, PadPressedKeeps, PadReleasedKeeps, PadRemovedKeeps, KeyEventKeeps,
             MousePressedKeeps, MouseReleasedKeeps, MouseMovedKeeps, FingerDownKeeps,
             FingerUpKeeps, DpadStopsKeeps DEF Input!Next, Input!Timers

\* It holds at the beginning.
LEMMA InputInit ==
  ASSUME Input!Init
  PROVE  Input!InputInv
PROOF
  <1>1. /\ s1 = {} /\ s3 = Input!Idle /\ s4 = -1 /\ s5 = Input!Idle /\ s6 = [f \in {} |-> 0]
        /\ s7 = [touching |-> FALSE, moves |-> FALSE, stops |-> FALSE]
        /\ s10 = 0 /\ s11 = [buttons |-> {}, touching |-> {}]
        /\ s12 = {} /\ s13 = {} /\ s14 = {} /\ s15 = 0
    BY DEF Input!Init
  <1>2. Input!Idle \in Input!States /\ Input!Idle.buttons = {} /\ Input!Idle.next = 0
        /\ \A i \in Input!Slots : Input!Idle.slots[i] = -1
    BY InputConstants DEF Input!Idle, Input!States
  <1>3. Input!Ids(Input!Idle) = {}
    BY <1>2 DEF Input!Ids
  <1>4. Input!ButtonsInv
    BY <1>1, <1>2 DEF Input!ButtonsInv
  <1>5. Input!TouchesInv
    <2>1. Input!TouchesAreFingers
      BY <1>1, <1>3 DEF Input!TouchesAreFingers
    <2>2. -1 \in -1 .. (InputIds - 1) /\ 0 \in 0 .. InputTouches
      BY InputConstants
    <2> QED BY <1>1, <1>2, <1>3, <2>1, <2>2 DEF Input!TouchesInv
  <1>6. Input!DpadInv
    BY <1>1 DEF Input!DpadInv, Input!DpadTouchIsLifted
  <1> QED BY <1>4, <1>5, <1>6 DEF Input!InputInv

\* What it says of what the console sees.
LEMMA InputRight ==
  ASSUME Input!InputInv
  PROVE  /\ Input!NothingStaysPressed /\ Input!TouchesAreFingers
         /\ Input!MenuKeepsItsButtons /\ Input!DpadTouchIsLifted
PROOF
  <1>1. Input!ButtonsInv /\ Input!TouchesInv /\ Input!DpadInv
    BY DEF Input!InputInv
  <1>2. /\ s11.buttons \subseteq ((s1 \cup s3.buttons) \cup s5.buttons)
        /\ s10 # 0 => s11.buttons = {}
        /\ s14 \subseteq s12 /\ Input!Pressing \subseteq s12
        /\ Backed(Input!Pressing, s13, s1, s3, s5)
    BY <1>1, BackedBefore DEF Input!ButtonsInv
  <1>3. /\ \A x : Input!Gives(<<"pad", x>>) = x /\ Input!Gives(<<"key", x>>) = x
        /\ \A h : h[1] \in {"mouse", "finger"} => Input!Gives(h) = "touchpad"
    BY DEF Input!Gives
  <1>4. \A b \in s11.buttons : b \in s13 \/ \E h \in Input!Pressing : Input!Gives(h) = b
    <2>1. SUFFICES ASSUME NEW b \in s11.buttons, b \notin s13
                   PROVE  \E h \in Input!Pressing : Input!Gives(h) = b
      OBVIOUS
    <2>2. CASE b \in s1
      BY <1>2, <1>3, <2>1, <2>2 DEF Backed
    <2>3. CASE b \in s3.buttons
      <3>1. <<"key", b>> \in Input!Pressing
            \/ (b = "touchpad" /\ \E h \in Input!Pressing : h[1] = "mouse")
        BY <1>2, <2>3 DEF Backed
      <3>2. CASE <<"key", b>> \in Input!Pressing
        BY <1>3, <3>2
      <3>3. CASE b = "touchpad" /\ \E h \in Input!Pressing : h[1] = "mouse"
        BY <1>3, <3>3
      <3> QED BY <3>1, <3>2, <3>3
    <2>4. CASE b \in s5.buttons
      BY <1>2, <1>3, <2>1, <2>4 DEF Backed
    <2> QED BY <1>2, <2>2, <2>3, <2>4
  <1>5. Input!NothingStaysPressed
    BY <1>1, <1>2, <1>4 DEF Input!NothingStaysPressed, Input!TouchesInv
  <1>6. Input!MenuKeepsItsButtons
    <2>1. SUFFICES ASSUME NEW h \in s14, h[2] \in s11.buttons, h[2] \notin s13
                   PROVE  \E g \in s12 \ s14 : Input!Gives(g) = h[2]
      BY DEF Input!MenuKeepsItsButtons
    <2>2. s10 = 0
      BY <1>2, <2>1
    <2>3. Input!Pressing = s12 \ s14
      BY <2>2 DEF Input!Pressing
    <2> QED BY <1>4, <2>1, <2>3
  <1> QED BY <1>1, <1>5, <1>6 DEF Input!TouchesInv, Input!DpadInv

-----------------------------------------------------------------------------
(* What the pads are told: streamconnection.c and streamsession.cpp        *)

\* The constants of the pads' effects.
LEMMA EffectsConstants ==
  /\ EffectsDual \subseteq EffectsPads /\ 0 \in EffectsLooks /\ EffectsPackets \in Nat \ {0}
  /\ EffectsMax \in Nat
BY PartsAssumption DEF Effects!PadEffectsConstantsOK

\* The marks of a sequence that gets one more.
LEMMA MarksAppended ==
  ASSUME NEW P, NEW s \in Seq(P), NEW e \in P, NEW mark
  PROVE  /\ Append(s, e) \in Seq(P)
         /\ Effects!NoneOf(Append(s, e), mark)
              <=> Effects!NoneOf(s, mark) /\ Effects!Mark(e) # mark
PROOF
  <1> DEFINE a == Append(s, e)
  <1>1. /\ a \in Seq(P) /\ DOMAIN s = 1..Len(s) /\ DOMAIN a = 1..(Len(s) + 1)
        /\ Len(s) \in Nat /\ a[Len(s) + 1] = e /\ \A i \in 1..Len(s) : a[i] = s[i]
    OBVIOUS
  <1> HIDE DEF a
  <1>2. 1..(Len(s) + 1) = 1..Len(s) \cup {Len(s) + 1}
    BY <1>1
  <1>3. Effects!NoneOf(a, mark) <=> Effects!NoneOf(s, mark) /\ Effects!Mark(e) # mark
    BY <1>1, <1>2 DEF Effects!NoneOf
  <1> QED BY <1>1, <1>3 DEF a

\* What the last of a mark says, of a sequence that gets one more,
LEMMA LastAppended ==
  ASSUME NEW P, NEW s \in Seq(P), NEW e \in P, NEW mark, NEW value,
         IF Effects!Mark(e) = mark THEN e.value = value ELSE Effects!LastSays(s, mark, value)
  PROVE  Effects!LastSays(Append(s, e), mark, value)
PROOF
  <1> DEFINE a == Append(s, e)
             n == Len(s)
  <1>1. /\ DOMAIN s = 1..n /\ DOMAIN a = 1..(n + 1)
        /\ n \in Nat /\ a[n + 1] = e /\ \A i \in 1..n : a[i] = s[i]
    OBVIOUS
  <1> HIDE DEF a, n
  <1>2. SUFFICES ASSUME NEW i \in 1..(n + 1), Effects!Mark(a[i]) = mark,
                        \A j \in 1..(n + 1) : j > i => Effects!Mark(a[j]) # mark
                 PROVE  a[i].value = value
    BY <1>1 DEF Effects!LastSays, a
  <1>3. CASE i = n + 1
    BY <1>1, <1>2, <1>3
  <1>4. CASE i # n + 1
    <2>1. i \in 1..n /\ n + 1 \in 1..(n + 1) /\ n + 1 > i
      BY <1>1, <1>4
    <2>2. Effects!Mark(e) # mark
      BY <1>1, <1>2, <2>1
    <2>3. \A j \in 1..n : j > i => Effects!Mark(s[j]) # mark
      <3>1. \A j \in 1..n : j \in 1..(n + 1)
        BY <1>1
      <3> QED BY <1>1, <1>2, <3>1
    <2>4. Effects!Mark(s[i]) = mark /\ s[i] = a[i]
      BY <1>1, <1>2, <2>1
    <2> QED BY <1>1, <2>1, <2>2, <2>3, <2>4 DEF Effects!LastSays
  <1> QED BY <1>3, <1>4

\* or loses its first.
LEMMA MarksHead ==
  ASSUME NEW P, NEW s \in Seq(P), s # <<>>, NEW mark
  PROVE  /\ Head(s) \in P /\ Tail(s) \in Seq(P)
         /\ Effects!NoneOf(s, mark)
              <=> Effects!NoneOf(Tail(s), mark) /\ Effects!Mark(Head(s)) # mark
PROOF
  <1> DEFINE t == Tail(s)
             n == Len(s)
  <1>1. /\ t \in Seq(P) /\ DOMAIN s = 1..n /\ DOMAIN t = 1..(n - 1) /\ n \in Nat /\ n >= 1
        /\ Head(s) = s[1] /\ s[1] \in P /\ \A i \in 1..(n - 1) : t[i] = s[i + 1]
    OBVIOUS
  <1> HIDE DEF t, n
  <1>2. \A i \in 1..n : i = 1 \/ i - 1 \in 1..(n - 1)
    BY <1>1
  <1>3. \A i \in 1..(n - 1) : i + 1 \in 1..n /\ (i + 1) - 1 = i
    BY <1>1
  <1>4. \A i \in 1..n : i = 1 \/ s[i] = t[i - 1]
    BY <1>1, <1>2
  <1>5. 1 \in 1..n
    BY <1>1
  <1>6. Effects!NoneOf(s, mark) <=> Effects!NoneOf(t, mark) /\ Effects!Mark(Head(s)) # mark
    BY <1>1, <1>2, <1>3, <1>4, <1>5 DEF Effects!NoneOf
  <1> QED BY <1>1, <1>6 DEF t

\* The first one is what was last said, if there is no other of its mark.
LEMMA LastHead ==
  ASSUME NEW P, NEW s \in Seq(P), s # <<>>, NEW mark, NEW value,
         Effects!LastSays(s, mark, value)
  PROVE  /\ Effects!LastSays(Tail(s), mark, value)
         /\ Effects!NoneOf(Tail(s), mark) /\ Effects!Mark(Head(s)) = mark => Head(s).value = value
PROOF
  <1> DEFINE t == Tail(s)
             n == Len(s)
  <1>1. /\ t \in Seq(P) /\ DOMAIN s = 1..n /\ DOMAIN t = 1..(n - 1) /\ n \in Nat /\ n >= 1
        /\ Head(s) = s[1] /\ \A i \in 1..(n - 1) : t[i] = s[i + 1]
    OBVIOUS
  <1> HIDE DEF t, n
  <1>2. \A i \in 1..n : i = 1 \/ (i - 1 \in 1..(n - 1) /\ s[i] = t[i - 1])
    BY <1>1
  <1>3. ASSUME NEW i \in 1..(n - 1), Effects!Mark(t[i]) = mark,
               \A j \in 1..(n - 1) : j > i => Effects!Mark(t[j]) # mark
        PROVE  t[i].value = value
    <2>1. i + 1 \in 1..n /\ s[i + 1] = t[i]
      BY <1>1
    <2>2. ASSUME NEW j \in 1..n, j > i + 1 PROVE Effects!Mark(s[j]) # mark
      <3>1. j - 1 \in 1..(n - 1) /\ j - 1 > i /\ s[j] = t[j - 1]
        BY <1>1, <1>2, <2>2
      <3> QED BY <1>3, <3>1
    <2> QED BY <1>1, <1>3, <2>1, <2>2 DEF Effects!LastSays
  <1>4. Effects!LastSays(t, mark, value)
    BY <1>1, <1>3 DEF Effects!LastSays
  <1>5. ASSUME Effects!NoneOf(t, mark), Effects!Mark(Head(s)) = mark
        PROVE  Head(s).value = value
    <2>1. ASSUME NEW j \in 1..n, j > 1 PROVE Effects!Mark(s[j]) # mark
      <3>1. j - 1 \in 1..(n - 1) /\ s[j] = t[j - 1]
        BY <1>1, <1>2, <2>1
      <3> QED BY <1>1, <1>5, <3>1 DEF Effects!NoneOf
    <2>2. 1 \in 1..n
      BY <1>1
    <2> QED BY <1>1, <1>5, <2>1, <2>2 DEF Effects!LastSays
  <1> QED BY <1>4, <1>5 DEF t

\* The marks of two sequences, one after the other.
LEMMA MarksJoined ==
  ASSUME NEW P, NEW s \in Seq(P), NEW t \in Seq(P)
  PROVE  /\ s \o t \in Seq(P)
         /\ \A mark : Effects!NoneOf(s \o t, mark)
                        <=> Effects!NoneOf(s, mark) /\ Effects!NoneOf(t, mark)
         /\ \A k : Effects!NoLevel(s \o t, k)
                        <=> Effects!NoLevel(s, k) /\ Effects!NoLevel(t, k)
PROOF
  <1> DEFINE a == s \o t
             n == Len(s)
             m == Len(t)
  <1>1. /\ a \in Seq(P) /\ DOMAIN s = 1..n /\ DOMAIN t = 1..m /\ DOMAIN a = 1..(n + m)
        /\ n \in Nat /\ m \in Nat
        /\ \A i \in 1..n : a[i] = s[i]
        /\ \A i \in 1..m : a[n + i] = t[i]
    OBVIOUS
  <1> HIDE DEF a, n, m
  <1>2. \A i \in 1..(n + m) : i \in 1..n \/ (i - n \in 1..m /\ a[i] = t[i - n])
    <2>1. ASSUME NEW i \in 1..(n + m), i \notin 1..n PROVE i - n \in 1..m /\ a[i] = t[i - n]
      <3>1. i - n \in 1..m /\ n + (i - n) = i
        BY <1>1, <2>1
      <3> QED BY <1>1, <3>1
    <2> QED BY <2>1
  <1>3. (\A i \in 1..n : i \in 1..(n + m)) /\ (\A i \in 1..m : n + i \in 1..(n + m))
    BY <1>1
  <1>4. ASSUME NEW mark PROVE Effects!NoneOf(a, mark)
                        <=> Effects!NoneOf(s, mark) /\ Effects!NoneOf(t, mark)
    BY <1>1, <1>2, <1>3 DEF Effects!NoneOf
  <1>5. ASSUME NEW k PROVE Effects!NoLevel(a, k)
                        <=> Effects!NoLevel(s, k) /\ Effects!NoLevel(t, k)
    <2>1. ASSUME Effects!NoLevel(a, k) PROVE Effects!NoLevel(s, k) /\ Effects!NoLevel(t, k)
      BY <1>1, <1>3, <2>1 DEF Effects!NoLevel
    <2>2. ASSUME Effects!NoLevel(s, k), Effects!NoLevel(t, k) PROVE Effects!NoLevel(a, k)
      <3>1. ASSUME NEW i \in 1..(n + m) PROVE ~(a[i].is = "level" /\ a[i].kind = k)
        <4>1. CASE i \in 1..n
          BY <1>1, <2>2, <4>1 DEF Effects!NoLevel
        <4>2. CASE i - n \in 1..m /\ a[i] = t[i - n]
          BY <1>1, <2>2, <4>2 DEF Effects!NoLevel
        <4> QED BY <1>2, <4>1, <4>2
      <3> QED BY <1>1, <3>1 DEF Effects!NoLevel
    <2> QED BY <2>1, <2>2
  <1> QED BY <1>1, <1>4, <1>5 DEF a

\* The levels that are still to be sent, when the first event is sent.
LEMMA LevelsHead ==
  ASSUME NEW P, NEW s \in Seq(P), s # <<>>, NEW k
  PROVE  Effects!NoLevel(s, k)
           <=> Effects!NoLevel(Tail(s), k) /\ ~(Head(s).is = "level" /\ Head(s).kind = k)
PROOF
  <1> DEFINE t == Tail(s)
             n == Len(s)
  <1>1. /\ DOMAIN s = 1..n /\ DOMAIN t = 1..(n - 1) /\ n \in Nat /\ n >= 1
        /\ Head(s) = s[1] /\ \A i \in 1..(n - 1) : t[i] = s[i + 1]
    OBVIOUS
  <1> HIDE DEF t, n
  <1>2. \A i \in 1..n : i = 1 \/ (i - 1 \in 1..(n - 1) /\ s[i] = t[i - 1])
    BY <1>1
  <1>3. 1 \in 1..n /\ \A i \in 1..(n - 1) : i + 1 \in 1..n
    BY <1>1
  <1>4. ASSUME Effects!NoLevel(s, k)
        PROVE  Effects!NoLevel(t, k) /\ ~(Head(s).is = "level" /\ Head(s).kind = k)
    BY <1>1, <1>3, <1>4 DEF Effects!NoLevel
  <1>5. ASSUME Effects!NoLevel(t, k), ~(Head(s).is = "level" /\ Head(s).kind = k)
        PROVE  Effects!NoLevel(s, k)
    <2>1. ASSUME NEW i \in 1..n PROVE ~(s[i].is = "level" /\ s[i].kind = k)
      BY <1>1, <1>2, <1>5 DEF Effects!NoLevel
    <2> QED BY <1>1, <2>1 DEF Effects!NoLevel
  <1> QED BY <1>4, <1>5 DEF t

\* An event that is sent if something has changed.
LEMMA ChangedMarks ==
  ASSUME NEW P, NEW c \in BOOLEAN, NEW e, c => e \in P
  PROVE  LET s == IF c THEN <<e>> ELSE <<>>
         IN  /\ s \in Seq(P)
             /\ \A mark : Effects!NoneOf(s, mark) <=> ~c \/ Effects!Mark(e) # mark
             /\ \A k : Effects!NoLevel(s, k) <=> ~c \/ ~(e.is = "level" /\ e.kind = k)
PROOF
  <1>1. CASE c
    <2>1. <<e>> \in Seq(P) /\ DOMAIN <<e>> = {1} /\ <<e>>[1] = e
      BY <1>1
    <2> DEFINE one == <<e>>
    <2> HIDE DEF one
    <2>2. one \in Seq(P) /\ DOMAIN one = {1} /\ one[1] = e
      BY <2>1 DEF one
    <2>3. \A mark : Effects!NoneOf(one, mark) <=> Effects!Mark(e) # mark
      BY <2>2 DEF Effects!NoneOf
    <2>4. \A k : Effects!NoLevel(one, k) <=> ~(e.is = "level" /\ e.kind = k)
      BY <2>2 DEF Effects!NoLevel
    <2> QED BY <1>1, <2>2, <2>3, <2>4 DEF one
  <1>2. CASE ~c
    <2>1. <<>> \in Seq(P) /\ DOMAIN <<>> = {}
      OBVIOUS
    <2>2. /\ \A mark : Effects!NoneOf(<<>>, mark)
          /\ \A k : Effects!NoLevel(<<>>, k)
      BY DEF Effects!NoneOf, Effects!NoLevel
    <2> QED BY <1>2, <2>1, <2>2
  <1> QED BY <1>1, <1>2

\* What is nowhere in a sequence is not the last of it either.
LEMMA NoneLast ==
  ASSUME NEW s, NEW mark, NEW value, Effects!NoneOf(s, mark)
  PROVE  Effects!LastSays(s, mark, value)
BY DEF Effects!NoneOf, Effects!LastSays

\* What the pads and the manager are told, as records.
LookRecords == [led : EffectsLooks, index : EffectsLooks, level : [Effects!Kinds -> Effects!Levels]]

\* The console tells the looks and the levels: what changes becomes an event.
LEMMA PadInfoKeeps ==
  ASSUME Effects!EffectsInv, NEW info \in LookRecords, Effects!PadInfo(info)
  PROVE  Effects!EffectsInv'
PROOF
  <1> DEFINE Lev(k) == IF info.level[k] # s1.level[k]
                       THEN <<[is |-> "level", kind |-> k, value |-> info.level[k]]>> ELSE <<>>
             led == IF info.led # s1.led THEN <<[is |-> "led", value |-> info.led]>> ELSE <<>>
             ind == IF info.index # s1.index
                    THEN <<[is |-> "index", value |-> info.index]>> ELSE <<>>
             D == Effects!Due'
             lr == Lev("rumble")
             lt == Lev("trigger")
  <1>1. /\ s3 = <<>> /\ s1' = info /\ s3' = ((lr \o lt) \o led) \o ind
        /\ s11' = (s11 \/ info.level # s1.level)
        /\ UNCHANGED <<s2, s4, s5, s6, s7, s8, s9, s10>>
    BY DEF Effects!PadInfo
  <1>2. /\ Effects!EffectsTypeInv /\ Effects!ToSendInv
        /\ s5 \in Seq(Effects!PostedEvents) /\ Effects!LooksInv /\ Effects!EndsInv
        /\ Effects!LevelInv
    BY DEF Effects!EffectsInv
  <1>3. /\ info.led \in EffectsLooks /\ info.index \in EffectsLooks
        /\ info.level \in [Effects!Kinds -> Effects!Levels]
        /\ s1.level \in [Effects!Kinds -> Effects!Levels] /\ Effects!Kinds = {"rumble", "trigger"}
    BY <1>2 DEF LookRecords, Effects!EffectsTypeInv, Effects!Kinds
  <1>4. \A mark : Effects!NoneOf(s3, mark)
    <2>1. s3 = <<>>
      BY <1>1
    <2>2. DOMAIN s3 = {}
      BY <2>1
    <2> QED BY <2>2 DEF Effects!NoneOf
  <1>5. \A k : Effects!NoLevel(s3, k)
    BY <1>1 DEF Effects!NoLevel
  <1>6. /\ s4.led = s1.led /\ s4.index = s1.index
        /\ \A k \in Effects!Kinds : s4.level[k] = s1.level[k]
    BY <1>2, <1>4, <1>5 DEF Effects!ToSendInv
  <1> DEFINE eLev(k) == [is |-> "level", kind |-> k, value |-> info.level[k]]
             eLed == [is |-> "led", value |-> info.led]
             eInd == [is |-> "index", value |-> info.index]
  <1>7. \A k \in Effects!Kinds : eLev(k) \in D
    BY <1>1, <1>3 DEF Effects!Due, Effects!TakionEvents
  <1>8. eLed \in D /\ eInd \in D
    BY <1>1, <1>3 DEF Effects!Due, Effects!TakionEvents
  <1>9. /\ \A k : Effects!Mark(eLev(k)) = "level" /\ eLev(k).is = "level" /\ eLev(k).kind = k
        /\ Effects!Mark(eLed) = "led" /\ eLed.is = "led"
        /\ Effects!Mark(eInd) = "index" /\ eInd.is = "index"
    BY DEF Effects!Mark
  <1> HIDE DEF eLev, eLed, eInd, D
  <1>10. \A k \in Effects!Kinds :
           /\ Lev(k) \in Seq(D)
           /\ \A mark : Effects!NoneOf(Lev(k), mark)
                          <=> info.level[k] = s1.level[k] \/ mark # "level"
           /\ \A j : Effects!NoLevel(Lev(k), j) <=> info.level[k] = s1.level[k] \/ j # k
    <2>1. SUFFICES ASSUME NEW k \in Effects!Kinds
                   PROVE  /\ Lev(k) \in Seq(D)
                          /\ \A mark : Effects!NoneOf(Lev(k), mark)
                                         <=> info.level[k] = s1.level[k] \/ mark # "level"
                          /\ \A j : Effects!NoLevel(Lev(k), j)
                                         <=> info.level[k] = s1.level[k] \/ j # k
      OBVIOUS
    <2> DEFINE c == info.level[k] # s1.level[k]
    <2>2. Lev(k) = IF c THEN <<eLev(k)>> ELSE <<>>
      BY DEF eLev
    <2>3. c \in BOOLEAN
      OBVIOUS
    <2> HIDE DEF Lev
    <2>4. /\ Lev(k) \in Seq(D)
          /\ \A mark : Effects!NoneOf(Lev(k), mark) <=> ~c \/ Effects!Mark(eLev(k)) # mark
          /\ \A j : Effects!NoLevel(Lev(k), j)
                      <=> ~c \/ ~(eLev(k).is = "level" /\ eLev(k).kind = j)
      <3> HIDE DEF c
      <3> QED BY <1>7, <2>2, <2>3, ChangedMarks
    <2> QED BY <1>9, <2>4
  <1>11. /\ led \in Seq(D)
         /\ \A mark : Effects!NoneOf(led, mark) <=> info.led = s1.led \/ mark # "led"
         /\ \A j : Effects!NoLevel(led, j)
    <2> DEFINE c == info.led # s1.led
    <2>1. led = IF c THEN <<eLed>> ELSE <<>>
      BY DEF eLed
    <2>2. c \in BOOLEAN
      OBVIOUS
    <2> HIDE DEF led
    <2>3. /\ led \in Seq(D)
          /\ \A mark : Effects!NoneOf(led, mark) <=> ~c \/ Effects!Mark(eLed) # mark
          /\ \A j : Effects!NoLevel(led, j) <=> ~c \/ ~(eLed.is = "level" /\ eLed.kind = j)
      <3> HIDE DEF c
      <3> QED BY <1>8, <2>1, <2>2, ChangedMarks
    <2> QED BY <1>9, <2>3
  <1>12. /\ ind \in Seq(D)
         /\ \A mark : Effects!NoneOf(ind, mark) <=> info.index = s1.index \/ mark # "index"
         /\ \A j : Effects!NoLevel(ind, j)
    <2> DEFINE c == info.index # s1.index
    <2>1. ind = IF c THEN <<eInd>> ELSE <<>>
      BY DEF eInd
    <2>2. c \in BOOLEAN
      OBVIOUS
    <2> HIDE DEF ind
    <2>3. /\ ind \in Seq(D)
          /\ \A mark : Effects!NoneOf(ind, mark) <=> ~c \/ Effects!Mark(eInd) # mark
          /\ \A j : Effects!NoLevel(ind, j) <=> ~c \/ ~(eInd.is = "level" /\ eInd.kind = j)
      <3> HIDE DEF c
      <3> QED BY <1>8, <2>1, <2>2, ChangedMarks
    <2> QED BY <1>9, <2>3
  <1> HIDE DEF lr, lt, led, ind
  <1>13. /\ lr \in Seq(D)
         /\ \A mark : Effects!NoneOf(lr, mark)
                        <=> info.level["rumble"] = s1.level["rumble"] \/ mark # "level"
         /\ \A j : Effects!NoLevel(lr, j)
                        <=> info.level["rumble"] = s1.level["rumble"] \/ j # "rumble"
         /\ lt \in Seq(D)
         /\ \A mark : Effects!NoneOf(lt, mark)
                        <=> info.level["trigger"] = s1.level["trigger"] \/ mark # "level"
         /\ \A j : Effects!NoLevel(lt, j)
                        <=> info.level["trigger"] = s1.level["trigger"] \/ j # "trigger"
    BY <1>3, <1>10 DEF lr, lt
  <1>14. /\ s3' \in Seq(D)
         /\ \A mark : Effects!NoneOf(s3', mark)
                        <=> /\ Effects!NoneOf(lr, mark) /\ Effects!NoneOf(lt, mark)
                            /\ Effects!NoneOf(led, mark) /\ Effects!NoneOf(ind, mark)
         /\ \A j : Effects!NoLevel(s3', j)
                     <=> /\ Effects!NoLevel(lr, j) /\ Effects!NoLevel(lt, j)
                         /\ Effects!NoLevel(led, j) /\ Effects!NoLevel(ind, j)
    <2>1. /\ lr \o lt \in Seq(D)
          /\ \A mark : Effects!NoneOf(lr \o lt, mark)
                         <=> Effects!NoneOf(lr, mark) /\ Effects!NoneOf(lt, mark)
          /\ \A k : Effects!NoLevel(lr \o lt, k)
                         <=> Effects!NoLevel(lr, k) /\ Effects!NoLevel(lt, k)
      BY <1>13, MarksJoined
    <2>2. /\ (lr \o lt) \o led \in Seq(D)
          /\ \A mark : Effects!NoneOf((lr \o lt) \o led, mark)
                         <=> Effects!NoneOf(lr \o lt, mark) /\ Effects!NoneOf(led, mark)
          /\ \A k : Effects!NoLevel((lr \o lt) \o led, k)
                         <=> Effects!NoLevel(lr \o lt, k) /\ Effects!NoLevel(led, k)
      BY <1>11, <2>1, MarksJoined
    <2>3. /\ s3' \in Seq(D)
          /\ \A mark : Effects!NoneOf(s3', mark)
                         <=> Effects!NoneOf((lr \o lt) \o led, mark) /\ Effects!NoneOf(ind, mark)
          /\ \A k : Effects!NoLevel(s3', k)
                         <=> Effects!NoLevel((lr \o lt) \o led, k) /\ Effects!NoLevel(ind, k)
      BY <1>1, <1>12, <2>2, MarksJoined
    <2> QED BY <2>1, <2>2, <2>3
  <1>15. Effects!ToSendInv'
    <2>1. s4' = s4 /\ s1' = info
      BY <1>1
    <2>2. Effects!NoneOf(s3', "led") => s4'.led = s1'.led
      BY <1>6, <1>11, <1>14, <2>1
    <2>3. Effects!NoneOf(s3', "index") => s4'.index = s1'.index
      BY <1>6, <1>12, <1>14, <2>1
    <2>4. ASSUME NEW k \in Effects!Kinds, Effects!NoLevel(s3', k)
          PROVE  s4'.level[k] = s1'.level[k]
      BY <1>3, <1>6, <1>13, <1>14, <2>1, <2>4
    <2>5. s3' \in Seq(Effects!Due')
      BY <1>14 DEF D
    <2> QED BY <2>2, <2>3, <2>4, <2>5 DEF Effects!ToSendInv, Effects!NoneOf, Effects!NoLevel,
            Effects!Mark, Effects!Kinds
  <1>16. Effects!EffectsTypeInv'
    <2>1. s11' \in BOOLEAN /\ {s1', s4'} \subseteq LookRecords
      BY <1>1, <1>2 DEF Effects!EffectsTypeInv, LookRecords
    <2> QED BY <1>1, <1>2, <2>1 DEF Effects!EffectsTypeInv, LookRecords, Effects!Kinds,
            Effects!Levels
  <1>17. Effects!LevelInv'
    <2>1. SUFFICES ASSUME s11', Effects!NoneOf(s3', "level")
                   PROVE  /\ Effects!LastSays(s5, "level", s4.level)
                          /\ Effects!NoneOf(s5, "level") => s6 = s4.level
      BY <1>1 DEF Effects!LevelInv, Effects!NoneOf, Effects!Mark, Effects!LastSays
    <2>2. \A k \in Effects!Kinds : info.level[k] = s1.level[k]
      BY <1>3, <1>13, <1>14, <2>1
    <2>3. info.level = s1.level
      BY <1>3, <2>2
    <2> QED BY <1>1, <1>2, <1>4, <2>1, <2>3 DEF Effects!LevelInv
  <1>18. Effects!LooksInv' /\ (s5 \in Seq(Effects!PostedEvents))'
    BY <1>1, <1>2 DEF Effects!LooksInv, Effects!PostedEvents, Effects!NoneOf, Effects!Mark,
       Effects!LastSays, Effects!Kinds, Effects!Levels
  <1>19. Effects!EndsInv'
    <2>1. SUFFICES ASSUME NEW k \in Effects!Kinds \ s10, Effects!NoneOf(s3', k)
                   PROVE  /\ Effects!LastSays(s5, k, s2[k])
                          /\ Effects!NoneOf(s5, k) =>
                               \A p \in DOMAIN s7 : s7[p].effect[k] = 1
                                 => s2[k] = 1 \/ (k = "rumble" /\ Effects!Unfinished)
      <3>1. UNCHANGED <<s2, s5, s7, s8, s9, s10>>
        BY <1>1
      <3> QED BY <3>1 DEF Effects!EndsInv, Effects!NoneOf, Effects!Mark, Effects!LastSays,
              Effects!Unfinished
    <2>2. Effects!NoneOf(s3, k)
      BY <1>4
    <2> QED BY <1>2, <2>2 DEF Effects!EndsInv
  <1> QED BY <1>15, <1>16, <1>17, <1>18, <1>19 DEF Effects!EffectsInv

\* The parts of the invariant, and what it says of the looks.
LEMMA EffectsParts ==
  ASSUME Effects!EffectsInv
  PROVE  /\ Effects!EffectsTypeInv /\ Effects!ToSendInv
         /\ s5 \in Seq(Effects!PostedEvents) /\ Effects!LooksInv /\ Effects!EndsInv
         /\ Effects!LevelInv
         /\ s1 \in LookRecords /\ s4 \in LookRecords
         /\ s2 \in [Effects!Kinds -> {0, 1}] /\ s8 \in Nat /\ s9 \in BOOLEAN /\ s11 \in BOOLEAN
BY DEF Effects!EffectsInv, Effects!EffectsTypeInv, LookRecords

\* The sets of the instance do not change with the state.
LEMMA EffectsSets ==
  /\ Effects!Kinds' = Effects!Kinds /\ Effects!PostedEvents' = Effects!PostedEvents
  /\ Effects!Kinds = {"rumble", "trigger"}
BY DEF Effects!Kinds, Effects!PostedEvents, Effects!Levels

\* The console tells an effect.
LEMMA EffectKeeps ==
  ASSUME Effects!EffectsInv, NEW k \in Effects!Kinds, NEW v \in {0, 1}, Effects!Effect(k, v)
  PROVE  Effects!EffectsInv'
PROOF
  <1> DEFINE e == [is |-> "effect", kind |-> k, value |-> v]
  <1>1. /\ s3 = <<>> /\ s2' = [s2 EXCEPT ![k] = v] /\ s3' = <<e>>
        /\ UNCHANGED <<s1, s4, s5, s6, s7, s8, s9, s10, s11>>
    BY DEF Effects!Effect
  <1>2. s2' \in [Effects!Kinds -> {0, 1}] /\ s2'[k] = v
        /\ \A j \in Effects!Kinds : j # k => s2'[j] = s2[j]
    BY <1>1, EffectsParts
  <1>3. e \in Effects!Due'
    BY <1>1, <1>2 DEF Effects!Due, Effects!TakionEvents
  <1>4. Effects!Mark(e) = k /\ e.is = "effect"
    BY DEF Effects!Mark
  <1> HIDE DEF e
  <1>5. DOMAIN <<e>> = {1} /\ <<e>>[1] = e
    OBVIOUS
  <1>6. /\ s3' \in Seq(Effects!Due')
        /\ \A mark : Effects!NoneOf(s3', mark) <=> k # mark
        /\ \A j : Effects!NoLevel(s3', j)
    <2>1. s3' \in Seq(Effects!Due')
      BY <1>1, <1>3
    <2>2. DOMAIN s3' = {1} /\ s3'[1] = e
      BY <1>1, <1>5
    <2>3. \A mark : Effects!NoneOf(s3', mark) <=> k # mark
      BY <1>4, <2>2 DEF Effects!NoneOf
    <2>4. \A j : Effects!NoLevel(s3', j)
      BY <1>4, <2>2 DEF Effects!NoLevel
    <2> QED BY <2>1, <2>3, <2>4
  <1>7. (\A mark : Effects!NoneOf(s3, mark)) /\ (\A j : Effects!NoLevel(s3, j))
    BY <1>1 DEF Effects!NoneOf, Effects!NoLevel
  <1>8. Effects!ToSendInv'
    BY <1>1, <1>6, <1>7, EffectsParts DEF Effects!ToSendInv, Effects!NoneOf, Effects!NoLevel,
       Effects!Mark, Effects!Kinds
  <1>9. Effects!EffectsTypeInv'
    BY <1>1, <1>2, EffectsParts DEF Effects!EffectsTypeInv, Effects!Kinds, Effects!Levels
  <1>10. Effects!LooksInv' /\ (s5 \in Seq(Effects!PostedEvents))'
    BY <1>1, EffectsParts, EffectsSets DEF Effects!LooksInv, Effects!NoneOf, Effects!Mark,
       Effects!LastSays
  <1>11. Effects!LevelInv'
    BY <1>1, <1>7, EffectsParts DEF Effects!LevelInv, Effects!NoneOf, Effects!Mark,
       Effects!LastSays
  <1>12. Effects!EndsInv'
    <2>1. SUFFICES ASSUME NEW j \in Effects!Kinds \ s10, Effects!NoneOf(s3', j)
                   PROVE  /\ Effects!LastSays(s5, j, s2'[j])
                          /\ Effects!NoneOf(s5, j) =>
                               \A p \in DOMAIN s7 : s7[p].effect[j] = 1
                                 => s2'[j] = 1 \/ (j = "rumble" /\ Effects!Unfinished)
      BY <1>1, EffectsSets DEF Effects!EndsInv, Effects!NoneOf, Effects!Mark, Effects!LastSays,
         Effects!Unfinished
    <2>2. j # k /\ s2'[j] = s2[j]
      BY <1>2, <1>6, <2>1
    <2> QED BY <1>7, <2>1, <2>2, EffectsParts DEF Effects!EndsInv
  <1> QED BY <1>8, <1>9, <1>10, <1>11, <1>12 DEF Effects!EffectsInv

\* StreamSession meets the next event.
LEMMA EventKeeps ==
  ASSUME Effects!EffectsInv, Effects!Event
  PROVE  Effects!EffectsInv'
PROOF
  <1> DEFINE e == Head(s3)
             D == Effects!Due
             P == Effects!PostedEvents
  <1>1. /\ s3 # <<>> /\ s3' = Tail(s3)
        /\ s4' = CASE e.is = "level" -> Effects!Leveled(e)
                   [] e.is = "led" -> [s4 EXCEPT !.led = e.value]
                   [] e.is = "index" -> [s4 EXCEPT !.index = e.value]
                   [] OTHER -> s4
        /\ s5' = CASE e.is = "level" -> Append(s5, [is |-> "level", value |-> s4'.level])
                   [] Effects!Dropped(e) -> s5
                   [] OTHER -> Append(s5, e)
        /\ s10' = IF e.is # "effect" THEN s10
                  ELSE IF Effects!Dropped(e) THEN s10 \cup {e.kind} ELSE s10 \ {e.kind}
        /\ UNCHANGED <<s1, s2, s6, s7, s8, s9, s11>>
    BY DEF Effects!Event
  <1>2. s3 \in Seq(D)
    BY EffectsParts DEF Effects!ToSendInv
  <1>3. /\ e \in D /\ s3' \in Seq(D)
        /\ \A mark : Effects!NoneOf(s3, mark)
                       <=> Effects!NoneOf(s3', mark) /\ Effects!Mark(e) # mark
        /\ \A k : Effects!NoLevel(s3, k)
                       <=> Effects!NoLevel(s3', k) /\ ~(e.is = "level" /\ e.kind = k)
    <2> HIDE DEF D
    <2> QED BY <1>1, <1>2, MarksHead, LevelsHead
  <1>4. /\ e \in Effects!TakionEvents
        /\ e.is = "led" => e.value = s1.led
        /\ e.is = "index" => e.value = s1.index
        /\ e.is = "level" => e.value = s1.level[e.kind]
        /\ e.is = "effect" => e.value = s2[e.kind]
    BY <1>3 DEF Effects!Due
  <1>5. /\ e.is \in {"led", "index", "level", "effect"}
        /\ e.is \in {"level", "effect"} => e.kind \in Effects!Kinds
        /\ e.is # "effect" => Effects!Mark(e) = e.is
        /\ e.is = "effect" => Effects!Mark(e) = e.kind
        /\ e.is \in {"led", "index", "effect"} => e \in P
    BY <1>4 DEF Effects!TakionEvents, Effects!PostedEvents, Effects!Mark
  <1> HIDE DEF e, P, D
  <1>6. /\ s1 \in LookRecords /\ s4 \in LookRecords /\ s2 \in [Effects!Kinds -> {0, 1}]
        /\ s5 \in Seq(P)
    BY EffectsParts DEF P
  <1>7. /\ s4' \in LookRecords
        /\ s4'.led = IF e.is = "led" THEN s1.led ELSE s4.led
        /\ s4'.index = IF e.is = "index" THEN s1.index ELSE s4.index
        /\ \A k \in Effects!Kinds :
             s4'.level[k] = IF e.is = "level" /\ e.kind = k THEN s1.level[k] ELSE s4.level[k]
        /\ e.is # "level" => s4'.level = s4.level
    <2>1. CASE e.is = "level"
      <3>1. s4' = [s4 EXCEPT !.level[e.kind] = s1.level[e.kind]]
        BY <1>1, <1>4, <2>1 DEF Effects!Leveled
      <3> QED BY <1>5, <1>6, <2>1, <3>1 DEF LookRecords
    <2>2. CASE e.is = "led"
      <3>1. s4' = [s4 EXCEPT !.led = s1.led]
        BY <1>1, <1>4, <2>2
      <3> QED BY <1>6, <2>2, <3>1 DEF LookRecords
    <2>3. CASE e.is = "index"
      <3>1. s4' = [s4 EXCEPT !.index = s1.index]
        BY <1>1, <1>4, <2>3
      <3> QED BY <1>6, <2>3, <3>1 DEF LookRecords
    <2>4. CASE e.is = "effect"
      <3>1. s4' = s4
        BY <1>1, <2>4
      <3> QED BY <1>6, <2>4, <3>1
    <2> QED BY <1>5, <2>1, <2>2, <2>3, <2>4
  <1> DEFINE l == [is |-> "level", value |-> s4'.level]
  <1>8. l \in P /\ Effects!Mark(l) = "level" /\ l.value = s4'.level
    BY <1>7 DEF Effects!PostedEvents, Effects!Mark, LookRecords, P
  <1> HIDE DEF l
  <1>9. \/ e.is = "level" /\ s5' = Append(s5, l) /\ s10' = s10
        \/ e.is \in {"led", "index"} /\ s5' = Append(s5, e) /\ s10' = s10
        \/ e.is = "effect" /\ s5' = s5 /\ s10' = s10 \cup {e.kind}
        \/ e.is = "effect" /\ s5' = Append(s5, e) /\ s10' = s10 \ {e.kind}
    BY <1>1, <1>5 DEF Effects!Dropped, l
  <1>10. Effects!Due' = D
    BY <1>1 DEF Effects!Due, D, Effects!TakionEvents, Effects!Kinds, Effects!Levels
  <1>11. Effects!ToSendInv'
    <2>1. /\ Effects!NoneOf(s3, "led") => s4.led = s1.led
          /\ Effects!NoneOf(s3, "index") => s4.index = s1.index
          /\ \A k \in Effects!Kinds : Effects!NoLevel(s3, k) => s4.level[k] = s1.level[k]
      BY EffectsParts DEF Effects!ToSendInv
    <2>2. s1' = s1
      BY <1>1
    <2>3. Effects!NoneOf(s3', "led") => s4'.led = s1'.led
      BY <1>3, <1>5, <1>7, <2>1, <2>2, EffectsSets
    <2>4. Effects!NoneOf(s3', "index") => s4'.index = s1'.index
      BY <1>3, <1>5, <1>7, <2>1, <2>2, EffectsSets
    <2>5. \A k \in Effects!Kinds : Effects!NoLevel(s3', k) => s4'.level[k] = s1'.level[k]
      BY <1>3, <1>7, <2>1, <2>2
    <2> QED BY <1>3, <1>10, <2>3, <2>4, <2>5, EffectsSets DEF Effects!ToSendInv, Effects!NoneOf,
            Effects!NoLevel, Effects!Mark
  <1>12. Effects!EffectsTypeInv'
    BY <1>1, <1>6, <1>7, EffectsParts DEF Effects!EffectsTypeInv, LookRecords, Effects!Kinds,
       Effects!Levels
  <1>13. s5' \in Seq(P)
    BY <1>5, <1>6, <1>8, <1>9
  <1>14. Effects!LooksInv'
    <2>1. /\ Effects!LastSays(s5, "led", s4.led)
          /\ \A p \in DOMAIN s7 : ~s7[p].fresh =>
               /\ Effects!NoneOf(s5, "led") => s7[p].led = s4.led
               /\ Effects!NoneOf(s5, "index") => s7[p].index = s4.index
      BY EffectsParts DEF Effects!LooksInv
    <2>2. /\ Effects!LastSays(s5', "led", s4'.led)
          /\ Effects!NoneOf(s5', "led") => Effects!NoneOf(s5, "led") /\ s4'.led = s4.led
          /\ Effects!NoneOf(s5', "index") => Effects!NoneOf(s5, "index") /\ s4'.index = s4.index
      <3>1. CASE e.is = "level" /\ s5' = Append(s5, l)
        <4>1. /\ Effects!LastSays(s5', "led", s4.led)
              /\ Effects!NoneOf(s5', "led") => Effects!NoneOf(s5, "led")
              /\ Effects!NoneOf(s5', "index") => Effects!NoneOf(s5, "index")
          BY <1>6, <1>8, <2>1, <3>1, LastAppended, MarksAppended
        <4> QED BY <1>7, <3>1, <4>1
      <3>2. CASE e.is = "led" /\ s5' = Append(s5, e)
        <4>1. e \in P /\ Effects!Mark(e) = "led" /\ e.value = s4'.led /\ s4'.index = s4.index
          BY <1>4, <1>5, <1>7, <3>2
        <4>2. /\ Effects!LastSays(s5', "led", s4'.led)
              /\ ~Effects!NoneOf(s5', "led")
              /\ Effects!NoneOf(s5', "index") => Effects!NoneOf(s5, "index")
          BY <1>6, <3>2, <4>1, LastAppended, MarksAppended
        <4> QED BY <4>1, <4>2
      <3>3. CASE e.is = "index" /\ s5' = Append(s5, e)
        <4>1. e \in P /\ Effects!Mark(e) = "index" /\ s4'.led = s4.led
          BY <1>5, <1>7, <3>3
        <4>2. /\ Effects!LastSays(s5', "led", s4.led)
              /\ Effects!NoneOf(s5', "led") => Effects!NoneOf(s5, "led")
              /\ ~Effects!NoneOf(s5', "index")
          BY <1>6, <2>1, <3>3, <4>1, LastAppended, MarksAppended
        <4> QED BY <4>1, <4>2
      <3>4. CASE e.is = "effect" /\ s5' = s5
        BY <1>7, <2>1, <3>4
      <3>5. CASE e.is = "effect" /\ s5' = Append(s5, e)
        <4>1. e \in P /\ Effects!Mark(e) # "led" /\ Effects!Mark(e) # "index"
          BY <1>5, <3>5, EffectsSets
        <4>2. /\ Effects!LastSays(s5', "led", s4.led)
              /\ Effects!NoneOf(s5', "led") => Effects!NoneOf(s5, "led")
              /\ Effects!NoneOf(s5', "index") => Effects!NoneOf(s5, "index")
          BY <1>6, <2>1, <3>5, <4>1, LastAppended, MarksAppended
        <4> QED BY <1>7, <3>5, <4>2
      <3> QED BY <1>5, <1>9, <3>1, <3>2, <3>3, <3>4, <3>5
    <2>3. s7' = s7
      BY <1>1
    <2> QED BY <2>1, <2>2, <2>3 DEF Effects!LooksInv, Effects!NoneOf, Effects!Mark,
            Effects!LastSays
  <1>15. Effects!LevelInv'
    <2>1. SUFFICES ASSUME s11, Effects!NoneOf(s3', "level")
                   PROVE  /\ Effects!LastSays(s5', "level", s4'.level)
                          /\ Effects!NoneOf(s5', "level") => s6 = s4'.level
      BY <1>1 DEF Effects!LevelInv, Effects!NoneOf, Effects!Mark, Effects!LastSays
    <2>2. CASE e.is = "level" /\ s5' = Append(s5, l)
      <3>1. Effects!LastSays(s5', "level", s4'.level) /\ ~Effects!NoneOf(s5', "level")
        BY <1>6, <1>8, <2>2, LastAppended, MarksAppended
      <3> QED BY <3>1
    <2>3. CASE e.is # "level"
      <3>1. Effects!Mark(e) # "level" /\ s4'.level = s4.level
        BY <1>5, <1>7, <2>3, EffectsSets
      <3>2. Effects!NoneOf(s3, "level")
        BY <1>3, <2>1, <3>1
      <3>3. /\ Effects!LastSays(s5, "level", s4.level)
            /\ Effects!NoneOf(s5, "level") => s6 = s4.level
        BY <2>1, <3>2, EffectsParts DEF Effects!LevelInv
      <3>4. CASE s5' = s5
        BY <3>1, <3>3, <3>4
      <3>5. CASE s5' = Append(s5, e) /\ e \in P
        <4>1. /\ Effects!LastSays(s5', "level", s4.level)
              /\ Effects!NoneOf(s5', "level") => Effects!NoneOf(s5, "level")
          BY <1>6, <3>1, <3>3, <3>5, LastAppended, MarksAppended
        <4> QED BY <3>1, <3>3, <4>1
      <3> QED BY <1>5, <1>9, <2>3, <3>4, <3>5
    <2> QED BY <1>9, <2>2, <2>3
  <1>16. Effects!EndsInv'
    <2> DEFINE Ends(s, k) ==
          /\ Effects!LastSays(s, k, s2[k])
          /\ Effects!NoneOf(s, k) =>
               \A p \in DOMAIN s7 : s7[p].effect[k] = 1
                 => s2[k] = 1 \/ (k = "rumble" /\ Effects!Unfinished)
    <2>1. SUFFICES ASSUME NEW k \in Effects!Kinds \ s10', Effects!NoneOf(s3', k)
                   PROVE  Ends(s5', k)
      BY <1>1, EffectsSets DEF Effects!EndsInv, Effects!NoneOf, Effects!Mark, Effects!LastSays,
         Effects!Unfinished
    <2>2. CASE e.is = "effect" /\ e.kind = k
      <3>1. s5' = Append(s5, e) /\ e \in P /\ Effects!Mark(e) = k /\ e.value = s2[k]
        BY <1>4, <1>5, <1>9, <2>1, <2>2
      <3>2. Effects!LastSays(s5', k, s2[k]) /\ ~Effects!NoneOf(s5', k)
        BY <1>6, <3>1, LastAppended, MarksAppended
      <3> QED BY <3>2
    <2>3. CASE ~(e.is = "effect" /\ e.kind = k)
      <3>1. Effects!Mark(e) # k /\ k \notin s10
        BY <1>5, <1>9, <2>1, <2>3, EffectsSets
      <3>2. Effects!NoneOf(s3, k)
        BY <1>3, <2>1, <3>1
      <3>3. Ends(s5, k)
        BY <2>1, <3>1, <3>2, EffectsParts DEF Effects!EndsInv
      <3>4. CASE s5' = s5
        BY <3>3, <3>4
      <3>5. ASSUME NEW x \in P, s5' = Append(s5, x), Effects!Mark(x) # k PROVE Ends(s5', k)
        <4>1. /\ Effects!LastSays(s5', k, s2[k])
              /\ Effects!NoneOf(s5', k) => Effects!NoneOf(s5, k)
          BY <1>6, <3>3, <3>5, LastAppended, MarksAppended
        <4> QED BY <3>3, <4>1
      <3>6. "level" # k
        BY <2>1, EffectsSets
      <3> HIDE DEF Ends
      <3>7. CASE s5' = Append(s5, l)
        BY <1>8, <3>5, <3>6, <3>7
      <3>8. CASE s5' = Append(s5, e) /\ e \in P
        BY <3>1, <3>5, <3>8
      <3> QED BY <1>5, <1>9, <3>4, <3>7, <3>8
    <2> QED BY <2>2, <2>3
  <1> QED BY <1>11, <1>12, <1>13, <1>14, <1>15, <1>16, EffectsSets DEF Effects!EffectsInv, P

\* What a step keeps that changes neither what is to be sent nor what is known.
LEMMA EffectsStill ==
  ASSUME Effects!EffectsInv, UNCHANGED <<s1, s2, s3, s4, s10, s11>>
  PROVE  /\ Effects!ToSendInv'
         /\ Effects!Unfinished' = (s9' \/ s8' > 0)
BY EffectsParts, EffectsSets DEF Effects!ToSendInv, Effects!NoneOf, Effects!NoLevel,
   Effects!Mark, Effects!Due, Effects!TakionEvents, Effects!Kinds, Effects!Levels,
   Effects!Unfinished

\* The parts of the invariant after a step, in what they read then.
LEMMA LooksNext ==
  Effects!LooksInv' <=>
    /\ Effects!LastSays(s5', "led", s4'.led)
    /\ \A p \in DOMAIN s7' : ~s7'[p].fresh =>
         /\ Effects!NoneOf(s5', "led") => s7'[p].led = s4'.led
         /\ Effects!NoneOf(s5', "index") => s7'[p].index = s4'.index
BY DEF Effects!LooksInv, Effects!NoneOf, Effects!LastSays, Effects!Mark

\* The same of the intensities,
LEMMA LevelNext ==
  Effects!LevelInv' <=>
    (s11' /\ Effects!NoneOf(s3', "level") =>
       /\ Effects!LastSays(s5', "level", s4'.level)
       /\ Effects!NoneOf(s5', "level") => s6' = s4'.level)
BY DEF Effects!LevelInv, Effects!NoneOf, Effects!LastSays, Effects!Mark

\* and of the effects.
LEMMA EndsNext ==
  Effects!EndsInv' <=>
    \A k \in Effects!Kinds \ s10' : Effects!NoneOf(s3', k) =>
      /\ Effects!LastSays(s5', k, s2'[k])
      /\ Effects!NoneOf(s5', k) =>
           \A p \in DOMAIN s7' : s7'[p].effect[k] = 1
             => s2'[k] = 1 \/ (k = "rumble" /\ (s9' \/ s8' > 0))
BY DEF Effects!EndsInv, Effects!NoneOf, Effects!LastSays, Effects!Mark, Effects!Kinds,
   Effects!Unfinished

\* Haptics are posted.
LEMMA HapticsFrameKeeps ==
  ASSUME Effects!EffectsInv, Effects!HapticsFrame
  PROVE  Effects!EffectsInv'
PROOF
  <1> DEFINE P == Effects!PostedEvents
             e == [is |-> "frame"]
  <1>1. /\ s5' = Append(s5, e) /\ UNCHANGED <<s1, s2, s3, s4, s6, s7, s8, s9, s10, s11>>
    BY DEF Effects!HapticsFrame
  <1>2. e \in P /\ Effects!Mark(e) = "frame"
    BY DEF Effects!PostedEvents, Effects!Mark
  <1> HIDE DEF P, e
  <1>3. s5 \in Seq(P)
    BY EffectsParts DEF P
  <1>4. ASSUME NEW mark, mark # "frame"
        PROVE  /\ Effects!NoneOf(s5', mark) <=> Effects!NoneOf(s5, mark)
               /\ \A value : Effects!LastSays(s5, mark, value)
                               => Effects!LastSays(s5', mark, value)
    BY <1>1, <1>2, <1>3, <1>4, MarksAppended, LastAppended
  <1>5. s5' \in Seq(P)
    BY <1>1, <1>2, <1>3
  <1>6. \A k \in Effects!Kinds : k # "frame"
    BY EffectsSets
  <1>7. Effects!ToSendInv'
    BY <1>1, EffectsStill
  <1>8. Effects!EffectsTypeInv'
    BY <1>1, EffectsParts DEF Effects!EffectsTypeInv, Effects!Kinds, Effects!Levels
  <1>9. Effects!LooksInv'
    BY <1>1, <1>4, EffectsParts, LooksNext DEF Effects!LooksInv
  <1>10. Effects!LevelInv'
    BY <1>1, <1>4, EffectsParts, LevelNext DEF Effects!LevelInv
  <1>11. Effects!EndsInv'
    BY <1>1, <1>4, <1>6, EffectsParts, EndsNext DEF Effects!EndsInv, Effects!Unfinished
  <1> QED BY <1>5, <1>7, <1>8, <1>9, <1>10, <1>11, EffectsSets DEF Effects!EffectsInv, P

\* What a pad was told is of the types of the invariant.
PadRecords == [fresh : BOOLEAN, led : EffectsLooks, index : EffectsLooks,
               effect : [Effects!Kinds -> {0, 1}]]
Pad(p, r) == r \in PadRecords /\ (p \notin EffectsDual => r.effect["trigger"] = 0)

\* The type invariant of the pads, by pad.
LEMMA PadsTyped ==
  Effects!EffectsTypeInv <=>
    /\ s1 \in LookRecords /\ s4 \in LookRecords
    /\ s2 \in [Effects!Kinds -> {0, 1}] /\ s8 \in Nat /\ s9 \in BOOLEAN
    /\ s11 \in BOOLEAN /\ DOMAIN s7 \subseteq EffectsPads
    /\ \A p \in DOMAIN s7 : Pad(p, s7[p])
BY DEF Effects!EffectsTypeInv, LookRecords, PadRecords, Pad

\* And after a step.
LEMMA PadsTypedNext ==
  Effects!EffectsTypeInv' <=>
    /\ s1' \in LookRecords /\ s4' \in LookRecords
    /\ s2' \in [Effects!Kinds -> {0, 1}] /\ s8' \in Nat /\ s9' \in BOOLEAN
    /\ s11' \in BOOLEAN /\ DOMAIN s7' \subseteq EffectsPads
    /\ \A p \in DOMAIN s7' : Pad(p, s7'[p])
BY DEF Effects!EffectsTypeInv, LookRecords, PadRecords, Pad, Effects!Kinds, Effects!Levels

\* The application's thread does what was posted first.
LEMMA PostedKeeps ==
  ASSUME Effects!EffectsInv, Effects!Posted
  PROVE  Effects!EffectsInv'
PROOF
  <1> DEFINE P == Effects!PostedEvents
             e == Head(s5)
             Told(p) == CASE e.is = "led" -> [s7[p] EXCEPT !.led = e.value]
                          [] e.is = "index" -> [s7[p] EXCEPT !.index = s4.index]
                          [] e.is = "effect" /\ Effects!Feels(p, e.kind) ->
                               [s7[p] EXCEPT !.effect[e.kind] = e.value]
                          [] OTHER -> s7[p]
  <1>1. /\ s5 # <<>> /\ s5' = Tail(s5) /\ s7' = [p \in DOMAIN s7 |-> Told(p)]
        /\ s6' = IF e.is = "level" THEN e.value ELSE s6
        /\ s8' = IF e.is = "frame" THEN s8 + 1 ELSE s8
        /\ UNCHANGED <<s1, s2, s3, s4, s9, s10, s11>>
    BY DEF Effects!Posted
  <1>2. s5 \in Seq(P)
    BY EffectsParts
  <1>3. /\ e \in P /\ s5' \in Seq(P)
        /\ \A mark : Effects!NoneOf(s5, mark)
                       <=> Effects!NoneOf(s5', mark) /\ Effects!Mark(e) # mark
        /\ \A mark, value : Effects!LastSays(s5, mark, value) =>
             /\ Effects!LastSays(s5', mark, value)
             /\ Effects!NoneOf(s5', mark) /\ Effects!Mark(e) = mark => e.value = value
    <2> HIDE DEF P
    <2> QED BY <1>1, <1>2, MarksHead, LastHead
  <1>4. /\ e.is \in {"level", "led", "index", "effect", "frame"}
        /\ e.is = "effect" => e.kind \in Effects!Kinds /\ e.value \in {0, 1}
        /\ e.is = "led" => e.value \in EffectsLooks
        /\ e.is # "effect" => Effects!Mark(e) = e.is
        /\ e.is = "effect" => Effects!Mark(e) = e.kind
    BY <1>3 DEF Effects!PostedEvents, Effects!Mark
  <1> HIDE DEF e, P
  <1>5. /\ s1 \in LookRecords /\ s4 \in LookRecords /\ s2 \in [Effects!Kinds -> {0, 1}]
        /\ s8 \in Nat /\ s9 \in BOOLEAN /\ s11 \in BOOLEAN /\ DOMAIN s7 \subseteq EffectsPads
        /\ \A p \in DOMAIN s7 : Pad(p, s7[p])
    BY EffectsParts, PadsTyped
  <1>6. ASSUME NEW p \in DOMAIN s7
        PROVE  /\ Pad(p, Told(p)) /\ Told(p).fresh = s7[p].fresh
               /\ Told(p).led = IF e.is = "led" THEN e.value ELSE s7[p].led
               /\ Told(p).index = IF e.is = "index" THEN s4.index ELSE s7[p].index
               /\ \A k \in Effects!Kinds :
                    Told(p).effect[k] = IF e.is = "effect" /\ Effects!Feels(p, e.kind) /\ e.kind = k
                                        THEN e.value ELSE s7[p].effect[k]
    <2> DEFINE r == s7[p]
    <2>1. Pad(p, r)
      BY <1>5
    <2> HIDE DEF r
    <2>2. r \in PadRecords /\ s4.index \in EffectsLooks
      BY <1>5, <2>1 DEF Pad, LookRecords
    <2>3. CASE e.is = "led"
      <3>1. Told(p) = [r EXCEPT !.led = e.value]
        BY <1>4, <2>3 DEF r
      <3> HIDE DEF Told
      <3> QED BY <1>4, <2>1, <2>2, <2>3, <3>1 DEF Pad, PadRecords, r
    <2>4. CASE e.is = "index"
      <3>1. Told(p) = [r EXCEPT !.index = s4.index]
        BY <1>4, <2>4 DEF r
      <3> HIDE DEF Told
      <3> QED BY <1>4, <2>1, <2>2, <2>4, <3>1 DEF Pad, PadRecords, r
    <2>5. CASE e.is = "effect" /\ Effects!Feels(p, e.kind)
      <3>1. Told(p) = [r EXCEPT !.effect[e.kind] = e.value]
        BY <1>4, <2>5 DEF r
      <3>2. e.kind = "trigger" => p \in EffectsDual
        BY <2>5 DEF Effects!Feels
      <3> HIDE DEF Told
      <3>3. Told(p) = [r EXCEPT !.effect = [@ EXCEPT ![e.kind] = e.value]]
        BY <3>1
      <3>4. r.effect \in [Effects!Kinds -> {0, 1}] /\ e.kind \in Effects!Kinds /\ e.value \in {0, 1}
        BY <1>4, <2>2, <2>5 DEF PadRecords
      <3>5. Told(p) \in PadRecords /\ Told(p).effect = [r.effect EXCEPT ![e.kind] = e.value]
            /\ Told(p).fresh = r.fresh /\ Told(p).led = r.led /\ Told(p).index = r.index
        BY <2>2, <3>3, <3>4 DEF PadRecords
      <3>6. p \notin EffectsDual => Told(p).effect["trigger"] = 0
        BY <2>1, <3>2, <3>4, <3>5, EffectsSets DEF Pad
      <3> QED BY <2>5, <3>4, <3>5, <3>6 DEF Pad, r
    <2>6. CASE e.is \in {"level", "frame"} \/ (e.is = "effect" /\ ~Effects!Feels(p, e.kind))
      <3>1. Told(p) = r
        BY <2>6 DEF r
      <3> HIDE DEF Told
      <3> QED BY <2>1, <2>6, <3>1 DEF r
    <2> QED BY <1>4, <2>3, <2>4, <2>5, <2>6
  <1>7. DOMAIN s7' = DOMAIN s7 /\ \A p \in DOMAIN s7 : s7'[p] = Told(p)
    BY <1>1
  <1> HIDE DEF Told
  <1>8. s8' \in Nat /\ (Effects!Unfinished => Effects!Unfinished')
        /\ (e.is = "frame" => Effects!Unfinished')
    <2>1. s9' = s9 /\ (s8' = s8 \/ s8' = s8 + 1) /\ (e.is = "frame" => s8' = s8 + 1)
      BY <1>1
    <2> QED BY <1>5, <2>1 DEF Effects!Unfinished
  <1>9. Effects!ToSendInv'
    BY <1>1, EffectsStill
  <1>10. Effects!EffectsTypeInv'
    BY <1>1, <1>5, <1>6, <1>7, <1>8, PadsTypedNext
  <1>11. Effects!LooksInv'
    <2>1. /\ Effects!LastSays(s5, "led", s4.led)
          /\ \A p \in DOMAIN s7 : ~s7[p].fresh =>
               /\ Effects!NoneOf(s5, "led") => s7[p].led = s4.led
               /\ Effects!NoneOf(s5, "index") => s7[p].index = s4.index
      BY EffectsParts DEF Effects!LooksInv
    <2>2. Effects!LastSays(s5', "led", s4.led)
      BY <1>3, <2>1
    <2>3. ASSUME NEW p \in DOMAIN s7, ~s7'[p].fresh
          PROVE  /\ Effects!NoneOf(s5', "led") => s7'[p].led = s4.led
                 /\ Effects!NoneOf(s5', "index") => s7'[p].index = s4.index
      <3>1. ~s7[p].fresh
        BY <1>6, <1>7, <2>3
      <3>2. ASSUME Effects!NoneOf(s5', "led") PROVE s7'[p].led = s4.led
        <4>1. CASE e.is = "led"
          BY <1>3, <1>4, <1>6, <1>7, <2>1, <3>2, <4>1
        <4>2. CASE e.is # "led"
          <5>1. Effects!Mark(e) # "led"
            BY <1>4, <4>2, EffectsSets
          <5> QED BY <1>3, <1>6, <1>7, <2>1, <3>1, <3>2, <4>2, <5>1
        <4> QED BY <4>1, <4>2
      <3>3. ASSUME Effects!NoneOf(s5', "index") PROVE s7'[p].index = s4.index
        <4>1. CASE e.is = "index"
          BY <1>6, <1>7, <4>1
        <4>2. CASE e.is # "index"
          <5>1. Effects!Mark(e) # "index"
            BY <1>4, <4>2, EffectsSets
          <5> QED BY <1>3, <1>6, <1>7, <2>1, <3>1, <3>3, <4>2, <5>1
        <4> QED BY <4>1, <4>2
      <3> QED BY <3>2, <3>3
    <2> QED BY <1>1, <1>7, <2>2, <2>3 DEF Effects!LooksInv, Effects!NoneOf, Effects!LastSays,
            Effects!Mark
  <1>12. Effects!LevelInv'
    <2>1. SUFFICES ASSUME s11, Effects!NoneOf(s3, "level")
                   PROVE  /\ Effects!LastSays(s5', "level", s4.level)
                          /\ Effects!NoneOf(s5', "level") => s6' = s4.level
      BY <1>1 DEF Effects!LevelInv, Effects!NoneOf, Effects!LastSays, Effects!Mark
    <2>2. /\ Effects!LastSays(s5, "level", s4.level)
          /\ Effects!NoneOf(s5, "level") => s6 = s4.level
      BY <2>1, EffectsParts DEF Effects!LevelInv
    <2>3. ASSUME Effects!NoneOf(s5', "level") PROVE s6' = s4.level
      <3>1. CASE e.is = "level"
        BY <1>1, <1>3, <1>4, <2>2, <2>3, <3>1
      <3>2. CASE e.is # "level"
        <4>1. Effects!Mark(e) # "level"
          BY <1>4, <3>2, EffectsSets
        <4> QED BY <1>1, <1>3, <2>2, <2>3, <3>2, <4>1
      <3> QED BY <3>1, <3>2
    <2> QED BY <1>3, <2>2, <2>3
  <1>13. Effects!EndsInv'
    <2>1. SUFFICES ASSUME NEW k \in Effects!Kinds \ s10, Effects!NoneOf(s3, k)
                   PROVE  /\ Effects!LastSays(s5', k, s2[k])
                          /\ Effects!NoneOf(s5', k) =>
                               \A p \in DOMAIN s7 : s7'[p].effect[k] = 1
                                 => s2[k] = 1 \/ (k = "rumble" /\ Effects!Unfinished')
      BY <1>1, <1>7, EffectsSets DEF Effects!EndsInv, Effects!NoneOf, Effects!LastSays,
         Effects!Mark
    <2>2. /\ Effects!LastSays(s5, k, s2[k])
          /\ Effects!NoneOf(s5, k) =>
               \A p \in DOMAIN s7 : s7[p].effect[k] = 1
                 => s2[k] = 1 \/ (k = "rumble" /\ Effects!Unfinished)
      BY <2>1, EffectsParts DEF Effects!EndsInv
    <2>3. ASSUME Effects!NoneOf(s5', k), NEW p \in DOMAIN s7, s7'[p].effect[k] = 1
          PROVE  s2[k] = 1 \/ (k = "rumble" /\ Effects!Unfinished')
      <3>1. CASE e.is = "effect" /\ e.kind = k
        <4>1. e.value = s2[k]
          BY <1>3, <1>4, <2>2, <2>3, <3>1
        <4>2. CASE Effects!Feels(p, k)
          BY <1>6, <1>7, <2>3, <3>1, <4>1, <4>2
        <4>3. CASE ~Effects!Feels(p, k)
          <5>1. k = "trigger" /\ p \notin EffectsDual
            BY <4>3, EffectsSets DEF Effects!Feels
          <5>2. s7'[p].effect["trigger"] = 0
            BY <1>6, <1>7, <5>1 DEF Pad
          <5> QED BY <2>3, <5>1, <5>2
        <4> QED BY <4>2, <4>3
      <3>2. CASE ~(e.is = "effect" /\ e.kind = k)
        <4>1. Effects!Mark(e) # k
          BY <1>4, <3>2, EffectsSets
        <4>2. Effects!NoneOf(s5, k)
          BY <1>3, <2>3, <4>1
        <4>3. s7[p].effect[k] = 1
          BY <1>6, <1>7, <2>3, <3>2
        <4> QED BY <1>8, <2>2, <4>2, <4>3
      <3> QED BY <3>1, <3>2
    <2> QED BY <1>3, <2>2, <2>3
  <1> QED BY <1>3, <1>9, <1>10, <1>11, <1>12, <1>13, EffectsSets DEF Effects!EffectsInv, P

\* A step of the pads alone: none is told anything else, unless it is what
\* StreamSession has, and none rumbles that did not, unless that is unfinished.
LEMMA PadsAloneKeep ==
  ASSUME Effects!EffectsInv, UNCHANGED <<s1, s2, s3, s4, s5, s6, s10, s11>>,
         s8' \in Nat, s9' \in BOOLEAN, DOMAIN s7' \subseteq EffectsPads,
         \A p \in DOMAIN s7' : Pad(p, s7'[p]),
         \A p \in DOMAIN s7' : s7'[p].fresh
           \/ (s7'[p].led = s4.led /\ s7'[p].index = s4.index)
           \/ (p \in DOMAIN s7 /\ ~s7[p].fresh /\ s7'[p].led = s7[p].led
               /\ s7'[p].index = s7[p].index),
         \A p \in DOMAIN s7', k \in Effects!Kinds : s7'[p].effect[k] = 1 =>
           (/\ p \in DOMAIN s7 /\ s7[p].effect[k] = 1
            /\ k = "rumble" /\ Effects!Unfinished => s9' \/ s8' > 0)
           \/ (k = "rumble" /\ (s9' \/ s8' > 0))
  PROVE  Effects!EffectsInv'
PROOF
  <1>1. /\ s1 \in LookRecords /\ s4 \in LookRecords /\ s2 \in [Effects!Kinds -> {0, 1}]
        /\ s11 \in BOOLEAN /\ s5 \in Seq(Effects!PostedEvents)
    BY EffectsParts
  <1>2. Effects!ToSendInv'
    BY EffectsStill
  <1>3. Effects!EffectsTypeInv'
    BY <1>1, PadsTypedNext
  <1>4. Effects!LooksInv'
    BY EffectsParts, LooksNext DEF Effects!LooksInv
  <1>5. Effects!LevelInv'
    BY EffectsParts, LevelNext DEF Effects!LevelInv
  <1>6. Effects!EndsInv'
    <2>1. SUFFICES ASSUME NEW k \in Effects!Kinds \ s10, Effects!NoneOf(s3, k)
                   PROVE  /\ Effects!LastSays(s5, k, s2[k])
                          /\ Effects!NoneOf(s5, k) =>
                               \A p \in DOMAIN s7' : s7'[p].effect[k] = 1
                                 => s2[k] = 1 \/ (k = "rumble" /\ (s9' \/ s8' > 0))
      BY EndsNext
    <2>2. /\ Effects!LastSays(s5, k, s2[k])
          /\ Effects!NoneOf(s5, k) =>
               \A p \in DOMAIN s7 : s7[p].effect[k] = 1
                 => s2[k] = 1 \/ (k = "rumble" /\ Effects!Unfinished)
      BY <2>1, EffectsParts DEF Effects!EndsInv
    <2> QED BY <2>1, <2>2
  <1> QED BY <1>1, <1>2, <1>3, <1>4, <1>5, <1>6, EffectsSets DEF Effects!EffectsInv

\* The timer of the haptics, which tells every pad whether to rumble.
LEMMA HapticsTimerKeeps ==
  ASSUME Effects!EffectsInv, Effects!HapticsTimer
  PROVE  Effects!EffectsInv'
PROOF
  <1> DEFINE taken == IF s8 < EffectsPackets THEN s8 ELSE EffectsPackets
             on == taken > 0
             v == IF on THEN 1 ELSE 0
  <1>1. /\ s8' = s8 - taken /\ s9' = on
        /\ s7' = [p \in DOMAIN s7 |-> [s7[p] EXCEPT !.effect["rumble"] = v]]
        /\ UNCHANGED <<s1, s2, s3, s4, s5, s6, s10, s11>>
    BY DEF Effects!HapticsTimer
  <1>2. s8 \in Nat /\ DOMAIN s7 \subseteq EffectsPads /\ \A p \in DOMAIN s7 : Pad(p, s7[p])
    BY EffectsParts, PadsTyped
  <1>3. s8' \in Nat /\ s9' \in BOOLEAN
    BY <1>1, <1>2, EffectsConstants
  <1>4. v \in {0, 1} /\ (v = 1 => s9')
    <2> HIDE DEF on
    <2>1. CASE on
      BY <1>1, <2>1
    <2>2. CASE ~on
      BY <2>2
    <2> QED BY <2>1, <2>2
  <1> HIDE DEF taken, on, v
  <1>5. DOMAIN s7' = DOMAIN s7
    BY <1>1
  <1>6. ASSUME NEW p \in DOMAIN s7
        PROVE  /\ Pad(p, s7'[p])
               /\ s7'[p].fresh = s7[p].fresh /\ s7'[p].led = s7[p].led
               /\ s7'[p].index = s7[p].index
               /\ \A k \in Effects!Kinds : s7'[p].effect[k] = IF k = "rumble" THEN v
                                                             ELSE s7[p].effect[k]
    <2> DEFINE r == s7[p]
               n == s7'[p]
    <2>1. Pad(p, r)
      BY <1>2
    <2>2. n = [r EXCEPT !.effect = [@ EXCEPT !["rumble"] = v]]
      BY <1>1
    <2> HIDE DEF r, n
    <2>3. r.effect \in [Effects!Kinds -> {0, 1}] /\ r \in PadRecords
      BY <2>1 DEF Pad, PadRecords
    <2>4. n \in PadRecords /\ n.effect = [r.effect EXCEPT !["rumble"] = v]
          /\ n.fresh = r.fresh /\ n.led = r.led /\ n.index = r.index
      BY <1>4, <2>2, <2>3 DEF PadRecords
    <2>5. \A k \in Effects!Kinds : n.effect[k] = IF k = "rumble" THEN v ELSE r.effect[k]
      BY <2>3, <2>4, EffectsSets
    <2>6. Pad(p, n)
      BY <2>1, <2>4, <2>5, EffectsSets DEF Pad
    <2> QED BY <2>4, <2>5, <2>6 DEF r, n
  <1>7. \A p \in DOMAIN s7' : s7'[p].fresh
          \/ (p \in DOMAIN s7 /\ ~s7[p].fresh /\ s7'[p].led = s7[p].led
              /\ s7'[p].index = s7[p].index)
    BY <1>5, <1>6
  <1>8. ASSUME NEW p \in DOMAIN s7', NEW k \in Effects!Kinds, s7'[p].effect[k] = 1
        PROVE  (k # "rumble" /\ p \in DOMAIN s7 /\ s7[p].effect[k] = 1) \/ (k = "rumble" /\ s9')
    BY <1>4, <1>5, <1>6, <1>8
  <1>9. \A p \in DOMAIN s7' : Pad(p, s7'[p])
    BY <1>5, <1>6
  <1>10. \A p \in DOMAIN s7' : s7'[p].fresh
           \/ (s7'[p].led = s4.led /\ s7'[p].index = s4.index)
           \/ (p \in DOMAIN s7 /\ ~s7[p].fresh /\ s7'[p].led = s7[p].led
               /\ s7'[p].index = s7[p].index)
    BY <1>7
  <1>11. \A p \in DOMAIN s7', k \in Effects!Kinds : s7'[p].effect[k] = 1 =>
           (/\ p \in DOMAIN s7 /\ s7[p].effect[k] = 1
            /\ k = "rumble" /\ Effects!Unfinished => s9' \/ s8' > 0)
           \/ (k = "rumble" /\ (s9' \/ s8' > 0))
    BY <1>8
  <1>12. DOMAIN s7' \subseteq EffectsPads
    BY <1>2, <1>5
  <1>13. UNCHANGED <<s1, s2, s3, s4, s5, s6, s10, s11>>
    BY <1>1
  <1> QED BY <1>3, <1>9, <1>10, <1>11, <1>12, <1>13, PadsAloneKeep

\* A pad comes, is told the looks a second later, and goes.
LEMMA PlugKeeps ==
  ASSUME Effects!EffectsInv, NEW p \in EffectsPads,
         Effects!Plug(p) \/ Effects!Second(p) \/ Effects!Unplug(p)
  PROVE  Effects!EffectsInv'
PROOF
  <1>1. /\ s8 \in Nat /\ s9 \in BOOLEAN /\ DOMAIN s7 \subseteq EffectsPads
        /\ \A q \in DOMAIN s7 : Pad(q, s7[q])
    BY EffectsParts, PadsTyped
  <1>2. /\ s8' = s8 /\ s9' = s9
        /\ UNCHANGED <<s1, s2, s3, s4, s5, s6, s10, s11>>
    BY DEF Effects!Plug, Effects!Second, Effects!Unplug
  <1>3. Effects!Unfinished => s9' \/ s8' > 0
    BY <1>2 DEF Effects!Unfinished
  <1>4. CASE Effects!Plug(p)
    <2> DEFINE new == [fresh |-> TRUE, led |-> 0, index |-> 0, effect |-> Effects!Still]
    <2>1. /\ p \notin DOMAIN s7
          /\ s7' = [q \in DOMAIN s7 \cup {p} |-> IF q = p THEN new ELSE s7[q]]
      BY <1>4 DEF Effects!Plug
    <2>2. new.fresh /\ Pad(p, new) /\ \A k \in Effects!Kinds : new.effect[k] = 0
      BY EffectsConstants, EffectsSets DEF Pad, PadRecords, Effects!Still
    <2> HIDE DEF new
    <2>3. /\ DOMAIN s7' = DOMAIN s7 \cup {p} /\ s7'[p] = new
          /\ \A q \in DOMAIN s7 : s7'[q] = s7[q]
      BY <2>1
    <2>4. DOMAIN s7' \subseteq EffectsPads /\ \A q \in DOMAIN s7' : Pad(q, s7'[q])
      BY <1>1, <2>2, <2>3
    <2>5. \A q \in DOMAIN s7' : s7'[q].fresh
            \/ (q \in DOMAIN s7 /\ ~s7[q].fresh /\ s7'[q].led = s7[q].led
                /\ s7'[q].index = s7[q].index)
      BY <2>2, <2>3
    <2>6. \A q \in DOMAIN s7', k \in Effects!Kinds :
            s7'[q].effect[k] = 1 => q \in DOMAIN s7 /\ s7[q].effect[k] = 1
      BY <2>2, <2>3
    <2> QED BY <1>1, <1>2, <1>3, <2>4, <2>5, <2>6, PadsAloneKeep
  <1>5. CASE Effects!Second(p)
    <2>1. /\ p \in DOMAIN s7
          /\ s7' = [s7 EXCEPT ![p] = [@ EXCEPT !.fresh = FALSE, !.led = s4.led, !.index = s4.index]]
      BY <1>5 DEF Effects!Second
    <2>2. s4.led \in EffectsLooks /\ s4.index \in EffectsLooks
      BY EffectsParts DEF LookRecords
    <2> DEFINE r == s7[p]
               n == [r EXCEPT !.fresh = FALSE, !.led = s4.led, !.index = s4.index]
    <2>3. Pad(p, r)
      BY <1>1, <2>1
    <2>4. DOMAIN s7' = DOMAIN s7 /\ s7'[p] = n /\ \A q \in DOMAIN s7 : q # p => s7'[q] = s7[q]
      BY <2>1
    <2> HIDE DEF r
    <2>5. Pad(p, n) /\ n.led = s4.led /\ n.index = s4.index /\ n.effect = r.effect
      BY <2>2, <2>3 DEF Pad, PadRecords
    <2> HIDE DEF n
    <2>6. DOMAIN s7' \subseteq EffectsPads /\ \A q \in DOMAIN s7' : Pad(q, s7'[q])
      BY <1>1, <2>4, <2>5
    <2>7. \A q \in DOMAIN s7' : s7'[q].fresh
            \/ (s7'[q].led = s4.led /\ s7'[q].index = s4.index)
            \/ (q \in DOMAIN s7 /\ ~s7[q].fresh /\ s7'[q].led = s7[q].led
                /\ s7'[q].index = s7[q].index)
      BY <2>4, <2>5
    <2>8. \A q \in DOMAIN s7', k \in Effects!Kinds :
            s7'[q].effect[k] = 1 => q \in DOMAIN s7 /\ s7[q].effect[k] = 1
      BY <2>4, <2>5 DEF r
    <2> QED BY <1>1, <1>2, <1>3, <2>6, <2>7, <2>8, PadsAloneKeep
  <1>6. CASE Effects!Unplug(p)
    <2>1. s7' = [q \in DOMAIN s7 \ {p} |-> s7[q]]
      BY <1>6 DEF Effects!Unplug
    <2>2. DOMAIN s7' \subseteq DOMAIN s7 /\ \A q \in DOMAIN s7' : s7'[q] = s7[q]
      BY <2>1
    <2> QED BY <1>1, <1>2, <1>3, <2>2, PadsAloneKeep
  <1> QED BY <1>4, <1>5, <1>6

\* Another session begins, with what was posted for the manager.
LEMMA NewSessionKeeps ==
  ASSUME Effects!EffectsInv, Effects!NewSession
  PROVE  Effects!EffectsInv'
PROOF
  <1> DEFINE P == Effects!PostedEvents
             n == Effects!Cardinality(Effects!ForManager)
  <1>1. /\ s1' = Effects!Beginning /\ s4' = Effects!Beginning /\ s2' = Effects!Still
        /\ s3' = <<>> /\ s7' = <<>> /\ s8' = 0 /\ s9' = FALSE
        /\ s10' = {} /\ s11' = FALSE
    BY DEF Effects!NewSession
  <1>2. PICK order \in [1..n -> Effects!ForManager] :
          s5' = [i \in DOMAIN order |-> s5[order[i]]]
    BY DEF Effects!NewSession
  <1>3. s5 \in Seq(P)
    BY EffectsParts
  <1>4. /\ Effects!ForManager \subseteq DOMAIN s5
        /\ \A i \in Effects!ForManager : s5[i].is = "level"
    BY DEF Effects!ForManager
  <1>5. n \in Nat
    <2>1. IsFiniteSet(Effects!ForManager)
      <3>1. Len(s5) \in Nat /\ DOMAIN s5 = 1..Len(s5)
        BY <1>3
      <3>2. IsFiniteSet(1..Len(s5))
        BY <3>1, FS_Interval
      <3> QED BY <1>4, <3>1, <3>2, FS_Subset
    <2> QED BY <2>1, FS_CardinalityType, CardinalityIs
  <1> HIDE DEF n, P
  <1>6. /\ DOMAIN s5' = 1..n
        /\ \A i \in 1..n : s5'[i] \in P /\ s5'[i].is = "level"
    <2>1. \A i \in DOMAIN s5 : s5[i] \in P
      BY <1>3
    <2> QED BY <1>2, <1>4, <2>1
  <1>7. s5' \in Seq(P)
    <2>1. s5' = [i \in 1..n |-> s5'[i]]
      BY <1>2
    <2> QED BY <1>5, <1>6, <2>1
  <1>8. \A mark : mark # "level" => Effects!NoneOf(s5', mark)
    BY <1>6 DEF Effects!NoneOf, Effects!Mark
  <1>9. \A mark : Effects!NoneOf(s3', mark)
    BY <1>1 DEF Effects!NoneOf
  <1>10. Effects!Beginning \in LookRecords /\ Effects!Still \in [Effects!Kinds -> {0, 1}]
         /\ DOMAIN s7' = {}
    <2>1. Effects!Beginning \in LookRecords
      BY EffectsConstants DEF Effects!Beginning, Effects!Strong, Effects!Levels, LookRecords
    <2>2. DOMAIN s7' = {}
      BY <1>1
    <2> QED BY <2>1, <2>2 DEF Effects!Still
  <1>11. Effects!EffectsTypeInv'
    BY <1>1, <1>10, PadsTypedNext
  <1>12. Effects!ToSendInv'
    <2>1. s3' \in Seq(Effects!Due')
      BY <1>1
    <2> QED BY <1>1, <2>1 DEF Effects!ToSendInv
  <1>13. Effects!LooksInv'
    BY <1>8, <1>10, NoneLast, LooksNext
  <1>14. Effects!LevelInv'
    BY <1>1, LevelNext
  <1>15. Effects!EndsInv'
    BY <1>1, <1>8, <1>10, NoneLast, EndsNext, EffectsSets
  <1> QED BY <1>7, <1>11, <1>12, <1>13, <1>14, <1>15, EffectsSets DEF Effects!EffectsInv, P

\* Every step keeps the invariant.
LEMMA EffectsNext ==
  ASSUME Effects!EffectsInv, Effects!Next
  PROVE  Effects!EffectsInv'
PROOF
  <1>1. ASSUME NEW look \in EffectsLooks, NEW level \in [Effects!Kinds -> Effects!Levels],
               Effects!PadInfo([led |-> look, index |-> look, level |-> level])
        PROVE  Effects!EffectsInv'
    <2>1. [led |-> look, index |-> look, level |-> level] \in LookRecords
      BY DEF LookRecords
    <2> QED BY <1>1, <2>1, PadInfoKeeps
  <1> QED BY <1>1, EffectKeeps, EventKeeps, HapticsFrameKeeps, PostedKeeps, HapticsTimerKeeps,
             PlugKeeps, NewSessionKeeps DEF Effects!Next

\* It holds at the beginning.
LEMMA EffectsInit ==
  ASSUME Effects!Init
  PROVE  Effects!EffectsInv
PROOF
  <1>1. /\ s1 = Effects!Beginning /\ s4 = Effects!Beginning /\ s2 = Effects!Still
        /\ s3 = <<>> /\ s5 = <<>> /\ s7 = <<>> /\ s8 = 0 /\ s9 = FALSE
        /\ s10 = {} /\ s11 = FALSE
    BY DEF Effects!Init
  <1>2. Effects!Beginning \in LookRecords /\ Effects!Still \in [Effects!Kinds -> {0, 1}]
    BY EffectsConstants DEF Effects!Beginning, Effects!Strong, Effects!Levels, LookRecords,
       Effects!Still
  <1>3. DOMAIN s7 = {} /\ s3 \in Seq(Effects!Due) /\ s5 \in Seq(Effects!PostedEvents)
    BY <1>1
  <1>4. \A mark : Effects!NoneOf(s5, mark)
    BY <1>1 DEF Effects!NoneOf
  <1>5. Effects!EffectsTypeInv
    BY <1>1, <1>2, <1>3, PadsTyped
  <1>6. Effects!ToSendInv
    BY <1>1, <1>3 DEF Effects!ToSendInv
  <1>7. Effects!LooksInv /\ Effects!EndsInv /\ Effects!LevelInv
    BY <1>1, <1>3, <1>4, NoneLast DEF Effects!LooksInv, Effects!EndsInv, Effects!LevelInv
  <1> QED BY <1>3, <1>5, <1>6, <1>7 DEF Effects!EffectsInv

\* What it says once everything that is to be sent or done was.
LEMMA EffectsRight ==
  ASSUME Effects!EffectsInv
  PROVE  Effects!LooksAsTold /\ Effects!EffectsEnd /\ Effects!IntensityAsTold
PROOF
  <1>1. SUFFICES ASSUME Effects!Quiet
                 PROVE  Effects!LooksAsTold /\ Effects!EffectsEnd /\ Effects!IntensityAsTold
    BY DEF Effects!LooksAsTold, Effects!EffectsEnd, Effects!IntensityAsTold
  <1>2. s3 = <<>> /\ s5 = <<>>
    BY <1>1 DEF Effects!Quiet
  <1>3. /\ \A mark : Effects!NoneOf(s3, mark) /\ Effects!NoneOf(s5, mark)
        /\ \A k : Effects!NoLevel(s3, k)
    BY <1>2 DEF Effects!NoneOf, Effects!NoLevel
  <1>4. /\ s4.led = s1.led /\ s4.index = s1.index
        /\ \A k \in Effects!Kinds : s4.level[k] = s1.level[k]
    BY <1>3, EffectsParts DEF Effects!ToSendInv
  <1>5. s4.level = s1.level
    BY <1>4, EffectsParts DEF LookRecords
  <1>6. Effects!LooksAsTold
    BY <1>3, <1>4, EffectsParts DEF Effects!LooksAsTold, Effects!LooksInv
  <1>7. Effects!EffectsEnd
    BY <1>3, EffectsParts DEF Effects!EffectsEnd, Effects!EndsInv
  <1>8. Effects!IntensityAsTold
    BY <1>3, <1>5, EffectsParts DEF Effects!IntensityAsTold, Effects!LevelInv
  <1> QED BY <1>6, <1>7, <1>8

-----------------------------------------------------------------------------
(* The parts together                                                      *)

\* The invariant of the two parts; a behaviour stays in its part.
KeysInv ==
  /\ part = "keys" => Cipher!KeyStreamInv
  /\ part = "crypt" => Crypt!SendCryptInv

\* It holds of every behaviour.
LEMMA SpecKeysInv == PartsSpec => []KeysInv
PROOF
  <1>1. PartsInit => KeysInv
    <2>1. PartsInit => /\ part = "keys" => Cipher!Init
                       /\ part = "crypt" => Crypt!Init
      BY DEF PartsInit
    <2> QED BY <2>1, KeyStreamInit, SendCryptInit DEF KeysInv
  <1>2. KeysInv /\ [PartsNext]_vars => KeysInv'
    <2>1. SUFFICES ASSUME KeysInv, [PartsNext]_vars PROVE KeysInv'
      OBVIOUS
    <2>2. CASE PartsNext
      <3>1. part' = part
        BY <2>2 DEF PartsNext, After15, After14, After13, After12, After11, After10, After9,
                    After8, After6, After5, After4
      <3>2. (part = "keys" => Cipher!Next) /\ (part = "crypt" => Crypt!Next)
        BY <2>2 DEF PartsNext
      <3> QED BY <2>1, <3>1, <3>2, KeyStreamNext, SendCryptNext DEF KeysInv
    <2>3. CASE UNCHANGED vars
      <3>1. Cipher!KeyStreamInv => Cipher!KeyStreamInv'
        BY <2>3 DEF vars, Cipher!KeyStreamInv, Cipher!RoomForChunk, Cipher!BufferHolds,
           Cipher!SleepsOverFullBuffer, Cipher!ShouldGenerate, Cipher!DecryptedWithItsOwn
      <3>2. Crypt!SendCryptInv => Crypt!SendCryptInv'
        <4>1. s1' = s1 /\ s2' = s2 /\ s3' = s3 /\ s4' = s4 /\ s5' = s5
          BY <2>3 DEF vars
        <4>2. (Crypt!HeldInv <=> Crypt!HeldInv') /\ (Crypt!SentInv <=> Crypt!SentInv')
          BY <4>1 DEF Crypt!HeldInv, Crypt!SentInv, Crypt!Taken
        <4> QED BY <4>1, <4>2 DEF Crypt!SendCryptInv
      <3> QED BY <2>1, <2>3, <3>1, <3>2 DEF KeysInv, vars
    <2> QED BY <2>1, <2>2, <2>3
  <1> QED BY <1>1, <1>2, PTL DEF PartsSpec

\* A packet that comes in meets the key stream of its own position, across the
\* wrap of the low half and whatever the thread computes meanwhile, and the
\* thread sleeps only when it has nothing to do; packets that go out use ranges
\* of the key stream that are apart, whichever threads send them, and are
\* signed with the keys of their positions. The one packet outside the ranges
\* is a report of congestion control that was begun without a key at position 0
\* and signed when the key had come.
THEOREM KeyStreamIsRight == PartsSpec => []KeyStreamRight
PROOF
  <1>1. KeysInv => KeyStreamRight
    <2>1. Cipher!KeyStreamInv => Cipher!DecryptedWithItsOwn /\ Cipher!AsleepOnlyWhenIdle
      <3>1. SUFFICES ASSUME Cipher!KeyStreamInv, s7 = "asleep",
                            Cipher!ShouldGenerate \/ s3 < KeyBuffer
                     PROVE  s8 = "signal"
        BY DEF Cipher!KeyStreamInv, Cipher!AsleepOnlyWhenIdle
      <3>2. s3 = KeyBuffer /\ (Cipher!ShouldGenerate => s8 = "signal")
        BY <3>1 DEF Cipher!KeyStreamInv, Cipher!SleepsOverFullBuffer
      <3>3. ~(s3 < KeyBuffer)
        BY <3>2, KeyConstants
      <3> QED BY <3>1, <3>2, <3>3
    <2> QED BY <2>1, RangesRight DEF KeysInv, KeyStreamRight
  <1> QED BY <1>1, SpecKeysInv, PTL

\* Nothing changes in a step of another kind.
LEMMA ReportStill ==
  ASSUME UNCHANGED vars
  PROVE  /\ Stats!StatsInv => Stats!StatsInv'
         /\ Feedback!FeedbackInv => Feedback!FeedbackInv'
         /\ Discovery!DiscoveryInv => Discovery!DiscoveryInv'
         /\ Input!InputInv => Input!InputInv'
         /\ Effects!EffectsInv => Effects!EffectsInv'
PROOF
  <1>1. /\ UNCHANGED <<s1, s2, s3, s4, s5, s6, s7, s8>>
        /\ UNCHANGED <<s9, s10, s11, s12, s13, s14, s15>>
    BY DEF vars
  <1>2. Stats!StatsInv => Stats!StatsInv'
    BY <1>1 DEF Stats!StatsInv, Stats!UnitsReportedOnce, Stats!Plus
  <1>3. Feedback!FeedbackInv => Feedback!FeedbackInv'
    <2>1. Feedback!QueueInv => Feedback!QueueInv'
      BY <1>1, QueuePlaces
    <2>2. Feedback!SticksInv => Feedback!SticksInv'
      BY <1>1 DEF Feedback!SticksInv, Feedback!Waiting
    <2> QED BY <2>1, <2>2 DEF Feedback!FeedbackInv
  <1>4. Discovery!DiscoveryInv => Discovery!DiscoveryInv'
    <2>1. Discovery!ListInv => Discovery!ListInv'
      <3>1. \A i : Discovery!Grace(i)' = Discovery!Grace(i)
        BY <1>1 DEF Discovery!Grace
      <3> QED BY <1>1, <3>1, ListPlaces DEF Discovery!Answers
    <2>2. Discovery!ThreadsInv => Discovery!ThreadsInv'
      BY <1>1 DEF Discovery!ThreadsInv, Discovery!QuietAfterFini
    <2> QED BY <2>1, <2>2 DEF Discovery!DiscoveryInv
  <1>5. Input!InputInv => Input!InputInv'
    <2>1. Input!ButtonsInv => Input!ButtonsInv'
      BY <1>1 DEF Input!ButtonsInv, Input!Pressing, Input!States, Input!Slots
    <2>2. Input!TouchesInv => Input!TouchesInv'
      BY <1>1 DEF Input!TouchesInv, Input!TouchesAreFingers, Input!Ids, Input!Slots
    <2>3. Input!DpadInv => Input!DpadInv'
      BY <1>1 DEF Input!DpadInv, Input!DpadTouchIsLifted
    <2> QED BY <2>1, <2>2, <2>3 DEF Input!InputInv
  <1>6. Effects!EffectsInv => Effects!EffectsInv'
    <2>1. SUFFICES ASSUME Effects!EffectsInv PROVE Effects!EffectsInv'
      OBVIOUS
    <2>2. /\ s8 \in Nat /\ s9 \in BOOLEAN /\ DOMAIN s7 \subseteq EffectsPads
          /\ \A p \in DOMAIN s7 : Pad(p, s7[p])
      BY <2>1, EffectsParts, PadsTyped
    <2>3. /\ s7' = s7 /\ s8' = s8 /\ s9' = s9 /\ UNCHANGED <<s1, s2, s3, s4, s5, s6, s10, s11>>
          /\ Effects!Unfinished => s9' \/ s8' > 0
      BY <1>1 DEF Effects!Unfinished
    <2>4. /\ \A p \in DOMAIN s7' : s7'[p].fresh
               \/ (p \in DOMAIN s7 /\ ~s7[p].fresh /\ s7'[p].led = s7[p].led
                   /\ s7'[p].index = s7[p].index)
          /\ \A p \in DOMAIN s7', k \in Effects!Kinds :
               s7'[p].effect[k] = 1 => p \in DOMAIN s7 /\ s7[p].effect[k] = 1
      BY <2>3
    <2> QED BY <2>1, <2>2, <2>3, <2>4, PadsAloneKeep
  <1> QED BY <1>2, <1>3, <1>4, <1>5, <1>6

\* The invariant of the five parts that report.
ReportInv ==
  /\ part = "stats" => Stats!StatsInv
  /\ part = "feedback" => Feedback!FeedbackInv
  /\ part = "discovery" => Discovery!DiscoveryInv
  /\ part = "input" => Input!InputInv
  /\ part = "effects" => Effects!EffectsInv

\* It holds of every behaviour, too.
LEMMA SpecReportInv == PartsSpec => []ReportInv
PROOF
  <1>1. PartsInit => ReportInv
    <2>1. PartsInit => /\ part = "stats" => Stats!Init
                       /\ part = "feedback" => Feedback!Init
                       /\ part = "discovery" => Discovery!Init
                       /\ part = "input" => Input!Init
                       /\ part = "effects" => Effects!Init
      BY DEF PartsInit
    <2> QED BY <2>1, StatsInit, FeedbackInit, DiscoveryInit, InputInit, EffectsInit
            DEF ReportInv
  <1>2. ReportInv /\ [PartsNext]_vars => ReportInv'
    <2>1. SUFFICES ASSUME ReportInv, [PartsNext]_vars PROVE ReportInv'
      OBVIOUS
    <2>2. CASE PartsNext
      <3>1. part' = part
        BY <2>2 DEF PartsNext, After15, After14, After13, After12, After11, After10, After9,
                    After8, After6, After5, After4
      <3>2. /\ part = "stats" => Stats!Next
            /\ part = "feedback" => Feedback!Next
            /\ part = "discovery" => Discovery!Next
            /\ part = "input" => Input!Next
            /\ part = "effects" => Effects!Next
        BY <2>2 DEF PartsNext
      <3> QED BY <2>1, <3>1, <3>2, StatsNext, FeedbackNext, DiscoveryNext, InputNext, EffectsNext
              DEF ReportInv
    <2>3. CASE UNCHANGED vars
      <3>1. part' = part
        BY <2>3 DEF vars
      <3> QED BY <2>1, <2>3, <3>1, ReportStill DEF ReportInv
    <2> QED BY <2>1, <2>2, <2>3
  <1> QED BY <1>1, <1>2, PTL DEF PartsSpec

\* What the parts report is what is: to the console each unit of video once,
\* the sticks and the events of the controller in their order, and only buttons
\* and touches that are held; to the application the consoles that answer; to
\* the pads the color, the effects and the intensity that the console told.
THEOREM ReportedIsAsItIs == PartsSpec => []ReportedAsItIs
PROOF
  <1>1. ReportInv => ReportedAsItIs
    <2>1. Stats!StatsInv => Stats!UnitsReportedOnce
      BY DEF Stats!StatsInv
    <2> QED BY <2>1, FeedbackRight, DiscoveryRight, InputRight, EffectsRight
            DEF ReportInv, ReportedAsItIs
  <1> QED BY <1>1, SpecReportInv, PTL
=============================================================================
