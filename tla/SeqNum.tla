------------------------------- MODULE SeqNum -------------------------------
(***************************************************************************)
(* Serial-number arithmetic (RFC 1982) as lib/include/chiaki/seqnum.h      *)
(* defines it, and the three functions lib/src/reorderqueue.c wraps around *)
(* it.  Numbers travel through the queue as uint64_t; each comparison      *)
(* first casts its arguments to the width of the sequence number.          *)
(***************************************************************************)
EXTENDS Integers

CONSTANTS SeqMod,       \* 2^16 (video packet index) or 2^32 (data channel)
          PromotedAdd   \* TRUE for 16 bits, where C adds in int: no wrap

SeqHalf == SeqMod \div 2

ASSUME SeqNumAssumption ==
  /\ SeqMod \in Nat
  /\ SeqMod > 3
  /\ SeqMod % 2 = 0
  /\ PromotedAdd \in BOOLEAN

\* where a loop stops that counts up to the first number in S
Least(S) == CHOOSE n \in S : \A m \in S : n <= m

\* (ChiakiSeqNum16)x or (ChiakiSeqNum32)x
SeqCast(x) == x % SeqMod

\* Undefined, i.e. FALSE both ways, for numbers exactly SeqHalf apart.
SeqLt(a, b) ==
  LET x == SeqCast(a)
      y == SeqCast(b)
  IN  \/ x < y /\ y - x < SeqHalf
      \/ x > y /\ x - y > SeqHalf

SeqGt(a, b) ==
  LET x == SeqCast(a)
      y == SeqCast(b)
  IN  \/ x < y /\ y - x > SeqHalf
      \/ x > y /\ x - y < SeqHalf

\* uint16_t operands are promoted to int, so the 16 bit sum does not wrap
\* and may be SeqMod or more; the 32 bit sum is computed in uint32_t.
SeqAdd(a, b) ==
  LET sum == SeqCast(a) + SeqCast(b)
  IN  IF PromotedAdd THEN sum ELSE sum % SeqMod

\* The macro ge of reorderqueue.c compares the raw values for equality.
SeqGe(a, b) == a = b \/ SeqGt(a, b)

\* queue->begin after it was advanced by one, k times
SeqAdvance(a, k) == IF k = 0 THEN a ELSE SeqAdd(SeqAdd(a, k - 1), 1)
=============================================================================
