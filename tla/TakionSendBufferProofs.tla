----------------------- MODULE TakionSendBufferProofs -----------------------
(***************************************************************************)
(* The send buffer for any senders, any size, numbers of tries, timeouts   *)
(* and moduli.  Two arguments carry the proof.  The resender's wait has a  *)
(* timeout whenever packets are there, from the moment it is about to wait *)
(* (it then holds the mutex) until a push wakes it.  And as fewer packets  *)
(* than half the modulus are on their way, the comparison of numbers that  *)
(* wrap is the comparison of the packets: what an acknowledgement releases *)
(* is not after the packet acknowledged.                                   *)
(***************************************************************************)
EXTENDS TakionSendBuffer, FiniteSetTheorems, FunctionTheorems, TLAPS

\* The resender is about to wait, or waits, with a timeout if there is
\* something to send again.
NoSleepInv == count > 0 /\ resender \in {"blocking", "asleep"} => timed

IInv == TypeOK /\ NoSleepInv /\ NothingForgotten

SenderType == [at : {"idle", "send", "push", "undefined"}, n : Packets]

-----------------------------------------------------------------------------
(* Constants, numbers and the array                                        *)

\* The constants in the form the steps below need them.
LEMMA Sizes ==
  /\ BufferSize \in Nat \ {0} /\ TriesMax \in Nat /\ MaxLag \in Nat /\ MaxAge \in Nat
  /\ MaxLag <= MaxAge /\ MaxAge > 0
  /\ MaxPackets \in Nat /\ 0 \in Packets /\ Packets \subseteq Nat
  /\ Unused \in PacketType
BY SendBufferAssumption DEF MaxAge, Packets, Unused, PacketType

\* The least element of a set of natural numbers is one of its elements and
\* at most every other: the loops of reorderqueue.c stop where Least says.
LEMMA LeastNat ==
  ASSUME NEW S, S \subseteq Nat, S # {}
  PROVE  Least(S) \in S /\ \A m \in S : Least(S) <= m
PROOF
  <1> DEFINE R == {p \in Nat \X Nat : p[1] < p[2]}
  <1>1. OpToRel(<, Nat) = R
    BY Zenon DEF OpToRel
  <1>2. IsWellFoundedOn(R, Nat)
    BY <1>1, NatLessThanWellFounded
  <1>3. PICK n \in S : \A m \in S : ~(<<m, n>> \in R)
    <2> HIDE DEF R
    <2> QED BY <1>2, WFMin
  <1>4. ASSUME NEW m \in S PROVE n <= m
    <2>1. ~(m < n)
      <3>1. <<m, n>> \in Nat \X Nat /\ <<m, n>>[1] = m /\ <<m, n>>[2] = n
        OBVIOUS
      <3> QED BY <1>3, <3>1
    <2> QED BY <2>1
  <1> QED
    BY <1>4 DEF Least

\* A number that did not wrap yet, or that wrapped once.
RawSeq == 0..2*SeqMod-1

\* A cast takes a raw number to the modulus, and sees no multiple of it.
LEMMA CastRaw ==
  ASSUME NEW x \in RawSeq
  PROVE  /\ SeqCast(x) = IF x < SeqMod THEN x ELSE x - SeqMod
         /\ SeqCast(x) \in 0..SeqMod-1
BY SeqNumAssumption DEF SeqCast, RawSeq

\* A number of the wire, without the remainder.
LEMMA SeqOfPacket ==
  ASSUME NEW n \in Packets
  PROVE  /\ SeqOf(n) = IF StartSeq + n < SeqMod THEN StartSeq + n ELSE StartSeq + n - SeqMod
         /\ SeqOf(n) \in 0..SeqMod-1
         /\ SeqCast(SeqOf(n)) = SeqOf(n)
PROOF
  <1>1. /\ SeqMod \in Nat /\ SeqMod > 3 /\ StartSeq \in 0..SeqMod-1
        /\ n \in Nat /\ n < SeqMod
    BY SendBufferAssumption, SeqNumAssumption DEF Packets, SeqHalf
  <1>2. StartSeq + n \in RawSeq
    BY <1>1 DEF RawSeq
  <1>3. /\ SeqOf(n) = IF StartSeq + n < SeqMod THEN StartSeq + n ELSE StartSeq + n - SeqMod
        /\ SeqOf(n) \in 0..SeqMod-1
    <2>1. SeqOf(n) = SeqCast(StartSeq + n)
      BY DEF SeqOf, SeqCast
    <2>2. /\ SeqCast(StartSeq + n) = IF StartSeq + n < SeqMod THEN StartSeq + n ELSE StartSeq + n - SeqMod
          /\ SeqCast(StartSeq + n) \in 0..SeqMod-1
      <3> DEFINE x == StartSeq + n
      <3>1. x \in RawSeq
        BY <1>2
      <3> HIDE DEF x
      <3>2. /\ SeqCast(x) = IF x < SeqMod THEN x ELSE x - SeqMod
            /\ SeqCast(x) \in 0..SeqMod-1
        BY <3>1, CastRaw
      <3> QED
        BY <1>1, <3>2 DEF x
    <2> QED
      BY <2>1, <2>2
  <1>4. SeqOf(n) \in RawSeq /\ SeqOf(n) < SeqMod
    BY <1>1, <1>3 DEF RawSeq
  <1> QED
    BY <1>3, <1>4, CastRaw

\* An acknowledgement of c releases nothing that comes after c.
LEMMA AckedIsBefore ==
  ASSUME NEW n \in Packets, NEW c \in Packets, IsAcked(n, SeqOf(c))
  PROVE  n <= c
PROOF
  <1>1. /\ SeqMod \in Nat /\ SeqMod = 2 * SeqHalf /\ SeqHalf \in Nat
        /\ StartSeq \in 0..SeqMod-1
        /\ n \in 0..SeqHalf-2 /\ c \in 0..SeqHalf-2
    BY SendBufferAssumption, SeqNumAssumption DEF Packets, SeqHalf
  <1> DEFINE x == SeqOf(n)
             y == SeqOf(c)
  <1>2. /\ x = IF StartSeq + n < SeqMod THEN StartSeq + n ELSE StartSeq + n - SeqMod
        /\ y = IF StartSeq + c < SeqMod THEN StartSeq + c ELSE StartSeq + c - SeqMod
    BY SeqOfPacket
  <1>3. x = y \/ (x < y /\ y - x < SeqHalf) \/ (x > y /\ x - y > SeqHalf)
    BY SeqOfPacket DEF IsAcked, SeqLt
  <1> HIDE DEF x, y
  <1> QED
    BY <1>1, <1>2, <1>3

\* What is kept is part of the array.
LEMMA KeptIsPart ==
  ASSUME TypeOK, NEW seq
  PROVE  /\ Kept(seq) \subseteq 0..count-1
         /\ IsFiniteSet(Kept(seq))
         /\ Cardinality(Kept(seq)) \in 0..count
PROOF
  <1>1. count \in Nat
    BY Sizes DEF TypeOK
  <1>2. Kept(seq) \in SUBSET (0..count-1)
    BY DEF Kept
  <1>3. IsFiniteSet(0..count-1) /\ Cardinality(0..count-1) = count
    BY <1>1, FS_Interval
  <1>4. IsFiniteSet(Kept(seq)) /\ Cardinality(Kept(seq)) <= count
    BY <1>2, <1>3, FS_Subset
  <1>5. Cardinality(Kept(seq)) \in Nat
    BY <1>4, FS_CardinalityType
  <1>6. Cardinality(Kept(seq)) \in 0..count
    <2> DEFINE k == Cardinality(Kept(seq))
    <2>1. k \in Nat /\ k <= count
      BY <1>4, <1>5
    <2> HIDE DEF k
    <2>2. k \in 0..count
      BY <1>1, <2>1
    <2> QED BY <2>2 DEF k
  <1> QED
    BY <1>2, <1>4, <1>6

\* Compacting the array keeps exactly the packets that are not acknowledged.
LEMMA RemoveAckedOK ==
  ASSUME TypeOK, NEW seq, RemoveAcked(seq)
  PROVE  /\ count' \in 0..count
         /\ slot' \in [0..BufferSize-1 -> PacketType]
         /\ Live' = {slot[i].n : i \in Kept(seq)}
PROOF
  <1> DEFINE kept == Kept(seq)
             c == Cardinality(kept)
  <1>1. PICK from \in [0..c-1 -> kept] :
          /\ \A i, j \in DOMAIN from : i < j => from[i] < from[j]
          /\ count' = c
          /\ slot' = [i \in 0..BufferSize-1 |->
                        IF i < c THEN slot[from[i]] ELSE [Unused EXCEPT !.n = slot[i].n]]
    BY DEF RemoveAcked
  <1>2. /\ kept \subseteq 0..count-1 /\ IsFiniteSet(kept) /\ c \in 0..count
        /\ count \in 0..BufferSize /\ BufferSize \in Nat
        /\ slot \in [0..BufferSize-1 -> PacketType]
    <2>1. /\ kept \subseteq 0..count-1 /\ IsFiniteSet(kept) /\ c \in 0..count
      BY KeptIsPart
    <2>2. /\ count \in 0..BufferSize /\ slot \in [0..BufferSize-1 -> PacketType]
      BY DEF TypeOK
    <2> QED BY <2>1, <2>2, Sizes
  <1> HIDE DEF c, kept
  <1>7. kept \subseteq Int /\ kept \subseteq 0..BufferSize-1 /\ c \in Nat
    BY <1>2
  <1>3. from \in Surjection(0..c-1, kept)
    <2>1. \A i, j \in 0..c-1 : from[i] = from[j] => i = j
      <3> SUFFICES ASSUME NEW i \in 0..c-1, NEW j \in 0..c-1, from[i] = from[j]
                   PROVE  i = j
        OBVIOUS
      <3>1. i \in Int /\ j \in Int
        BY <1>7
      <3>2. from[i] \in kept
        BY <1>1
      <3>3. from[i] \in Int
        BY <1>7, <3>2
      <3>4. ~(i < j) /\ ~(j < i)
        BY <1>1, <3>1, <3>3
      <3> QED
        BY <3>1, <3>4
    <2>2. from \in Injection(0..c-1, kept)
      BY <2>1 DEF Injection, IsInjective
    <2>3. Cardinality(0..c-1) = c
      BY <1>2, FS_Interval
    <2> QED
      BY <1>2, <2>2, <2>3, FS_Injection DEF c
  <1>4. slot' \in [0..BufferSize-1 -> PacketType]
    <2> SUFFICES ASSUME NEW i \in 0..BufferSize-1
                 PROVE  (IF i < c THEN slot[from[i]] ELSE [Unused EXCEPT !.n = slot[i].n]) \in PacketType
      BY <1>1
    <2>1. CASE i < c
      <3>1. from[i] \in kept
        BY <1>1, <1>2, <2>1
      <3>2. from[i] \in 0..BufferSize-1
        BY <1>7, <3>1
      <3> QED
        BY <1>2, <2>1, <3>2
    <2>2. CASE ~(i < c)
      <3>1. slot[i].n \in Packets
        BY <1>2 DEF PacketType
      <3>2. [Unused EXCEPT !.n = slot[i].n] = [n |-> slot[i].n, tries |-> 0, age |-> 0]
        BY DEF Unused
      <3> QED
        BY <2>2, <3>1, <3>2, Sizes DEF PacketType
    <2> QED
      BY <2>1, <2>2
  <1>5. Live' = {slot[from[i]].n : i \in 0..c-1}
    <2>1. Live' = {slot'[i].n : i \in 0..c-1}
      BY <1>1 DEF Live
    <2>2. \A i \in 0..c-1 : slot'[i] = slot[from[i]]
      BY <1>1, <1>2
    <2> QED
      BY <2>1, <2>2
  <1>6. {slot[from[i]].n : i \in 0..c-1} = {slot[k].n : k \in kept}
    <2>1. \A k \in kept : \E i \in 0..c-1 : from[i] = k
      BY <1>3 DEF Surjection
    <2> QED
      BY <1>1, <2>1
  <1> QED
    BY <1>1, <1>2, <1>4, <1>5, <1>6 DEF kept

\* A scan stays within the array, counts no try beyond the last, and ends
\* with a packet to give up or at the head of the loop.
LEMMA ScanOK ==
  ASSUME TypeOK, NEW i \in 0..BufferSize, NEW l \in 0..MaxLag, Scan(i, l)
  PROVE  /\ slot' \in [0..BufferSize-1 -> PacketType]
         /\ \A j \in 0..BufferSize-1 : slot'[j].n = slot[j].n
         /\ received \subseteq received' /\ received' \subseteq Packets
         /\ lag' \in 0..MaxLag /\ index' \in 0..BufferSize-1 /\ timed' \in BOOLEAN
         /\ resender' \in {"giveup", "blocking", "done"}
         /\ resender' = "blocking" => timed' = (count > 0)
PROOF
  <1> DEFINE S == {k \in i..i+BufferSize : k >= count \/ Exhausted(k, l)}
             k == ScanEnd(i, l)
             resent == {j \in i..k-1 : Overdue(j, l)}
             resend(j) == IF j \in resent THEN [slot[j] EXCEPT !.tries = @ + 1, !.age = l]
                          ELSE slot[j]
  <1>1. /\ BufferSize \in Nat /\ count \in 0..BufferSize /\ count \in Nat /\ i \in Nat /\ l \in Nat
        /\ TriesMax \in Nat /\ MaxAge \in Nat /\ MaxLag \in Nat /\ l <= MaxAge
        /\ slot \in [0..BufferSize-1 -> PacketType]
        /\ received \subseteq Packets /\ index \in 0..BufferSize-1 /\ timed \in BOOLEAN
    BY Sizes DEF TypeOK
  <1>2. k \in S /\ \A m \in S : k <= m
    <2>1. S \subseteq Nat /\ i + BufferSize \in S
      BY <1>1
    <2> QED
      BY <2>1, LeastNat DEF ScanEnd
  <1>3. k \in i..i+BufferSize /\ k \in Nat
    BY <1>1, <1>2
  <1>4. ASSUME NEW j \in i..k-1 PROVE j \in 0..BufferSize-1 /\ ~Exhausted(j, l)
    <2>1. j \notin S
      <3>1. j \in Nat /\ j < k
        BY <1>1, <1>3
      <3> HIDE DEF S, k
      <3> QED
        BY <1>2, <1>3, <3>1
    <2>2. j \in Nat /\ j \in i..i+BufferSize
      BY <1>1, <1>3
    <2>3. j < count /\ ~Exhausted(j, l)
      <3> HIDE DEF k
      <3> QED
        BY <1>1, <2>1, <2>2
    <2> QED
      BY <1>1, <2>2, <2>3
  <1>5. PICK arrived \in SUBSET {slot[j].n : j \in resent} :
          /\ slot' = [j \in 0..BufferSize-1 |-> resend(j)]
          /\ received' = received \union arrived
          /\ IF k < count
             THEN resender' = "giveup" /\ index' = k /\ lag' = l /\ UNCHANGED timed
             ELSE LoopHead(count) /\ lag' = 0
    BY DEF Scan
  <1> HIDE DEF k
  <1>6. resent \subseteq 0..BufferSize-1
    BY <1>4
  <1>7. ASSUME NEW j \in 0..BufferSize-1
        PROVE  resend(j) \in PacketType /\ resend(j).n = slot[j].n
    <2>1. /\ slot[j] \in PacketType
          /\ slot[j].n \in Packets /\ slot[j].tries \in 0..TriesMax /\ slot[j].age \in 0..MaxAge
      BY <1>1 DEF PacketType
    <2>2. CASE j \in resent
      <3>1. Overdue(j, l) /\ ~Exhausted(j, l)
        BY <1>4, <2>2
      <3>2. slot[j].tries < TriesMax
        BY <1>1, <2>1, <3>1 DEF Exhausted
      <3>3. resend(j) = [n |-> slot[j].n, tries |-> slot[j].tries + 1, age |-> l]
        <4>1. resend(j) = [slot[j] EXCEPT !.tries = slot[j].tries + 1, !.age = l]
          BY <2>2
        <4>2. slot[j] \in [n : Packets, tries : 0..TriesMax, age : 0..MaxAge]
          BY <2>1 DEF PacketType
        <4> HIDE DEF resend
        <4> QED
          BY <4>1, <4>2
      <3> HIDE DEF resend
      <3>4. slot[j].tries + 1 \in 0..TriesMax /\ l \in 0..MaxAge
        BY <1>1, <2>1, <3>2
      <3> QED
        BY <2>1, <3>3, <3>4 DEF PacketType
    <2>3. CASE j \notin resent
      BY <2>1, <2>3
    <2> QED
      BY <2>2, <2>3
  <1>8. slot' \in [0..BufferSize-1 -> PacketType] /\ \A j \in 0..BufferSize-1 : slot'[j].n = slot[j].n
    <2> HIDE DEF resend
    <2> QED
      BY <1>5, <1>7
  <1>9. received \subseteq received' /\ received' \subseteq Packets
    <2>1. \A j \in resent : slot[j].n \in Packets
      BY <1>1, <1>6 DEF PacketType
    <2> HIDE DEF resent
    <2> QED
      BY <1>1, <1>5, <2>1
  <1>10. CASE k < count
    <2>1. resender' = "giveup" /\ index' = k /\ lag' = l /\ timed' = timed
      BY <1>5, <1>10
    <2>2. k \in 0..BufferSize-1
      BY <1>1, <1>3, <1>10
    <2> QED
      BY <1>1, <1>8, <1>9, <2>1, <2>2
  <1>11. CASE ~(k < count)
    <2>1. LoopHead(count) /\ lag' = 0
      BY <1>5, <1>11
    <2>2. resender' \in {"blocking", "done"} /\ timed' = (count > 0) /\ index' = 0
      BY <2>1 DEF LoopHead
    <2>3. timed' \in BOOLEAN /\ index' \in 0..BufferSize-1 /\ lag' \in 0..MaxLag
      BY <1>1, <2>1, <2>2, Sizes
    <2> QED
      BY <1>8, <1>9, <2>2, <2>3
  <1> QED
    BY <1>10, <1>11

-----------------------------------------------------------------------------
(* The steps                                                               *)

\* Where the resender's wait begins or ends, its timeout is right.
LEMMA NoSleepStep ==
  ASSUME TypeOK, NoSleepInv, [Next]_vars
  PROVE  NoSleepInv'
PROOF
  <1>1. count \in Nat /\ count \in 0..BufferSize /\ timed \in BOOLEAN
    BY Sizes DEF TypeOK
  <1> USE DEF NoSleepInv
  <1>2. ASSUME NEW s \in Senders, Push(s) PROVE NoSleepInv'
    <2>1. timed' = timed /\ resender # "blocking"
      BY <1>2 DEF Push, Locked
    <2>2. CASE Refuses(sender[s].n)
      <3>1. count' = count /\ resender' = resender
        BY <1>2, <2>2 DEF Push, bufferVars
      <3> QED
        BY <2>1, <3>1
    <2>3. CASE ~Refuses(sender[s].n)
      <3>1. /\ count' = count + 1
            /\ resender' = IF count + 1 = 1 THEN Signalled ELSE resender
        BY <1>2, <2>3 DEF Push, Store
      <3>2. CASE count = 0
        <4>1. resender' # "asleep" /\ resender' # "blocking"
          BY <1>1, <2>1, <3>1, <3>2 DEF Signalled
        <4> QED
          BY <4>1
      <3>3. CASE count # 0
        <4>1. count > 0 /\ resender' = resender
          BY <1>1, <3>1, <3>3
        <4> QED
          BY <2>1, <4>1
      <3> QED
        BY <3>2, <3>3
    <2> QED
      BY <2>2, <2>3
  <1>3. ASSUME NEW s \in Senders, Allocate(s) \/ Transmit(s) \/ TransmitFails(s) \/ PushTooLate(s)
        PROVE  NoSleepInv'
    BY <1>3 DEF Allocate, Transmit, TransmitFails, PushTooLate, bufferVars, resenderVars
  <1>4. ASSUME NEW c \in Packets, HandleAck(c) PROVE NoSleepInv'
    <2>1. count' \in 0..count
      BY <1>4, RemoveAckedOK DEF HandleAck
    <2>2. UNCHANGED <<resender, timed>>
      BY <1>4 DEF HandleAck, resenderVars
    <2>3. count' > 0 => count > 0
      BY <1>1, <2>1
    <2> QED
      BY <2>2, <2>3
  <1>5. CASE Stop
    BY <1>5 DEF Stop, Signalled, bufferVars
  <1>6. CASE Join
    BY <1>6 DEF Join
  <1>7. CASE Start
    BY <1>7 DEF Start, LoopHead, bufferVars
  <1>8. CASE Block
    BY <1>8 DEF Block, bufferVars
  <1>9. ASSUME NEW i \in 0..BufferSize, NEW l \in 0..MaxLag, Scan(i, l), count' = count
        PROVE  NoSleepInv'
    <2>1. resender' \in {"giveup", "blocking", "done"} /\ (resender' = "blocking" => timed' = (count > 0))
      BY <1>9, ScanOK
    <2> QED
      BY <1>9, <2>1
  <1>10. 0 \in 0..BufferSize /\ 0 \in 0..MaxLag /\ 1 \in 0..BufferSize /\ index \in 0..BufferSize /\ lag \in 0..MaxLag
    BY Sizes DEF TypeOK
  <1>11. CASE TimeOut
    <2>1. CASE takion = "run"
      BY <1>9, <1>10, <1>11, <2>1 DEF TimeOut
    <2>2. CASE takion # "run"
      BY <1>11, <2>2 DEF TimeOut
    <2> QED
      BY <2>1, <2>2
  <1>12. CASE WakeUp
    <2>1. CASE takion # "run"
      BY <1>12, <2>1 DEF WakeUp
    <2>2. CASE takion = "run" /\ (timed \/ count = 0)
      BY <1>1, <1>12, <2>2 DEF WakeUp
    <2>3. CASE takion = "run" /\ ~(timed \/ count = 0)
      BY <1>9, <1>10, <1>12, <2>3 DEF WakeUp
    <2> QED
      BY <2>1, <2>2, <2>3
  <1>13. CASE ReadVictim
    BY <1>13 DEF ReadVictim, bufferVars
  <1>14. CASE GiveUp
    BY <1>14 DEF GiveUp
  <1>15. CASE Resume
    BY <1>9, <1>10, <1>15 DEF Resume
  <1>16. CASE Tick
    BY <1>16 DEF Tick
  <1>17. CASE UNCHANGED vars
    BY <1>17 DEF vars, bufferVars, resenderVars
  <1> QED
    BY <1>2, <1>3, <1>4, <1>5, <1>6, <1>7, <1>8, <1>11, <1>12, <1>13, <1>14, <1>15, <1>16, <1>17
    DEF Next, Resender

\* The packets that need nobody's care any more.
Settled == received \union abandoned \union Live

\* A step that settles what a sender lets go of, and unsettles nothing,
\* forgets nothing.
LEMMA NothingLost ==
  ASSUME TypeOK, NothingForgotten, next' = next,
         \A n \in Packets : n \in Settled => n \in Settled',
         \A s \in Senders, n \in Packets : Holds(s, n) => Holds(s, n)' \/ n \in Settled'
  PROVE  NothingForgotten'
PROOF
  <1>1. \A n \in 0..next-1 : n \in Packets
    BY SendBufferAssumption DEF TypeOK, Packets
  <1>2. ASSUME NEW n \in 0..next-1
        PROVE  n \in Settled' \/ \E s \in Senders : Holds(s, n)'
    <2>1. n \in Settled \/ \E s \in Senders : Holds(s, n)
      BY <1>2 DEF NothingForgotten, Settled
    <2>2. n \in Packets
      BY <1>1
    <2> QED
      BY <2>1, <2>2
  <1> QED
    BY <1>2 DEF NothingForgotten, Settled

\* If the array keeps its numbers, the same packets are in it.
LEMMA LiveSame ==
  ASSUME TypeOK, count' = count, \A j \in 0..BufferSize-1 : slot'[j].n = slot[j].n
  PROVE  Live' = Live
PROOF
  <1>1. 0..count-1 \subseteq 0..BufferSize-1
    BY Sizes DEF TypeOK
  <1>2. \A j \in 0..count-1 : slot'[j].n = slot[j].n
    BY <1>1
  <1> QED
    BY <1>2 DEF Live

\* What a sender that goes on still holds.
LEMMA SenderMoves ==
  ASSUME TypeOK, NEW s \in Senders, NEW at, NEW m \in Packets,
         sender' = [sender EXCEPT ![s] = [at |-> at, n |-> m]]
  PROVE  /\ \A t \in Senders, n \in Packets : t # s /\ Holds(t, n) => Holds(t, n)'
         /\ at \in {"send", "push", "undefined"} => Holds(s, m)'
PROOF
  <1>1. sender \in [Senders -> SenderType]
    BY DEF TypeOK, SenderType
  <1>2. sender'[s] = [at |-> at, n |-> m] /\ \A t \in Senders : t # s => sender'[t] = sender[t]
    BY <1>1
  <1>3. \A t \in Senders, n \in Packets : t # s /\ Holds(t, n) => Holds(t, n)'
    BY <1>2 DEF Holds
  <1>4. at \in {"send", "push", "undefined"} => Holds(s, m)'
    BY <1>2 DEF Holds
  <1> QED
    BY <1>3, <1>4

\* A change of where a sender is, written as a new record.
LEMMA SenderAt ==
  ASSUME TypeOK, NEW s \in Senders, NEW at
  PROVE  /\ [sender EXCEPT ![s].at = at] = [sender EXCEPT ![s] = [at |-> at, n |-> sender[s].n]]
         /\ sender[s].n \in Packets
PROOF
  <1>1. sender \in [Senders -> SenderType]
    BY DEF TypeOK, SenderType
  <1>2. sender[s] \in [at : {"idle", "send", "push", "undefined"}, n : Packets]
    BY <1>1 DEF SenderType
  <1>3. [sender[s] EXCEPT !.at = at] = [at |-> at, n |-> sender[s].n]
    BY <1>2
  <1>4. [sender EXCEPT ![s].at = at] = [sender EXCEPT ![s] = [sender[s] EXCEPT !.at = at]]
    BY <1>1
  <1> QED
    BY <1>2, <1>3, <1>4

\* No step forgets a packet.
LEMMA ForgottenStep ==
  ASSUME TypeOK, NothingForgotten, [Next]_vars
  PROVE  NothingForgotten'
PROOF
  <1>1. /\ count \in Nat /\ count \in 0..BufferSize /\ BufferSize \in Nat
        /\ slot \in [0..BufferSize-1 -> PacketType]
    BY Sizes DEF TypeOK
  <1>2. ASSUME NEW s \in Senders, Allocate(s) PROVE NothingForgotten'
    <2>1. /\ next < MaxPackets /\ next' = next + 1 /\ next \in Nat /\ next \in Packets
          /\ sender' = [sender EXCEPT ![s] = [at |-> "send", n |-> next]]
          /\ sender[s].at = "idle"
      BY <1>2, Sizes, SendBufferAssumption DEF Allocate, TypeOK, Packets
    <2>2. Settled' = Settled
      BY <1>2 DEF Allocate, bufferVars, peerVars, Settled, Live
    <2> PICK m \in Packets : m = next
      BY <2>1
    <2>3. Holds(s, m)' /\ \A t \in Senders, n \in Packets : t # s /\ Holds(t, n) => Holds(t, n)'
      <3>1. sender' = [sender EXCEPT ![s] = [at |-> "send", n |-> m]]
        BY <2>1
      <3> QED
        BY <3>1, SenderMoves
    <2>4. ASSUME NEW n \in 0..next'-1
          PROVE  n \in Settled' \/ \E t \in Senders : Holds(t, n)'
      <3>1. CASE n = m
        BY <2>3, <3>1
      <3>2. CASE n # m
        <4>1. n \in 0..next-1 /\ n \in Packets
          BY <2>1, <2>4, <3>2, SendBufferAssumption DEF Packets
        <4>2. n \in Settled \/ \E t \in Senders : Holds(t, n)
          BY <4>1 DEF NothingForgotten, Settled
        <4>3. ~Holds(s, n)
          BY <2>1 DEF Holds
        <4> QED
          BY <2>2, <2>3, <4>1, <4>2, <4>3
      <3> QED
        BY <3>1, <3>2
    <2> QED
      BY <2>4 DEF NothingForgotten, Settled
  <1>3. ASSUME NEW s \in Senders, Transmit(s) \/ PushTooLate(s) PROVE NothingForgotten'
    <2>1. PICK at \in {"push", "undefined"} : sender' = [sender EXCEPT ![s].at = at]
      BY <1>3 DEF Transmit, PushTooLate
    <2>2. next' = next /\ \A n \in Packets : n \in Settled => n \in Settled'
      BY <1>3 DEF Transmit, PushTooLate, bufferVars, peerVars, Settled, Live
    <2>3. \A t \in Senders, n \in Packets : Holds(t, n) => Holds(t, n)'
      <3> PICK m \in Packets : m = sender[s].n
        BY SenderAt
      <3>1. sender' = [sender EXCEPT ![s] = [at |-> at, n |-> m]]
        BY <2>1, SenderAt
      <3>2. /\ \A t \in Senders, n \in Packets : t # s /\ Holds(t, n) => Holds(t, n)'
            /\ Holds(s, m)'
        BY <3>1, SenderMoves
      <3>3. \A n \in Packets : Holds(s, n) => n = m
        BY DEF Holds
      <3> QED
        BY <3>2, <3>3
    <2> QED
      BY <2>2, <2>3, NothingLost
  <1>4. ASSUME NEW s \in Senders, TransmitFails(s) \/ Push(s) PROVE NothingForgotten'
    <2>1. sender' = [sender EXCEPT ![s].at = "idle"] /\ next' = next
      BY <1>4 DEF TransmitFails, Push
    <2>2. \A t \in Senders, n \in Packets : t # s /\ Holds(t, n) => Holds(t, n)'
      <3> PICK m \in Packets : m = sender[s].n
        BY SenderAt
      <3>1. sender' = [sender EXCEPT ![s] = [at |-> "idle", n |-> m]]
        BY <2>1, SenderAt
      <3> QED
        BY <3>1, SenderMoves
    <2>3. /\ \A n \in Packets : n \in Settled => n \in Settled'
          /\ sender[s].n \in Settled'
      <3>1. CASE TransmitFails(s)
        BY <3>1 DEF TransmitFails, bufferVars, Settled, Live
      <3>2. CASE Push(s) /\ Refuses(sender[s].n)
        BY <3>2 DEF Push, bufferVars, Settled, Live
      <3>3. CASE Push(s) /\ ~Refuses(sender[s].n)
        <4>1. /\ slot' = [slot EXCEPT ![count] = [n |-> sender[s].n, tries |-> 0, age |-> 0]]
              /\ count' = count + 1 /\ received' = received /\ abandoned' = abandoned
          BY <3>3 DEF Push, Store
        <4>2. count \in 0..BufferSize-1
          BY <1>1, <3>3 DEF Refuses
        <4>3. slot'[count].n = sender[s].n /\ count \in 0..count'-1
          BY <1>1, <4>1, <4>2
        <4>4. \A j \in 0..count-1 : slot'[j] = slot[j] /\ j \in 0..count'-1
          BY <1>1, <4>1, <4>2
        <4>5. sender[s].n \in Live' /\ \A n \in Live : n \in Live'
          BY <4>3, <4>4 DEF Live
        <4> QED
          BY <4>1, <4>5 DEF Settled
      <3> QED
        BY <1>4, <3>1, <3>2, <3>3
    <2>4. \A n \in Packets : Holds(s, n) => n = sender[s].n
      BY DEF Holds
    <2> QED
      BY <2>1, <2>2, <2>3, <2>4, NothingLost
  <1>5. ASSUME UNCHANGED <<sender, next>>, \A n \in Packets : n \in Settled => n \in Settled'
        PROVE  NothingForgotten'
    <2>1. \A s \in Senders, n \in Packets : Holds(s, n) => Holds(s, n)'
      BY <1>5 DEF Holds
    <2> QED
      BY <1>5, <2>1, NothingLost
  <1>6. ASSUME NEW c \in Packets, HandleAck(c) PROVE NothingForgotten'
    <2>1. /\ UNCHANGED <<sender, next, received, abandoned>> /\ 0..c \subseteq received
          /\ RemoveAcked(SeqOf(c))
      BY <1>6 DEF HandleAck, peerVars
    <2>2. Live' = {slot[i].n : i \in Kept(SeqOf(c))}
      BY <2>1, RemoveAckedOK
    <2>3. ASSUME NEW i \in 0..count-1 PROVE slot[i].n \in received \/ slot[i].n \in Live'
      <3>1. slot[i].n \in Packets /\ slot[i].n \in Nat /\ c \in Nat
        <4>1. i \in 0..BufferSize-1
          BY <1>1
        <4>2. slot[i].n \in Packets
          BY <1>1, <4>1 DEF PacketType
        <4> QED
          BY <4>2, Sizes
      <3>2. CASE IsAcked(slot[i].n, SeqOf(c))
        <4>1. slot[i].n <= c
          BY <3>1, <3>2, AckedIsBefore
        <4> QED
          BY <2>1, <3>1, <4>1
      <3>3. CASE ~IsAcked(slot[i].n, SeqOf(c))
        BY <2>2, <3>3 DEF Kept
      <3> QED
        BY <3>2, <3>3
    <2>4. \A n \in Live : n \in received \/ n \in Live'
      BY <2>3 DEF Live
    <2> QED
      BY <1>5, <2>1, <2>4 DEF Settled
  <1>7. CASE GiveUp
    <2>1. /\ UNCHANGED <<sender, next, received>>
          /\ abandoned' = abandoned \union {n \in Live : IsAcked(n, SeqOf(victim))}
          /\ RemoveAcked(SeqOf(victim))
      BY <1>7 DEF GiveUp
    <2>2. Live' = {slot[i].n : i \in Kept(SeqOf(victim))}
      BY <2>1, RemoveAckedOK
    <2>3. \A n \in Live : n \in abandoned' \/ n \in Live'
      BY <2>1, <2>2 DEF Live, Kept
    <2> QED
      BY <1>5, <2>1, <2>3 DEF Settled
  <1>8. CASE Join
    <2>1. UNCHANGED <<sender, next, received>> /\ abandoned' = abandoned \union Live
      BY <1>8 DEF Join
    <2> QED
      BY <1>5, <2>1 DEF Settled
  <1>9. ASSUME UNCHANGED <<sender, next, abandoned, count>>, received \subseteq received',
               \A j \in 0..BufferSize-1 : slot'[j].n = slot[j].n
        PROVE  NothingForgotten'
    BY <1>5, <1>9, LiveSame DEF Settled
  <1>10. ASSUME UNCHANGED <<sender, next, abandoned, slot, count, received>>
         PROVE  NothingForgotten'
    BY <1>9, <1>10
  <1>11. CASE Stop \/ Start \/ Block \/ ReadVictim \/ UNCHANGED vars
    BY <1>10, <1>11 DEF Stop, Start, Block, ReadVictim, bufferVars, peerVars, vars
  <1>12. CASE Tick
    <2>1. slot' = [i \in 0..BufferSize-1 |->
                    IF i < count /\ slot[i].age < MaxAge
                    THEN [slot[i] EXCEPT !.age = @ + 1] ELSE slot[i]]
      BY <1>12 DEF Tick
    <2>2. ASSUME NEW j \in 0..BufferSize-1 PROVE slot'[j].n = slot[j].n
      <3>1. slot[j] \in [n : Packets, tries : 0..TriesMax, age : 0..MaxAge]
        BY <1>1 DEF PacketType
      <3>2. [slot[j] EXCEPT !.age = slot[j].age + 1].n = slot[j].n
        BY <3>1
      <3>3. slot'[j] = [slot[j] EXCEPT !.age = slot[j].age + 1] \/ slot'[j] = slot[j]
        BY <2>1
      <3> QED
        BY <3>2, <3>3
    <2>3. UNCHANGED <<sender, next, abandoned, count, received>>
      BY <1>12 DEF Tick, peerVars
    <2> QED
      BY <1>9, <2>2, <2>3
  <1>13. ASSUME NEW i \in 0..BufferSize, NEW l \in 0..MaxLag, Scan(i, l),
                UNCHANGED <<sender, next, abandoned, count>>
         PROVE  NothingForgotten'
    <2>1. received \subseteq received' /\ \A j \in 0..BufferSize-1 : slot'[j].n = slot[j].n
      BY <1>13, ScanOK
    <2> QED
      BY <1>9, <1>13, <2>1
  <1>14. /\ 0 \in 0..BufferSize /\ 0 \in 0..MaxLag /\ 1 \in 0..BufferSize
         /\ index \in 0..BufferSize /\ lag \in 0..MaxLag
    BY Sizes DEF TypeOK
  <1>15. CASE TimeOut
    <2>1. UNCHANGED <<sender, next, abandoned, count>>
      BY <1>15 DEF TimeOut
    <2>2. CASE takion = "run"
      BY <1>13, <1>14, <1>15, <2>1, <2>2 DEF TimeOut
    <2>3. CASE takion # "run"
      BY <1>10, <1>15, <2>1, <2>3 DEF TimeOut
    <2> QED
      BY <2>2, <2>3
  <1>16. CASE WakeUp
    <2>1. UNCHANGED <<sender, next, abandoned, count>>
      BY <1>16 DEF WakeUp
    <2>2. Scan(0, 0) \/ UNCHANGED <<slot, received>>
      BY <1>16 DEF WakeUp
    <2> QED
      BY <1>10, <1>13, <1>14, <2>1, <2>2
  <1>17. CASE Resume
    <2>1. UNCHANGED <<sender, next, abandoned, count>>
      BY <1>17 DEF Resume
    <2> QED
      BY <1>13, <1>14, <1>17, <2>1 DEF Resume
  <1> QED
    BY <1>2, <1>3, <1>4, <1>6, <1>7, <1>8, <1>11, <1>12, <1>15, <1>16, <1>17
    DEF Next, Resender

\* The fields that a sender's step leaves alone, and those a step of the
\* resender does.
LEMMA TypeStep ==
  ASSUME TypeOK, [Next]_vars
  PROVE  TypeOK'
PROOF
  <1>1. /\ count \in Nat /\ count \in 0..BufferSize /\ BufferSize \in Nat \ {0}
        /\ slot \in [0..BufferSize-1 -> PacketType]
        /\ next \in 0..MaxPackets /\ MaxPackets \in Nat
        /\ sender \in [Senders -> SenderType]
        /\ received \subseteq Packets /\ abandoned \subseteq Packets
        /\ lag \in 0..MaxLag /\ MaxLag \in Nat /\ MaxAge \in Nat
        /\ Live \subseteq Packets
    <2>1. TypeOK /\ sender \in [Senders -> SenderType]
      BY DEF TypeOK, SenderType
    <2>2. 0..count-1 \subseteq 0..BufferSize-1
      BY Sizes DEF TypeOK
    <2>3. \A j \in 0..count-1 : slot[j].n \in Packets
      BY <2>2 DEF TypeOK, PacketType
    <2> QED
      BY <2>1, <2>3, Sizes DEF TypeOK, Live
  <1>2. ASSUME NEW s \in Senders, NEW at \in {"idle", "send", "push", "undefined"},
               sender' = [sender EXCEPT ![s].at = at]
        PROVE  sender' \in [Senders -> SenderType]
    <2>1. sender' = [sender EXCEPT ![s] = [at |-> at, n |-> sender[s].n]] /\ sender[s].n \in Packets
      BY <1>2, SenderAt
    <2>2. [at |-> at, n |-> sender[s].n] \in SenderType
      BY <2>1 DEF SenderType
    <2> QED
      BY <1>1, <2>1, <2>2
  <1>3. ASSUME NEW s \in Senders, Allocate(s) PROVE TypeOK'
    <2>1. next \in Packets /\ next' \in 0..MaxPackets
      BY <1>1, <1>3 DEF Allocate, Packets
    <2>2. sender' \in [Senders -> SenderType]
      <3>1. [at |-> "send", n |-> next] \in SenderType
        BY <2>1 DEF SenderType
      <3> QED
        BY <1>1, <1>3, <3>1 DEF Allocate
    <2> QED
      BY <1>3, <2>1, <2>2 DEF TypeOK, SenderType, Allocate, bufferVars, resenderVars, peerVars
  <1>4. ASSUME NEW s \in Senders, Transmit(s) PROVE TypeOK'
    <2>1. sender' \in [Senders -> SenderType]
      BY <1>2, <1>4 DEF Transmit
    <2>2. received' \subseteq Packets
      <3>1. sender[s].n \in Packets
        BY <1>1 DEF SenderType
      <3>2. received' \in {received, received \union {sender[s].n}}
        BY <1>4 DEF Transmit
      <3> QED
        BY <1>1, <3>1, <3>2
    <2> QED
      BY <1>4, <2>1, <2>2 DEF TypeOK, SenderType, Transmit, bufferVars, resenderVars
  <1>5. ASSUME NEW s \in Senders, TransmitFails(s) PROVE TypeOK'
    <2>1. sender' \in [Senders -> SenderType]
      BY <1>2, <1>5 DEF TransmitFails
    <2>2. abandoned' \subseteq Packets
      BY <1>1, <1>5, SenderAt DEF TransmitFails
    <2> QED
      BY <1>5, <2>1, <2>2 DEF TypeOK, SenderType, TransmitFails, bufferVars, resenderVars
  <1>6. ASSUME NEW s \in Senders, PushTooLate(s) PROVE TypeOK'
    <2>1. sender' \in [Senders -> SenderType]
      BY <1>2, <1>6 DEF PushTooLate
    <2> QED
      BY <1>6, <2>1 DEF TypeOK, SenderType, PushTooLate, bufferVars, resenderVars, peerVars
  <1>7. ASSUME NEW s \in Senders, Push(s) PROVE TypeOK'
    <2>1. sender' \in [Senders -> SenderType]
      BY <1>2, <1>7 DEF Push
    <2>2. CASE Refuses(sender[s].n)
      <3>1. abandoned' \subseteq Packets
        <4>1. abandoned' = abandoned \union {sender[s].n}
          BY <1>7, <2>2 DEF Push
        <4>2. sender[s].n \in Packets /\ abandoned \subseteq Packets
          BY <1>1, SenderAt DEF TypeOK
        <4> QED BY <4>1, <4>2
      <3> QED
        BY <1>7, <2>1, <2>2, <3>1 DEF TypeOK, SenderType, Push, bufferVars
    <2>3. CASE ~Refuses(sender[s].n)
      <3>1. /\ slot' = [slot EXCEPT ![count] = [n |-> sender[s].n, tries |-> 0, age |-> 0]]
            /\ count' = count + 1 /\ abandoned' = abandoned /\ resender' \in {resender, "woken"}
        BY <1>7, <2>3 DEF Push, Store, Signalled
      <3>2. count \in 0..BufferSize-1 /\ count' \in 0..BufferSize
        BY <1>1, <2>3, <3>1 DEF Refuses
      <3>3. [n |-> sender[s].n, tries |-> 0, age |-> 0] \in PacketType
        <4>1. sender[s].n \in Packets
          BY <1>1 DEF SenderType
        <4>2. 0 \in 0..TriesMax /\ 0 \in 0..MaxAge
          BY Sizes
        <4> QED
          BY <4>1, <4>2 DEF PacketType
      <3>4. slot' \in [0..BufferSize-1 -> PacketType]
        BY <1>1, <3>1, <3>2, <3>3
      <3> QED
        BY <1>7, <2>1, <3>1, <3>2, <3>4 DEF TypeOK, SenderType, Push
    <2> QED
      BY <2>2, <2>3
  <1>8. ASSUME NEW seq, RemoveAcked(seq)
        PROVE  count' \in 0..BufferSize /\ slot' \in [0..BufferSize-1 -> PacketType]
    <2>1. count' \in 0..count /\ slot' \in [0..BufferSize-1 -> PacketType]
      BY <1>8, RemoveAckedOK
    <2> QED
      BY <1>1, <2>1
  <1>9. ASSUME NEW c \in Packets, HandleAck(c) PROVE TypeOK'
    <2>1. count' \in 0..BufferSize /\ slot' \in [0..BufferSize-1 -> PacketType]
      BY <1>8, <1>9 DEF HandleAck
    <2> QED
      BY <1>9, <2>1 DEF TypeOK, HandleAck, resenderVars, peerVars
  <1>10. CASE Stop
    BY <1>10 DEF TypeOK, Stop, Signalled, bufferVars, peerVars
  <1>11. CASE Join
    <2>1. count' \in 0..BufferSize /\ abandoned' \subseteq Packets
      BY <1>1, <1>11 DEF Join
    <2> QED
      BY <1>11, <2>1 DEF TypeOK, Join, resenderVars
  <1>12. CASE Start
    <2>1. index' \in 0..BufferSize-1 /\ timed' \in BOOLEAN /\ resender' \in {"blocking", "done"}
      BY <1>1, <1>12 DEF Start, LoopHead
    <2> QED
      BY <1>12, <2>1 DEF TypeOK, Start, bufferVars, peerVars
  <1>13. CASE Block
    BY <1>13 DEF TypeOK, Block, bufferVars, peerVars
  <1>14. ASSUME NEW i \in 0..BufferSize, NEW l \in 0..MaxLag, Scan(i, l), victim' \in Packets,
                UNCHANGED <<next, sender, count, takion, abandoned>>
         PROVE  TypeOK'
    <2>1. /\ slot' \in [0..BufferSize-1 -> PacketType]
          /\ received' \subseteq Packets
          /\ lag' \in 0..MaxLag /\ index' \in 0..BufferSize-1 /\ timed' \in BOOLEAN
          /\ resender' \in {"giveup", "blocking", "done"}
      BY <1>14, ScanOK
    <2> QED
      BY <1>14, <2>1 DEF TypeOK
  <1>15. /\ 0 \in 0..BufferSize /\ 0 \in 0..MaxLag /\ 1 \in 0..BufferSize
         /\ index \in 0..BufferSize /\ victim \in Packets /\ 0 \in Packets
    BY Sizes DEF TypeOK
  <1>16. CASE TimeOut \/ WakeUp
    <2>1. UNCHANGED <<next, sender, count, victim, takion, abandoned>>
      BY <1>16 DEF TimeOut, WakeUp
    <2>2. \/ Scan(0, 0)
          \/ resender' \in {"done", "blocking"} /\ UNCHANGED <<slot, received, timed, index, lag>>
      BY <1>16 DEF TimeOut, WakeUp
    <2>3. CASE Scan(0, 0)
      BY <1>14, <1>15, <2>1, <2>3
    <2>4. CASE resender' \in {"done", "blocking"} /\ UNCHANGED <<slot, received, timed, index, lag>>
      BY <2>1, <2>4 DEF TypeOK
    <2> QED
      BY <2>2, <2>3, <2>4
  <1>17. CASE ReadVictim
    <2>1. victim' \in Packets
      BY <1>1, <1>17 DEF ReadVictim, TypeOK, PacketType
    <2> QED
      BY <1>17, <2>1 DEF TypeOK, ReadVictim, bufferVars, peerVars
  <1>18. CASE GiveUp
    <2>1. count' \in 0..BufferSize /\ slot' \in [0..BufferSize-1 -> PacketType]
      BY <1>8, <1>18 DEF GiveUp
    <2>2. abandoned' \subseteq Packets
      BY <1>1, <1>18 DEF GiveUp
    <2> QED
      BY <1>18, <2>1, <2>2 DEF TypeOK, GiveUp
  <1>19. CASE Resume
    <2>1. PICK i \in 0..BufferSize : Scan(i, lag)
      BY <1>15, <1>19 DEF Resume
    <2>2. victim' \in Packets /\ UNCHANGED <<next, sender, count, takion, abandoned>>
      BY <1>15, <1>19 DEF Resume
    <2> QED
      BY <1>1, <1>14, <2>1, <2>2
  <1>20. CASE Tick
    <2>1. slot' = [i \in 0..BufferSize-1 |->
                    IF i < count /\ slot[i].age < MaxAge
                    THEN [slot[i] EXCEPT !.age = @ + 1] ELSE slot[i]]
      BY <1>20 DEF Tick
    <2>2. ASSUME NEW j \in 0..BufferSize-1 PROVE slot'[j] \in PacketType
      <3>1. /\ slot[j] \in [n : Packets, tries : 0..TriesMax, age : 0..MaxAge]
            /\ slot[j] \in PacketType
        BY <1>1 DEF PacketType
      <3>2. ASSUME slot[j].age < MaxAge PROVE [slot[j] EXCEPT !.age = slot[j].age + 1] \in PacketType
        <4>1. slot[j].age + 1 \in 0..MaxAge
          BY <1>1, <3>1, <3>2
        <4>2. [slot[j] EXCEPT !.age = slot[j].age + 1]
                = [n |-> slot[j].n, tries |-> slot[j].tries, age |-> slot[j].age + 1]
          BY <3>1
        <4> QED
          BY <3>1, <4>1, <4>2 DEF PacketType
      <3>3. slot'[j] = IF j < count /\ slot[j].age < MaxAge
                       THEN [slot[j] EXCEPT !.age = slot[j].age + 1] ELSE slot[j]
        BY <2>1
      <3> QED
        BY <3>1, <3>2, <3>3
    <2>3. slot' \in [0..BufferSize-1 -> PacketType]
      BY <2>1, <2>2
    <2>4. lag' \in 0..MaxLag
      BY <1>1, <1>20 DEF Tick
    <2> QED
      BY <1>20, <2>3, <2>4 DEF TypeOK, Tick, peerVars
  <1>21. CASE UNCHANGED vars
    BY <1>21 DEF TypeOK, vars, bufferVars, resenderVars, peerVars
  <1> QED
    BY <1>3, <1>4, <1>5, <1>6, <1>7, <1>9, <1>10, <1>11, <1>12, <1>13, <1>16, <1>17, <1>18, <1>19,
       <1>20, <1>21 DEF Next, Resender

-----------------------------------------------------------------------------
(* The theorems                                                            *)

LEMMA InitOK == Init => IInv
PROOF
  <1> SUFFICES ASSUME Init PROVE IInv
    OBVIOUS
  <1>1. TypeOK
    <2>1. /\ 0 \in 0..MaxPackets /\ 0 \in 0..BufferSize /\ 0 \in 0..BufferSize-1
          /\ 0 \in 0..MaxLag /\ 0 \in 0..TriesMax /\ 0 \in 0..MaxAge /\ 0 \in Packets
      BY Sizes
    <2>2. Unused \in PacketType
      BY <2>1 DEF Unused, PacketType
    <2>3. slot \in [0..BufferSize-1 -> PacketType]
      BY <2>2 DEF Init
    <2>4. sender \in [Senders -> [at : {"idle", "send", "push", "undefined"}, n : Packets]]
      BY <2>1 DEF Init
    <2> QED
      BY <2>1, <2>3, <2>4 DEF Init, TypeOK
  <1>2. NoSleepInv /\ NothingForgotten
    BY DEF Init, NoSleepInv, NothingForgotten
  <1> QED
    BY <1>1, <1>2 DEF IInv

\* The invariant of all that follows.
THEOREM Invariance == Spec => []IInv
PROOF
  <1>1. Init => IInv
    BY InitOK
  <1>2. IInv /\ [Next]_vars => IInv'
    BY TypeStep, NoSleepStep, ForgottenStep DEF IInv
  <1> QED
    BY <1>1, <1>2, PTL DEF Spec

\* The array and its count stay within TAKION_SEND_BUFFER_SIZE, the tries
\* within TAKION_DATA_RESEND_TRIES_MAX, the scan within the array.
THEOREM TypeCorrect == Spec => []TypeOK
PROOF
  <1>1. IInv => TypeOK
    BY DEF IInv
  <1> QED
    BY <1>1, Invariance, PTL

\* However pushes, acknowledgements and waits are interleaved, the resender
\* never sleeps without a timeout over a packet (takionsendbuffer.c:117-120).
THEOREM NoSleep == Spec => []NoSleepOverPackets
PROOF
  <1>1. IInv => NoSleepOverPackets
    BY DEF IInv, NoSleepInv, NoSleepOverPackets
  <1> QED
    BY <1>1, Invariance, PTL

\* No acknowledgement, stale, repeated or across the wrap of the numbers,
\* makes the buffer drop a packet that the console does not have.
THEOREM NoneForgotten == Spec => []NothingForgotten
PROOF
  <1>1. IInv => NothingForgotten
    BY DEF IInv
  <1> QED
    BY <1>1, Invariance, PTL
=============================================================================
