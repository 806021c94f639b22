----------------------- MODULE TakionVideoQueueProofs -----------------------
(***************************************************************************)
(* The video path for every modulus, queue size, timeout, frame size and   *)
(* every loss, duplication and reordering of the packets.                  *)
(*                                                                         *)
(* First the timer and the window: four invariants, each of which needs    *)
(* the others.  The timer runs only while the queue is not empty because a *)
(* flush ends at a gap, a skip ends at a packet because the last place is  *)
(* set, and that needs the window to fit in the ring.                      *)
(*                                                                         *)
(* Then the packets, counted as the console counts them, without wrapping: *)
(* the window starts at some packet B later than the last one delivered,   *)
(* and each packet in it sits at its own place.  That a number means the   *)
(* packet it was given to needs the packets in question to be less than    *)
(* half the modulus apart, which is the assumption Recent.                 *)
(***************************************************************************)
EXTENDS MCVideoQueue, ReorderQueueProofs, SequenceTheorems

\* What a flush computes with: the records of Drain, Skip and Settle.
FlushState ==
  [queue : QueueOver(Packets), waited : NotWaiting..Timeout+1, waitSeq : RawSeq,
   out : Seq(Packets)]

\* The timer runs only while there is something in the queue.
TimerJustified(f) == f.waited # NotWaiting => f.queue.count > 0
HeadIsGap(q) == q.count > 0 => UserAt(q, 0) = NoUser

\* The constants in the form the steps below need them.
LEMMA Constants ==
  /\ Timeout \in Nat /\ NotWaiting \in Int /\ NotWaiting = 0-1
  /\ NoUser \notin Packets
BY VideoQueueAssumption DEF NotWaiting, Packets

\* The fields of such a record, and of the queue in it.
LEMMA FlushStateFields ==
  ASSUME NEW f \in FlushState
  PROVE  /\ f.queue \in QueueOver(Packets) /\ f.waited \in NotWaiting..Timeout+1
         /\ f.waitSeq \in RawSeq /\ f.out \in Seq(Packets)
BY DEF FlushState

LEMMA QueueFields ==
  ASSUME NEW q \in QueueOver(Packets)
  PROVE  q.count \in 0..QueueSize /\ q.count \in Nat /\ q.begin \in RawSeq
BY Sizes DEF QueueOver

\* Pulling and dispatching ends at a gap or with an empty queue, and a timer
\* that still runs afterwards has a gap to wait for.
LEMMA DrainOK ==
  ASSUME NEW f \in FlushState, LastIsSet(f.queue), TimerJustified(f)
  PROVE  LET d == Drain(f)
         IN  /\ d \in FlushState
             /\ LastIsSet(d.queue) /\ HeadIsGap(d.queue) /\ TimerJustified(d)
             /\ d.queue = AfterPulls(f.queue) /\ d.out = f.out \o Pulled(f.queue)
             /\ d.waited = NotWaiting \/ d.waited = f.waited
PROOF
  <1> DEFINE q == f.queue
             d == Drain(f)
  <1>1. /\ PullCount(q) \in 0..q.count
        /\ AfterPulls(q) \in QueueOver(Packets)
        /\ AfterPulls(q).count = q.count - PullCount(q)
        /\ LastIsSet(AfterPulls(q))
        /\ AfterPulls(q).count > 0 => UserAt(AfterPulls(q), 0) = NoUser
        /\ Pulled(q) \in [1..PullCount(q) -> Packets]
    BY Constants, FlushStateFields, PullsOK
  <1>2. q.count \in Nat /\ PullCount(q) \in Nat
    BY <1>1, FlushStateFields, QueueFields
  <1>3. Pulled(q) \in Seq(Packets)
    BY <1>1, <1>2, SeqDef
  <1>4. f.out \o Pulled(q) \in Seq(Packets)
    BY <1>3, FlushStateFields
  <1> DEFINE w == IF PullCount(q) > 0 THEN NotWaiting ELSE f.waited
  <1>5. w \in NotWaiting..Timeout+1
    BY FlushStateFields, Constants
  <1>6. d = [queue |-> AfterPulls(q), waited |-> w, waitSeq |-> f.waitSeq, out |-> f.out \o Pulled(q)]
    <2>1. d = [f EXCEPT !.queue = AfterPulls(q), !.out = f.out \o Pulled(q), !.waited = w]
      BY DEF Drain
    <2>2. f \in [queue : QueueOver(Packets), waited : NotWaiting..Timeout+1,
              waitSeq : RawSeq, out : Seq(Packets)]
      BY DEF FlushState
    <2> HIDE DEF d, w, q
    <2> QED BY <2>1, <2>2
  <1>7. d \in FlushState
    BY <1>1, <1>4, <1>5, <1>6, FlushStateFields DEF FlushState
  <1>8. ASSUME w # NotWaiting PROVE AfterPulls(q).count > 0
    <2>1. PullCount(q) = 0 /\ f.waited # NotWaiting
      BY <1>2, <1>8
    <2>2. q.count > 0
      BY <2>1 DEF TimerJustified
    <2> QED BY <1>1, <1>2, <2>1, <2>2
  <1>9. /\ d.queue = AfterPulls(q) /\ d.out = f.out \o Pulled(q)
        /\ d.waited = NotWaiting \/ d.waited = f.waited
    <2>1. w = NotWaiting \/ w = f.waited
      OBVIOUS
    <2> HIDE DEF w, q, d
    <2> QED BY <1>6, <2>1
  <1> HIDE DEF w, d
  <1>10. LastIsSet(d.queue) /\ HeadIsGap(d.queue) /\ TimerJustified(d)
    <2> HIDE DEF q
    <2> QED BY <1>1, <1>6, <1>8 DEF HeadIsGap, TimerJustified
  <1> QED
    BY <1>7, <1>9, <1>10 DEF d

\* A skip moves the window up to a packet, and its last place stays.
LEMMA SkipOK ==
  ASSUME NEW f \in FlushState, LastIsSet(f.queue), FirstSet(f.queue) < f.queue.count
  PROVE  LET s == Skip(f)
             k == FirstSet(f.queue)
         IN  /\ s \in FlushState /\ LastIsSet(s.queue) /\ TimerJustified(s)
             /\ s.queue = [begin |-> SeqAdd(f.queue.begin, k), count |-> f.queue.count - k,
                           slot |-> f.queue.slot]
             /\ s.out = f.out
             /\ k \in 0..f.queue.count-1
             /\ \A i \in 0..k-1 : UserAt(f.queue, i) = NoUser
PROOF
  <1> DEFINE q == f.queue
             S == {j \in 0..q.count : j = q.count \/ UserAt(q, j) # NoUser}
             k == FirstSet(q)
             r == [begin |-> SeqAdd(q.begin, k), count |-> q.count - k, slot |-> q.slot]
             s == Skip(f)
  <1>1. /\ q \in QueueOver(Packets) /\ q.count \in 0..QueueSize /\ q.begin \in RawSeq
        /\ q \in [begin : RawSeq, count : 0..QueueSize,
                  slot : [0..QueueSize-1 -> Packets \union {NoUser}]]
    BY FlushStateFields, QueueFields DEF QueueOver
  <1>2. /\ k \in 0..q.count /\ k \in 0..SeqMod-1 /\ k \in 0..QueueSize
        /\ q.count - k \in 1..QueueSize /\ k \in 0..q.count-1
        /\ \A i \in 0..k-1 : UserAt(q, i) = NoUser
    <2>1. S \subseteq Nat /\ q.count \in S
      BY <1>1, Sizes
    <2>2. k \in S /\ \A j \in S : k <= j
      BY <2>1, LeastNat DEF FirstSet
    <2>3. k \in 0..q.count /\ k < q.count
      BY <2>2
    <2>4. ASSUME NEW i \in 0..k-1, UserAt(q, i) # NoUser PROVE FALSE
      <3>1. i \in S /\ i < k
        BY <1>1, <2>3, <2>4
      <3> HIDE DEF k, q, S
      <3> QED BY <1>1, <2>2, <2>3, <3>1
    <2> HIDE DEF k, q
    <2> QED BY <1>1, <2>3, <2>4, Sizes
  <1> HIDE DEF k
  <1>3. s = [queue |-> r, waited |-> NotWaiting, waitSeq |-> f.waitSeq, out |-> f.out]
    <2>1. s = [f EXCEPT !.queue = [[q EXCEPT !.begin = SeqAdd(q.begin, k)] EXCEPT !.count = q.count - k],
                        !.waited = NotWaiting]
      BY DEF Skip, k
    <2>2. f \in [queue : QueueOver(Packets), waited : NotWaiting..Timeout+1,
              waitSeq : RawSeq, out : Seq(Packets)]
      BY DEF FlushState
    <2>3. [[q EXCEPT !.begin = SeqAdd(q.begin, k)] EXCEPT !.count = q.count - k] = r
      <3> DEFINE b == SeqAdd(q.begin, k)
                 c == q.count - k
      <3>1. q \in [begin : RawSeq, count : 0..QueueSize,
                  slot : [0..QueueSize-1 -> Packets \union {NoUser}]]
        BY <1>1
      <3> HIDE DEF q, b, c
      <3> DEFINE t == [q EXCEPT !.begin = b]
      <3>2. t = [begin |-> b, count |-> q.count, slot |-> q.slot]
        BY <3>1
      <3> HIDE DEF t
      <3>3. [t EXCEPT !.count = c] = [begin |-> b, count |-> c, slot |-> q.slot]
        BY <3>2
      <3> QED BY <3>3 DEF b, c, t
    <2> HIDE DEF s, q, r
    <2> QED BY <2>1, <2>2, <2>3
  <1>4. SeqAdd(q.begin, k) \in RawSeq
    BY <1>1, <1>2, CastAdd
  <1>5. r \in QueueOver(Packets)
    BY <1>1, <1>2, <1>4, Sizes DEF QueueOver
  <1>6. s \in FlushState
    BY <1>3, <1>5, FlushStateFields, Constants DEF FlushState
  <1>7. UserAt(r, r.count - 1) # NoUser
    <2>1. /\ r.count - 1 \in Nat /\ k + (r.count - 1) = q.count - 1
          /\ k + (r.count - 1) < SeqMod /\ q.count > 0
      <3>1. /\ r.count = q.count - k /\ q.count \in 0..QueueSize
            /\ k \in 0..q.count-1
        BY <1>1, <1>2
      <3> HIDE DEF r, q
      <3> QED BY <3>1, Sizes
    <2>2. r.slot = q.slot /\ SeqCast(r.begin) = SeqCast(SeqAdd(q.begin, k))
      OBVIOUS
    <2> HIDE DEF r, q
    <2>3. UserAt(r, r.count - 1) = UserAt(q, q.count - 1)
      BY <1>1, <1>2, <1>5, <2>1, <2>2, MovedFront
    <2> QED BY <2>1, <2>3 DEF LastIsSet, q
  <1>8. s.queue = r /\ s.out = f.out
    <2> HIDE DEF r, s
    <2> QED BY <1>3
  <1> HIDE DEF r, s
  <1>9. s \in FlushState /\ LastIsSet(s.queue) /\ TimerJustified(s)
    BY <1>3, <1>6, <1>7 DEF LastIsSet, TimerJustified
  <1> QED BY <1>2, <1>8, <1>9 DEF s, r, k

\* A flush settles with a running timer exactly when packets are left.
LEMMA SettleOK ==
  ASSUME NEW f \in FlushState, TimerJustified(f)
  PROVE  LET s == Settle(f)
         IN  /\ s \in FlushState
             /\ s.queue = f.queue /\ s.out = f.out
             /\ s.waited # NotWaiting <=> s.queue.count > 0
PROOF
  <1> DEFINE s == Settle(f)
  <1>1. CASE f.queue.count = 0
    <2>1. s = f
      BY <1>1 DEF Settle
    <2> HIDE DEF s
    <2> QED BY <1>1, <2>1 DEF TimerJustified, s
  <1>2. CASE f.queue.count # 0 /\ (f.waited = NotWaiting \/ NewGap(f))
    <2>1. s = [queue |-> f.queue, waited |-> 0, waitSeq |-> f.queue.begin, out |-> f.out]
      <3>1. s = [f EXCEPT !.waited = 0, !.waitSeq = f.queue.begin]
        BY <1>2 DEF Settle, StartWait
      <3>2. f \in [queue : QueueOver(Packets), waited : NotWaiting..Timeout+1,
                waitSeq : RawSeq, out : Seq(Packets)]
        BY DEF FlushState
      <3> HIDE DEF s
      <3> QED BY <3>1, <3>2
    <2> HIDE DEF s
    <2>2. 0 \in NotWaiting..Timeout+1 /\ 0 # NotWaiting
      BY Constants
    <2>3. s \in FlushState
      BY <2>1, <2>2, FlushStateFields, QueueFields DEF FlushState
    <2>4. f.queue.count > 0
      BY <1>2, FlushStateFields, QueueFields
    <2> HIDE DEF s
    <2> QED BY <2>1, <2>2, <2>3, <2>4 DEF s
  <1>3. CASE f.queue.count # 0 /\ ~(f.waited = NotWaiting \/ NewGap(f))
    <2>1. s = [queue |-> f.queue, waited |-> f.waited, waitSeq |-> f.queue.begin, out |-> f.out]
      <3>1. s = [f EXCEPT !.waitSeq = f.queue.begin]
        BY <1>3 DEF Settle, KeepWait
      <3>2. f \in [queue : QueueOver(Packets), waited : NotWaiting..Timeout+1,
                waitSeq : RawSeq, out : Seq(Packets)]
        BY DEF FlushState
      <3> HIDE DEF s
      <3> QED BY <3>1, <3>2
    <2> HIDE DEF s
    <2>2. s \in FlushState
      BY <2>1, FlushStateFields, QueueFields DEF FlushState
    <2>3. f.queue.count > 0
      BY <1>3, FlushStateFields, QueueFields
    <2> HIDE DEF s
    <2> QED BY <1>3, <2>1, <2>2, <2>3 DEF s
  <1> QED BY <1>1, <1>2, <1>3

\* What holds of the queue and the timer between two calls.
FlushedOK ==
  /\ queue \in QueueOver(Packets)
  /\ LastIsSet(queue)
  /\ HeadIsGap(queue)
  /\ WaitsIffBuffered
  /\ waited \in NotWaiting..Timeout+1
  /\ waitSeq \in RawSeq
  /\ delivered \in Seq(Packets)

\* A flush of a queue that ends with a packet, under a justified timer, takes
\* it to such a state.
LEMMA FlushOK ==
  ASSUME NEW q \in QueueOver(Packets), LastIsSet(q),
         NEW w \in NotWaiting..Timeout+1, w # NotWaiting => q.count > 0,
         NEW ws \in RawSeq, NEW buffers \in Int,
         delivered \in Seq(Packets), Flush(q, w, ws, buffers)
  PROVE  FlushedOK' /\ held' \in Int
PROOF
  <1> DEFINE g == [queue |-> q, waited |-> w, waitSeq |-> ws, out |-> <<>>]
             d == Drain(g)
             e == IF TimedOut(d) THEN Drain(Skip(KeepWait(d))) ELSE d
             f == Settle(e)
  <1>1. g \in FlushState /\ LastIsSet(g.queue) /\ TimerJustified(g)
    BY DEF FlushState, TimerJustified
  <1>2. d \in FlushState /\ LastIsSet(d.queue) /\ HeadIsGap(d.queue) /\ TimerJustified(d)
    <2> HIDE DEF g
    <2> QED BY <1>1, DrainOK
  <1>3. /\ queue' = f.queue /\ waited' = f.waited /\ waitSeq' = f.waitSeq
        /\ delivered' = delivered \o f.out /\ held' = buffers - Len(f.out)
    BY DEF Flush
  <1> HIDE DEF d
  <1>4. e \in FlushState /\ LastIsSet(e.queue) /\ HeadIsGap(e.queue) /\ TimerJustified(e)
    <2>1. CASE ~TimedOut(d)
      BY <1>2, <2>1
    <2>2. CASE TimedOut(d)
      <3> DEFINE k == KeepWait(d)
                 s == Skip(k)
      <3>1. /\ k = [queue |-> d.queue, waited |-> d.waited, waitSeq |-> d.queue.begin, out |-> d.out]
            /\ k.queue = d.queue
        <4>1. k = [d EXCEPT !.waitSeq = d.queue.begin]
          BY DEF KeepWait
        <4>2. d \in [queue : QueueOver(Packets), waited : NotWaiting..Timeout+1,
                    waitSeq : RawSeq, out : Seq(Packets)]
          BY <1>2 DEF FlushState
        <4> HIDE DEF k
        <4> QED BY <4>1, <4>2
      <3> HIDE DEF k
      <3>2. k \in FlushState
        BY <1>2, <3>1, FlushStateFields, QueueFields DEF FlushState
      <3>3. FirstSet(k.queue) < k.queue.count /\ LastIsSet(k.queue)
        BY <1>2, <2>2, <3>1 DEF TimedOut
      <3> HIDE DEF k
      <3>4. s \in FlushState /\ LastIsSet(s.queue) /\ TimerJustified(s)
        BY <3>2, <3>3, SkipOK
      <3>5. e = Drain(s)
        BY <2>2 DEF k
      <3> HIDE DEF s, e
      <3> QED BY <3>4, <3>5, DrainOK
    <2> QED BY <2>1, <2>2
  <1> HIDE DEF e
  <1>5. f \in FlushState /\ f.queue = e.queue /\ (f.waited # NotWaiting <=> f.queue.count > 0)
    BY <1>4, SettleOK
  <1> HIDE DEF f
  <1>6. delivered \o f.out \in Seq(Packets) /\ Len(f.out) \in Nat
    BY <1>5, FlushStateFields
  <1>7. FlushedOK'
    BY <1>3, <1>4, <1>5, <1>6, FlushStateFields DEF FlushedOK, LastIsSet, HeadIsGap, WaitsIffBuffered
  <1>8. held' \in Int
    BY <1>3, <1>6
  <1> QED BY <1>7, <1>8

-----------------------------------------------------------------------------
(* The specification                                                       *)

IInv == TypeOK /\ WindowFits /\ WaitsIffBuffered /\ OnlyGapsAreBuffered

\* The invariant in the terms of the lemmas above, which speak of a flush.
IParts ==
  /\ FlushedOK
  /\ sent \in 0..MaxPackets /\ net \subseteq Packets
  /\ open \in BOOLEAN /\ initialized \in BOOLEAN
  /\ held \in Int

LEMMA IInvFlushed == IInv <=> IParts
PROOF
  <1>1. TypeOK /\ WindowFits => queue \in QueueOver(Packets)
    BY Sizes DEF TypeOK, WindowFits, QueueOver, RawSeq
  <1>2. queue \in QueueOver(Packets) =>
          /\ WindowFits
          /\ queue \in [begin : 0..2*SeqMod-1, count : Nat,
                       slot : [0..QueueSize-1 -> Packets \union {NoUser}]]
    BY Sizes DEF WindowFits, QueueOver, RawSeq
  <1>3. OnlyGapsAreBuffered <=> LastIsSet(queue) /\ HeadIsGap(queue)
    BY DEF OnlyGapsAreBuffered, LastIsSet, HeadIsGap
  <1> QED
    BY <1>1, <1>2, <1>3 DEF IInv, IParts, FlushedOK, TypeOK, RawSeq

\* The same of the next state.
LEMMA IInvFlushedNext == IInv' <=> IParts'
BY IInvFlushed, PTL

\* The invariant holds when the thread starts.
LEMMA InitIInv == Init => IInv
PROOF
  <1> SUFFICES ASSUME Init PROVE IInv
    OBVIOUS
  <1> USE DEF Init
  <1>1. queue \in QueueOver(Packets) /\ queue.count = 0
    BY Sizes DEF EmptyQueue, QueueOver, RawSeq
  <1>2. FlushedOK
    BY <1>1, Sizes, Constants DEF FlushedOK, LastIsSet, HeadIsGap, WaitsIffBuffered, RawSeq
  <1>3. /\ sent \in 0..MaxPackets /\ net \subseteq Packets
        /\ held \in Int
    BY VideoQueueAssumption
  <1>4. open \in BOOLEAN /\ initialized \in BOOLEAN
    BY Zenon
  <1> QED
    BY <1>2, <1>3, <1>4, IInvFlushed DEF IParts

\* The number of a packet and the start of the queue fit the modulus.
LEMMA SeqOfType ==
  ASSUME NEW n \in Nat
  PROVE  SeqOf(n) \in 0..SeqMod-1 /\ FirstSeq(n) \in 0..SeqMod-1
PROOF
  <1>1. SeqMod \in Nat \ {0} /\ StartSeq \in Nat /\ FrameUnits \in Nat \ {0}
    BY Sizes, VideoQueueAssumption
  <1>2. SeqOf(n) \in 0..SeqMod-1
    BY <1>1 DEF SeqOf
  <1>3. UnitIndex(n) \in Int
    BY <1>1 DEF UnitIndex
  <1> QED BY <1>1, <1>2, <1>3 DEF FirstSeq

\* Handling a packet preserves the invariant: push, then flush.
LEMMA HandlePacketIInv ==
  ASSUME IInv, NEW n \in net, HandlePacket(n)
  PROVE  IInv'
PROOF
  <1> DEFINE q == IF initialized THEN queue ELSE EmptyQueue(FirstSeq(n))
             w == IF initialized THEN waited ELSE NotWaiting
             ws == IF initialized THEN waitSeq ELSE FirstSeq(n)
             p == Push(q, SeqOf(n), n)
  <1>1. /\ FlushedOK /\ sent \in 0..MaxPackets /\ net \subseteq Packets
        /\ open \in BOOLEAN /\ held \in Int
    BY IInvFlushed DEF IParts
  <1>2. n \in Packets /\ n \in Nat
    BY <1>1, VideoQueueAssumption DEF Packets
  <1>3. SeqOf(n) \in 0..SeqMod-1 /\ FirstSeq(n) \in RawSeq
    BY <1>2, SeqOfType, Sizes DEF RawSeq
  <1>4. /\ q \in QueueOver(Packets) /\ LastIsSet(q)
        /\ w \in NotWaiting..Timeout+1 /\ ws \in RawSeq
        /\ w # NotWaiting => q.count > 0
    <2>1. CASE initialized
      BY <1>1, <2>1 DEF FlushedOK, WaitsIffBuffered
    <2>2. CASE ~initialized
      <3>1. q = [begin |-> FirstSeq(n), count |-> 0, slot |-> [i \in 0..QueueSize-1 |-> NoUser]]
        BY <2>2 DEF EmptyQueue
      <3>2. w = NotWaiting /\ ws = FirstSeq(n)
        BY <2>2
      <3> HIDE DEF q, w, ws
      <3> QED BY <1>3, <3>1, <3>2, Sizes, Constants DEF QueueOver, LastIsSet
    <2> QED BY <2>1, <2>2
  <1> HIDE DEF q, w, ws
  <1>5. /\ p.queue \in QueueOver(Packets)
        /\ LastIsSet(p.queue)
        /\ q.count > 0 => p.queue.count > 0
        /\ IsFiniteSet(p.dropped)
    BY <1>2, <1>3, <1>4, Constants, PushOK
  <1>6. Flush(p.queue, w, ws, held + 1 - Cardinality(p.dropped))
    BY DEF HandlePacket, q, w, ws
  <1> HIDE DEF p
  <1>7. held + 1 - Cardinality(p.dropped) \in Int
    BY <1>1, <1>5, FS_CardinalityType
  <1>8. delivered \in Seq(Packets)
    BY <1>1 DEF FlushedOK
  <1>9. FlushedOK' /\ held' \in Int
    BY <1>4, <1>5, <1>6, <1>7, <1>8, FlushOK
  <1>10. /\ sent' = sent /\ open' = open /\ initialized' = TRUE
         /\ net' \in {net, net \ {n}}
    BY DEF HandlePacket
  <1>11. /\ sent' \in 0..MaxPackets /\ net' \subseteq Packets
         /\ open' \in BOOLEAN /\ initialized' \in BOOLEAN
    BY <1>1, <1>10
  <1> QED
    BY <1>9, <1>11, IInvFlushedNext DEF IParts

\* So does a flush on its own.
LEMMA FlushOnTimeoutIInv ==
  ASSUME IInv, FlushOnTimeout
  PROVE  IInv'
PROOF
  <1>1. /\ FlushedOK /\ sent \in 0..MaxPackets /\ net \subseteq Packets
        /\ open \in BOOLEAN /\ initialized \in BOOLEAN /\ held \in Int
    BY IInvFlushed DEF IParts
  <1>2. Flush(queue, waited, waitSeq, held)
    BY DEF FlushOnTimeout
  <1>3. FlushedOK' /\ held' \in Int
    BY <1>1, <1>2, FlushOK DEF FlushedOK, WaitsIffBuffered
  <1>4. UNCHANGED <<sent, net, open, initialized>>
    BY DEF FlushOnTimeout
  <1>5. /\ sent' \in 0..MaxPackets /\ net' \subseteq Packets
        /\ open' \in BOOLEAN /\ initialized' \in BOOLEAN
    BY <1>1, <1>4
  <1> QED
    BY <1>3, <1>5, IInvFlushedNext DEF IParts

\* So does every step of the specification.
LEMMA NextIInv == IInv /\ [Next]_vars => IInv'
PROOF
  <1> SUFFICES ASSUME IInv, [Next]_vars PROVE IInv'
    OBVIOUS
  <1> USE DEF IInv, TypeOK, WindowFits, WaitsIffBuffered, OnlyGapsAreBuffered
  <1>1. CASE Send
    BY <1>1, VideoQueueAssumption DEF Send, Packets
  <1>2. ASSUME NEW n \in net, HandlePacket(n) PROVE IInv'
    <2> USE DEF IInv
    <2> QED BY <1>2, HandlePacketIInv
  <1>3. ASSUME NEW n \in net, Lose(n) PROVE IInv'
    BY <1>3 DEF Lose
  <1>4. CASE FlushOnTimeout
    BY <1>4, FlushOnTimeoutIInv
  <1>5. CASE Tick
    <2>1. waited' \in NotWaiting..Timeout+1 /\ waited # NotWaiting /\ waited' # NotWaiting
      BY <1>5, Constants DEF Tick
    <2> QED BY <1>5, <2>1 DEF Tick
  <1>6. CASE Close
    <2>1. held' \in Int
      <3>1. queue.count - 1 \in Int
        OBVIOUS
      <3>2. IsFiniteSet(0..queue.count-1)
        BY <3>1, FS_Interval
      <3>3. SetIndices(queue) \in SUBSET (0..queue.count-1)
        BY DEF SetIndices
      <3>4. IsFiniteSet(SetIndices(queue))
        BY <3>2, <3>3, FS_Subset
      <3>5. IsFiniteSet(FiniDropped(queue))
        BY <3>4, FiniteUsers DEF FiniDropped, Users
      <3>6. Cardinality(FiniDropped(queue)) \in Nat
        BY <3>5, FS_CardinalityType
      <3> QED BY <1>6, <3>6 DEF Close
    <2> QED BY <1>6, <2>1 DEF Close
  <1>7. CASE UNCHANGED vars
    BY <1>7 DEF vars
  <1> QED
    BY <1>1, <1>2, <1>3, <1>4, <1>5, <1>6, <1>7 DEF Next

\* The invariant holds of every behaviour of the code.
LEMMA SpecIInv == Spec => []IInv
PROOF
  <1> QED
    BY InitIInv, NextIInv, PTL DEF Spec

\* Every variable keeps its type: the window's numbers stay raw sequence
\* numbers, its entries packets that were sent.
THEOREM TypeCorrect == Spec => []TypeOK
PROOF
  <1>1. IInv => TypeOK
    BY DEF IInv
  <1> QED BY <1>1, SpecIInv, PTL

\* The assertions of reorderqueue.c on the size of the window never fail.
THEOREM WindowAlwaysFits == Spec => []WindowFits
PROOF
  <1>1. IInv => WindowFits
    BY DEF IInv
  <1> QED BY <1>1, SpecIInv, PTL

\* The receive call blocks without a timeout exactly while the queue is empty:
\* no packet is stranded in it, and the thread does not poll for nothing.
THEOREM NoStrandedPacket == Spec => []WaitsIffBuffered
PROOF
  <1>1. IInv => WaitsIffBuffered
    BY DEF IInv
  <1> QED BY <1>1, SpecIInv, PTL

\* Between two calls the queue starts with a gap and ends with a packet, so
\* nothing deliverable is held back and every skip reaches a packet.
THEOREM NothingDeliverableHeld == Spec => []OnlyGapsAreBuffered
PROOF
  <1>1. IInv => OnlyGapsAreBuffered
    BY DEF IInv
  <1> QED BY <1>1, SpecIInv, PTL

-----------------------------------------------------------------------------
(* Where the packets of the queue are, counted as the console counts them  *)

\* The parameters as numbers, and the room they leave.
LEMMA VideoSizes ==
  /\ StartSeq \in Nat /\ MaxPackets \in Nat /\ FrameUnits \in Nat \ {0}
  /\ SeqMod \in Nat \ {0} /\ SeqHalf \in Nat /\ SeqMod = 2 * SeqHalf
  /\ QueueSize \in Nat \ {0} /\ 2 * QueueSize <= SeqHalf /\ QueueSize < SeqMod
  /\ SeqHalf < SeqMod
PROOF
  <1>1. SeqMod \in Nat \ {0} /\ SeqHalf \in Nat /\ SeqMod = 2 * SeqHalf
    BY SeqNumAssumption DEF SeqHalf
  <1>2. QueueSize \in Nat \ {0} /\ 2 * QueueSize <= SeqHalf
    BY ReorderQueueAssumption
  <1>3. StartSeq \in 0..SeqMod-1 /\ MaxPackets \in Nat /\ FrameUnits \in Nat \ {0}
    BY VideoQueueAssumption
  <1> QED BY <1>1, <1>2, <1>3

\* The window starts at the console's packet B, and each packet in it sits at
\* its own place.
Placed(q, B) ==
  /\ q \in QueueOver(Packets)
  /\ LastIsSet(q)
  /\ SeqCast(q.begin) = SeqOf(B)
  /\ \A i \in 0..q.count-1 : UserAt(q, i) # NoUser => UserAt(q, i) = B + i

\* The place i of such a window is the one of the console's packet B + i.
LEMMA PlacedAt ==
  ASSUME NEW B \in Nat, NEW q, Placed(q, B), NEW i \in 0..SeqMod-1
  PROVE  SeqCast(SeqAt(q, i)) = SeqOf(B + i)
PROOF
  <1>1. q.begin \in RawSeq /\ SeqCast(q.begin) = (StartSeq + B) % SeqMod
    BY DEF Placed, QueueOver, SeqOf
  <1>2. StartSeq + B \in Nat /\ (StartSeq + B) + i = StartSeq + (B + i)
    BY VideoSizes
  <1>3. SeqCast(SeqAdd(q.begin, i)) = ((StartSeq + B) + i) % SeqMod
    BY <1>1, <1>2, CastPlus
  <1> QED BY <1>2, <1>3 DEF SeqAt, SeqOf

\* Packets less than the modulus apart have different numbers.
LEMMA SeqOfApart ==
  ASSUME NEW x \in Nat, NEW y \in Nat, x - y < SeqMod, y - x < SeqMod, SeqOf(x) = SeqOf(y)
  PROVE  x = y
PROOF
  <1> DEFINE a == StartSeq + x
             b == StartSeq + y
  <1>1. a \in Nat /\ b \in Nat /\ a % SeqMod = b % SeqMod /\ SeqMod \in Nat \ {0}
    BY VideoSizes DEF SeqOf
  <1>2. a - b < SeqMod /\ b - a < SeqMod
    BY VideoSizes
  <1>3. ~(a < b)
    <2> HIDE DEF a, b
    <2> QED BY <1>1, <1>2, ModApart
  <1>4. ~(b < a)
    <2> HIDE DEF a, b
    <2> QED BY <1>1, <1>2, ModApart
  <1>5. a = b
    <2> HIDE DEF a, b
    <2> QED BY <1>1, <1>3, <1>4
  <1> QED BY <1>5, VideoSizes

\* The packets in the window: as many as places that are set.
LEMMA UsersPlaced ==
  ASSUME NEW B \in Nat, NEW q, Placed(q, B)
  PROVE  /\ q.count \in 0..QueueSize
         /\ \A x : x \in Users(q) <=> x \in B..B+q.count-1 /\ UserAt(q, x - B) # NoUser
         /\ IsFiniteSet(Users(q))
         /\ Cardinality(SetIndices(q)) = Cardinality(Users(q))
PROOF
  <1> DEFINE S == SetIndices(q)
             f == [i \in S |-> B + i]
  <1>1. q.count \in 0..QueueSize /\ q.count \in Nat /\ q.count - 1 \in Int
    BY QueueFields DEF Placed
  <1>2. \A i : i \in S <=> i \in 0..q.count-1 /\ UserAt(q, i) # NoUser
    BY DEF SetIndices
  <1>3. \A i \in S : UserAt(q, i) = B + i /\ i \in Nat
    BY <1>1, <1>2 DEF Placed
  <1>4. Users(q) = {B + i : i \in S}
    BY <1>3 DEF Users
  <1>5. IsFiniteSet(S)
    <2>1. IsFiniteSet(0..q.count-1)
      <3> DEFINE n == q.count - 1
      <3>1. n \in Int /\ 0 \in Int
        BY <1>1
      <3> HIDE DEF S, f, n
      <3>2. IsFiniteSet(0..n)
        BY <3>1, FS_Interval
      <3> QED BY <3>2 DEF n
    <2>2. S \in SUBSET (0..q.count-1)
      BY <1>2
    <2> HIDE DEF S
    <2> QED BY <2>1, <2>2, FS_Subset
  <1>6. f \in Bijection(S, Users(q))
    <2>1. f \in [S -> Users(q)] /\ \A y \in Users(q) : \E i \in S : f[i] = y
      BY <1>4
    <2>2. \A i, j \in S : f[i] = f[j] => i = j
      BY <1>3
    <2> HIDE DEF f, S
    <2>3. IsInjective(f)
      BY <2>1, <2>2 DEF IsInjective
    <2> QED BY <2>1, <2>3 DEF Bijection, Injection, Surjection
  <1>7. ExistsBijection(S, Users(q))
    <2> HIDE DEF f
    <2> QED BY <1>6 DEF ExistsBijection
  <1>8. IsFiniteSet(Users(q)) /\ Cardinality(Users(q)) = Cardinality(S)
    BY <1>5, <1>7, FS_Bijection
  <1>9. ASSUME NEW x
        PROVE  x \in Users(q) <=> x \in B..B+q.count-1 /\ UserAt(q, x - B) # NoUser
    <2>1. ASSUME x \in Users(q) PROVE x \in B..B+q.count-1 /\ UserAt(q, x - B) # NoUser
      <3>1. PICK i \in S : x = B + i
        BY <1>4, <2>1
      <3>2. i \in 0..q.count-1 /\ UserAt(q, i) # NoUser /\ x - B = i
        BY <1>2, <1>3, <3>1
      <3> QED BY <1>1, <3>1, <3>2
    <2>2. ASSUME x \in B..B+q.count-1, UserAt(q, x - B) # NoUser PROVE x \in Users(q)
      <3>1. x - B \in 0..q.count-1 /\ x = B + (x - B)
        BY <1>1, <2>2
      <3>2. x - B \in S
        BY <1>2, <2>2, <3>1
      <3> QED BY <1>4, <3>1, <3>2
    <2> QED BY <2>1, <2>2
  <1> QED BY <1>1, <1>8, <1>9

\* Pulling hands out the packets from B on, and the window starts after them.
LEMMA PulledPlaces ==
  ASSUME NEW B \in Nat, NEW q, Placed(q, B)
  PROVE  LET k == PullCount(q)
             r == AfterPulls(q)
         IN  /\ k \in 0..q.count
             /\ Placed(r, B + k)
             /\ r.count = q.count - k
             /\ Pulled(q) \in Seq(Packets) /\ Len(Pulled(q)) = k
             /\ \A i \in 1..k : Pulled(q)[i] = B + i - 1
             /\ Cardinality(Users(r)) + k = Cardinality(Users(q))
PROOF
  <1> DEFINE k == PullCount(q)
             r == AfterPulls(q)
  <1>1. /\ q \in QueueOver(Packets) /\ LastIsSet(q) /\ NoUser \notin Packets
        /\ q.count \in 0..QueueSize /\ q.begin \in RawSeq
    BY Constants, QueueFields DEF Placed
  <1>2. /\ k \in 0..q.count /\ r.count = q.count - k
        /\ SeqCast(r.begin) = SeqCast(SeqAdd(q.begin, k))
        /\ \A i \in 0..r.count-1 : UserAt(r, i) = UserAt(q, k + i)
        /\ \A i \in 0..k-1 : UserAt(q, i) # NoUser
        /\ Pulled(q) = [i \in 1..k |-> UserAt(q, i - 1)]
    BY <1>1, PullPlaces
  <1>3. r \in QueueOver(Packets) /\ LastIsSet(r) /\ Pulled(q) \in [1..k -> Packets]
    BY <1>1, PullsOK
  <1>4. /\ k \in Nat /\ B + k \in Nat /\ k \in 0..SeqMod-1
        /\ \A i \in 0..r.count-1 : k + i \in 0..q.count-1 /\ B + (k + i) = (B + k) + i
        /\ \A i \in 1..k : i - 1 \in 0..k-1 /\ i - 1 \in 0..q.count-1 /\ B + (i - 1) = B + i - 1
    <2> HIDE DEF k, r
    <2> QED BY <1>1, <1>2, VideoSizes
  <1>5. \A i \in 0..q.count-1 : UserAt(q, i) # NoUser => UserAt(q, i) = B + i
    BY DEF Placed
  <1>6. SeqCast(r.begin) = SeqOf(B + k)
    BY <1>2, <1>4, PlacedAt DEF SeqAt
  <1>7. Placed(r, B + k)
    <2> HIDE DEF k, r
    <2> QED BY <1>2, <1>3, <1>4, <1>5, <1>6 DEF Placed
  <1>8. Pulled(q) \in Seq(Packets) /\ Len(Pulled(q)) = k
    <2> HIDE DEF k
    <2>1. Pulled(q) \in Seq(Packets)
      BY <1>3, <1>4, SeqDef
    <2>2. DOMAIN Pulled(q) = 1..k
      BY <1>3
    <2> QED BY <1>4, <2>1, <2>2, LenProperties
  <1>9. \A i \in 1..k : Pulled(q)[i] = B + i - 1
    <2> HIDE DEF k
    <2> QED BY <1>2, <1>4, <1>5
  <1>10. Cardinality(Users(r)) + k = Cardinality(Users(q))
    <2> DEFINE H == B..B+k-1
    <2> HIDE DEF k, r
    <2>1. \A x : x \in Users(q) <=> x \in B..B+q.count-1 /\ UserAt(q, x - B) # NoUser
      BY UsersPlaced
    <2>2. /\ \A x : x \in Users(r) <=> x \in (B+k)..(B+k)+r.count-1 /\ UserAt(r, x - (B + k)) # NoUser
          /\ IsFiniteSet(Users(r))
      BY <1>4, <1>7, UsersPlaced
    <2>3. IsFiniteSet(H) /\ Cardinality(H) = k
      <3>1. B \in Int /\ B+k-1 \in Int /\ (B > B+k-1 <=> k = 0) /\ (B+k-1)-B+1 = k
        BY <1>4
      <3> QED BY <3>1, FS_Interval
    <2>4. Users(q) = Users(r) \union H
      <3>1. ASSUME NEW x \in Users(q), x \notin H PROVE x \in Users(r)
        <4>1. x \in B..B+q.count-1 /\ UserAt(q, x - B) # NoUser
          BY <2>1, <3>1
        <4>2. x \in (B+k)..(B+k)+r.count-1
          BY <1>1, <1>2, <1>4, <3>1, <4>1
        <4>3. x - (B + k) \in 0..r.count-1 /\ k + (x - (B + k)) = x - B
          BY <1>1, <1>2, <1>4, <4>2
        <4>4. UserAt(r, x - (B + k)) = UserAt(q, x - B)
          BY <1>2, <4>3
        <4> QED BY <2>2, <4>1, <4>2, <4>4
      <3>2. ASSUME NEW x \in H PROVE x \in Users(q)
        <4>1. x \in B..B+q.count-1 /\ x - B \in 0..k-1
          BY <1>1, <1>2, <1>4
        <4> QED BY <1>2, <2>1, <4>1
      <3>3. ASSUME NEW x \in Users(r) PROVE x \in Users(q)
        <4>1. x \in (B+k)..(B+k)+r.count-1 /\ UserAt(r, x - (B + k)) # NoUser
          BY <2>2
        <4>2. x - (B + k) \in 0..r.count-1 /\ k + (x - (B + k)) = x - B
          BY <1>1, <1>2, <1>4, <4>1
        <4>3. UserAt(q, x - B) # NoUser
          BY <1>2, <4>1, <4>2
        <4>4. x \in B..B+q.count-1
          BY <1>1, <1>2, <1>4, <4>1
        <4> QED BY <2>1, <4>3, <4>4
      <3> QED BY <3>1, <3>2, <3>3
    <2>5. Users(r) \intersect H = {}
      <3>1. ASSUME NEW x \in Users(r), x \in H PROVE FALSE
        <4>1. x \in (B+k)..(B+k)+r.count-1
          BY <2>2
        <4> QED BY <1>4, <3>1, <4>1
      <3> QED BY <3>1
    <2>6. Cardinality(Users(q)) = Cardinality(Users(r)) + Cardinality(H) - Cardinality(Users(r) \intersect H)
      BY <2>2, <2>3, <2>4, FS_Union
    <2>7. Cardinality(Users(r) \intersect H) = 0 /\ Cardinality(Users(r)) \in Nat
      BY <2>2, <2>5, FS_EmptySet, FS_CardinalityType
    <2> HIDE DEF H
    <2> QED BY <1>4, <2>3, <2>6, <2>7
  <1> QED BY <1>2, <1>7, <1>8, <1>9, <1>10

\* A window moved up over places that are not set holds the same packets.
LEMMA SkippedPlaces ==
  ASSUME NEW B \in Nat, NEW q, Placed(q, B), NEW k \in 0..q.count-1,
         \A i \in 0..k-1 : UserAt(q, i) = NoUser,
         NEW r \in QueueOver(Packets), LastIsSet(r),
         r = [begin |-> SeqAdd(q.begin, k), count |-> q.count - k, slot |-> q.slot]
  PROVE  Placed(r, B + k) /\ Users(r) = Users(q)
PROOF
  <1>1. /\ q \in QueueOver(Packets) /\ q.count \in 0..QueueSize /\ q.begin \in RawSeq
    BY QueueFields DEF Placed
  <1>2. /\ r.count = q.count - k /\ r.slot = q.slot /\ r.begin = SeqAdd(q.begin, k)
        /\ k \in 0..QueueSize /\ k \in 0..SeqMod-1 /\ k \in Nat /\ B + k \in Nat
        /\ \A i \in 0..r.count-1 : /\ i \in Nat /\ k + i < SeqMod /\ k + i \in 0..q.count-1
                                   /\ B + (k + i) = (B + k) + i
    BY <1>1, VideoSizes
  <1>3. \A i \in 0..r.count-1 : UserAt(r, i) = UserAt(q, k + i)
    <2>1. SeqCast(r.begin) = SeqCast(SeqAdd(q.begin, k))
      BY <1>2
    <2> QED BY <1>1, <1>2, <2>1, MovedFront
  <1>4. SeqCast(r.begin) = SeqOf(B + k)
    BY <1>2, PlacedAt DEF SeqAt
  <1>5. \A i \in 0..q.count-1 : UserAt(q, i) # NoUser => UserAt(q, i) = B + i
    BY DEF Placed
  <1>6. Placed(r, B + k)
    BY <1>2, <1>3, <1>4, <1>5 DEF Placed
  <1>7. \A x : x \in Users(q) <=> x \in B..B+q.count-1 /\ UserAt(q, x - B) # NoUser
    BY UsersPlaced
  <1>8. \A x : x \in Users(r) <=> x \in (B+k)..(B+k)+r.count-1 /\ UserAt(r, x - (B + k)) # NoUser
    BY <1>2, <1>6, UsersPlaced
  <1>9. ASSUME NEW x \in Users(q) PROVE x \in Users(r)
    <2>1. x \in B..B+q.count-1 /\ UserAt(q, x - B) # NoUser
      BY <1>7
    <2>2. x - B \in 0..q.count-1 /\ ~(x - B \in 0..k-1)
      BY <1>1, <1>2, <2>1
    <2>3. /\ x \in (B+k)..(B+k)+r.count-1
          /\ x - (B + k) \in 0..r.count-1 /\ k + (x - (B + k)) = x - B
      BY <1>1, <1>2, <2>1, <2>2
    <2>4. UserAt(r, x - (B + k)) = UserAt(q, x - B)
      BY <1>3, <2>3
    <2> QED BY <1>8, <2>1, <2>3, <2>4
  <1>10. ASSUME NEW x \in Users(r) PROVE x \in Users(q)
    <2>1. x \in (B+k)..(B+k)+r.count-1 /\ UserAt(r, x - (B + k)) # NoUser
      BY <1>8
    <2>2. /\ x \in B..B+q.count-1
          /\ x - (B + k) \in 0..r.count-1 /\ k + (x - (B + k)) = x - B
      BY <1>1, <1>2, <2>1
    <2>3. UserAt(r, x - (B + k)) = UserAt(q, x - B)
      BY <1>3, <2>2
    <2> QED BY <1>7, <2>1, <2>2, <2>3
  <1> QED BY <1>6, <1>9, <1>10

\* What a flush hands out, from the packet B up to where the window starts now.
InOrderFrom(s, B, C) ==
  /\ s \in Seq(Packets)
  /\ \A i \in 1..Len(s) : s[i] \in B..C-1
  /\ \A i, j \in 1..Len(s) : i < j => s[i] < s[j]

\* It stays in order when the packets from C on follow.
LEMMA InOrderThen ==
  ASSUME NEW B \in Nat, NEW C \in Nat, B <= C, NEW k \in Nat,
         NEW s, InOrderFrom(s, B, C), NEW t \in Seq(Packets), Len(t) = k,
         \A i \in 1..k : t[i] = C + i - 1
  PROVE  InOrderFrom(s \o t, B, C + k) /\ Len(s \o t) = Len(s) + k
PROOF
  <1> DEFINE u == s \o t
             m == Len(s)
  <1>1. s \in Seq(Packets) /\ m \in Nat
    BY LenProperties DEF InOrderFrom
  <1>2. u \in Seq(Packets) /\ Len(u) = m + k
        /\ \A i \in 1..m+k : u[i] = IF i <= m THEN s[i] ELSE t[i - m]
    BY <1>1, ConcatProperties
  <1>3. \A i \in 1..m : s[i] \in B..C-1
    BY DEF InOrderFrom
  <1>4. \A i, j \in 1..m : i < j => s[i] < s[j]
    BY DEF InOrderFrom
  <1> HIDE DEF u, m
  <1>5. ASSUME NEW i \in 1..m+k
        PROVE  u[i] = IF i <= m THEN s[i] ELSE C + (i - m) - 1
    <2>1. CASE i <= m
      BY <1>2, <2>1
    <2>2. CASE ~(i <= m)
      <3>1. i - m \in 1..k
        BY <1>1, <2>2
      <3>2. t[i - m] = C + (i - m) - 1
        BY <3>1
      <3> QED BY <1>2, <2>2, <3>2
    <2> QED BY <2>1, <2>2
  <1>6. \A i \in 1..m+k : u[i] \in B..(C+k)-1
    <2>1. ASSUME NEW i \in 1..m+k PROVE u[i] \in B..(C+k)-1
      <3>1. CASE i <= m
        <4>1. s[i] \in B..C-1 /\ u[i] = s[i]
          BY <1>1, <1>3, <1>5, <3>1
        <4> QED BY <4>1
      <3>2. CASE ~(i <= m)
        <4>1. u[i] = C + (i - m) - 1
          BY <1>5, <3>2
        <4> QED BY <1>1, <3>2, <4>1
      <3> QED BY <3>1, <3>2
    <2> QED BY <2>1
  <1>7. ASSUME NEW i \in 1..m+k, NEW j \in 1..m+k, i < j PROVE u[i] < u[j]
    <2>1. CASE j <= m
      <3>1. i \in 1..m /\ j \in 1..m /\ u[i] = s[i] /\ u[j] = s[j]
        BY <1>1, <1>5, <1>7, <2>1
      <3> QED BY <1>4, <1>7, <3>1
    <2>2. CASE ~(j <= m) /\ i <= m
      <3>1. s[i] \in B..C-1 /\ u[i] = s[i] /\ u[j] = C + (j - m) - 1
        BY <1>1, <1>3, <1>5, <2>2
      <3> QED BY <1>1, <2>2, <3>1
    <2>3. CASE ~(j <= m) /\ ~(i <= m)
      <3>1. u[i] = C + (i - m) - 1 /\ u[j] = C + (j - m) - 1
        BY <1>5, <2>3
      <3> QED BY <1>1, <1>7, <3>1
    <2> QED BY <2>1, <2>2, <2>3
  <1>8. InOrderFrom(u, B, C + k)
    BY <1>2, <1>6, <1>7 DEF InOrderFrom
  <1> QED BY <1>2, <1>8 DEF u, m

\* A record of a flush that began at B and has come to C.
Carried(f, B, C) ==
  /\ C \in Nat
  /\ B <= C
  /\ Placed(f.queue, C)
  /\ InOrderFrom(f.out, B, C)

\* The packets it answers for: those in the queue and those handed out.
Load(f) == Cardinality(Users(f.queue)) + Len(f.out)

\* Pulling carries it further, by as many packets as it hands out.
LEMMA DrainCarried ==
  ASSUME NEW f \in FlushState, TimerJustified(f), NEW B \in Nat, NEW C, Carried(f, B, C)
  PROVE  LET d == Drain(f)
         IN  \E k \in 0..f.queue.count :
               /\ Carried(d, B, C + k)
               /\ d.queue.count = f.queue.count - k
               /\ Len(d.out) = Len(f.out) + k
               /\ Load(d) = Load(f)
PROOF
  <1> DEFINE d == Drain(f)
             q == f.queue
             k == PullCount(q)
  <1>1. /\ C \in Nat /\ B <= C /\ Placed(q, C) /\ InOrderFrom(f.out, B, C) /\ LastIsSet(q)
    BY DEF Carried, Placed
  <1>2. d.queue = AfterPulls(q) /\ d.out = f.out \o Pulled(q)
    BY <1>1, DrainOK
  <1>3. /\ k \in 0..q.count
        /\ Placed(AfterPulls(q), C + k) /\ AfterPulls(q).count = q.count - k
        /\ Pulled(q) \in Seq(Packets) /\ Len(Pulled(q)) = k
        /\ \A i \in 1..k : Pulled(q)[i] = C + i - 1
        /\ Cardinality(Users(AfterPulls(q))) + k = Cardinality(Users(q))
    BY <1>1, PulledPlaces
  <1>4. q.count \in Nat /\ k \in Nat
    BY <1>3, QueueFields, FlushStateFields
  <1> HIDE DEF k
  <1>5. InOrderFrom(d.out, B, C + k) /\ Len(d.out) = Len(f.out) + k
    <2> DEFINE t == Pulled(q)
               r == f.out
    <2>1. t \in Seq(Packets) /\ Len(t) = k /\ \A i \in 1..k : t[i] = C + i - 1
      BY <1>3
    <2>2. InOrderFrom(r, B, C)
      BY <1>1
    <2> HIDE DEF t, r, d, q
    <2>3. InOrderFrom(r \o t, B, C + k) /\ Len(r \o t) = Len(r) + k
      BY <1>1, <1>4, <2>1, <2>2, InOrderThen
    <2> QED BY <1>2, <2>3 DEF t, r
  <1>6. Carried(d, B, C + k)
    <2>1. C + k \in Nat /\ B <= C + k
      BY <1>1, <1>4
    <2> HIDE DEF d, q
    <2> QED BY <1>2, <1>3, <1>5, <2>1 DEF Carried
  <1>7. Load(d) = Load(f)
    <2>1. Cardinality(Users(q)) \in Nat /\ Len(f.out) \in Nat
      BY <1>1, UsersPlaced, FS_CardinalityType, FlushStateFields, LenProperties
    <2>2. Cardinality(Users(AfterPulls(q))) \in Nat
      BY <1>1, <1>3, <1>4, UsersPlaced, FS_CardinalityType
    <2>3. Load(d) = Cardinality(Users(AfterPulls(q))) + (Len(f.out) + k)
      BY <1>2, <1>5 DEF Load
    <2>4. Load(f) = Cardinality(Users(q)) + Len(f.out)
      BY DEF Load
    <2> HIDE DEF q, d
    <2> QED BY <1>3, <1>4, <2>1, <2>2, <2>3, <2>4
  <1>8. d.queue.count = q.count - k
    BY <1>2, <1>3
  <1> HIDE DEF d
  <1> QED BY <1>3, <1>5, <1>6, <1>7, <1>8 DEF d

\* So does a skip, which hands out nothing.
LEMMA SkipCarried ==
  ASSUME NEW f \in FlushState, FirstSet(f.queue) < f.queue.count,
         NEW B \in Nat, NEW C, Carried(f, B, C)
  PROVE  LET s == Skip(f)
         IN  \E k \in 0..f.queue.count :
               /\ Carried(s, B, C + k)
               /\ s.queue.count = f.queue.count - k
               /\ Load(s) = Load(f)
PROOF
  <1> DEFINE s == Skip(f)
             q == f.queue
             k == FirstSet(q)
  <1>1. /\ C \in Nat /\ B <= C /\ Placed(q, C) /\ InOrderFrom(f.out, B, C) /\ LastIsSet(q)
    BY DEF Carried, Placed
  <1>2. /\ s \in FlushState /\ LastIsSet(s.queue)
        /\ s.queue = [begin |-> SeqAdd(q.begin, k), count |-> q.count - k, slot |-> q.slot]
        /\ s.out = f.out /\ k \in 0..q.count-1
        /\ \A i \in 0..k-1 : UserAt(q, i) = NoUser
    BY <1>1, SkipOK
  <1>3. q.count \in Nat /\ k \in Nat /\ k \in 0..q.count /\ s.queue.count = q.count - k
    BY <1>2, QueueFields, FlushStateFields
  <1>4. s.queue \in QueueOver(Packets)
    BY <1>2, FlushStateFields
  <1> HIDE DEF k, s, q
  <1>5. Placed(s.queue, C + k) /\ Users(s.queue) = Users(q)
    BY <1>1, <1>2, <1>4, SkippedPlaces
  <1>6. InOrderFrom(f.out, B, C + k)
    <2>1. \A i \in 1..Len(f.out) : f.out[i] \in B..(C+k)-1
      <3>1. \A x \in B..C-1 : x \in B..(C+k)-1
        BY <1>1, <1>3
      <3> QED BY <1>1, <3>1 DEF InOrderFrom
    <2> QED BY <1>1, <2>1 DEF InOrderFrom
  <1>7. C + k \in Nat /\ B <= C + k
    BY <1>1, <1>3
  <1>8. Carried(s, B, C + k)
    BY <1>2, <1>5, <1>6, <1>7 DEF Carried
  <1>9. Load(s) = Load(f)
    BY <1>2, <1>5 DEF Load, q
  <1> QED BY <1>3, <1>8, <1>9 DEF q, s

\* A whole flush of a window at B: it hands out packets of that window in
\* order and frees each, and without a wait that ran out it passes nothing else.
LEMMA FlushCarried ==
  ASSUME NEW q, NEW B \in Nat, Placed(q, B),
         NEW w \in NotWaiting..Timeout+1, w # NotWaiting => q.count > 0,
         NEW ws \in RawSeq, NEW buffers, Flush(q, w, ws, buffers)
  PROVE  \E f \in FlushState, C \in Nat :
           /\ queue' = f.queue
           /\ delivered' = delivered \o f.out
           /\ held' = buffers - Len(f.out)
           /\ Carried(f, B, C)
           /\ C + f.queue.count = B + q.count
           /\ Load(f) = Cardinality(Users(q))
           /\ w <= Timeout => C = B + Len(f.out)
PROOF
  <1> DEFINE g == [queue |-> q, waited |-> w, waitSeq |-> ws, out |-> <<>>]
             d == Drain(g)
             e == IF TimedOut(d) THEN Drain(Skip(KeepWait(d))) ELSE d
             f == Settle(e)
  <1>1. /\ queue' = f.queue /\ delivered' = delivered \o f.out /\ held' = buffers - Len(f.out)
    BY DEF Flush
  <1>2. /\ q \in QueueOver(Packets) /\ LastIsSet(q) /\ q.count \in Nat
    BY QueueFields DEF Placed
  <1>3. /\ g \in FlushState /\ TimerJustified(g) /\ LastIsSet(g.queue)
        /\ g.queue = q /\ g.out = <<>> /\ g.waited = w
    BY <1>2 DEF FlushState, TimerJustified
  <1> HIDE DEF g
  <1>4. Len(g.out) = 0 /\ Carried(g, B, B) /\ Load(g) = Cardinality(Users(q))
    <2>1. <<>> \in Seq(Packets) /\ Len(<<>>) = 0
      BY EmptySeq
    <2>2. InOrderFrom(g.out, B, B)
      BY <1>3, <2>1 DEF InOrderFrom
    <2>3. Cardinality(Users(q)) \in Nat
      BY UsersPlaced, FS_CardinalityType
    <2>4. Load(g) = Cardinality(Users(q))
      BY <1>3, <2>1, <2>3 DEF Load
    <2> QED BY <1>3, <2>1, <2>2, <2>4 DEF Carried
  <1>5. /\ d \in FlushState /\ LastIsSet(d.queue) /\ TimerJustified(d)
        /\ d.waited = NotWaiting \/ d.waited = w
    BY <1>3, DrainOK
  <1>6. PICK k \in 0..q.count :
          /\ Carried(d, B, B + k) /\ d.queue.count = q.count - k /\ Len(d.out) = k
          /\ Load(d) = Cardinality(Users(q))
    <2>1. \E k \in 0..q.count :
            /\ Carried(d, B, B + k) /\ d.queue.count = q.count - k
            /\ Len(d.out) = Len(g.out) + k /\ Load(d) = Load(g)
      BY <1>3, <1>4, DrainCarried
    <2> HIDE DEF d
    <2> QED BY <1>4, <2>1
  <1> HIDE DEF d
  <1>7. B + k \in Nat /\ k \in Nat /\ q.count \in Nat /\ d.queue.count \in Nat
        /\ (B + k) + d.queue.count = B + q.count
    BY <1>2, <1>6
  <1>8. \E C \in Nat :
          /\ e \in FlushState /\ Carried(e, B, C) /\ C + e.queue.count = B + q.count
          /\ TimerJustified(e)
          /\ Load(e) = Cardinality(Users(q))
          /\ w <= Timeout => C = B + Len(e.out)
    <2>1. CASE ~TimedOut(d)
      <3>1. e = d
        BY <2>1
      <3> HIDE DEF e
      <3> QED BY <1>5, <1>6, <1>7, <3>1
    <2>2. CASE TimedOut(d)
      <3> DEFINE h == KeepWait(d)
                 s == Skip(h)
      <3>1. /\ h = [queue |-> d.queue, waited |-> d.waited, waitSeq |-> d.queue.begin, out |-> d.out]
            /\ h.queue = d.queue /\ h.out = d.out
        <4>1. h = [d EXCEPT !.waitSeq = d.queue.begin]
          BY DEF KeepWait
        <4>2. d \in [queue : QueueOver(Packets), waited : NotWaiting..Timeout+1,
                    waitSeq : RawSeq, out : Seq(Packets)]
          BY <1>5 DEF FlushState
        <4> HIDE DEF h
        <4> QED BY <4>1, <4>2
      <3>2. ~(w <= Timeout)
        <4>1. d.waited > Timeout
          BY <2>2 DEF TimedOut
        <4> QED BY <1>5, <4>1, Constants
      <3>3. FirstSet(h.queue) < h.queue.count
        BY <2>2, <3>1 DEF TimedOut
      <3> HIDE DEF h
      <3>4. h \in FlushState /\ Carried(h, B, B + k) /\ Load(h) = Load(d) /\ LastIsSet(h.queue)
        BY <1>5, <1>6, <3>1, FlushStateFields, QueueFields DEF FlushState, Carried, Load
      <3>5. /\ s \in FlushState /\ TimerJustified(s)
            /\ \E j \in 0..h.queue.count :
                 /\ Carried(s, B, (B + k) + j) /\ s.queue.count = h.queue.count - j
                 /\ Load(s) = Load(h)
        BY <3>3, <3>4, SkipOK, SkipCarried
      <3>6. PICK j \in 0..h.queue.count :
              /\ Carried(s, B, (B + k) + j) /\ s.queue.count = h.queue.count - j
              /\ Load(s) = Load(h)
        BY <3>5
      <3>7. e = Drain(s) /\ LastIsSet(s.queue)
        BY <2>2, <3>6 DEF h, Carried, Placed
      <3> HIDE DEF s, e
      <3>8. PICK l \in 0..s.queue.count :
              /\ Carried(e, B, ((B + k) + j) + l) /\ e.queue.count = s.queue.count - l
              /\ Load(e) = Load(s)
        BY <3>5, <3>6, <3>7, DrainCarried
      <3>9. e \in FlushState /\ TimerJustified(e)
        BY <3>5, <3>7, DrainOK
      <3>10. /\ ((B + k) + j) + l \in Nat
             /\ (((B + k) + j) + l) + e.queue.count = B + q.count
        <4>1. h.queue.count = d.queue.count
          BY <3>1
        <4> QED BY <1>7, <3>6, <3>8, <4>1
      <3>11. Load(e) = Cardinality(Users(q))
        BY <1>6, <3>4, <3>6, <3>8
      <3> QED BY <3>2, <3>8, <3>9, <3>10, <3>11
    <2> HIDE DEF e
    <2> QED BY <2>1, <2>2
  <1> HIDE DEF e
  <1>9. f \in FlushState /\ f.queue = e.queue /\ f.out = e.out
    BY <1>8, SettleOK
  <1> HIDE DEF f
  <1>10. \A C : Carried(e, B, C) => Carried(f, B, C)
    BY <1>9 DEF Carried
  <1>11. Load(f) = Load(e)
    BY <1>9 DEF Load
  <1> QED BY <1>1, <1>8, <1>9, <1>10, <1>11

-----------------------------------------------------------------------------
(* A packet comes in                                                       *)

\* The number of a packet, and the one after it, are remainders.
LEMMA SeqOfCast ==
  ASSUME NEW n \in Nat
  PROVE  /\ SeqOf(n) \in 0..SeqMod-1
         /\ SeqCast(SeqOf(n)) = (StartSeq + n) % SeqMod
         /\ SeqCast(SeqAdd(SeqOf(n), 1)) = (StartSeq + (n + 1)) % SeqMod
PROOF
  <1>1. SeqOf(n) \in 0..SeqMod-1 /\ SeqOf(n) \in RawSeq
    BY SeqOfType, VideoSizes DEF RawSeq
  <1>2. SeqCast(SeqOf(n)) = SeqOf(n)
    BY <1>1, CastRaw, VideoSizes
  <1>3. StartSeq + n \in Nat /\ 1 \in 0..SeqMod-1 /\ (StartSeq + n) + 1 = StartSeq + (n + 1)
    BY VideoSizes, Sizes
  <1>4. SeqCast(SeqOf(n)) = (StartSeq + n) % SeqMod
    BY <1>2 DEF SeqOf
  <1>5. SeqCast(SeqAdd(SeqOf(n), 1)) = ((StartSeq + n) + 1) % SeqMod
    BY <1>1, <1>3, <1>4, CastPlus
  <1> QED BY <1>1, <1>3, <1>4, <1>5

\* A packet that is not taken is the one the drop callback frees.
LEMMA RejectedPlaced ==
  ASSUME NEW q, NEW seq, NEW n, Rejects(q, seq)
  PROVE  Push(q, seq, n) = [queue |-> q, dropped |-> {n}]
BY DEF Push

\* A packet from before the window is rejected, whatever the numbers wrapped.
LEMMA OldIsRejected ==
  ASSUME NEW B \in Nat, NEW q, Placed(q, B), NEW n \in Nat, n < B, B - n < SeqHalf
  PROVE  Rejects(q, SeqOf(n))
PROOF
  <1> DEFINE seq == SeqOf(n)
             x == StartSeq + n
             y == StartSeq + B
  <1>1. SeqCast(seq) = x % SeqMod /\ SeqCast(q.begin) = y % SeqMod
    BY SeqOfCast DEF Placed, SeqOf
  <1>2. x \in Nat /\ y \in Nat /\ x < y /\ y - x < SeqHalf
    BY VideoSizes
  <1>3. SeqLt(seq, q.begin) /\ ~SeqGe(seq, q.begin)
    <2> HIDE DEF x, y, seq
    <2> QED BY <1>1, <1>2, LtCounted
  <1> QED BY <1>3 DEF Rejects, InWindow

\* What is beyond the room of the window is a full window after its start.
LEMMA BeyondIsFar ==
  ASSUME NEW B \in Nat, NEW q, Placed(q, B), NEW n \in Nat, B <= n,
         Beyond(q, SeqOf(n), 0)
  PROVE  n >= B + QueueSize
PROOF
  <1>1. SUFFICES ASSUME ~(n >= B + QueueSize) PROVE FALSE
    OBVIOUS
  <1> DEFINE a == SeqAdd(SeqOf(n), 1)
             b == SeqAdd(QueueEnd(q), QueueSize - q.count + 0)
             x == StartSeq + (n + 1)
             y == StartSeq + (B + QueueSize)
  <1>2. q.count \in 0..QueueSize /\ q.count \in Nat /\ q.begin \in RawSeq
    BY QueueFields DEF Placed
  <1>3. SeqCast(a) = x % SeqMod
    BY SeqOfCast
  <1>4. SeqCast(b) = y % SeqMod
    <2> DEFINE m == QueueSize - q.count
    <2>1. m \in Nat /\ q.count + m = QueueSize /\ QueueSize < SeqMod /\ m + 0 = m
          /\ QueueSize \in 0..SeqMod-1
      BY <1>2, VideoSizes
    <2>2. b = SeqAdd(SeqAdd(q.begin, q.count), m)
      BY <2>1 DEF QueueEnd
    <2> HIDE DEF m, b
    <2>3. SeqCast(b) = SeqCast(SeqAt(q, QueueSize))
      BY <1>2, <2>1, <2>2, CastAddAdd DEF SeqAt
    <2>4. SeqCast(SeqAt(q, QueueSize)) = SeqOf(B + QueueSize)
      BY <2>1, PlacedAt
    <2> QED BY <2>3, <2>4 DEF SeqOf
  <1>5. x \in Nat /\ y \in Nat /\ y - x < SeqHalf /\ (x < y \/ x = y)
    BY <1>1, VideoSizes
  <1>6. SeqLt(b, a)
    BY DEF Beyond
  <1> HIDE DEF a, b, x, y
  <1>7. CASE x < y
    BY <1>3, <1>4, <1>5, <1>6, <1>7, LtCounted
  <1>8. CASE x = y
    <2>1. SeqCast(a) = SeqCast(b) /\ SeqCast(a) \in Int
      BY <1>3, <1>4, <1>5, <1>8, VideoSizes
    <2> QED BY <1>6, <2>1 DEF SeqLt
  <1> QED BY <1>5, <1>7, <1>8

\* Numbers that do not compare with an empty window's ends are its start.
LEMMA UnorderedIsHead ==
  ASSUME NEW B \in Nat, NEW q, Placed(q, B), q.count = 0,
         NEW n \in Nat, B <= n, n - B < SeqHalf, Unordered(q, SeqOf(n))
  PROVE  n = B
PROOF
  <1> DEFINE a == QueueEnd(q)
             b == SeqOf(n)
             x == StartSeq + B
             y == StartSeq + n
  <1>1. 0 \in 0..SeqMod-1 /\ B + 0 = B
    BY VideoSizes
  <1>2. SeqCast(a) = x % SeqMod /\ SeqCast(b) = y % SeqMod
    <2>1. SeqCast(SeqAt(q, 0)) = SeqOf(B)
      BY <1>1, PlacedAt
    <2> QED BY <2>1, SeqOfCast DEF QueueEnd, SeqAt, SeqOf
  <1>3. x \in Nat /\ y \in Nat /\ y - x < SeqHalf /\ (x < y \/ n = B)
    BY VideoSizes
  <1>4. ~SeqGe(b, a)
    BY DEF Unordered
  <1> HIDE DEF a, b, x, y
  <1>5. CASE x < y
    BY <1>2, <1>3, <1>4, <1>5, LtCounted
  <1> QED BY <1>3, <1>5

\* With the newest packet less than half the modulus ahead, the window never
\* has to grow over the gap of the comparisons.
LEMMA ReachesPlaced ==
  ASSUME NEW B \in Nat, NEW q, Placed(q, B), NEW n \in Nat, B <= n, n - B < SeqHalf
  PROVE  Reaches(q, SeqOf(n))
PROOF
  <1> SUFFICES ASSUME q.count = QueueSize, SeqOf(n) = SeqCast(SeqAdd(QueueEnd(q), SeqHalf - 1))
               PROVE  FALSE
    BY DEF Reaches
  <1> DEFINE m == SeqHalf - 1
  <1>1. m \in Nat /\ q.count + m < SeqMod /\ q.count + m \in 0..SeqMod-1 /\ q.count \in Nat
    BY VideoSizes
  <1>2. q.begin \in RawSeq
    BY QueueFields DEF Placed
  <1>3. SeqOf(n) = SeqCast(SeqAdd(SeqAdd(q.begin, q.count), m))
    BY DEF QueueEnd
  <1>4. SeqOf(n) = SeqCast(SeqAt(q, q.count + m))
    <2> HIDE DEF m
    <2> QED BY <1>1, <1>2, <1>3, CastAddAdd DEF SeqAt
  <1>5. SeqOf(n) = SeqOf(B + (q.count + m))
    <2> HIDE DEF m
    <2> QED BY <1>1, <1>4, PlacedAt
  <1>6. /\ B + (q.count + m) \in Nat
        /\ n < B + (q.count + m) /\ (B + (q.count + m)) - n < SeqMod
        /\ n - (B + (q.count + m)) < SeqMod
    BY VideoSizes
  <1> HIDE DEF m
  <1> QED BY <1>5, <1>6, SeqOfApart

\* What the window is after the packet n was pushed: it starts at C, and the
\* packets in it are those from before but the dropped ones, and n.
Pushed(q, n, p, B, C) ==
  /\ C \in B..(IF n < B + QueueSize THEN B ELSE n)
  /\ Placed(p.queue, C)
  /\ IsFiniteSet(p.dropped)
  /\ Cardinality(Users(p.queue)) + Cardinality(p.dropped) = Cardinality(Users(q)) + 1
  /\ C + p.queue.count \in {B + q.count, n + 1}

\* The packet fills a gap of the window.
LEMMA FillsPlaced ==
  ASSUME NEW B \in Nat, NEW q, Placed(q, B), NEW n \in Nat, B <= n, n - B < SeqHalf,
         NEW p, p.queue \in QueueOver(Packets), LastIsSet(p.queue),
         FillsPlace(q, SeqOf(n), n, p)
  PROVE  Pushed(q, n, p, B, B)
PROOF
  <1> DEFINE t == p.queue
  <1>1. q.count \in 0..QueueSize /\ q.count \in Nat /\ QueueSize < SeqMod /\ SeqHalf < SeqMod
    BY QueueFields, VideoSizes DEF Placed
  <1>2. p.dropped = {} /\ t.begin = q.begin /\ t.count = q.count
    BY DEF FillsPlace
  <1>3. PICK k \in 0..q.count-1 :
          /\ SeqCast(SeqAt(q, k)) = SeqOf(n)
          /\ UserAt(q, k) = NoUser
          /\ \A i \in 0..q.count-1 : UserAt(t, i) = IF i = k THEN n ELSE UserAt(q, i)
    BY DEF FillsPlace
  <1>4. /\ k \in 0..SeqMod-1 /\ k \in Nat /\ B + k \in Nat
        /\ (B + k) - n < SeqMod /\ n - (B + k) < SeqMod
    BY <1>1, VideoSizes
  <1>5. B + k = n
    BY <1>3, <1>4, PlacedAt, SeqOfApart
  <1>6. \A i \in 0..q.count-1 : UserAt(q, i) # NoUser => UserAt(q, i) = B + i
    BY DEF Placed
  <1>7. Placed(t, B)
    <2>1. SeqCast(t.begin) = SeqOf(B)
      BY <1>2 DEF Placed
    <2> HIDE DEF t
    <2> QED BY <1>2, <1>3, <1>5, <1>6, <2>1 DEF Placed, t
  <1>8. /\ \A x : x \in Users(q) <=> x \in B..B+q.count-1 /\ UserAt(q, x - B) # NoUser
        /\ \A x : x \in Users(t) <=> x \in B..B+t.count-1 /\ UserAt(t, x - B) # NoUser
        /\ IsFiniteSet(Users(q))
    BY <1>7, UsersPlaced
  <1>9. n \notin Users(q) /\ Users(t) = Users(q) \union {n}
    <2> HIDE DEF t
    <2>1. n \in B..B+q.count-1 /\ n - B = k /\ n # NoUser
      BY <1>1, <1>5, VideoQueueAssumption
    <2>2. n \notin Users(q)
      BY <1>3, <1>8, <2>1
    <2>3. n \in Users(t)
      BY <1>2, <1>3, <1>8, <2>1
    <2>4. ASSUME NEW x, x # n PROVE x \in Users(t) <=> x \in Users(q)
      <3>1. CASE x \in B..B+q.count-1
        <4>1. x - B \in 0..q.count-1 /\ x - B # k
          BY <1>1, <1>4, <1>5, <2>4, <3>1
        <4>2. UserAt(t, x - B) = UserAt(q, x - B)
          BY <1>3, <4>1
        <4> QED BY <1>2, <1>8, <4>2
      <3>2. CASE ~(x \in B..B+q.count-1)
        BY <1>2, <1>8, <3>2
      <3> QED BY <3>1, <3>2
    <2> QED BY <2>2, <2>3, <2>4
  <1>10. Cardinality(Users(t)) = Cardinality(Users(q)) + 1
    <2> HIDE DEF t
    <2> QED BY <1>8, <1>9, FS_AddElement
  <1>11. IsFiniteSet(p.dropped) /\ Cardinality(p.dropped) = 0 /\ Cardinality(Users(q)) \in Nat
    BY <1>2, <1>8, FS_EmptySet, FS_CardinalityType
  <1> HIDE DEF t
  <1>12. B \in B..(IF n < B + QueueSize THEN B ELSE n)
    BY VideoSizes
  <1>13. Cardinality(Users(t)) + Cardinality(p.dropped) = Cardinality(Users(q)) + 1
    BY <1>10, <1>11
  <1>14. B + t.count = B + q.count
    BY <1>2
  <1> QED BY <1>7, <1>11, <1>12, <1>13, <1>14 DEF Pushed, t

\* The packet becomes the last one of the window, which may lose heads for it.
LEMMA LastPlaced ==
  ASSUME NEW B \in Nat, NEW q, Placed(q, B), NEW n \in Nat, B <= n, n - B < SeqHalf,
         NEW s \in Nat, n < s, B + q.count <= s, s - n + QueueSize <= SeqHalf,
         ~Rejects(q, SeqOf(n)),
         NEW p, p.queue \in QueueOver(Packets), LastIsSet(p.queue),
         NEW k \in 0..q.count, BecomesLast(q, SeqOf(n), n, p, k)
  PROVE  \E C \in Nat : Pushed(q, n, p, B, C)
PROOF
  <1> DEFINE t == p.queue
             D == {UserAt(q, i) : i \in SetIndices(q) \cap 0..k-1}
             seq == SeqOf(n)
  <1>1. /\ q.count \in 0..QueueSize /\ q.count \in Nat /\ q.begin \in RawSeq
        /\ k \in Nat /\ k <= q.count /\ B + k \in Nat
    BY QueueFields DEF Placed
  <1>2. /\ p.dropped = D
        /\ t.count \in q.count-k+1..QueueSize
        /\ SeqCast(SeqAt(t, t.count - 1)) = seq
        /\ \A i \in 0..t.count-1 :
             UserAt(t, i) = IF i = t.count - 1 THEN n
                            ELSE IF k + i < q.count THEN UserAt(q, k + i) ELSE NoUser
    BY DEF BecomesLast
  <1>3. /\ t.count \in Nat /\ t.count >= 1 /\ t.count <= QueueSize /\ t.count >= q.count - k + 1
        /\ t.count - 1 \in 0..t.count-1 /\ t.count - 1 \in 0..SeqMod-1 /\ k \in 0..SeqMod-1
        /\ t.count - 1 \in Nat
    <2> HIDE DEF t
    <2> QED BY <1>1, <1>2, VideoSizes
  <1>4. t.begin \in RawSeq
    BY QueueFields
  <1> HIDE DEF t, D, seq
  \* where the window starts now
  <1>5. \E C \in Nat :
          /\ C \in B..(IF n < B + QueueSize THEN B ELSE n)
          /\ SeqCast(t.begin) = SeqOf(C)
          /\ n = C + (t.count - 1)
          /\ C = B + k \/ (k = q.count /\ t.count = 1 /\ n >= B + q.count)
    <2>1. Beyond(q, seq, 0) => n >= B + QueueSize
      BY BeyondIsFar DEF seq
    <2>2. ASSUME SeqCast(t.begin) = SeqOf(B + k) PROVE n = (B + k) + (t.count - 1)
      <3> DEFINE m == t.count - 1
      <3>1. t.begin \in RawSeq /\ SeqCast(t.begin) = (StartSeq + (B + k)) % SeqMod
            /\ StartSeq + (B + k) \in Nat /\ (StartSeq + (B + k)) + m = StartSeq + ((B + k) + m)
            /\ m \in 0..SeqMod-1 /\ m \in Nat
        <4>1. t.begin \in RawSeq /\ SeqCast(t.begin) = (StartSeq + (B + k)) % SeqMod
          BY <1>4, <2>2 DEF SeqOf
        <4>2. /\ StartSeq + (B + k) \in Nat /\ m \in 0..SeqMod-1 /\ m \in Nat
          BY <1>1, <1>3, VideoSizes
        <4>3. (StartSeq + (B + k)) + m = StartSeq + ((B + k) + m)
          <5> HIDE DEF m
          <5> QED BY <1>1, <4>2, VideoSizes
        <4> QED BY <4>1, <4>2, <4>3
      <3>2. SeqCast(SeqAdd(t.begin, m)) = SeqOf((B + k) + m)
        <4> HIDE DEF m
        <4>1. SeqCast(SeqAdd(t.begin, m)) = ((StartSeq + (B + k)) + m) % SeqMod
          BY <3>1, CastPlus
        <4> QED BY <3>1, <4>1 DEF SeqOf
      <3>3. SeqOf((B + k) + m) = SeqOf(n)
        BY <1>2, <3>2 DEF SeqAt, seq
      <3>4. /\ (B + k) + m \in Nat /\ ((B + k) + m) - n < SeqMod /\ n - ((B + k) + m) < SeqMod
        BY <1>1, <1>3, VideoSizes
      <3>5. (B + k) + m = n
        <4> DEFINE z == (B + k) + m
        <4> HIDE DEF m
        <4>1. SeqOf(z) = SeqOf(n) /\ z \in Nat /\ z - n < SeqMod /\ n - z < SeqMod
          BY <3>3, <3>4
        <4> HIDE DEF z
        <4>2. z = n
          BY <4>1, SeqOfApart
        <4> QED BY <4>2 DEF z
      <3> QED BY <3>5
    <2>3. CASE k = 0 /\ t.begin = q.begin
      <3>1. SeqCast(t.begin) = SeqOf(B + k) /\ B + k = B
        BY <2>3 DEF Placed
      <3>2. /\ B \in B..(IF n < B + QueueSize THEN B ELSE n)
            /\ n = B + (t.count - 1)
        BY <2>2, <3>1, VideoSizes
      <3>3. SeqCast(t.begin) = SeqOf(B) /\ B = B + k
        BY <3>1
      <3> WITNESS B \in Nat
      <3> QED BY <3>2, <3>3
    <2>4. CASE Beyond(q, seq, 0) /\ SeqCast(t.begin) = SeqCast(SeqAdd(q.begin, k))
      <3>1. SeqCast(t.begin) = SeqOf(B + k)
        BY <1>3, <2>4, PlacedAt DEF SeqAt
      <3>2. B + k \in B..(IF n < B + QueueSize THEN B ELSE n)
        <4>1. n = (B + k) + (t.count - 1) /\ n >= B + QueueSize
          BY <2>1, <2>2, <2>4, <3>1
        <4> QED BY <1>1, <1>3, <4>1, VideoSizes
      <3>3. n = (B + k) + (t.count - 1)
        BY <2>2, <3>1
      <3> DEFINE C == B + k
      <3>4. C \in Nat /\ C \in B..(IF n < B + QueueSize THEN B ELSE n)
            /\ SeqCast(t.begin) = SeqOf(C) /\ n = C + (t.count - 1) /\ C = B + k
        BY <1>1, <3>1, <3>2, <3>3
      <3> HIDE DEF C
      <3> WITNESS C \in Nat
      <3> QED BY <3>4
    <2>5. CASE (Beyond(q, seq, 0) \/ Unordered(q, seq)) /\ t.begin = seq /\ k = q.count /\ t.count = 1
      <3>1. SeqCast(t.begin) = SeqOf(n)
        BY <2>5, SeqOfCast DEF seq, SeqOf
      <3>2. CASE Beyond(q, seq, 0)
        <4>1. n >= B + QueueSize
          BY <2>1, <3>2
        <4>2. n \in B..(IF n < B + QueueSize THEN B ELSE n) /\ n >= B + q.count /\ n = n + (t.count - 1)
          BY <1>1, <2>5, <4>1, VideoSizes
        <4> QED BY <2>5, <3>1, <4>2
      <3>3. CASE Unordered(q, seq)
        <4>1. q.count = 0
          BY <3>3 DEF Rejects, seq
        <4>2. n = B
          BY <3>3, <4>1, UnorderedIsHead DEF seq
        <4>3. n \in B..(IF n < B + QueueSize THEN B ELSE n) /\ n >= B + q.count /\ n = n + (t.count - 1)
          BY <1>1, <2>5, <4>1, <4>2, VideoSizes
        <4> QED BY <2>5, <3>1, <4>3
      <3> QED BY <2>5, <3>2, <3>3
    <2> QED BY <2>3, <2>4, <2>5 DEF BecomesLast, t, seq
  <1>6. PICK C \in Nat :
          /\ C \in B..(IF n < B + QueueSize THEN B ELSE n)
          /\ SeqCast(t.begin) = SeqOf(C)
          /\ n = C + (t.count - 1)
          /\ C = B + k \/ (k = q.count /\ t.count = 1 /\ n >= B + q.count)
    BY <1>5
  <1>7. \A i \in 0..q.count-1 : UserAt(q, i) # NoUser => UserAt(q, i) = B + i
    BY DEF Placed
  <1>8. ASSUME NEW i \in 0..t.count-1, i # t.count - 1, UserAt(t, i) # NoUser
        PROVE  C = B + k /\ k + i \in 0..q.count-1 /\ UserAt(t, i) = UserAt(q, k + i)
    BY <1>1, <1>2, <1>3, <1>6, <1>8
  <1>9. Placed(t, C)
    <2>1. ASSUME NEW i \in 0..t.count-1, UserAt(t, i) # NoUser PROVE UserAt(t, i) = C + i
      <3>1. CASE i = t.count - 1
        BY <1>2, <1>6, <3>1
      <3>2. CASE i # t.count - 1
        <4>1. C = B + k /\ k + i \in 0..q.count-1 /\ UserAt(t, i) = UserAt(q, k + i)
          BY <1>8, <2>1, <3>2
        <4>2. UserAt(t, i) = B + (k + i)
          BY <1>7, <2>1, <4>1
        <4> QED BY <1>1, <4>1, <4>2
      <3> QED BY <3>1, <3>2
    <2> QED BY <1>6, <2>1 DEF Placed, t
  <1>10. /\ \A x : x \in Users(q) <=> x \in B..B+q.count-1 /\ UserAt(q, x - B) # NoUser
         /\ \A x : x \in Users(t) <=> x \in C..C+t.count-1 /\ UserAt(t, x - C) # NoUser
         /\ IsFiniteSet(Users(q))
    BY <1>9, UsersPlaced
  <1>11. \A x : x \in D <=> x \in B..B+k-1 /\ x \in Users(q)
    <2>1. ASSUME NEW x \in D PROVE x \in B..B+k-1 /\ x \in Users(q)
      <3>1. PICK i \in SetIndices(q) : i \in 0..k-1 /\ x = UserAt(q, i)
        BY <2>1 DEF D
      <3>2. i \in 0..q.count-1 /\ UserAt(q, i) # NoUser
        BY <3>1 DEF SetIndices
      <3>3. x = B + i
        BY <1>7, <3>1, <3>2
      <3>4. x \in Users(q)
        BY <3>1 DEF Users
      <3> QED BY <1>1, <3>1, <3>3, <3>4
    <2>2. ASSUME NEW x \in B..B+k-1, x \in Users(q) PROVE x \in D
      <3>1. x - B \in 0..k-1 /\ x - B \in 0..q.count-1 /\ UserAt(q, x - B) # NoUser /\ B + (x - B) = x
        BY <1>1, <1>10, <2>2
      <3>2. UserAt(q, x - B) = x /\ x - B \in SetIndices(q)
        BY <1>7, <3>1 DEF SetIndices
      <3> QED BY <3>1, <3>2 DEF D
    <2> QED BY <2>1, <2>2
  <1>12. n >= B + q.count
    BY <1>1, <1>3, <1>6
  <1>13. n \notin Users(q) /\ Users(t) = (Users(q) \ D) \union {n}
    <2>1. n \notin Users(q)
      BY <1>1, <1>10, <1>12
    <2>2. n \in Users(t)
      <3>1. n \in C..C+t.count-1 /\ n - C = t.count - 1 /\ UserAt(t, t.count - 1) = n /\ n # NoUser
        BY <1>2, <1>3, <1>6, VideoQueueAssumption
      <3> QED BY <1>10, <3>1
    <2>3. ASSUME NEW x \in Users(t), x # n PROVE x \in Users(q) /\ x \notin D
      <3>1. x \in C..C+t.count-1 /\ UserAt(t, x - C) # NoUser
        BY <1>10
      <3>2. x - C \in 0..t.count-1 /\ x - C # t.count - 1
        BY <1>3, <1>6, <2>3, <3>1
      <3> DEFINE i == x - C
      <3>3. C = B + k /\ k + i \in 0..q.count-1 /\ UserAt(t, i) = UserAt(q, k + i)
        BY <1>8, <3>1, <3>2
      <3>4. k + i = x - B /\ x \in B..B+q.count-1 /\ ~(x \in B..B+k-1)
        BY <1>1, <3>1, <3>2, <3>3
      <3> QED BY <1>10, <1>11, <3>1, <3>3, <3>4
    <2>4. ASSUME NEW x \in Users(q), x \notin D PROVE x \in Users(t)
      <3>1. x \in B..B+q.count-1 /\ UserAt(q, x - B) # NoUser /\ ~(x \in B..B+k-1)
        BY <1>10, <1>11, <2>4
      <3>2. C = B + k
        BY <1>1, <1>6, <3>1
      <3>3. /\ x - C \in 0..t.count-1 /\ x - C # t.count - 1 /\ k + (x - C) = x - B
            /\ x - B < q.count /\ x \in C..C+t.count-1
        BY <1>1, <1>3, <3>1, <3>2
      <3>4. UserAt(t, x - C) = UserAt(q, x - B)
        BY <1>2, <3>3
      <3> QED BY <1>10, <3>1, <3>3, <3>4
    <2> QED BY <2>1, <2>2, <2>3, <2>4
  <1>14. /\ IsFiniteSet(D)
         /\ Cardinality(Users(t)) + Cardinality(D) = Cardinality(Users(q)) + 1
    <2>1. IsFiniteSet(D) /\ Users(q) \cap D = D
      BY <1>10, <1>11, FS_Subset
    <2>2. IsFiniteSet(Users(q) \ D) /\ Cardinality(Users(q) \ D) = Cardinality(Users(q)) - Cardinality(D)
      <3>1. IsFiniteSet(Users(q))
        BY <1>10
      <3>2. /\ IsFiniteSet(Users(q) \ D)
            /\ Cardinality(Users(q) \ D) = Cardinality(Users(q)) - Cardinality(Users(q) \cap D)
        BY <3>1, FS_Difference, ZenonT(30)
      <3> QED BY <2>1, <3>2
    <2>3. Cardinality(Users(t)) = Cardinality(Users(q) \ D) + 1
      BY <1>13, <2>2, FS_AddElement
    <2>4. Cardinality(Users(q)) \in Nat /\ Cardinality(D) \in Nat
      BY <1>10, <2>1, FS_CardinalityType
    <2> QED BY <2>1, <2>2, <2>3, <2>4
  <1>15. C + t.count = n + 1
    BY <1>3, <1>6
  <1> QED BY <1>2, <1>6, <1>9, <1>14, <1>15 DEF Pushed, t

\* Pushing a packet that is near the newest one sent, into a window that is.
LEMMA PushPlaced ==
  ASSUME NEW B \in Nat, NEW q, Placed(q, B), NEW n \in Packets, NEW s \in Nat, n < s,
         B + q.count <= s, s - B <= SeqHalf, s - n + QueueSize <= SeqHalf
  PROVE  LET p == Push(q, SeqOf(n), n)
         IN  /\ \E C \in Nat : Pushed(q, n, p, B, C) /\ C + p.queue.count <= s
             /\ q.count > 0 => p.queue.count > 0
PROOF
  <1> DEFINE seq == SeqOf(n)
             p == Push(q, seq, n)
  <1>1. /\ n \in Nat /\ q.count \in 0..QueueSize /\ seq \in 0..SeqMod-1
        /\ q \in QueueOver(Packets) /\ LastIsSet(q) /\ NoUser \notin Packets
    <2>1. n \in Nat
      BY VideoSizes DEF Packets
    <2> QED BY <2>1, SeqOfCast, QueueFields, Constants DEF Placed
  <1>2. n - B < SeqHalf /\ B - n < SeqHalf /\ B + q.count \in Nat
    BY <1>1, VideoSizes
  <1>3. /\ p.queue \in QueueOver(Packets) /\ LastIsSet(p.queue)
        /\ q.count > 0 => p.queue.count > 0
    BY <1>1, PushOK
  <1>4. \E C \in Nat : Pushed(q, n, p, B, C)
    <2>1. CASE Rejects(q, seq) \/ NotTaken(q, n, p)
      <3>1. p = [queue |-> q, dropped |-> {n}]
        BY <2>1, RejectedPlaced DEF NotTaken
      <3>2. p.queue = q /\ p.dropped = {n}
        <4> HIDE DEF p
        <4> QED BY <3>1
      <3>3. B \in B..(IF n < B + QueueSize THEN B ELSE n)
        BY <1>1, VideoSizes
      <3>4. IsFiniteSet({n}) /\ Cardinality({n}) = 1 /\ Cardinality(Users(q)) \in Nat
        BY UsersPlaced, FS_Singleton, FS_CardinalityType
      <3> HIDE DEF p
      <3>5. Pushed(q, n, p, B, B)
        BY <3>2, <3>3, <3>4 DEF Pushed
      <3> QED BY <3>5
    <2>2. CASE ~Rejects(q, seq) /\ ~NotTaken(q, n, p)
      <3>1. B <= n
        BY <1>1, <1>2, <2>2, OldIsRejected
      <3>2. Reaches(q, seq)
        BY <1>1, <1>2, <3>1, ReachesPlaced
      <3>3. \/ FillsPlace(q, seq, n, p)
            \/ \E k \in 0..q.count : BecomesLast(q, seq, n, p, k)
        BY <1>1, <2>2, <3>2, PushPlaces
      <3> HIDE DEF p
      <3>4. CASE FillsPlace(q, seq, n, p)
        <4>1. Pushed(q, n, p, B, B)
          BY <1>1, <1>2, <1>3, <3>1, <3>4, FillsPlaced
        <4> QED BY <4>1
      <3>5. CASE \E k \in 0..q.count : BecomesLast(q, seq, n, p, k)
        BY <1>1, <1>2, <1>3, <2>2, <3>1, <3>5, LastPlaced
      <3> QED BY <3>3, <3>4, <3>5
    <2> QED BY <2>1, <2>2
  <1>5. PICK C \in Nat : Pushed(q, n, p, B, C)
    BY <1>4
  <1>6. C + p.queue.count <= s
    <2>1. C + p.queue.count \in {B + q.count, n + 1}
      BY <1>5 DEF Pushed
    <2> HIDE DEF p
    <2> QED BY <1>1, <2>1
  <1> HIDE DEF p
  <1> QED BY <1>3, <1>5, <1>6 DEF p

-----------------------------------------------------------------------------
(* What a step does to the packets                                         *)

\* The window, at the packet D, lies between what was delivered and what was
\* sent.
Holding(D) ==
  /\ Placed(queue, D)
  /\ LastDelivered < D
  /\ D + queue.count <= sent

\* A flush of such a window keeps it one, frees what it hands out, and is a
\* step of the stream.
LEMMA FlushHolds ==
  ASSUME sent \in Nat, delivered \in Seq(Packets), NEW q, NEW C \in Nat, Placed(q, C),
         LastDelivered < C, C + q.count <= sent,
         NEW w \in NotWaiting..Timeout+1, w # NotWaiting => q.count > 0,
         NEW ws \in RawSeq, NEW buffers, buffers = Cardinality(Users(q)),
         Flush(q, w, ws, buffers), sent' = sent
  PROVE  /\ \E D \in Nat :
              /\ Holding(D)'
              /\ C <= D
              /\ w <= Timeout => D = C + (Len(delivered') - Len(delivered))
         /\ held' = Cardinality(SetIndices(queue'))
         /\ [Stream!Next]_Stream!vars
PROOF
  <1>1. PICK f \in FlushState, D \in Nat :
           /\ queue' = f.queue
           /\ delivered' = delivered \o f.out
           /\ held' = buffers - Len(f.out)
           /\ Carried(f, C, D)
           /\ D + f.queue.count = C + q.count
           /\ Load(f) = Cardinality(Users(q))
           /\ w <= Timeout => D = C + Len(f.out)
    BY FlushCarried
  <1> DEFINE o == f.out
             m == Len(delivered)
             l == Len(o)
             u == delivered'
  <1>2. /\ Placed(queue', D) /\ o \in Seq(Packets) /\ C <= D
        /\ \A i \in 1..l : o[i] \in C..D-1
        /\ \A i, j \in 1..l : i < j => o[i] < o[j]
    BY <1>1 DEF Carried, InOrderFrom
  <1>3. m \in Nat /\ l \in Nat
    BY <1>2, LenProperties
  <1>4. /\ u \in Seq(Packets) /\ Len(u) = m + l
        /\ \A i \in 1..m+l : u[i] = IF i <= m THEN delivered[i] ELSE o[i - m]
    BY <1>1, <1>2, ConcatProperties
  <1>5. queue'.count \in Nat /\ D + queue'.count <= sent /\ D <= sent
    <2>1. f.queue.count \in Nat
      BY FlushStateFields, QueueFields
    <2> QED BY <1>1, <2>1
  <1>6. /\ l = 0 => u = delivered
        /\ l > 0 => u # <<>> /\ u[m + l] = o[l]
    <2>1. ASSUME l = 0 PROVE u = delivered
      <3>1. o = <<>>
        BY <1>2, <2>1, EmptySeq
      <3> QED BY <1>1, <3>1, ConcatEmptySeq
    <2>2. ASSUME l > 0 PROVE u # <<>> /\ u[m + l] = o[l]
      <3>1. m + l \in 1..m+l /\ ~(m + l <= m) /\ (m + l) - m = l
        BY <1>3, <2>2
      <3>2. u[m + l] = o[l]
        BY <1>4, <3>1
      <3>3. u # <<>>
        <4> HIDE DEF u, m, l
        <4> QED BY <1>3, <1>4, <2>2, EmptySeq
      <3> QED BY <3>2, <3>3
    <2> QED BY <2>1, <2>2
  <1>7. \A i \in 1..m : delivered[i] \in Int
    BY VideoSizes, ElementOfSeq DEF Packets
  <1> HIDE DEF o, m, l, u
  <1>8. LastDelivered' < D
    <2>1. LastDelivered' = IF u = <<>> THEN -1 ELSE u[Len(u)]
      BY DEF LastDelivered, u
    <2>2. CASE l = 0
      <3>1. LastDelivered' = LastDelivered
        BY <1>6, <2>2 DEF LastDelivered, u
      <3>2. LastDelivered \in Int
        <4>1. delivered # <<>> => m \in 1..m
          BY <1>3, EmptySeq DEF m
        <4> QED BY <1>7, <4>1 DEF LastDelivered, m
      <3> QED BY <1>2, <3>1, <3>2
    <2>3. CASE l # 0
      <3>1. l > 0 /\ l \in 1..l
        BY <1>3, <2>3
      <3> QED BY <1>2, <1>4, <1>6, <2>1, <3>1
    <2> QED BY <2>2, <2>3
  <1>9. held' = Cardinality(SetIndices(queue'))
    <2>1. Cardinality(Users(f.queue)) + l = buffers
      BY <1>1 DEF Load, l, o
    <2>2. /\ Cardinality(Users(f.queue)) \in Nat
          /\ Cardinality(SetIndices(f.queue)) = Cardinality(Users(f.queue))
      BY <1>1, <1>2, UsersPlaced, FS_CardinalityType
    <2>3. held' = buffers - l
      BY <1>1 DEF l, o
    <2> QED BY <1>1, <1>3, <2>1, <2>2, <2>3
  <1>10. Holding(D)'
    BY <1>2, <1>5, <1>8 DEF Holding
  <1>11. w <= Timeout => D = C + (Len(delivered') - Len(delivered))
    <2>1. Len(delivered') = m + l /\ Len(delivered) = m
      BY <1>4 DEF u, m
    <2>2. w <= Timeout => D = C + l
      BY <1>1 DEF l, o
    <2> QED BY <1>3, <2>1, <2>2
  <1>12. C <= D
    BY <1>2
  <1>13. CASE l = 0
    <2>1. UNCHANGED Stream!vars
      BY <1>6, <1>13 DEF Stream!vars, u
    <2> QED BY <1>9, <1>10, <1>11, <1>12, <2>1
  <1>14. CASE l # 0
    <2>1. Len(delivered') > Len(delivered)
      BY <1>3, <1>4, <1>14 DEF u, m
    <2>2. SubSeq(u, 1, m) = delivered
      <3> DEFINE v == SubSeq(u, 1, m)
      <3>1. \A i \in 1..m : u[i] \in Packets
        BY <1>3, <1>4, ElementOfSeq
      <3>2. /\ v \in Seq(Packets) /\ Len(v) = IF 1 <= m THEN m - 1 + 1 ELSE 0
            /\ \A i \in 1..m-1+1 : v[i] = u[1 + i - 1]
        BY <1>3, <1>4, <3>1, SubSeqProperties
      <3>3. Len(v) = m /\ m = Len(delivered)
        BY <1>3, <3>2 DEF m
      <3>4. \A i \in 1..m : v[i] = delivered[i]
        <4>1. \A i \in 1..m : i \in 1..m-1+1 /\ 1 + i - 1 = i /\ i \in 1..m+l /\ i <= m
          BY <1>3
        <4> HIDE DEF v
        <4> QED BY <1>4, <3>2, <4>1
      <3> HIDE DEF v
      <3>5. v = delivered
        BY <3>2, <3>3, <3>4, SeqEqual
      <3> QED BY <3>5 DEF v
    <2>3. ASSUME NEW i \in m+1..m+l
          PROVE  u[i] \in (IF i = 1 THEN 0 ELSE u[i-1] + 1)..sent-1
      <3> DEFINE j == i - m
      <3>1. /\ i \in 1..m+l /\ ~(i <= m) /\ j \in 1..l /\ u[i] = o[j] /\ i \in Int
        <4>1. m \in Nat /\ l \in Nat
          BY <1>3
        <4>2. i \in 1..m+l /\ ~(i <= m) /\ i - m \in 1..l /\ i \in Int
          <5> HIDE DEF m, l
          <5> QED BY <4>1
        <4>3. u[i] = o[i-m]
          <5> HIDE DEF m, l, u, o
          <5> QED BY <1>4, <4>2
        <4> QED BY <4>2, <4>3
      <3>2. o[j] \in C..D-1
        BY <1>2, <3>1
      <3>3. u[i] \in 0..sent-1 /\ u[i] >= C
        BY <1>2, <1>5, <3>1, <3>2
      <3>4. CASE i = 1
        BY <3>3, <3>4
      <3>5. CASE i # 1 /\ j > 1
        <4> DEFINE h == j - 1
        <4>1. i - 1 \in 1..m+l /\ ~(i - 1 <= m) /\ (i - 1) - m = h /\ h \in 1..l /\ h < j
          BY <1>3, <3>1, <3>5
        <4>2. u[i-1] = o[h]
          BY <1>4, <4>1
        <4>3. o[h] < o[j] /\ o[h] \in C..D-1
          <5> HIDE DEF h, j
          <5> QED BY <1>2, <3>1, <4>1
        <4>4. u[i-1] < u[i] /\ u[i-1] \in Int
          BY <3>1, <4>2, <4>3
        <4> QED BY <3>3, <3>5, <4>4
      <3>6. CASE i # 1 /\ ~(j > 1)
        <4>1. i - 1 = m /\ m \in 1..m+l /\ m \in 1..m /\ m <= m
          BY <1>3, <3>1, <3>6
        <4>2. u[i-1] = delivered[m] /\ delivered[m] \in Int
          BY <1>4, <1>7, <4>1
        <4>3. delivered # <<>>
          BY <4>1, EmptySeq DEF m
        <4>4. LastDelivered = delivered[m]
          BY <4>3 DEF LastDelivered, m
        <4>5. u[i-1] < u[i]
          BY <3>3, <4>2, <4>4
        <4> QED BY <3>3, <3>6, <4>2, <4>5
      <3> QED BY <3>4, <3>5, <3>6
    <2>4. Stream!Deliver
      <3>1. Len(u) = m + l
        BY <1>4
      <3> QED BY <2>1, <2>2, <2>3, <3>1 DEF Stream!Deliver, u, m
    <2> QED BY <1>9, <1>10, <1>11, <1>12, <2>4 DEF Stream!Next
  <1> QED BY <1>13, <1>14

\* The queue of the first packet starts at the first packet of its frame.
LEMMA FirstPlaced ==
  ASSUME NEW n \in Nat
  PROVE  LET q == EmptyQueue(FirstSeq(n))
         IN  /\ \E B \in 0..n : Placed(q, B)
             /\ q.count = 0 /\ FirstSeq(n) \in RawSeq
             /\ Cardinality(Users(q)) = 0
PROOF
  <1> DEFINE q == EmptyQueue(FirstSeq(n))
             u == UnitIndex(n)
             B == n - u
             x == StartSeq + n
  <1>1. u \in 0..n
    <2>1. FrameUnits \in Nat \ {0}
      BY VideoSizes
    <2>2. /\ n % FrameUnits \in 0..FrameUnits-1 /\ n \div FrameUnits \in Nat
          /\ n = FrameUnits * (n \div FrameUnits) + (n % FrameUnits)
      BY <2>1
    <2>3. FrameUnits * (n \div FrameUnits) >= 0
      BY <2>1, <2>2
    <2> QED BY <2>1, <2>2, <2>3 DEF UnitIndex
  <1> HIDE DEF u
  <1>2. /\ FirstSeq(n) \in 0..SeqMod-1 /\ FirstSeq(n) \in RawSeq
        /\ SeqCast(FirstSeq(n)) = FirstSeq(n)
    <2>1. FirstSeq(n) \in 0..SeqMod-1
      BY SeqOfType
    <2>2. FirstSeq(n) \in RawSeq
      BY <2>1, VideoSizes DEF RawSeq
    <2> QED BY <2>1, <2>2, CastRaw, VideoSizes
  <1>3. FirstSeq(n) = SeqOf(B)
    <2>1. x \in Nat /\ u \in Int /\ x - u = StartSeq + B
      BY <1>1, VideoSizes
    <2>2. ((x % SeqMod) - u) % SeqMod = (x - u) % SeqMod
      <3> HIDE DEF x
      <3> QED BY <2>1, VideoSizes, ModSub
    <2>3. FirstSeq(n) = ((x % SeqMod) - u) % SeqMod
      BY DEF FirstSeq, SeqOf, u
    <2> QED BY <2>1, <2>2, <2>3 DEF SeqOf
  <1>4. q = [begin |-> FirstSeq(n), count |-> 0, slot |-> [i \in 0..QueueSize-1 |-> NoUser]]
    BY DEF EmptyQueue
  <1> HIDE DEF q
  <1>5. q \in QueueOver(Packets) /\ q.count = 0 /\ q.begin = FirstSeq(n)
    BY <1>2, <1>4, VideoSizes DEF QueueOver
  <1> HIDE DEF x, B
  <1>6. Placed(q, B)
    BY <1>2, <1>3, <1>5 DEF Placed, LastIsSet
  <1>7. B \in 0..n /\ B \in Nat
    BY <1>1 DEF B
  <1>8. Users(q) = {}
    BY <1>5, <1>6, <1>7, UsersPlaced
  <1> QED BY <1>2, <1>5, <1>6, <1>7, <1>8, FS_EmptySet DEF q

\* No packet is half the modulus behind: neither the one delivered last nor
\* one in flight, which keeps the distance of a full queue besides.
Recent ==
  /\ sent - LastDelivered <= SeqHalf
  /\ \A n \in net : sent - n + QueueSize <= SeqHalf

\* What holds of the packets between two calls.
StreamInv ==
  /\ net \subseteq 0..sent-1
  /\ initialized \/ queue.count > 0 => \E B \in Nat : Holding(B)
  /\ open /\ ~initialized => delivered = <<>>
  /\ NoLeak

\* What a step may do besides keeping that.
Progress ==
  /\ [Stream!Next]_Stream!vars
  /\ initialized /\ GivesUp => \/ waited > Timeout
                               \/ \E n \in net : n - LastDelivered > QueueSize

\* A window that moved by as many packets as were handed out gives up none.
LEMMA NothingGivenUp ==
  ASSUME NEW B \in Nat, NEW D \in Nat, Placed(queue, B), Placed(queue', D),
         delivered \in Seq(Packets), delivered' \in Seq(Packets),
         D = B + (Len(delivered') - Len(delivered)), B <= D, D - B < SeqMod
  PROVE  ~GivesUp
PROOF
  <1> DEFINE x == StartSeq + B
             k == D - B
  <1>1. queue.begin \in RawSeq /\ queue'.begin \in RawSeq
    BY QueueFields DEF Placed
  <1>2. x \in Nat /\ k \in 0..SeqMod-1 /\ x + k = StartSeq + D
    BY VideoSizes
  <1>3. SeqCast(queue.begin) = x % SeqMod /\ SeqCast(queue'.begin) = (x + k) % SeqMod
    BY <1>2 DEF Placed, SeqOf
  <1>4. (queue'.begin - queue.begin) % SeqMod = k
    <2> HIDE DEF x, k
    <2> QED BY <1>1, <1>2, <1>3, DistanceCounted
  <1>5. Len(delivered') - Len(delivered) = k
    <2>1. Len(delivered') \in Nat /\ Len(delivered) \in Nat
      BY LenProperties
    <2> QED BY <2>1
  <1> QED BY <1>4, <1>5 DEF GivesUp

\* The packet n, near the newest one, goes through the queue.
LEMMA HandlePacketStream ==
  ASSUME IInv, StreamInv, Recent, NEW n \in net, HandlePacket(n), IInv'
  PROVE  StreamInv' /\ Progress
PROOF
  <1> DEFINE q == IF initialized THEN queue ELSE EmptyQueue(FirstSeq(n))
             w == IF initialized THEN waited ELSE NotWaiting
             ws == IF initialized THEN waitSeq ELSE FirstSeq(n)
             p == Push(q, SeqOf(n), n)
  <1>1. /\ FlushedOK /\ sent \in 0..MaxPackets /\ sent \in Nat /\ net \subseteq Packets
        /\ held \in Int /\ delivered \in Seq(Packets) /\ delivered' \in Seq(Packets)
    <2>1. FlushedOK /\ sent \in 0..MaxPackets /\ net \subseteq Packets /\ held \in Int
      BY IInvFlushed DEF IParts
    <2>2. delivered' \in Seq(Packets)
      BY IInvFlushedNext DEF IParts, FlushedOK
    <2> QED BY <2>1, <2>2, VideoSizes DEF FlushedOK
  <1>2. /\ n \in Packets /\ n \in Nat /\ n < sent
        /\ sent - LastDelivered <= SeqHalf /\ sent - n + QueueSize <= SeqHalf
    <2>1. n \in Packets /\ n \in 0..sent-1
      BY <1>1 DEF StreamInv
    <2> QED BY <1>1, <2>1 DEF Recent
  <1>3. open /\ initialized' = TRUE /\ sent' = sent /\ net' \subseteq net
        /\ Flush(p.queue, w, ws, held + 1 - Cardinality(p.dropped))
    BY DEF HandlePacket
  <1>4. /\ w \in NotWaiting..Timeout+1 /\ ws \in RawSeq
        /\ w # NotWaiting => q.count > 0
    <2>1. CASE initialized
      BY <1>1, <2>1 DEF FlushedOK, WaitsIffBuffered
    <2>2. CASE ~initialized
      BY <1>2, <2>2, FirstPlaced, Constants
    <2> QED BY <2>1, <2>2
  <1>5. LastDelivered \in Int
    <2>1. delivered # <<>> => Len(delivered) \in 1..Len(delivered)
      BY <1>1, EmptySeq, LenProperties
    <2>2. delivered # <<>> => delivered[Len(delivered)] \in Packets
      BY <1>1, <2>1, ElementOfSeq
    <2> QED BY <2>2, VideoSizes DEF LastDelivered, Packets
  <1>6. \E B \in Nat :
          /\ Placed(q, B) /\ LastDelivered < B /\ B + q.count <= sent
          /\ sent - B <= SeqHalf /\ Cardinality(Users(q)) = held
          /\ initialized => q = queue /\ w = waited
    <2>1. CASE initialized
      <3>1. PICK B \in Nat : Holding(B)
        BY <2>1 DEF StreamInv
      <3>2. q = queue /\ w = waited
        BY <2>1
      <3>3. Placed(queue, B) /\ LastDelivered < B /\ B + queue.count <= sent
        BY <3>1 DEF Holding
      <3>4. Cardinality(Users(queue)) = held
        BY <2>1, <3>3, UsersPlaced DEF StreamInv, NoLeak
      <3>5. sent - B <= SeqHalf
        BY <1>1, <1>2, <1>5, <3>3, VideoSizes
      <3> HIDE DEF q, w
      <3> QED BY <3>2, <3>3, <3>4, <3>5
    <2>2. CASE ~initialized
      <3>1. q = EmptyQueue(FirstSeq(n))
        BY <2>2
      <3> HIDE DEF q
      <3>2. PICK B \in 0..n : Placed(q, B)
        BY <1>2, <3>1, FirstPlaced
      <3>3. q.count = 0 /\ Cardinality(Users(q)) = 0
        BY <1>2, <3>1, FirstPlaced
      <3>4. held = 0 /\ delivered = <<>>
        BY <1>3, <2>2 DEF StreamInv, NoLeak
      <3>5. LastDelivered = 0-1
        BY <3>4 DEF LastDelivered
      <3>6. B \in Nat /\ LastDelivered < B /\ B + q.count <= sent /\ sent - B <= SeqHalf
        BY <1>1, <1>2, <3>3, <3>5, VideoSizes
      <3> QED BY <2>2, <3>2, <3>3, <3>4, <3>6
    <2> QED BY <2>1, <2>2
  <1>7. PICK B \in Nat :
          /\ Placed(q, B) /\ LastDelivered < B /\ B + q.count <= sent
          /\ sent - B <= SeqHalf /\ Cardinality(Users(q)) = held
          /\ initialized => q = queue /\ w = waited
    BY <1>6
  <1> HIDE DEF q, w, ws
  <1>8. /\ \E C \in Nat : Pushed(q, n, p, B, C) /\ C + p.queue.count <= sent
        /\ q.count > 0 => p.queue.count > 0
    BY <1>1, <1>2, <1>7, PushPlaced
  <1>9. PICK C \in Nat : Pushed(q, n, p, B, C) /\ C + p.queue.count <= sent
    BY <1>8
  <1> DEFINE r == p.queue
             buffers == held + 1 - Cardinality(p.dropped)
  <1>10. /\ Placed(r, C) /\ C \in B..(IF n < B + QueueSize THEN B ELSE n)
         /\ Cardinality(Users(r)) + Cardinality(p.dropped) = held + 1
         /\ IsFiniteSet(p.dropped)
    <2> HIDE DEF p
    <2> QED BY <1>7, <1>9 DEF Pushed
  <1>11. buffers = Cardinality(Users(r))
    <2>1. Cardinality(Users(r)) \in Nat /\ Cardinality(p.dropped) \in Nat
      <3> HIDE DEF p
      <3> QED BY <1>10, UsersPlaced, FS_CardinalityType
    <2> HIDE DEF p
    <2> QED BY <1>1, <1>10, <2>1
  <1>12. /\ LastDelivered < C /\ C + r.count <= sent
         /\ w # NotWaiting => r.count > 0
    <2>1. LastDelivered < C
      BY <1>2, <1>5, <1>7, <1>10, VideoSizes
    <2> QED BY <1>4, <1>8, <1>9, <2>1
  <1> HIDE DEF p
  <1>13. Flush(r, w, ws, buffers)
    BY <1>3
  <1> HIDE DEF r, buffers
  <1>14. /\ \E D \in Nat :
              /\ Holding(D)' /\ C <= D
              /\ w <= Timeout => D = C + (Len(delivered') - Len(delivered))
         /\ held' = Cardinality(SetIndices(queue'))
         /\ [Stream!Next]_Stream!vars
    BY <1>1, <1>3, <1>4, <1>10, <1>11, <1>12, <1>13, FlushHolds
  <1>15. PICK D \in Nat :
              /\ Placed(queue', D) /\ D + queue'.count <= sent /\ C <= D
              /\ w <= Timeout => D = C + (Len(delivered') - Len(delivered))
    BY <1>3, <1>14 DEF Holding
  <1>16. StreamInv'
    <2>1. net' \subseteq 0..sent'-1
      BY <1>3 DEF StreamInv
    <2>2. NoLeak'
      BY <1>3, <1>14 DEF NoLeak
    <2>3. \E F \in Nat : Holding(F)'
      BY <1>14
    <2> QED BY <1>3, <2>1, <2>2, <2>3 DEF StreamInv
  <1>17. ASSUME initialized, waited <= Timeout, \A m \in net : m - LastDelivered <= QueueSize
         PROVE  ~GivesUp
    <2>1. q = queue /\ w = waited
      BY <1>7, <1>17
    <2>2. n < B + QueueSize
      BY <1>2, <1>5, <1>7, <1>17, VideoSizes
    <2>3. C = B
      BY <1>10, <2>2
    <2>4. D = B + (Len(delivered') - Len(delivered))
      BY <1>15, <1>17, <2>1, <2>3
    <2>5. Len(delivered') \in Nat /\ Len(delivered) \in Nat
      BY <1>1, LenProperties
    <2>6. queue'.count \in Nat
      BY <1>15, QueueFields DEF Placed
    <2>7. B <= D
      BY <1>15, <2>3
    <2>8. D - B < SeqMod
      BY <1>1, <1>7, <1>15, <2>6, VideoSizes
    <2> QED BY <1>1, <1>7, <1>15, <2>1, <2>4, <2>7, <2>8, NothingGivenUp
  <1>18. waited \in Int /\ Timeout \in Int /\ QueueSize \in Int /\ \A m \in net : m \in Int
    BY <1>1, VideoSizes, Constants DEF FlushedOK, Packets
  <1>19. initialized /\ GivesUp => \/ waited > Timeout
                                  \/ \E m \in net : m - LastDelivered > QueueSize
    BY <1>5, <1>17, <1>18
  <1> QED BY <1>14, <1>16, <1>19 DEF Progress

\* So does the queue alone, when a wait may be over.
LEMMA FlushOnTimeoutStream ==
  ASSUME IInv, StreamInv, Recent, FlushOnTimeout, IInv'
  PROVE  StreamInv' /\ Progress
PROOF
  <1>1. /\ FlushedOK /\ sent \in Nat /\ delivered \in Seq(Packets) /\ delivered' \in Seq(Packets)
        /\ waited \in NotWaiting..Timeout+1 /\ waitSeq \in RawSeq
        /\ waited # NotWaiting => queue.count > 0
    <2>1. FlushedOK /\ sent \in 0..MaxPackets
      BY IInvFlushed DEF IParts
    <2>2. delivered' \in Seq(Packets)
      BY IInvFlushedNext DEF IParts, FlushedOK
    <2> QED BY <2>1, <2>2, VideoSizes DEF FlushedOK, WaitsIffBuffered
  <1>2. /\ open /\ initialized /\ initialized' = initialized /\ sent' = sent /\ net' = net
        /\ Flush(queue, waited, waitSeq, held)
    BY DEF FlushOnTimeout
  <1>3. PICK B \in Nat : Placed(queue, B) /\ LastDelivered < B /\ B + queue.count <= sent
    BY <1>2 DEF StreamInv, Holding
  <1>4. held = Cardinality(Users(queue))
    BY <1>2, <1>3, UsersPlaced DEF StreamInv, NoLeak
  <1>5. /\ \E D \in Nat :
             /\ Holding(D)' /\ B <= D
             /\ waited <= Timeout => D = B + (Len(delivered') - Len(delivered))
        /\ held' = Cardinality(SetIndices(queue'))
        /\ [Stream!Next]_Stream!vars
    BY <1>1, <1>2, <1>3, <1>4, FlushHolds
  <1>6. PICK D \in Nat :
             /\ Placed(queue', D) /\ D + queue'.count <= sent /\ B <= D
             /\ waited <= Timeout => D = B + (Len(delivered') - Len(delivered))
    BY <1>2, <1>5 DEF Holding
  <1>7. StreamInv'
    <2>1. net' \subseteq 0..sent'-1
      BY <1>2 DEF StreamInv
    <2>2. NoLeak'
      BY <1>2, <1>5 DEF NoLeak
    <2>3. \E F \in Nat : Holding(F)'
      BY <1>5
    <2> QED BY <1>2, <2>1, <2>2, <2>3 DEF StreamInv
  <1>8. ASSUME waited <= Timeout PROVE ~GivesUp
    <2>1. D = B + (Len(delivered') - Len(delivered))
      BY <1>6, <1>8
    <2>2. queue'.count \in Nat /\ LastDelivered \in Int
      <3>1. delivered # <<>> => Len(delivered) \in 1..Len(delivered)
        BY <1>1, EmptySeq, LenProperties
      <3>2. delivered # <<>> => delivered[Len(delivered)] \in Packets
        BY <1>1, <3>1, ElementOfSeq
      <3>3. LastDelivered \in Int
        BY <3>2, VideoSizes DEF LastDelivered, Packets
      <3> QED BY <1>6, <3>3, QueueFields DEF Placed
    <2>3. D - B < SeqMod
      BY <1>1, <1>3, <1>6, <2>2, VideoSizes DEF Recent
    <2> QED BY <1>1, <1>3, <1>6, <2>1, <2>3, NothingGivenUp
  <1>9. waited \in Int /\ Timeout \in Int
    BY <1>1, Constants
  <1>10. GivesUp => waited > Timeout
    BY <1>8, <1>9
  <1> QED BY <1>5, <1>7, <1>10 DEF Progress

\* A step that leaves the window and what was delivered alone gives up nothing.
LEMMA NothingMoved ==
  ASSUME queue' = queue, delivered' = delivered, delivered \in Seq(Packets),
         queue \in QueueOver(Packets)
  PROVE  ~GivesUp
PROOF
  <1>1. SeqMod \in Nat \ {0} /\ Len(delivered) \in Nat
    BY VideoSizes, LenProperties
  <1>2. Len(delivered') - Len(delivered) = 0
    BY <1>1
  <1>3. (queue'.begin - queue.begin) % SeqMod = 0
    <2>1. queue.begin \in Int /\ queue'.begin = queue.begin
      BY QueueFields, VideoSizes DEF RawSeq
    <2>2. queue'.begin - queue.begin = 0
      BY <2>1
    <2> QED BY <1>1, <2>2
  <1> QED BY <1>2, <1>3 DEF GivesUp

\* The packets are in order when the thread starts.
LEMMA InitStream == Init => StreamInv /\ Stream!Init
PROOF
  <1> SUFFICES ASSUME Init PROVE StreamInv /\ Stream!Init
    OBVIOUS
  <1>1. /\ sent = 0 /\ net = {} /\ initialized = FALSE /\ delivered = <<>> /\ held = 0
        /\ queue.count = 0
    BY DEF Init, EmptyQueue
  <1>2. StreamInv
    BY <1>1 DEF StreamInv, NoLeak
  <1> QED BY <1>1, <1>2 DEF Stream!Init

\* Every step keeps them so, while no packet is too late.
LEMMA NextStream ==
  ASSUME IInv, StreamInv, Recent, [Next]_vars, IInv'
  PROVE  StreamInv' /\ (Progress \/ UNCHANGED vars)
PROOF
  <1>1. /\ delivered \in Seq(Packets) /\ queue \in QueueOver(Packets) /\ sent \in Nat
        /\ net \subseteq Packets
    BY IInvFlushed, VideoSizes DEF IParts, FlushedOK
  <1>2. ASSUME NEW n \in net, HandlePacket(n) PROVE StreamInv' /\ Progress
    BY <1>2, HandlePacketStream
  <1>3. CASE FlushOnTimeout
    BY <1>3, FlushOnTimeoutStream
  <1>4. CASE /\ initialized' = initialized /\ queue' = queue /\ delivered' = delivered
             /\ held' = held /\ open' = open
             /\ net' \subseteq 0..sent'-1
             /\ sent' \in {sent, sent + 1}
    <2>1. \A D \in Nat : Holding(D) => Holding(D)'
      <3> SUFFICES ASSUME NEW D \in Nat, Holding(D) PROVE Holding(D)'
        OBVIOUS
      <3>1. Placed(queue, D) /\ LastDelivered < D /\ D + queue.count <= sent
        BY DEF Holding
      <3>2. queue.count \in Nat
        BY <1>1, QueueFields
      <3>3. queue' = queue /\ LastDelivered' = LastDelivered
        BY <1>4 DEF LastDelivered
      <3>4. D + queue'.count <= sent'
        BY <1>1, <1>4, <3>1, <3>2, <3>3
      <3> QED BY <3>1, <3>3, <3>4 DEF Holding
    <2>2. NoLeak'
      BY <1>4 DEF StreamInv, NoLeak
    <2>3. StreamInv'
      BY <1>4, <2>1, <2>2 DEF StreamInv
    <2>4. ~GivesUp
      BY <1>1, <1>4, NothingMoved
    <2>5. [Stream!Next]_Stream!vars
      BY <1>4 DEF Stream!Next, Stream!Send, Stream!vars
    <2> QED BY <2>3, <2>4, <2>5 DEF Progress
  <1>5. CASE Send
    <2>1. \A m \in net \union {sent} : m \in 0..sent
      BY <1>1 DEF StreamInv
    <2>2. net' = net \union {sent} /\ sent' = sent + 1 /\ sent' - 1 = sent
      BY <1>1, <1>5 DEF Send
    <2> QED BY <1>4, <1>5, <2>1, <2>2 DEF Send
  <1>6. ASSUME NEW n \in net, Lose(n) PROVE StreamInv' /\ (Progress \/ UNCHANGED vars)
    BY <1>4, <1>6 DEF Lose, StreamInv
  <1>7. CASE Tick
    BY <1>4, <1>7 DEF Tick, StreamInv
  <1>8. CASE Close
    <2>1. /\ open' = FALSE /\ initialized' = FALSE /\ UNCHANGED <<sent, net, queue, delivered>>
          /\ held' = IF initialized THEN held - Cardinality(FiniDropped(queue)) ELSE held
      BY <1>8 DEF Close
    <2>2. \A D \in Nat : Holding(D) => Holding(D)'
      BY <2>1 DEF Holding, LastDelivered
    <2>3. held' = 0
      <3>1. CASE initialized
        <4>1. PICK D \in Nat : Placed(queue, D)
          BY <3>1 DEF StreamInv, Holding
        <4>2. Cardinality(Users(queue)) = held /\ Cardinality(Users(queue)) \in Nat
          BY <3>1, <4>1, UsersPlaced, FS_CardinalityType DEF StreamInv, NoLeak
        <4> QED BY <2>1, <3>1, <4>2 DEF FiniDropped
      <3>2. CASE ~initialized
        BY <2>1, <3>2 DEF StreamInv, NoLeak
      <3> QED BY <3>1, <3>2
    <2>4. StreamInv'
      BY <2>1, <2>2, <2>3 DEF StreamInv, NoLeak
    <2>5. ~GivesUp
      BY <1>1, <2>1, NothingMoved
    <2>6. [Stream!Next]_Stream!vars
      BY <2>1 DEF Stream!vars
    <2> QED BY <2>4, <2>5, <2>6 DEF Progress
  <1>9. CASE UNCHANGED vars
    BY <1>4, <1>9 DEF vars, StreamInv
  <1> QED
    BY <1>2, <1>3, <1>5, <1>6, <1>7, <1>8, <1>9 DEF Next

\* Both invariants hold of a behaviour in which every packet is recent.
LEMMA SpecStream == Spec /\ []Recent => [](IInv /\ StreamInv)
PROOF
  <1>1. Init => StreamInv
    BY InitStream
  <1>2. IInv /\ StreamInv /\ Recent /\ [Next]_vars => IInv' /\ StreamInv'
    BY NextIInv, NextStream
  <1> QED BY <1>1, <1>2, InitIInv, PTL DEF Spec

\* The assumption is true of any session shorter than half the modulus less a
\* full queue: 32768 packets less 64 for the 16 bits of the video path.
LEMMA ShortSessionIsRecent ==
  ASSUME MaxPackets + QueueSize <= SeqHalf
  PROVE  Spec => []Recent
PROOF
  <1>1. IInv => Recent
    <2> SUFFICES ASSUME IInv PROVE Recent
      OBVIOUS
    <2>1. sent \in 0..MaxPackets /\ net \subseteq Packets /\ delivered \in Seq(Packets)
      BY IInvFlushed DEF IParts, FlushedOK
    <2>2. LastDelivered \in Int /\ LastDelivered >= 0-1
      <3>1. delivered # <<>> => Len(delivered) \in 1..Len(delivered)
        BY <2>1, EmptySeq, LenProperties
      <3>2. delivered # <<>> => delivered[Len(delivered)] \in Packets
        BY <2>1, <3>1, ElementOfSeq
      <3> QED BY <3>2, VideoSizes DEF LastDelivered, Packets
    <2>3. \A n \in net : n \in Int /\ n >= 0
      BY <2>1, VideoSizes DEF Packets
    <2> QED BY <2>1, <2>2, <2>3, VideoSizes DEF Recent
  <1> QED BY <1>1, SpecIInv, PTL

\* Every buffer the thread took over is freed exactly once, whatever the
\* network loses, repeats or reorders: by the drop callback, after delivery,
\* or when the loop is left.
THEOREM NoBufferLeaks == Spec /\ []Recent => []NoLeak
PROOF
  <1>1. StreamInv => NoLeak
    BY DEF StreamInv
  <1> QED BY <1>1, SpecStream, PTL

\* The ring never hands out a packet under another one's number, across every
\* wrap of the sequence numbers and of the ring.
THEOREM EachAtItsOwnPlace == Spec /\ []Recent => []SlotsHoldTheirOwn
PROOF
  <1>1. IInv /\ StreamInv => SlotsHoldTheirOwn
    <2> SUFFICES ASSUME IInv, StreamInv, NEW i \in SetIndices(queue)
                 PROVE  SeqOf(UserAt(queue, i)) = SeqCast(SeqAt(queue, i))
      BY DEF SlotsHoldTheirOwn
    <2>1. i \in 0..queue.count-1 /\ UserAt(queue, i) # NoUser /\ queue \in QueueOver(Packets)
      BY IInvFlushed DEF SetIndices, IParts, FlushedOK
    <2>2. PICK B \in Nat : Placed(queue, B)
      <3>1. queue.count > 0
        BY <2>1, QueueFields
      <3> QED BY <3>1 DEF StreamInv, Holding
    <2>3. UserAt(queue, i) = B + i /\ i \in 0..SeqMod-1
      BY <2>1, <2>2, QueueFields, VideoSizes DEF Placed
    <2> QED BY <2>2, <2>3, PlacedAt
  <1> QED BY <1>1, SpecStream, PTL

\* The window passes a packet that is not delivered only after a wait ran out
\* or for a packet that has no room behind the oldest missing one.
THEOREM GapsAreWaitedFor == Spec /\ []Recent => GapOnlyAfterWait
PROOF
  <1>1. IInv /\ StreamInv /\ Recent /\ [Next]_vars /\ IInv' =>
          [initialized /\ GivesUp => \/ waited > Timeout
                                     \/ \E n \in net : n - LastDelivered > QueueSize]_vars
    BY NextStream DEF Progress
  <1> QED BY <1>1, SpecStream, SpecIInv, PTL DEF Spec, GapOnlyAfterWait

\* The video path implements LossyStream: what reaches the callback is a
\* subsequence of what the console sent, in its order, each packet once.
THEOREM StreamImplemented == Spec /\ []Recent => ImplementsStream
PROOF
  <1>1. Init => Stream!Init
    BY InitStream
  <1>2. IInv /\ StreamInv /\ Recent /\ [Next]_vars /\ IInv' => [Stream!Next]_Stream!vars
    <2>1. UNCHANGED vars => UNCHANGED Stream!vars
      BY DEF vars, Stream!vars
    <2> QED BY <2>1, NextStream DEF Progress
  <1> QED BY <1>1, <1>2, SpecStream, SpecIInv, PTL DEF Spec, ImplementsStream, Stream!Spec
=============================================================================
