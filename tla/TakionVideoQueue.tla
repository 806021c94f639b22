-------------------------- MODULE TakionVideoQueue --------------------------
(***************************************************************************)
(* The video path of lib/src/takion.c: the thread that receives datagrams  *)
(* puts video packets into a reorder queue, hands what is in order to the  *)
(* callback, and gives up on a missing packet when it has waited for it    *)
(* longer than TAKION_AV_REORDER_TIMEOUT_US.                               *)
(*                                                                         *)
(* The console numbers its packets 0, 1, 2, ...; a packet carries that     *)
(* number modulo SeqMod, from StartSeq on.  The element of the queue (the  *)
(* TakionAVPacketEntry) is the console's number, which the code never sees.*)
(* Between them is a network that loses, duplicates and reorders.          *)
(***************************************************************************)
EXTENDS ReorderQueue, Sequences

CONSTANTS StartSeq,     \* packet_index of the console's packet 0
          FrameUnits,   \* packets in a frame
          Timeout,      \* TAKION_AV_REORDER_TIMEOUT_US, in clock ticks
          MaxPackets,   \* bound: packets the console sends
          Span          \* bound: packets that may overtake another one

ASSUME VideoQueueAssumption ==
  /\ DropStrategy = "begin"
  /\ StartSeq \in 0..SeqMod-1
  /\ FrameUnits \in Nat \ {0}
  /\ Timeout \in Nat
  /\ MaxPackets \in Nat
  /\ Span \in Nat \ {0}
  /\ NoUser \notin Nat

VARIABLES sent,         \* packets the console has sent
          net,          \* packets in flight
          open,         \* takion_thread_func is in its receive loop
          initialized,  \* video_queue_initialized
          queue,        \* video_queue
          waited,       \* now - video_queue_head_wait_start_us
          waitSeq,      \* video_queue_head_wait_seq_num
          delivered,    \* packets handed to the callback so far
          held          \* packet buffers allocated and not yet freed

vars == <<sent, net, open, initialized, queue, waited, waitSeq, delivered, held>>

\* head_wait_start_us = 0: no missing packet is waited for
NotWaiting == -1

SeqOf(n) == (StartSeq + n) % SeqMod
UnitIndex(n) == n % FrameUnits

\* The queue starts at the first unit of the frame the first packet is of.
FirstSeq(n) == (SeqOf(n) - UnitIndex(n)) % SeqMod

Init ==
  /\ sent = 0
  /\ net = {}
  /\ open = TRUE
  /\ initialized = FALSE
  /\ queue = EmptyQueue(0)
  /\ waited = NotWaiting
  /\ waitSeq = 0
  /\ delivered = <<>>
  /\ held = 0

-----------------------------------------------------------------------------
(* takion_av_queue_flush_with_timeout                                      *)

\* (bug: progress does not reset the wait)
DrainKeepingWait(f) ==
  [f EXCEPT !.queue = AfterPulls(f.queue), !.out = @ \o Pulled(f.queue)]

\* pull and dispatch; progress resets the wait
Drain(f) ==
  [f EXCEPT !.queue = AfterPulls(f.queue),
            !.out = @ \o Pulled(f.queue),
            !.waited = IF PullCount(f.queue) > 0 THEN NotWaiting ELSE @]

\* the head is missing: wait for it from now on
StartWait(f) == [f EXCEPT !.waited = 0, !.waitSeq = f.queue.begin]

\* (bug: every flush starts the wait anew)
KeepWaitAnew(f) == [f EXCEPT !.waited = 0, !.waitSeq = f.queue.begin]

\* the wait goes on, under the sequence number of the present head
KeepWait(f) == [f EXCEPT !.waitSeq = f.queue.begin]

HeadMoved(f) == f.queue.begin # f.waitSeq
NewGap(f) == HeadMoved(f) /\ ~SeqGt(f.queue.begin, f.waitSeq)

FirstSet(q) ==
  Least({k \in 0..q.count : k = q.count \/ UserAt(q, k) # NoUser})

\* go to the first packet there is
Skip(f) ==
  LET k == FirstSet(f.queue)
  IN  [f EXCEPT !.queue.begin = SeqAdd(@, k),
                !.queue.count = @ - k,
                !.waited = NotWaiting]

\* "now" is read once, so a wait that starts here cannot end here
Settle(f) ==
  IF f.queue.count = 0 THEN f
  ELSE IF f.waited = NotWaiting \/ NewGap(f) THEN StartWait(f)
  ELSE KeepWait(f)

\* (bug: a wait that has begun is over at once)
TimedOutAtOnce(f) ==
  /\ f.queue.count # 0
  /\ f.waited # NotWaiting
  /\ ~NewGap(f)
  /\ FirstSet(f.queue) < f.queue.count

TimedOut(f) ==
  /\ f.queue.count # 0
  /\ f.waited > Timeout
  /\ ~NewGap(f)
  /\ FirstSet(f.queue) < f.queue.count

\* The whole flush of a queue q under the wait w for ws; "buffers" are
\* allocated when it starts, and it frees those it delivers.
Flush(q, w, ws, buffers) ==
  \E d \in {Drain([queue |-> q, waited |-> w, waitSeq |-> ws, out |-> <<>>])} :
  \E e \in {IF TimedOut(d) THEN Drain(Skip(KeepWait(d))) ELSE d} :
  \E f \in {Settle(e)} :
    /\ queue' = f.queue
    /\ waited' = f.waited
    /\ waitSeq' = f.waitSeq
    /\ delivered' = delivered \o f.out
    /\ held' = buffers - Len(f.out)

-----------------------------------------------------------------------------
(* The receive loop of takion_thread_func                                  *)

\* takion_handle_packet_av for the packet n, which may arrive once more
HandlePacket(n) ==
  LET q == IF initialized THEN queue ELSE EmptyQueue(FirstSeq(n))
      w == IF initialized THEN waited ELSE NotWaiting
      ws == IF initialized THEN waitSeq ELSE FirstSeq(n)
  IN  /\ open
      /\ n \in net
      /\ net' \in {net, net \ {n}}
      /\ initialized' = TRUE
      /\ \E p \in {Push(q, SeqOf(n), n)} :
           Flush(p.queue, w, ws, held + 1 - Cardinality(p.dropped))
      /\ UNCHANGED <<sent, open>>

\* takion_av_queues_next_timeout_ms is 0, or the receive call timed out
FlushOnTimeout ==
  /\ open
  /\ initialized
  /\ waited >= Timeout
  /\ Flush(queue, waited, waitSeq, held)
  /\ UNCHANGED <<sent, net, open, initialized>>

\* The receive call fails (the stop pipe was signalled): the loop is left
\* and what the queue still holds is dropped.
Close ==
  /\ open
  /\ open' = FALSE
  /\ initialized' = FALSE
  /\ held' = IF initialized THEN held - Cardinality(FiniDropped(queue)) ELSE held
  /\ UNCHANGED <<sent, net, queue, waited, waitSeq, delivered>>

-----------------------------------------------------------------------------
(* The console, the network and the clock                                  *)

Send ==
  /\ sent < MaxPackets
  /\ \A m \in net : sent - m < Span
  /\ sent' = sent + 1
  /\ net' = net \union {sent}
  /\ UNCHANGED <<open, initialized, queue, waited, waitSeq, delivered, held>>

Lose(n) ==
  /\ n \in net
  /\ net' = net \ {n}
  /\ UNCHANGED <<sent, open, initialized, queue, waited, waitSeq, delivered, held>>

\* Only whether a wait has exceeded Timeout matters: it counts no further.
Tick ==
  /\ open
  /\ waited \in 0..Timeout
  /\ waited' = waited + 1
  /\ UNCHANGED <<sent, net, open, initialized, queue, waitSeq, delivered, held>>

Next ==
  \/ Send
  \/ \E n \in net : HandlePacket(n) \/ Lose(n)
  \/ FlushOnTimeout
  \/ Tick
  \/ Close

Spec == Init /\ [][Next]_vars

\* The thread is scheduled, and its clock does not stop.
FairSpec == Spec /\ WF_vars(FlushOnTimeout) /\ WF_vars(Tick)

-----------------------------------------------------------------------------
(* Properties                                                              *)

Packets == 0..MaxPackets-1
LastDelivered == IF delivered = <<>> THEN -1 ELSE delivered[Len(delivered)]

TypeOK ==
  /\ sent \in 0..MaxPackets
  /\ net \subseteq Packets
  /\ open \in BOOLEAN
  /\ initialized \in BOOLEAN
  /\ queue \in [begin : 0..2*SeqMod-1, count : Nat,
                slot : [0..QueueSize-1 -> Packets \union {NoUser}]]
  /\ waited \in NotWaiting..Timeout+1
  /\ waitSeq \in 0..2*SeqMod-1
  /\ delivered \in Seq(Packets)
  /\ held \in Int

\* The assertion queue->count <= QUEUE_SIZE of chiaki_reorder_queue_push and
\* _pull, which holds although push lets the window grow one by one.
WindowFits == queue.count <= QueueSize

\* The thread never blocks without a timeout while packets sit in the queue,
\* and never polls (timeout 0 again and again) with an empty queue.
WaitsIffBuffered == waited # NotWaiting <=> queue.count > 0

\* Between two calls nothing deliverable is left in the queue: its first
\* place is a missing packet.  Its last place is a packet, so the search of
\* a skip always ends at one.
OnlyGapsAreBuffered ==
  queue.count > 0 => /\ UserAt(queue, 0) = NoUser
                     /\ UserAt(queue, queue.count - 1) # NoUser

\* Every buffer the thread took over is freed exactly once: by the drop
\* callback, after the delivery, or not yet because it is in the queue.
NoLeak == held = IF initialized THEN Cardinality(SetIndices(queue)) ELSE 0

\* The ring buffer never hands out a packet under another one's number.
SlotsHoldTheirOwn ==
  \A i \in SetIndices(queue) : SeqOf(UserAt(queue, i)) = SeqCast(SeqAt(queue, i))

\* "wait up to TAKION_AV_REORDER_TIMEOUT_US before skipping": the window moves
\* past a packet that is not delivered only after a wait ran out, or because
\* a packet came in that does not fit behind the oldest missing one.
GivesUp ==
  (queue'.begin - queue.begin) % SeqMod # Len(delivered') - Len(delivered)
GapOnlyAfterWait ==
  [][initialized /\ GivesUp => \/ waited > Timeout
                               \/ \E n \in net : n - LastDelivered > QueueSize]_vars

\* A packet in the queue leaves it, delivered or dropped, whatever is lost.
Buffered(n) == initialized /\ n \in Users(queue)
EveryPacketLeaves == \A n \in Packets : Buffered(n) ~> ~Buffered(n)

\* reorderqueue.h:90: the drop callback is called with the new element if its
\* number is already in the queue or is less than queue->begin (and with older
\* elements, under the strategy that makes room for the new one).
RejectsOnlyOldOrDuplicate ==
  initialized =>
    \A n \in net : n \in Push(queue, SeqOf(n), n).dropped =>
                   n \in Users(queue) \/ SeqLt(SeqOf(n), queue.begin)
=============================================================================
