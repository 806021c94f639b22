-------------------------- MODULE TakionSendBuffer --------------------------
(***************************************************************************)
(* lib/src/takionsendbuffer.c and the way lib/src/takion.c uses it.  Data  *)
(* packets that were sent wait in an array until the console acknowledges  *)
(* them; a thread of the send buffer sends them again every               *)
(* TAKION_DATA_RESEND_TIMEOUT_MS, and gives up after so many tries.        *)
(*                                                                         *)
(* Three kinds of threads meet here: the callers of                        *)
(* chiaki_takion_send_message_data (Senders), the Takion thread, which     *)
(* handles acknowledgements and destroys the send buffer when it ends, and *)
(* the send buffer's own thread (resender).  A critical section that does  *)
(* nothing but work on the array is one step.  The resender's is not, so   *)
(* the mutex is held exactly when resender = "blocking".                   *)
(*                                                                         *)
(* Packets are numbered 0, 1, 2, ...; SeqOf gives the number on the wire.  *)
(***************************************************************************)
EXTENDS SeqNum, FiniteSets

CONSTANTS Senders,        \* threads that send data
          BufferSize,     \* TAKION_SEND_BUFFER_SIZE
          TriesMax,       \* TAKION_DATA_RESEND_TRIES_MAX
          ResendTimeout,  \* TAKION_DATA_RESEND_TIMEOUT_MS, in clock ticks
          StartSeq,       \* seq_num_local of the first data packet
          MaxPackets,     \* bound: packets sent
          MaxLag          \* bound: ticks a scan of the resender may last

ASSUME SendBufferAssumption ==
  /\ IsFiniteSet(Senders)
  /\ BufferSize \in Nat \ {0}
  /\ TriesMax \in Nat
  /\ ResendTimeout \in Nat
  /\ StartSeq \in 0..SeqMod-1
  /\ MaxPackets \in 1..SeqHalf-1
  /\ MaxLag \in Nat

VARIABLES next,       \* seq_num_local, as a number of packets
          sender,     \* where each sender is, and with which packet
          slot,       \* packets
          count,      \* packets_count
          resender,   \* where the resender is
          timed,      \* its present wait has a timeout
          index,      \* i of its scan over the packets
          lag,        \* ticks since its scan read the clock
          victim,     \* the packet it gives up
          takion,     \* the Takion thread: "run", "join" or "gone"
          received,   \* packets the console has received
          abandoned   \* packets that will not be sent (again)

bufferVars == <<slot, count>>
resenderVars == <<resender, timed, index, lag, victim>>
peerVars == <<received, abandoned>>
vars == <<next, sender, bufferVars, resenderVars, takion, peerVars>>

Packets == 0..MaxPackets-1
SeqOf(n) == (StartSeq + n) % SeqMod

Live == {slot[i].n : i \in 0..count-1}
Locked == resender = "blocking"
MaxAge == ResendTimeout + 1 + MaxLag
Unused == [n |-> 0, tries |-> 0, age |-> 0]

Init ==
  /\ next = 0
  /\ sender = [s \in Senders |-> [at |-> "idle", n |-> 0]]
  /\ slot = [i \in 0..BufferSize-1 |-> Unused]
  /\ count = 0
  /\ resender = "start"
  /\ timed = FALSE
  /\ index = 0
  /\ lag = 0
  /\ victim = 0
  /\ takion = "run"
  /\ received = {}
  /\ abandoned = {}

-----------------------------------------------------------------------------
(* chiaki_takion_send_message_data: three steps of the calling thread      *)

\* seq_num_local is taken and advanced under a mutex of its own.
Allocate(s) ==
  /\ takion = "run"
  /\ sender[s].at = "idle"
  /\ next < MaxPackets
  /\ sender' = [sender EXCEPT ![s] = [at |-> "send", n |-> next]]
  /\ next' = next + 1
  /\ UNCHANGED <<bufferVars, resenderVars, takion, peerVars>>

\* chiaki_takion_send: the datagram arrives, now or later, or it is lost.
Transmit(s) ==
  /\ sender[s].at = "send"
  /\ sender' = [sender EXCEPT ![s].at = "push"]
  /\ received' \in {received, received \union {sender[s].n}}
  /\ UNCHANGED <<next, bufferVars, resenderVars, takion, abandoned>>

\* The socket refuses it: the packet is freed, its number stays taken.
TransmitFails(s) ==
  /\ sender[s].at = "send"
  /\ sender' = [sender EXCEPT ![s].at = "idle"]
  /\ abandoned' = abandoned \union {sender[s].n}
  /\ UNCHANGED <<next, bufferVars, resenderVars, takion, received>>

\* chiaki_cond_signal: the resender is the only thread that ever waits.
Signalled == IF resender = "asleep" THEN "woken" ELSE resender

Refuses(n) ==
  \/ count >= BufferSize
  \/ \E i \in 0..count-1 : SeqOf(slot[i].n) = SeqOf(n)

\* (bug: the resender is not woken)
StoreQuietly(n) ==
  /\ slot' = [slot EXCEPT ![count] = [n |-> n, tries |-> 0, age |-> 0]]
  /\ count' = count + 1
  /\ UNCHANGED <<resender, abandoned>>

Store(n) ==
  /\ slot' = [slot EXCEPT ![count] = [n |-> n, tries |-> 0, age |-> 0]]
  /\ count' = count + 1
  /\ resender' = IF count + 1 = 1 THEN Signalled ELSE resender
  /\ UNCHANGED abandoned

\* chiaki_takion_send_buffer_push; an error frees the packet, and the caller
\* does not look at it.
Push(s) ==
  /\ sender[s].at = "push"
  /\ takion # "gone"
  /\ ~Locked
  /\ IF Refuses(sender[s].n)
     THEN /\ abandoned' = abandoned \union {sender[s].n}
          /\ UNCHANGED <<bufferVars, resender>>
     ELSE Store(sender[s].n)
  /\ sender' = [sender EXCEPT ![s].at = "idle"]
  /\ UNCHANGED <<next, timed, index, lag, victim, takion, received>>

\* Pushing into a send buffer that was destroyed is undefined.
PushTooLate(s) ==
  /\ sender[s].at = "push"
  /\ takion = "gone"
  /\ sender' = [sender EXCEPT ![s].at = "undefined"]
  /\ UNCHANGED <<next, bufferVars, resenderVars, takion, peerVars>>

-----------------------------------------------------------------------------
(* chiaki_takion_send_buffer_ack                                           *)

\* (bug: the comparison is the wrong way round)
IsAckedSwapped(n, seq) == SeqOf(n) = seq \/ SeqLt(seq, SeqOf(n))

IsAcked(n, seq) == SeqOf(n) = seq \/ SeqLt(SeqOf(n), seq)

Kept(seq) == {i \in 0..count-1 : ~IsAcked(slot[i].n, seq)}

\* The packets kept close up to the front, in their order.  What lies behind
\* them keeps its old contents; of those only the number is ever read again.
RemoveAcked(seq) ==
  \E kept \in {Kept(seq)} :
  \E from \in [0..Cardinality(kept)-1 -> kept] :
    /\ \A i, j \in DOMAIN from : i < j => from[i] < from[j]
    /\ count' = Cardinality(kept)
    /\ slot' = [i \in 0..BufferSize-1 |->
                  IF i < Cardinality(kept) THEN slot[from[i]]
                  ELSE [Unused EXCEPT !.n = slot[i].n]]

\* takion_handle_packet_message_data_ack.  The console acknowledges c when it
\* has everything up to c; that message may be lost, late or there twice, so
\* any c that it could have acknowledged by now may come in.
HandleAck(c) ==
  /\ takion = "run"
  /\ ~Locked
  /\ 0..c \subseteq received
  /\ RemoveAcked(SeqOf(c))
  /\ UNCHANGED <<next, sender, resenderVars, takion, peerVars>>

-----------------------------------------------------------------------------
(* chiaki_takion_send_buffer_fini, at the end of takion_thread_func        *)

\* should_stop = true and the signal, neither of them under the mutex
Stop ==
  /\ takion = "run"
  /\ takion' = "join"
  /\ resender' = Signalled
  /\ UNCHANGED <<next, sender, bufferVars, timed, index, lag, victim, peerVars>>

Join ==
  /\ takion = "join"
  /\ resender = "done"
  /\ takion' = "gone"
  /\ count' = 0
  /\ abandoned' = abandoned \union Live
  /\ UNCHANGED <<next, sender, slot, resenderVars, received>>

-----------------------------------------------------------------------------
(* takion_send_buffer_thread_func and takion_send_buffer_resend            *)

\* (bug: every wait is without a timeout)
LoopHeadUntimed(cnt) ==
  /\ resender' = IF takion = "run" THEN "blocking" ELSE "done"
  /\ timed' = FALSE
  /\ index' = 0
\* (bug: one packet alone does not count as packets)
LoopHeadOffByOne(cnt) ==
  /\ resender' = IF takion = "run" THEN "blocking" ELSE "done"
  /\ timed' = (cnt > 1)
  /\ index' = 0

\* the head of the loop, with cnt packets: wait, unless should_stop is set
LoopHead(cnt) ==
  /\ resender' = IF takion = "run" THEN "blocking" ELSE "done"
  /\ timed' = (cnt > 0)
  /\ index' = 0

Start ==
  /\ resender = "start"
  /\ LoopHead(count)
  /\ UNCHANGED <<next, sender, bufferVars, lag, victim, takion, peerVars>>

\* pthread_cond_wait: waits and releases the mutex in one step, after the
\* predicate was found to be false
Block ==
  /\ resender = "blocking"
  /\ resender' = "asleep"
  /\ UNCHANGED <<next, sender, bufferVars, timed, index, lag, victim, takion, peerVars>>

\* now - last_send_ms > TAKION_DATA_RESEND_TIMEOUT_MS, unsigned, where now is
\* lag ticks old: a packet sent after that seems to be very old.
Overdue(i, l) == slot[i].age - l < 0 \/ slot[i].age - l > ResendTimeout
\* (bug: one try too many)
ExhaustedOffByOne(i, l) == Overdue(i, l) /\ slot[i].tries > TriesMax
Exhausted(i, l) == Overdue(i, l) /\ slot[i].tries >= TriesMax

\* Where a scan from index i stops: at a packet to give up, or at the end
ScanEnd(i, l) ==
  Least({k \in i..i+BufferSize : k >= count \/ Exhausted(k, l)})

\* Send the overdue packets again; release the mutex to give one up.
Scan(i, l) ==
  \E k \in {ScanEnd(i, l)} :
  \E resent \in {{j \in i..k-1 : Overdue(j, l)}} :
  \E arrived \in SUBSET {slot[j].n : j \in resent} :
    /\ slot' = [j \in 0..BufferSize-1 |->
                  IF j \in resent
                  THEN [slot[j] EXCEPT !.tries = @ + 1, !.age = l]
                  ELSE slot[j]]
    /\ received' = received \union arrived
    /\ IF k < count
       THEN resender' = "giveup" /\ index' = k /\ lag' = l /\ UNCHANGED timed
       ELSE LoopHead(count) /\ lag' = 0

\* The timeout of the wait: look for packets to send again, or stop.
TimeOut ==
  /\ resender = "asleep"
  /\ timed
  /\ IF takion = "run" THEN Scan(0, 0)
     ELSE resender' = "done" /\ UNCHANGED <<slot, received, timed, index, lag>>
  /\ UNCHANGED <<next, sender, count, victim, takion, abandoned>>

\* The predicate of the wait is evaluated again.
WakeUp ==
  /\ resender = "woken"
  /\ CASE takion # "run" ->
            resender' = "done" /\ UNCHANGED <<slot, received, timed, index, lag>>
       [] takion = "run" /\ (timed \/ count = 0) ->
            resender' = "blocking" /\ UNCHANGED <<slot, received, timed, index, lag>>
       [] OTHER -> Scan(0, 0)
  /\ UNCHANGED <<next, sender, count, victim, takion, abandoned>>

\* packet->seq_num is read with the mutex released.
ReadVictim ==
  /\ resender = "giveup"
  /\ resender' = "acking"
  /\ victim' = slot[index].n
  /\ UNCHANGED <<next, sender, bufferVars, timed, index, lag, takion, peerVars>>

\* ... and acknowledged as if by the console.
GiveUp ==
  /\ resender = "acking"
  /\ resender' = "relock"
  /\ RemoveAcked(SeqOf(victim))
  /\ abandoned' = abandoned \union {n \in Live : IsAcked(n, SeqOf(victim))}
  /\ UNCHANGED <<next, sender, timed, index, lag, victim, takion, received>>

\* The scan goes on behind the packet given up, which at index 0 leaves out
\* the packet that took its place.
Resume ==
  /\ resender = "relock"
  /\ victim' = 0
  /\ Scan(IF index > 0 THEN index ELSE 1, lag)
  /\ UNCHANGED <<next, sender, count, takion, abandoned>>

-----------------------------------------------------------------------------
Scanning == resender \in {"giveup", "acking", "relock"}

Tick ==
  /\ \E i \in 0..count-1 : slot[i].age < MaxAge
  /\ Scanning => lag < MaxLag
  /\ lag' = IF Scanning THEN lag + 1 ELSE lag
  /\ slot' = [i \in 0..BufferSize-1 |->
                IF i < count /\ slot[i].age < MaxAge
                THEN [slot[i] EXCEPT !.age = @ + 1] ELSE slot[i]]
  /\ UNCHANGED <<next, sender, count, resender, timed, index, victim, takion, peerVars>>

Resender ==
  Start \/ Block \/ TimeOut \/ WakeUp \/ ReadVictim \/ GiveUp \/ Resume

Next ==
  \/ \E s \in Senders : \/ Allocate(s) \/ Transmit(s) \/ TransmitFails(s)
                        \/ Push(s) \/ PushTooLate(s)
  \/ \E c \in Packets : HandleAck(c)
  \/ Stop
  \/ Join
  \/ Resender
  \/ Tick

Spec == Init /\ [][Next]_vars

\* Every thread is scheduled, also one that is in the middle of a call, and
\* the clock does not stop.
FairSpec ==
  /\ Spec
  /\ \A s \in Senders :
       WF_vars(Transmit(s) \/ TransmitFails(s) \/ Push(s) \/ PushTooLate(s))
  /\ WF_vars(Resender)
  /\ WF_vars(Join)
  /\ WF_vars(Tick)

-----------------------------------------------------------------------------
(* Properties                                                              *)

PacketType == [n : Packets, tries : 0..TriesMax, age : 0..MaxAge]

TypeOK ==
  /\ next \in 0..MaxPackets
  /\ sender \in [Senders -> [at : {"idle", "send", "push", "undefined"}, n : Packets]]
  /\ slot \in [0..BufferSize-1 -> PacketType]
  /\ count \in 0..BufferSize
  /\ resender \in {"start", "blocking", "asleep", "woken",
                   "giveup", "acking", "relock", "done"}
  /\ timed \in BOOLEAN
  /\ index \in 0..BufferSize-1
  /\ lag \in 0..MaxLag
  /\ victim \in Packets
  /\ takion \in {"run", "join", "gone"}
  /\ received \subseteq Packets
  /\ abandoned \subseteq Packets

\* "buffer was empty before, so it will sleep without timeout => WAKE UP!!"
\* (takionsendbuffer.c:119): whatever the order of pushes, acknowledgements
\* and waits, the resender never sleeps without a timeout over a packet.
NoSleepOverPackets == count > 0 /\ resender = "asleep" => timed

\* A packet the console does not have is still to be sent or kept to be sent
\* again, unless sending it failed, it was given up, or the buffer was full.
\* No acknowledgement ever releases a packet that was not received.
Holds(s, n) == sender[s].at \in {"send", "push", "undefined"} /\ sender[s].n = n
NothingForgotten ==
  \A n \in 0..next-1 :
    n \in received \union abandoned \union Live \/ \E s \in Senders : Holds(s, n)

\* A packet leaves the array: acknowledged, given up, or freed at the end.
Buffered(n) == n \in Live
EveryPacketLeaves == \A n \in Packets : Buffered(n) ~> ~Buffered(n)

\* fini returns when there are packets in the buffer: the thread it joins
\* cannot then be in a wait without a timeout.
FiniReturnsIfBusy == takion = "join" /\ count > 0 ~> takion = "gone"

\* "Hit max retries of %d tries... giving up on packet with seqnum"
\* (takionsendbuffer.c:249): what the resender gives up was sent again
\* TAKION_DATA_RESEND_TRIES_MAX times.
GivesUpOnlyExhausted ==
  [][resender = "acking" /\ resender' = "relock" =>
       \A i \in 0..count-1 :
         slot[i].n \in abandoned' \ abandoned => slot[i].tries >= TriesMax]_vars

\* chiaki_thread_join in fini is asserted to succeed (takionsendbuffer.c:74):
\* the thread does end once fini has told it to.
FiniReturns == takion = "join" ~> takion = "gone"
=============================================================================
