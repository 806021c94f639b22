-------------------------------- MODULE Rudp --------------------------------
(***************************************************************************)
(* lib/src/remote/rudp.c with its send buffer, rudpsendbuffer.c, and the   *)
(* loop of ctrl.c that handles what the console sends: over the internet,  *)
(* messages of two threads (ctrl's and the session's) are numbered, sent,  *)
(* kept until they are acknowledged, and sent again from time to time.     *)
(*                                                                         *)
(* An acknowledgement bears the first number the console still misses, so  *)
(* a message is kept under the counter as it is after it was numbered.     *)
(* Messages stand for their numbers.                                       *)
(***************************************************************************)
EXTENDS SeqNum, Sequences, FiniteSets

CONSTANTS Senders,    \* the threads
          Starts,     \* first numbers, at random
          MaxCount,   \* bound: the counter does not reach SeqHalf, see Unknown
          BufferSize, \* RUDP_SEND_BUFFER_SIZE
          TriesMax    \* RUDP_DATA_RESEND_TRIES_MAX

RudpConstantsOK ==
  /\ SeqMod \in Nat /\ SeqMod % 2 = 0 /\ Starts \subseteq Nat /\ MaxCount \in Nat
  /\ \A s \in Starts : 0 < s /\ s + MaxCount < SeqHalf
  /\ BufferSize \in Nat \ {0} /\ TriesMax \in Nat

VARIABLES counter,
          first,    \* number of the first message
          sender,   \* of each thread: where it is, the message, the number to keep it under
          packets,  \* of the send buffer, as records [seq, msg, tries]
          resender, \* rudp_send_buffer_thread_func: asleep, or giving up a slot
          net,      \* messages that reached the network, for as long as they will
          got,      \* messages the console has received
          acks,     \* acknowledgements it has sent
          dropped,  \* messages given up, or for which there was no space
          refused,  \* messages whose number was taken
          raced     \* one thread counted before another one had read its counter

vars == <<counter, first, sender, packets, resender, net, got, acks, dropped, refused, raced>>

Idle == [at |-> "idle", msg |-> 0, seq |-> 0]
Asleep == [at |-> "asleep", slot |-> 0, seq |-> 0]
Messages(buffer) == {buffer[i].msg : i \in DOMAIN buffer}

\* chiaki_rudp_reset_counter_header, chiaki_rudp_send_buffer_init
Init ==
  /\ first \in Starts /\ counter = first
  /\ sender = [s \in Senders |-> Idle]
  /\ packets = <<>> /\ resender = Asleep
  /\ net = {} /\ got = {} /\ acks = {}
  /\ dropped = {} /\ refused = {} /\ raced = FALSE

-----------------------------------------------------------------------------
(* chiaki_rudp_send_ctrl_message and                                       *)
(* chiaki_rudp_send_switch_to_stream_connection_message                    *)

\* get_then_increase_counter, which takes the mutex of the counter
Count(s) ==
  /\ sender[s].at = "idle"
  /\ counter < first + MaxCount
  /\ sender' = [sender EXCEPT ![s] = [at |-> "counted", msg |-> counter, seq |-> 0]]
  /\ counter' = IF counter >= SeqMod - 1 THEN 0 ELSE counter + 1
  /\ raced' = (raced \/ \E t \in Senders : sender[t].at = "counted")
  /\ UNCHANGED <<first, packets, resender, net, got, acks, dropped, refused>>

\* (bug: kept under its own number)
KeepNumberOwn(s) == sender[s].msg

\* counter_ack, read without the mutex
KeepNumber(s) == counter

\* The message is sent; if that fails the caller hears of it.
Transmit(s) ==
  /\ sender[s].at = "counted"
  /\ \/ /\ sender' = [sender EXCEPT ![s].at = "sent", ![s].seq = KeepNumber(s)]
        /\ net' = net \union {sender[s].msg}
     \/ sender' = [sender EXCEPT ![s] = Idle] /\ UNCHANGED net
  /\ UNCHANGED <<counter, first, packets, resender, got, acks, dropped, refused, raced>>

\* chiaki_rudp_send_buffer_push
Push(s) ==
  /\ sender[s].at = "sent"
  /\ sender' = [sender EXCEPT ![s] = Idle]
  /\ LET m == sender[s]
         taken == \E i \in DOMAIN packets : packets[i].seq = m.seq
     IN \/ /\ Len(packets) >= BufferSize
           /\ dropped' = dropped \union {m.msg} /\ UNCHANGED <<packets, refused>>
        \/ /\ Len(packets) < BufferSize /\ taken
           /\ refused' = refused \union {m.msg} /\ UNCHANGED <<packets, dropped>>
        \/ /\ Len(packets) < BufferSize /\ ~taken
           /\ packets' = Append(packets, [seq |-> m.seq, msg |-> m.msg, tries |-> 0])
           /\ UNCHANGED <<dropped, refused>>
  /\ UNCHANGED <<counter, first, resender, net, got, acks, raced>>

-----------------------------------------------------------------------------
(* The thread of the send buffer                                           *)

\* chiaki_rudp_send_buffer_ack: the packets that stay, which close up in their
\* order, and so what is left (one sequence)
Kept(seq) ==
  {i \in DOMAIN packets : packets[i].seq # seq /\ ~SeqLt(packets[i].seq, seq)}
InOrder(places) ==
  {order \in [1..Cardinality(places) -> places] :
     \A i, j \in DOMAIN order : i < j => order[i] < order[j]}
Without(seq) == {[i \in DOMAIN order |-> packets[order[i]]] : order \in InOrder(Kept(seq))}

\* A packet is sent again when its time has come ...
Resend ==
  /\ resender = Asleep
  /\ \E i \in DOMAIN packets :
       /\ packets[i].tries < TriesMax
       /\ packets' = [packets EXCEPT ![i].tries = @ + 1]
       /\ net' = net \union {packets[i].msg}
  /\ UNCHANGED <<counter, first, sender, resender, got, acks, dropped, refused, raced>>

\* ... or it is given up: the mutex is released ...
GiveUp ==
  /\ resender = Asleep
  /\ \E i \in DOMAIN packets :
       /\ packets[i].tries >= TriesMax
       /\ resender' = [at |-> "givingUp", slot |-> i, seq |-> packets[i].seq]
  /\ UNCHANGED <<counter, first, sender, packets, net, got, acks, dropped, refused, raced>>

\* ... and what the slot holds by then is acknowledged, with all before it.
\* A slot beyond the end still holds what it held.
GivenUp ==
  /\ resender.at = "givingUp"
  /\ LET seq == IF resender.slot \in DOMAIN packets THEN packets[resender.slot].seq
                                                   ELSE resender.seq
     IN /\ packets' \in Without(seq)
        /\ dropped' = dropped \union (Messages(packets) \ Messages(packets'))
  /\ resender' = Asleep
  /\ UNCHANGED <<counter, first, sender, net, got, acks, refused, raced>>

-----------------------------------------------------------------------------
(* ctrl_thread_func on a message of the console                            *)

\* 0x12, 0x24, 0x26, 0x36: chiaki_rudp_ack_packet
Acked ==
  /\ \E a \in acks : packets' \in Without(a)
  /\ UNCHANGED <<counter, first, sender, resender, net, got, acks, dropped, refused, raced>>

\* Any other type: the initial value of ack_counter is acknowledged, which is
\* before all numbers as long as the counter is below SeqHalf.
Unknown ==
  /\ packets' \in Without(0)
  /\ UNCHANGED <<counter, first, sender, resender, net, got, acks, dropped, refused, raced>>

-----------------------------------------------------------------------------
(* The console and the network, which loses, repeats and reorders          *)

Receive ==
  /\ \E n \in net \ got :
       /\ got' = got \union {n}
       /\ acks' = acks \union {Least({k \in first..(first + MaxCount) : k \notin got'})}
  /\ UNCHANGED <<counter, first, sender, packets, resender, net, dropped, refused, raced>>

Next ==
  \/ \E s \in Senders : Count(s) \/ Transmit(s) \/ Push(s)
  \/ Resend \/ GiveUp \/ GivenUp
  \/ Acked \/ Unknown
  \/ Receive

-----------------------------------------------------------------------------
(* Properties                                                              *)

TypeOK ==
  /\ counter \in first..(first + MaxCount)
  /\ \A s \in Senders : sender[s].at \in {"idle", "counted", "sent"}
  /\ Len(packets) <= BufferSize
  /\ \A i \in DOMAIN packets : packets[i].tries \in 0..TriesMax
  /\ got \subseteq net /\ net \subseteq first..(counter - 1)

\* A message that was sent is received, or kept to be sent again, or it was
\* given up or refused for lack of space; in particular no acknowledgement,
\* late or of an unknown kind, removes one the console has not received.  The
\* exception is a message whose number was taken because another thread had
\* counted in between.
NothingForgotten ==
  /\ \A n \in net : \/ n \in got \union Messages(packets) \union dropped \union refused
                    \/ \E s \in Senders : sender[s].msg = n
  /\ refused # {} => raced

\* Its inductive invariant: each message has one number and is in one place,
\* a packet is kept under a number above its own, and an acknowledgement bears
\* one below which all was received.
Packet == [seq : Nat, msg : Nat, tries : Nat]
Active(s) == sender[s].at # "idle"
NumbersInv ==
  /\ first \in Starts /\ counter \in first..(first + MaxCount) /\ raced \in BOOLEAN
  /\ net \subseteq first..(counter - 1) /\ got \subseteq net
  /\ sender \in [Senders -> [at : {"idle", "counted", "sent"}, msg : Nat, seq : Nat]]
  /\ packets \in Seq(Packet)
  /\ \A a \in acks : a \in first..(first + MaxCount) /\ first..(a - 1) \subseteq got
SendersInv ==
  /\ \A s \in Senders : IF Active(s) THEN sender[s].msg \in first..(counter - 1) ELSE sender[s].msg = 0
  /\ \A s \in Senders : sender[s].at = "counted" => sender[s].msg \notin net
  /\ \A s \in Senders : sender[s].at = "sent" => sender[s].seq \in (sender[s].msg + 1)..counter
  /\ \A s, t \in Senders : Active(s) /\ Active(t) /\ sender[s].msg = sender[t].msg => s = t
PacketsInv ==
  /\ \A i \in DOMAIN packets : /\ packets[i].msg \in first..(counter - 1)
                               /\ packets[i].seq \in (packets[i].msg + 1)..counter
  /\ \A i \in DOMAIN packets : \A s \in Senders : Active(s) => packets[i].msg # sender[s].msg
InTurn ==
  /\ \A s \in Senders : sender[s].at = "counted" => sender[s].msg + 1 = counter
  /\ \A s \in Senders : sender[s].at = "sent" => sender[s].seq = sender[s].msg + 1
  /\ \A i \in DOMAIN packets : packets[i].seq = packets[i].msg + 1
RudpInv ==
  /\ NumbersInv /\ SendersInv /\ PacketsInv
  /\ ~raced => InTurn
  /\ NothingForgotten
=============================================================================
