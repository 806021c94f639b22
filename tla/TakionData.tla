----------------------------- MODULE TakionData -----------------------------
(***************************************************************************)
(* lib/src/takion.c from the handshake on: INIT and COOKIE, sent up to     *)
(* three times each; then the receive loop, which puts the console's data  *)
(* back in order, gives it to the callback and acknowledges it, and which  *)
(* postpones audio and video until a key is there to check their MACs.     *)
(* The key comes with one of the data, the BANG: the callback sets         *)
(* gkcrypt_remote while the queue is being flushed.                        *)
(*                                                                         *)
(* The console (external) numbers its data 0, 1, 2, ... and its audio and  *)
(* video packets likewise, sends data again until it is acknowledged, and  *)
(* can put a MAC only on what comes after the BANG.  The network loses,    *)
(* duplicates and reorders, and does not forge.                            *)
(***************************************************************************)
EXTENDS ReorderQueue, Sequences, Functions

CONSTANTS Tag,          \* the remote tag, which is also the first seq_num
          BangAt,       \* the number of the data that is the BANG
          MaxTries,     \* MAX_CONNECT_RESEND_TRIES
          PostponeSize, \* TAKION_POSTPONE_PACKETS_SIZE
          MaxData,      \* bound: data the console sends
          MaxAV         \* bound: audio and video packets the console sends

ASSUME TakionDataAssumption ==
  /\ DropStrategy = "end"
  /\ PromotedAdd = FALSE
  /\ Tag \in 0..SeqMod-1
  /\ {BangAt, MaxTries, PostponeSize, MaxData, MaxAV} \subseteq Nat
  /\ MaxTries > 0
  /\ 2 * MaxData <= SeqMod
  /\ NoUser \notin Nat

VARIABLES pc,          \* where takion_thread_func is
          tries,       \* of INIT or of COOKIE
          stopped,     \* chiaki_takion_close has signalled the stop pipe
          queue,       \* data_queue
          crypt,       \* no gkcrypt_remote, one that was set, crypt_available
          postponed,   \* postponed_packets
          received,    \* data given to the callback
          verified,    \* data whose MAC was checked when it came in
          avArrived,   \* audio and video packets received
          avHandled,   \* those passed on to takion_handle_packet_av
          up,          \* handshake messages in flight to the console
          acks,        \* acknowledgements in flight to the console
          down,        \* handshake messages in flight from the console
          net,         \* data in flight
          av,          \* audio and video packets in flight
          sent,        \* data the console has sent
          avSent,      \* audio and video packets it has sent
          acked        \* data the console takes for received

connVars == <<pc, tries, stopped>>
dataVars == <<queue, crypt, received, verified>>
avVars == <<postponed, avArrived, avHandled>>
consoleVars == <<sent, avSent, acked>>
vars == <<connVars, dataVars, avVars, up, acks, down, net, av, consoleVars>>

SeqOf(n) == (Tag + n) % SeqMod
Connected == pc = "loop"

Init ==
  /\ pc = "send init" /\ tries = 0 /\ stopped = FALSE
  /\ queue = EmptyQueue(0) /\ crypt = "none"
  /\ received = <<>> /\ verified = {}
  /\ postponed = <<>> /\ avArrived = <<>> /\ avHandled = <<>>
  /\ up = {} /\ acks = {} /\ down = {} /\ net = {} /\ av = {}
  /\ sent = 0 /\ avSent = 0 /\ acked = 0

-----------------------------------------------------------------------------
(* takion_handshake                                                        *)

\* the message is sent, or chiaki_takion_send_raw fails and ends it all
Transmit(message, next) ==
  \/ pc' = next /\ up' = up \union {message}
  \/ pc' = "ended" /\ up' = up

SendInit ==
  /\ pc = "send init"
  /\ Transmit("init", "init ack")
  /\ UNCHANGED <<tries, stopped, dataVars, avVars, acks, down, net, av, consoleVars>>

SendCookie ==
  /\ pc = "send cookie"
  /\ Transmit("cookie", "cookie ack")
  /\ UNCHANGED <<tries, stopped, dataVars, avVars, acks, down, net, av, consoleVars>>

\* (bug: the attempts are not counted)
RetryUncounted(again) == pc' = again /\ UNCHANGED tries

\* one of the attempts is used up
Retry(again) ==
  /\ tries' = tries + 1
  /\ pc' = IF tries' < MaxTries THEN again ELSE "ended"

\* takion_recv returns an error: a timeout, or the stop pipe is signalled
ReceiveFails ==
  /\ \/ pc = "init ack" /\ Retry("send init")
     \/ pc \in {"cookie ack", "second"} /\ Retry("send cookie")
  /\ UNCHANGED <<stopped, dataVars, avVars, up, acks, down, net, av, consoleVars>>

\* takion_recv_message_init_ack; the tag and the numbers of streams in it may
\* be refused
InitAck(m) ==
  /\ pc = "init ack"
  /\ \/ m = "init ack" /\ pc' = "send cookie" /\ tries' = 0
     \/ m = "init ack" /\ pc' = "ended" /\ UNCHANGED tries
     \/ m = "cookie ack" /\ Retry("send init")

\* takion_recv_message_cookie_ack: one more INIT_ACK is read over.  The data
\* queue starts at the remote tag, and the event CONNECTED goes out.
CookieAck(m) ==
  \/ /\ m = "cookie ack"
     /\ pc \in {"cookie ack", "second"}
     /\ pc' = "loop"
     /\ queue' = EmptyQueue(Tag)
     /\ tries' = 0
  \/ /\ m # "cookie ack"
     /\ \/ pc = "cookie ack" /\ pc' = "second" /\ UNCHANGED tries
        \/ pc = "second" /\ Retry("send cookie")
     /\ UNCHANGED queue

\* The loop ignores what is left of the handshake.
HandshakeMessage(m) ==
  /\ ~stopped
  /\ m \in down
  /\ down' = down \ {m}
  /\ \/ InitAck(m) /\ UNCHANGED queue
     \/ CookieAck(m)
     \/ Connected /\ UNCHANGED <<pc, tries, queue>>
  /\ UNCHANGED <<stopped, crypt, received, verified, avVars, up, acks, net, av,
                 consoleVars>>

\* Data or an audio or video packet that overtakes the COOKIE_ACK is lost
\* with the attempt.
DataTooEarly(n) ==
  /\ ~stopped
  /\ pc \in {"cookie ack", "second"}
  /\ \/ n \in net /\ net' = net \ {n} /\ UNCHANGED av
     \/ n \in av /\ av' = av \ {n} /\ UNCHANGED net
  /\ Retry("send cookie")
  /\ UNCHANGED <<stopped, dataVars, avVars, up, acks, down, consoleVars>>

-----------------------------------------------------------------------------
(* The receive loop of takion_thread_func                                  *)

\* (bug: the key is taken into use without a look at the queue)
RecheckNothing ==
  /\ Connected
  /\ crypt = "set"
  /\ crypt' = "available"
  /\ UNCHANGED <<connVars, queue, received, verified, avVars, up, acks, down, net, av,
                 consoleVars>>

\* Once there is a key the MACs of the data in the queue are to be checked.
\* The first packet there is ends the program: chiaki_reorder_queue_peek
\* writes its number through the null pointer it was given.
Recheck ==
  /\ Connected
  /\ crypt = "set"
  /\ IF SetIndices(queue) = {}
     THEN crypt' = "available" /\ UNCHANGED pc
     ELSE pc' = "crashed" /\ UNCHANGED crypt
  /\ UNCHANGED <<tries, stopped, queue, received, verified, avVars, up, acks, down, net,
                 av, consoleVars>>

\* Their MACs are checked now, by takion_handle_packet.
FlushPostponed ==
  /\ Connected
  /\ crypt = "available"
  /\ postponed # <<>>
  /\ avHandled' = avHandled \o postponed
  /\ postponed' = <<>>
  /\ UNCHANGED <<connVars, dataVars, avArrived, up, acks, down, net, av, consoleVars>>

\* nothing is left to do before the next takion_recv
Receiving ==
  /\ Connected
  /\ crypt # "set"
  /\ ~(crypt = "available" /\ postponed # <<>>)

\* (bug: what is acknowledged is what came in)
FlushDataQueueAckEnd(q) ==
  \E out \in {Pulled(q)} :
    /\ queue' = AfterPulls(q)
    /\ received' = received \o out
    /\ acks' = acks \union {SeqCast(SeqAt(q, q.count - 1))}
    /\ crypt' = IF crypt = "none" /\ BangAt \in Range(out) THEN "set" ELSE crypt

\* takion_flush_data_queue after a push that left q: all the data in order
\* goes to the callback, and the last of it is acknowledged.
FlushDataQueue(q) ==
  \E out \in {Pulled(q)} :
    /\ queue' = AfterPulls(q)
    /\ received' = received \o out
    /\ acks' = IF out = <<>> THEN acks
               ELSE acks \union {SeqCast(SeqAt(q, Len(out) - 1))}
    /\ crypt' = IF crypt = "none" /\ BangAt \in Range(out) THEN "set" ELSE crypt

\* takion_handle_packet_message_data.  A packet without a MAC that comes
\* after the key is refused by takion_handle_packet_mac.
HandleData(n) ==
  /\ Receiving
  /\ ~stopped
  /\ n \in net
  /\ net' \in {net, net \ {n}}
  /\ IF crypt = "available" /\ n <= BangAt
     THEN UNCHANGED <<dataVars, acks>>
     ELSE /\ \E p \in {Push(queue, SeqOf(n), n)} : FlushDataQueue(p.queue)
          /\ verified' = IF crypt = "available" THEN verified \union {n} ELSE verified
  /\ UNCHANGED <<connVars, avVars, up, down, av, consoleVars>>

\* (bug: the newest packet displaces the oldest when the space is used up)
PostponeOverOldest(n) ==
  postponed' = IF Len(postponed) = PostponeSize THEN Append(Tail(postponed), n)
               ELSE Append(postponed, n)

\* (bug: the space is taken to be endless)
PostponeAlways(n) == postponed' = Append(postponed, n)

\* takion_postpone_packet: without space left the packet is forgotten
Postpone(n) ==
  postponed' = IF Len(postponed) = PostponeSize THEN postponed ELSE Append(postponed, n)

HandleAV(n) ==
  /\ Receiving
  /\ ~stopped
  /\ n \in av
  /\ av' = av \ {n}
  /\ avArrived' = Append(avArrived, n)
  /\ \/ crypt = "none" /\ Postpone(n) /\ UNCHANGED avHandled
     \/ crypt # "none" /\ avHandled' = Append(avHandled, n) /\ UNCHANGED postponed
  /\ UNCHANGED <<connVars, dataVars, up, acks, down, net, consoleVars>>

\* takion_recv fails; the data in the queue is dropped
LeaveLoop ==
  /\ Receiving
  /\ stopped
  /\ pc' = "ended"
  /\ queue' = EmptyQueue(queue.begin)
  /\ UNCHANGED <<tries, stopped, crypt, received, verified, avVars, up, acks, down, net,
                 av, consoleVars>>

\* chiaki_takion_close, called by another thread
Close ==
  /\ ~stopped
  /\ stopped' = TRUE
  /\ UNCHANGED <<pc, tries, dataVars, avVars, up, acks, down, net, av, consoleVars>>

-----------------------------------------------------------------------------
(* The console and the network                                             *)

\* An answer to INIT or COOKIE, perhaps a second one.  (Bound: none is sent
\* to a client that has left the handshake, which would ignore it.)
Answer ==
  /\ pc \notin {"loop", "ended", "crashed"}
  /\ \/ "init" \in up /\ down' = down \union {"init ack"}
     \/ "cookie" \in up /\ down' = down \union {"cookie ack"}
  /\ down' # down
  /\ UNCHANGED <<connVars, dataVars, avVars, up, acks, net, av, consoleVars>>

SendData ==
  /\ "cookie" \in up
  /\ sent < MaxData
  /\ sent' = sent + 1
  /\ net' = net \union {sent}
  /\ UNCHANGED <<connVars, dataVars, avVars, up, acks, down, av, avSent, acked>>

SendAgain(n) ==
  /\ n \in acked..sent-1
  /\ n \notin net
  /\ net' = net \union {n}
  /\ UNCHANGED <<connVars, dataVars, avVars, up, acks, down, av, consoleVars>>

SendAV ==
  /\ "cookie" \in up
  /\ avSent < MaxAV
  /\ avSent' = avSent + 1
  /\ av' = av \union {avSent}
  /\ UNCHANGED <<connVars, dataVars, avVars, up, acks, down, net, sent, acked>>

\* An acknowledgement is of everything up to the number it names.
GetAck(a) ==
  /\ a \in acks
  /\ acks' = acks \ {a}
  /\ acked' = LET new == {n \in acked..sent-1 : SeqOf(n) = a}
              IN  IF new = {} THEN acked ELSE 1 + CHOOSE n \in new : TRUE
  /\ UNCHANGED <<connVars, dataVars, avVars, up, down, net, av, sent, avSent>>

Lose ==
  /\ \/ \E m \in down : down' = down \ {m} /\ UNCHANGED <<acks, net, av>>
     \/ \E a \in acks : acks' = acks \ {a} /\ UNCHANGED <<down, net, av>>
     \/ \E n \in net : net' = net \ {n} /\ UNCHANGED <<down, acks, av>>
     \/ \E n \in av : av' = av \ {n} /\ UNCHANGED <<down, acks, net>>
  /\ UNCHANGED <<connVars, dataVars, avVars, up, consoleVars>>

Handshake ==
  \/ SendInit \/ SendCookie \/ ReceiveFails
  \/ \E m \in down : HandshakeMessage(m)
  \/ \E n \in net \union av : DataTooEarly(n)

Loop ==
  \/ Recheck \/ FlushPostponed \/ LeaveLoop
  \/ \E n \in net : HandleData(n)
  \/ \E n \in av : HandleAV(n)

Console ==
  \/ Answer \/ SendData \/ SendAV
  \/ \E n \in 0..sent-1 : SendAgain(n)
  \/ \E a \in acks : GetAck(a)

Next == Handshake \/ Loop \/ Close \/ Console \/ Lose

Spec == Init /\ [][Next]_vars

\* The thread runs, and takion_recv times out.  The console sends the datum
\* that is missing again, and not every copy of it is lost (the last line is
\* strong fairness, with what enables HandleData written out).
Missing == Len(received)
FairSpec ==
  /\ Spec
  /\ WF_vars(SendInit) /\ WF_vars(SendCookie) /\ WF_vars(ReceiveFails)
  /\ WF_vars(Recheck) /\ WF_vars(FlushPostponed)
  /\ WF_vars(SendAgain(Missing))
  /\ []<>(Receiving /\ ~stopped /\ Missing \in net) => []<><<HandleData(Missing)>>_vars

-----------------------------------------------------------------------------
(* Properties                                                              *)

DataTypeOK ==
  /\ pc \in {"send init", "init ack", "send cookie", "cookie ack", "second", "loop",
             "ended", "crashed"}
  /\ tries \in 0..MaxTries
  /\ stopped \in BOOLEAN
  /\ queue \in [begin : 0..SeqMod-1, count : 0..QueueSize,
                slot : [0..QueueSize-1 -> 0..MaxData-1 \union {NoUser}]]
  /\ crypt \in {"none", "set", "available"}
  /\ verified \subseteq 0..MaxData-1
  /\ received \in Seq(0..MaxData-1)
  /\ Len(postponed) <= PostponeSize
  /\ {postponed, avArrived, avHandled} \subseteq Seq(0..MaxAV-1)
  /\ up \subseteq {"init", "cookie"}
  /\ down \subseteq {"init ack", "cookie ack"}
  /\ acks \subseteq 0..SeqMod-1
  /\ net \subseteq 0..sent-1
  /\ av \subseteq 0..avSent-1
  /\ sent \in 0..MaxData /\ avSent \in 0..MaxAV /\ acked \in 0..sent

\* "to not ignore any MACs in this period" (takion.h:145): data whose MAC was
\* not checked goes to the callback only in a flush that began without a key.
NewData == Range(SubSeq(received', Len(received) + 1, Len(received')))
CheckedAfterBang == [][NewData \subseteq verified' \/ crypt = "none"]_vars

\* Postponed packets are passed on before any that came later, each once and
\* only with a key: those passed on or postponed are all the arrivals in
\* their order, or the first PostponeSize of them and the latest.
AVInArrivalOrder ==
  LET kept == avHandled \o postponed
      gone == Len(avArrived) - Len(kept)
  IN  /\ \/ kept = avArrived
         \/ kept = SubSeq(avArrived, 1, PostponeSize) \o
                   SubSeq(avArrived, PostponeSize + gone + 1, Len(avArrived))
      /\ crypt = "none" => avHandled = <<>>

\* The handshake ends, connected or not, whatever is lost.  Connected, all
\* data reaches the callback however often it is lost on the way, unless the
\* connection is closed or the check of the queue ends the program.
ConnectionProgresses ==
  /\ pc = "send init" ~> pc \in {"loop", "ended"}
  /\ (Connected /\ Missing < sent) ~> (Missing = sent \/ stopped \/ pc = "crashed")

-----------------------------------------------------------------------------
(* What the data channel promises                                          *)

Channel == INSTANCE OrderedChannel WITH sent <- sent, received <- received,
                                        acked <- acked

\* The data channel implements OrderedChannel: nothing is lost, repeated or
\* out of order, and no acknowledgement is of data that was not received.
ImplementsChannel == Channel!Spec
=============================================================================
