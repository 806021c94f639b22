---------------------------- MODULE PacketStats ----------------------------
(***************************************************************************)
(* lib/src/packetstats.c between the two threads that use it: Takion's     *)
(* pushes what the video and the audio receiver counted, and the one of    *)
(* lib/src/congestioncontrol.c reports it to the console and resets it.    *)
(* push_seq does not take the mutex, so its steps are apart.               *)
(***************************************************************************)
EXTENDS SeqNum

CONSTANTS Generations,  \* units received and lost of a frame, as records
          JoinSeqs,     \* first packet of the audio stream
          MaxPushes,    \* bound
          LossMax       \* packet_loss_max, in percent

PacketStatsConstantsOK == Generations \subseteq [received : Nat, lost : Nat]

VARIABLES gen,      \* gen_received, gen_lost
          seqMin, seqMax, seqReceived,
          pusher,   \* Takion's thread in push_seq
          getter,   \* congestion_control_thread_func
          pushed,   \* all that was pushed as generations
          reported, \* all that was got of it
          report    \* the last congestion packet

vars == <<gen, seqMin, seqMax, seqReceived, pusher, getter, pushed, reported, report>>

Garbage == [received |-> -1, lost |-> -1]
NoUnits == [received |-> 0, lost |-> 0]
Plus(u, v) == [received |-> u.received + v.received, lost |-> u.lost + v.lost]

\* The first packet of a stream that is joined may have any number.
Init ==
  /\ gen = NoUnits
  /\ seqMin = 0 /\ seqMax = 0 /\ seqReceived = 0
  /\ pusher \in [at : {"idle"}, seq : JoinSeqs, count : {0}]
  /\ getter = [at |-> "wait", units |-> NoUnits]
  /\ pushed = NoUnits
  /\ reported = NoUnits
  /\ report = NoUnits

\* (bug: push_generation does not take the mutex either)
PushGenerationUnlocked(u) ==
  /\ pusher.at = "idle"
  /\ pusher.count < MaxPushes
  /\ gen' = Plus(gen, u)
  /\ pushed' = Plus(pushed, u)
  /\ pusher' = [pusher EXCEPT !.count = @ + 1]
  /\ UNCHANGED <<seqMin, seqMax, seqReceived, getter, reported, report>>

\* chiaki_packet_stats_push_generation
PushGeneration(u) ==
  /\ pusher.at = "idle"
  /\ getter.at # "locked"
  /\ pusher.count < MaxPushes
  /\ gen' = Plus(gen, u)
  /\ pushed' = Plus(pushed, u)
  /\ pusher' = [pusher EXCEPT !.count = @ + 1]
  /\ UNCHANGED <<seqMin, seqMax, seqReceived, getter, reported, report>>

\* chiaki_packet_stats_push_seq: the increment, for a packet that may come
\* after some were lost ...
PushSeq ==
  /\ pusher.at = "idle"
  /\ pusher.count < MaxPushes
  /\ \E gap \in 1..2 :
       pusher' = [at |-> "max", seq |-> (pusher.seq + gap) % SeqMod, count |-> pusher.count + 1]
  /\ seqReceived' = seqReceived + 1
  /\ UNCHANGED <<gen, seqMin, seqMax, getter, pushed, reported, report>>

\* ... and the comparison
PushSeqMax ==
  /\ pusher.at = "max"
  /\ seqMax' = IF SeqGt(pusher.seq, seqMax) THEN pusher.seq ELSE seqMax
  /\ pusher' = [pusher EXCEPT !.at = "idle"]
  /\ UNCHANGED <<gen, seqMin, seqReceived, getter, pushed, reported, report>>

\* The interval is over, and chiaki_packet_stats_get takes the mutex.  The
\* difference is negative across the wrap, and as a uint64_t it is huge.
Get ==
  /\ getter.at = "wait"
  /\ LET diff == seqMax - seqMin
         seqLost == IF diff >= 0 /\ seqReceived > diff THEN diff ELSE diff - seqReceived
     IN  getter' = [at |-> "locked",
                    units |-> Plus(gen, [received |-> seqReceived, lost |-> seqLost])]
  /\ reported' = Plus(reported, gen)
  /\ UNCHANGED <<gen, seqMin, seqMax, seqReceived, pusher, pushed, report>>

\* reset_stats, still with the mutex, which push_seq does not wait for
Reset ==
  /\ getter.at = "locked"
  /\ gen' = NoUnits
  /\ seqMin' = seqMax
  /\ seqReceived' = 0
  /\ getter' = [getter EXCEPT !.at = "send"]
  /\ UNCHANGED <<seqMax, pusher, pushed, reported, report>>

\* The share of lost units is at most LossMax; a negative loss, which is a
\* huge one in the code, leads to a report that means nothing.
Clamped(u) ==
  LET total == u.received + u.lost
      lost == (total * LossMax) \div 100
  IN  CASE u.lost < 0 -> Garbage
        [] u.lost >= 0 /\ u.lost * 100 <= total * LossMax -> u
        [] OTHER -> [received |-> total - lost, lost |-> lost]

\* the loss is clamped, and the packet goes to the console
SendCongestion ==
  /\ getter.at = "send"
  /\ report' = Clamped(getter.units)
  /\ getter' = [at |-> "wait", units |-> NoUnits]
  /\ UNCHANGED <<gen, seqMin, seqMax, seqReceived, pusher, pushed, reported>>

Next ==
  \/ \E u \in Generations : PushGeneration(u)
  \/ PushSeq \/ PushSeqMax \/ Get \/ Reset \/ SendCongestion

-----------------------------------------------------------------------------
(* Properties                                                              *)

TypeOK ==
  /\ {gen, pushed, reported} \subseteq [received : Nat, lost : Nat]
  /\ {seqMin, seqMax} \subseteq 0..SeqMod-1
  /\ seqReceived \in 0..MaxPushes
  /\ pusher \in [at : {"idle", "max"}, seq : 0..SeqMod-1, count : 0..MaxPushes]
  /\ getter \in [at : {"wait", "locked", "send"}, units : [received : Nat, lost : Int]]
  /\ report = Garbage \/ report \in [received : Nat, lost : Nat]

\* Every unit of a frame is in exactly one report to the console or still to
\* be reported, however the threads interleave.
UnitsReportedOnce ==
  pushed = IF getter.at = "locked" THEN reported ELSE Plus(reported, gen)

StatsInv ==
  /\ {gen, pushed, reported} \subseteq [received : Nat, lost : Nat]
  /\ UnitsReportedOnce
=============================================================================
