---------------------------- MODULE AudioReceiver ----------------------------
(***************************************************************************)
(* lib/src/audioreceiver.c: the jitter buffer between Takion's thread and  *)
(* the audio decoder.  A packet k carries the frame k and, for error       *)
(* correction, the FecUnits frames before it.  Packets are lost, repeated  *)
(* and reordered (their path in Takion has no queue).  Playback begins     *)
(* when Prefill frames are buffered; from then on a frame that is not      *)
(* there when a later one is gets concealed.                               *)
(*                                                                         *)
(* Haptics packets come to a receiver of their own, which plays what is    *)
(* newer than what it played last.                                         *)
(***************************************************************************)
EXTENDS SeqNum, Sequences, FiniteSets

CONSTANTS JoinPackets,  \* where a stream begins (0) or goes on
          MaxPackets,   \* bound: packets the console sends
          FecUnits,     \* fec_units_count
          BufferSize,   \* CHIAKI_AUDIO_JITTER_BUFFER_SIZE
          Prefill       \* CHIAKI_AUDIO_JITTER_PREFILL

AudioConstantsOK ==
  /\ JoinPackets \subseteq Nat
  /\ MaxPackets + BufferSize < SeqHalf
  /\ FecUnits \in Nat
  /\ Prefill \in 1..BufferSize

VARIABLES joined,     \* the last frame before this stream
          arrived,    \* packets received, to send one of them only twice
          todo,       \* units of the packet that is being handled
          storing,    \* the loop of chiaki_audio_receiver_frame has its buf yet
          jitter,     \* frame indices in jitter_buffer
          next,       \* next_frame_index
          started,    \* playback_started, next_frame_index_valid
          played,     \* frames given to the sink, and whether concealed
          hapticsPrev,\* frame_index_prev of the haptics receiver
          haptics     \* haptics frames given to the sink

audioVars == <<joined, arrived, todo, storing, jitter, next, started, played>>
vars == <<audioVars, hapticsPrev, haptics>>

Wire(n) == n % SeqMod
Packets == joined + 1 .. joined + MaxPackets

\* frame_index_startup: no packet came yet with an index above half
Startup == joined = 0

Init ==
  /\ joined \in JoinPackets
  /\ arrived = {}
  /\ todo = <<>>
  /\ storing = FALSE
  /\ jitter = {}
  /\ next = IF Startup THEN 0 ELSE Wire(joined + 1)
  /\ started = ~Startup
  /\ played = <<>>
  /\ hapticsPrev = Wire(joined)
  /\ haptics = <<>>

\* Every frame that is compared is within half the modulus of every other.
Oldest == CHOOSE f \in jitter : \A g \in jitter : ~SeqLt(g, f)
Newest == CHOOSE f \in jitter : \A g \in jitter : ~SeqGt(g, f)

\* the units of the packet k: its own frame, then the copies of older ones
UnitsOf(k) ==
  LET fec == [i \in 1..FecUnits |-> k - FecUnits + i - 1]
      IsThere(f) == ~(Startup /\ f < 1)
  IN  <<k>> \o SelectSeq(fec, IsThere)

\* chiaki_audio_receiver_av_packet; the receivers have nothing in common, so a
\* behaviour is about one of them.
AudioPacket(k) ==
  /\ todo = <<>> /\ haptics = <<>>
  /\ arrived' = arrived \union {k}
  /\ todo' = UnitsOf(k)
  /\ storing' = TRUE
  /\ UNCHANGED <<joined, jitter, next, started, played, hapticsPrev, haptics>>

\* the call for one unit returns
Return == todo' = Tail(todo) /\ storing' = TRUE

\* (bug: what is too old for playback is stored)
RefusedUnlessDuplicate(f) ==
  \/ Wire(f) \in jitter
  \/ Cardinality(jitter) = BufferSize /\ ~SeqLt(f, Newest)

\* too old, already there, or newer than all of a full buffer
Refused(f) ==
  \/ started /\ SeqLt(f, next)
  \/ Wire(f) \in jitter
  \/ Cardinality(jitter) = BufferSize /\ ~SeqLt(f, Newest)

\* chiaki_audio_receiver_store_audio_frame_locked; a full buffer loses its
\* newest frame.  Playback may begin with that.
Store ==
  /\ todo # <<>>
  /\ storing
  /\ LET f == Head(todo)
         kept == IF Cardinality(jitter) = BufferSize THEN jitter \ {Newest} ELSE jitter
     IN  IF Refused(f) THEN Return /\ UNCHANGED <<jitter, next, started>>
         ELSE /\ jitter' = kept \union {Wire(f)}
              /\ storing' = FALSE
              /\ IF ~started /\ Cardinality(jitter') >= Prefill
                 THEN started' = TRUE /\ next' = Oldest'
                 ELSE UNCHANGED <<started, next>>
              /\ UNCHANGED todo
  /\ UNCHANGED <<joined, arrived, played, hapticsPrev, haptics>>

\* (bug: three frames have to wait before a gap is given up)
CanConcealLookahead ==
  /\ jitter # {}
  /\ SeqGt(Oldest, next)
  /\ SeqGt(Newest, next + Prefill - 1)

CanConceal ==
  /\ jitter # {}
  /\ SeqGt(Oldest, next)
  /\ Cardinality(jitter) >= Prefill => SeqGt(Newest, next + Prefill - 1)

\* the next round of the loop: the next frame goes to the sink, or a request
\* to conceal it, or nothing is left to do
Play ==
  /\ todo # <<>>
  /\ ~storing
  /\ \/ /\ started /\ (next \in jitter \/ CanConceal)
        /\ played' = Append(played, [frame |-> next, real |-> next \in jitter])
        /\ jitter' = jitter \ {next}
        /\ next' = (next + 1) % SeqMod
        /\ UNCHANGED <<todo, storing>>
     \/ /\ ~(started /\ (next \in jitter \/ CanConceal))
        /\ Return
        /\ UNCHANGED <<jitter, next, played>>
  /\ UNCHANGED <<joined, arrived, started, hapticsPrev, haptics>>

\* The same packet for the haptics receiver, which has no buffer.
HapticsPacket(k) ==
  /\ arrived = {}
  /\ SeqGt(k, hapticsPrev)
  /\ hapticsPrev' = Wire(k)
  /\ haptics' = Append(haptics, k)
  /\ UNCHANGED audioVars

Next ==
  \/ \E k \in Packets : AudioPacket(k) \/ HapticsPacket(k)
  \/ Store \/ Play

Spec == Init /\ [][Next]_vars

-----------------------------------------------------------------------------
(* Properties                                                              *)

TypeOK ==
  /\ joined \in JoinPackets
  /\ arrived \subseteq Packets
  /\ todo \in Seq(Packets \union joined - FecUnits .. joined)
  /\ storing \in BOOLEAN
  /\ jitter \subseteq 0..SeqMod-1 /\ Cardinality(jitter) <= BufferSize
  /\ next \in 0..SeqMod-1
  /\ started \in BOOLEAN
  /\ played \in Seq([frame : 0..SeqMod-1, real : BOOLEAN])
  /\ hapticsPrev \in 0..SeqMod-1
  /\ haptics \in Seq(Packets)

\* What goes to the sink are consecutive frames, each once and either real or
\* concealed, however packets and copies come in, across the wrap.
PlayedConsecutively ==
  /\ \A i \in 2..Len(played) : played[i].frame = (played[i-1].frame + 1) % SeqMod
  /\ \A i \in 2..Len(haptics) : haptics[i-1] < haptics[i]

\* Once playback has begun the buffer is empty between packets: no frame stays
\* behind in it, to take the place of one that comes, or to come out late.
NothingStaysBuffered == started /\ todo = <<>> => jitter = {}

\* A frame in the buffer is not older than the one that is to be played, and a
\* frame is concealed only when a packet with a later one has come.
ConcealedOnlyWhenOvertaken ==
  /\ started => \A f \in jitter : ~SeqLt(f, next)
  /\ \A i \in DOMAIN played : ~played[i].real =>
       \E k \in arrived : SeqGt(k, played[i].frame)
=============================================================================
