------------------------------- MODULE GuiMic -------------------------------
(***************************************************************************)
(* The microphone in the graphical application                             *)
(* (gui/src/streamsession.cpp). SDL's capture thread puts samples into a   *)
(* ring buffer and posts an event when none is pending; the application's  *)
(* thread empties the buffer in that event and encodes whole frames. The   *)
(* microphone is opened when it is unmuted for the first time.             *)
(***************************************************************************)
EXTENDS ByteRing

CONSTANTS FrameBytes,   \* mic_buf.size_bytes: a frame of the encoder
          PieceSizes,   \* how much SDL hands over at once
          MaxBytes,     \* bound: samples that are captured
          MaxToggles    \* bound: times the user mutes or unmutes

VARIABLES
  active,      \* mic_active: cleared for good when the session is stopped
  open,        \* audio_in: whether the device is open
  connected,   \* mic_connected: the console was told of the microphone
  muted,       \* muted
  ring,        \* mic_ring_*
  queued,      \* mic_ring_drain_queued
  events,      \* events with DrainMicRingBuffer that are posted
  capture,     \* SDL's thread: what it is about to do
  piece,       \* the samples it was handed
  captured,    \* samples captured
  gui,         \* the application's thread
  chunk,       \* the samples it has taken
  part,        \* mic_buf: the samples of the frame that is not full yet
  sent,        \* the last sample that was encoded
  toggles

micVars == <<active, open, connected, muted, ring, queued, events, capture, piece, captured,
             gui, chunk, part, sent, toggles>>

MicConstantsOK ==
  /\ {FrameBytes, MaxBytes, MaxToggles} \subseteq Nat \ {0}
  /\ PieceSizes \subseteq Nat \ {0}

Capacity == FrameBytes * 8
Samples == 1 .. MaxBytes

Init ==
  /\ active = TRUE /\ open = FALSE /\ connected = FALSE /\ muted = TRUE
  /\ ring = EmptyRing(0) /\ queued = FALSE /\ events = 0
  /\ capture = "idle" /\ piece = <<>> /\ captured = 0
  /\ gui = "idle" /\ chunk = <<>> /\ part = <<>> /\ sent = 0
  /\ toggles = 0

-----------------------------------------------------------------------------
(* SDL's capture thread: QueueMicData                                      *)

\* The device hands samples over while it is not paused.
Captured ==
  /\ capture = "idle" /\ open /\ ~muted /\ active
  /\ \E n \in PieceSizes :
       /\ captured + n <= MaxBytes
       /\ piece' = [k \in 1 .. n |-> captured + k]
       /\ captured' = captured + n
  /\ capture' = "put"
  /\ UNCHANGED <<active, open, connected, muted, ring, queued, events, gui, chunk, part, sent,
                 toggles>>

\* Under the mutex; a buffer without cells takes nothing and asks for nothing.
QueueMicData ==
  /\ capture = "put"
  /\ IF ring.size = 0
     THEN capture' = "idle" /\ UNCHANGED <<ring, queued>>
     ELSE /\ ring' = Put(ring, piece)
          /\ queued' = TRUE
          /\ capture' = IF queued THEN "idle" ELSE "post"
  /\ piece' = <<>>
  /\ UNCHANGED <<active, open, connected, muted, events, captured, gui, chunk, part, sent, toggles>>

PostDrain ==
  /\ capture = "post"
  /\ events' = events + 1
  /\ capture' = "idle"
  /\ UNCHANGED <<active, open, connected, muted, ring, queued, piece, captured, gui, chunk,
                 part, sent, toggles>>

-----------------------------------------------------------------------------
(* The application's thread                                                *)

DrainBegins ==
  /\ gui = "idle" /\ events > 0
  /\ events' = events - 1
  /\ gui' = "take"
  /\ UNCHANGED <<active, open, connected, muted, ring, queued, capture, piece, captured, chunk,
                 part, sent, toggles>>

\* DrainMicRingBuffer: one piece at a time under the mutex, until there is none
\* left; only then the next samples post an event again. Once the microphone is
\* not active any more the piece is dropped and the buffer loses its cells.
DrainTakes ==
  /\ gui = "take"
  /\ LET n == ChunkSize(ring, ring.fill)
     IN  IF ring.fill = 0
         THEN queued' = FALSE /\ gui' = "idle" /\ UNCHANGED <<ring, chunk>>
         ELSE IF ~active
         THEN queued' = FALSE /\ gui' = "idle" /\ ring' = EmptyRing(0) /\ UNCHANGED chunk
         ELSE queued' = queued /\ gui' = "read" /\ ring' = Consumed(ring, n) /\ chunk' = Chunk(ring, n)
  /\ UNCHANGED <<active, open, connected, muted, events, capture, piece, captured, part, sent,
                 toggles>>

\* ReadMic: nothing while muted; otherwise the frame is filled up and encoded,
\* the whole frames after it are too, and what is left begins the next one.
\* When ProcessMicFrame fails for the frame after n others the rest of the piece
\* is lost: what is kept of the buffer is as long as it was, with that frame's samples.
ReadMic ==
  /\ gui = "read"
  /\ LET all == part \o chunk
         frames == Len(all) \div FrameBytes
         After(n) == IF n = 0 THEN sent ELSE all[n * FrameBytes]
     IN  IF muted THEN UNCHANGED <<part, sent>>
         ELSE \/ /\ part' = SubSeq(all, frames * FrameBytes + 1, Len(all))
                 /\ sent' = After(frames)
              \/ \E n \in 0 .. (frames - 1) :
                   /\ part' = SubSeq(all, n * FrameBytes + 1, n * FrameBytes + Len(part))
                   /\ sent' = After(n)
  /\ chunk' = <<>>
  /\ gui' = "take"
  /\ UNCHANGED <<active, open, connected, muted, ring, queued, events, capture, piece, captured,
                 toggles>>

\* ToggleMute, which the user or a controller calls once sound has begun: the
\* first time InitMic opens the device with empty buffers, which may fail and
\* leaves it muted and without buffers.
ToggleMute ==
  /\ gui = "idle" /\ toggles < MaxToggles
  /\ toggles' = toggles + 1
  /\ \/ /\ connected
        /\ muted' = ~muted
        /\ UNCHANGED <<open, connected, ring, queued, part>>
     \/ /\ ~connected
        /\ \E opened \in BOOLEAN :
             /\ open' = opened
             /\ connected' = opened
             /\ muted' = IF opened THEN ~muted ELSE muted
             /\ ring' = EmptyRing(IF opened THEN Capacity ELSE 0)
        /\ queued' = FALSE
        /\ part' = <<>>
  /\ UNCHANGED <<active, events, capture, piece, captured, gui, chunk, sent>>

\* Stop: from now on the microphone is not heard.
Stop ==
  /\ gui = "idle" /\ active
  /\ active' = FALSE
  /\ UNCHANGED <<open, connected, muted, ring, queued, events, capture, piece, captured, gui,
                 chunk, part, sent, toggles>>

\* The destructor, after Stop or without it: closing the device waits for the
\* capture thread, and what is posted dies with the object.
Fini ==
  /\ gui = "idle" /\ capture = "idle"
  /\ active' = FALSE
  /\ open' = FALSE
  /\ events' = 0
  /\ part' = <<>>
  /\ gui' = "done"
  /\ UNCHANGED <<connected, muted, ring, queued, capture, piece, captured, chunk, sent, toggles>>

Capture == QueueMicData \/ PostDrain
Drain == DrainBegins \/ DrainTakes \/ ReadMic

Next ==
  \/ Captured \/ Capture
  \/ Drain \/ ToggleMute \/ Stop \/ Fini

-----------------------------------------------------------------------------
(* Properties                                                              *)

TypeOK ==
  /\ {active, open, connected, muted, queued} \subseteq BOOLEAN
  /\ RingTypeOK(ring, {0, Capacity}, Samples)
  /\ events \in 0 .. 2
  /\ capture \in {"idle", "put", "post"} /\ gui \in {"idle", "take", "read", "done"}
  /\ piece \in Seq(Samples) /\ chunk \in Seq(Samples) /\ part \in Seq(Samples)
  /\ Len(part) < FrameBytes
  /\ captured \in 0 .. MaxBytes /\ sent \in Samples \cup {0} /\ toggles \in 0 .. MaxToggles

\* What was encoded, the frame that is being filled, the piece that was taken
\* and what waits in the buffer are in the order they were captured in, and no
\* sample is there twice (QueueMicData, DrainMicRingBuffer, ReadMic).
VoiceInOrder ==
  Increasing(<<sent>> \o part \o chunk \o Content(ring) \o piece)

\* Samples in the buffer are never forgotten: an event is posted or about to be,
\* or the event runs (mic_ring_drain_queued).
DrainIsComing ==
  (ring.fill > 0 /\ gui # "done") => events > 0 \/ capture = "post" \/ gui \in {"take", "read"}

\* The console hears of the microphone only when there is one, and while the
\* user believes to be muted nothing is captured (ToggleMute).
MicIsWhatItSeems ==
  /\ connected => open \/ gui = "done"
  /\ ~muted => connected

Unfinished == ring.fill > 0 /\ gui # "done"
=============================================================================
