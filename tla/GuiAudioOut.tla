---------------------------- MODULE GuiAudioOut -----------------------------
(***************************************************************************)
(* How the graphical application plays sound (gui/src/streamsession.cpp).  *)
(* Takion's thread decodes a frame and puts its samples into a ring        *)
(* buffer; a thread of its own moves them to SDL's queue, no more than     *)
(* two buffers ahead; the application's thread opens the device when the   *)
(* format is known, while Takion's thread waits for it, and closes it.     *)
(* Samples are numbered as they are made.                                  *)
(***************************************************************************)
EXTENDS ByteRing, FiniteSets

CONSTANTS BufferSize,   \* audio_buffer_size
          FrameSize,    \* samples of a frame
          MaxFrames,    \* bound: frames that are decoded
          MaxInits      \* bound: times the format is told

VARIABLES
  device,      \* audio_out: whether it is open
  queued,      \* SDL's queue of it
  ring,        \* audio_out_ring_*
  takion,      \* Takion's thread
  drain,       \* the thread that feeds SDL
  hand,        \* the samples that thread has taken
  running,     \* audio_out_drain_thread_running
  requested,   \* audio_out_drain_requested
  gui,         \* the application's thread
  frames,      \* frames decoded
  inits,       \* times the format was told
  heard        \* the last sample the device has played

audioVars == <<device, queued, ring, takion, drain, hand, running, requested, gui, frames,
               inits, heard>>

AudioOutConstantsOK ==
  /\ {BufferSize, FrameSize, MaxFrames, MaxInits} \subseteq Nat \ {0}

Capacity == BufferSize * 8
TargetQueueSize == BufferSize * 2
Samples == 1 .. (FrameSize * MaxFrames)
Frame(n) == [k \in 1 .. FrameSize |-> (n - 1) * FrameSize + k]

\* The constructor starts the thread before there is a device.
Init ==
  /\ device = FALSE /\ queued = <<>> /\ ring = EmptyRing(0)
  /\ takion = "idle"
  /\ drain = "decide" /\ hand = <<>> /\ running = TRUE /\ requested = FALSE
  /\ gui = "idle"
  /\ frames = 0 /\ inits = 0 /\ heard = 0

-----------------------------------------------------------------------------
(* Takion's thread                                                         *)

\* SDL's queue has run away: what is stale is thrown away, the buffer too.
TooFarAhead == Len(queued) > 3 * BufferSize

\* PushAudioFrame: nothing without a device, or when the volume is zero.
FrameDecoded ==
  /\ takion = "idle" /\ frames < MaxFrames
  /\ frames' = frames + 1
  /\ \E audible \in BOOLEAN : takion' = IF device /\ audible THEN "put" ELSE "idle"
  /\ UNCHANGED <<device, queued, ring, drain, hand, running, requested, gui, inits, heard>>

PutFrame ==
  /\ takion = "put"
  /\ queued' = IF TooFarAhead THEN <<>> ELSE queued
  /\ ring' = Put(IF TooFarAhead THEN Restarted(ring) ELSE ring, Frame(frames))
  /\ takion' = "request"
  /\ UNCHANGED <<device, drain, hand, running, requested, gui, frames, inits, heard>>

RequestDrain ==
  /\ takion = "request"
  /\ requested' = TRUE
  /\ takion' = "wake"
  /\ UNCHANGED <<device, queued, ring, drain, hand, running, gui, frames, inits, heard>>

\* wakeOne: the wait without a limit ends (the other one may end at any time).
Woken(d) == IF d = "asleep" THEN "decide" ELSE d

WakeDrain ==
  /\ takion = "wake"
  /\ drain' = Woken(drain)
  /\ takion' = "idle"
  /\ UNCHANGED <<device, queued, ring, hand, running, requested, gui, frames, inits, heard>>

\* AudioSettingsCb: a blocking call of InitAudio in the application's thread.
TellFormat ==
  /\ takion = "idle" /\ inits < MaxInits
  /\ inits' = inits + 1
  /\ takion' = "blocked"
  /\ UNCHANGED <<device, queued, ring, drain, hand, running, requested, gui, frames, heard>>

\* The session is over, and its threads with it.
TakionEnds ==
  /\ takion = "idle"
  /\ takion' = "gone"
  /\ UNCHANGED <<device, queued, ring, drain, hand, running, requested, gui, frames, inits, heard>>

-----------------------------------------------------------------------------
(* The application's thread                                                *)

\* StopAudioOutDrainThread: nothing when no thread runs; otherwise the flags are
\* set under the mutex, the thread is woken after it, and waited for.
StopDrain(next) ==
  IF running
  THEN running' = FALSE /\ requested' = TRUE /\ gui' = next
  ELSE UNCHANGED <<running, requested>> /\ gui' = next

InitAudioBegins ==
  /\ gui = "idle" /\ takion = "blocked"
  /\ StopDrain("init wakes")
  /\ UNCHANGED <<device, queued, ring, takion, drain, hand, frames, inits, heard>>

Fini ==
  /\ gui = "idle" /\ takion = "gone"
  /\ StopDrain("fini wakes")
  /\ UNCHANGED <<device, queued, ring, takion, drain, hand, frames, inits, heard>>

WakeToStop ==
  /\ gui \in {"init wakes", "fini wakes"}
  /\ drain' = Woken(drain)
  /\ gui' = IF gui = "init wakes" THEN "init joins" ELSE "fini joins"
  /\ UNCHANGED <<device, queued, ring, takion, hand, running, requested, frames, inits, heard>>

\* The rest of InitAudio, with nobody else at the buffer: the old device is
\* closed, a new one opened, or its default, and the thread started. Without a
\* device the buffer stays without cells, and no thread runs.
OpenDevice ==
  /\ gui = "init joins" /\ drain \in {"none", "gone"}
  /\ \E opened \in BOOLEAN :
       /\ device' = opened
       /\ ring' = EmptyRing(IF opened THEN Capacity ELSE 0)
       /\ drain' = IF opened THEN "decide" ELSE "none"
       /\ running' = opened
       /\ requested' = IF opened THEN FALSE ELSE requested
  /\ queued' = <<>>
  /\ takion' = "idle"
  /\ gui' = "idle"
  /\ UNCHANGED <<hand, frames, inits, heard>>

\* The destructor closes the device and takes the buffer away.
CloseDevice ==
  /\ gui = "fini joins" /\ drain \in {"none", "gone"}
  /\ drain' = "none"
  /\ device' = FALSE
  /\ queued' = <<>>
  /\ ring' = EmptyRing(0)
  /\ gui' = "done"
  /\ UNCHANGED <<takion, hand, running, requested, frames, inits, heard>>

-----------------------------------------------------------------------------
(* The thread that feeds SDL                                               *)

\* With the mutex: ended, asleep until somebody asks, or at work.
Decide ==
  /\ drain = "decide"
  /\ drain' = IF ~running THEN "gone" ELSE IF requested THEN "drain" ELSE "asleep"
  /\ requested' = (requested /\ ~running)
  /\ UNCHANGED <<device, queued, ring, takion, hand, running, gui, frames, inits, heard>>

\* DrainAudioOutRingBuffer: no more than the target, and one piece at a time.
TakeChunk ==
  /\ drain = "drain"
  /\ LET ahead == IF TooFarAhead THEN 0 ELSE Len(queued)
         full == ahead >= TargetQueueSize
         left == IF TooFarAhead THEN Restarted(ring) ELSE ring
         n == ChunkSize(left, TargetQueueSize - ahead)
         take == device /\ ~full /\ left.fill > 0
     IN  /\ queued' = IF device /\ TooFarAhead THEN <<>> ELSE queued
         /\ hand' = IF take THEN Chunk(left, n) ELSE <<>>
         /\ ring' = IF take THEN Consumed(left, n) ELSE IF device THEN left ELSE ring
         /\ drain' = IF take THEN "queue" ELSE "check"
  /\ UNCHANGED <<device, takion, running, requested, gui, frames, inits, heard>>

\* SDL_QueueAudio; when it fails what was queued is thrown away.
QueueChunk ==
  /\ drain = "queue"
  /\ \/ queued' = queued \o hand /\ drain' = "drain"
     \/ queued' = <<>> /\ drain' = "check"
  /\ hand' = <<>>
  /\ UNCHANGED <<device, ring, takion, running, requested, gui, frames, inits, heard>>

\* has_pending_audio: with samples left it waits for four milliseconds, so that
\* the device may play some, and without any for the next request.
CheckPending ==
  /\ drain = "check"
  /\ drain' = IF ~(device /\ ring.fill > 0) THEN "decide"
              ELSE IF ~running THEN "gone" ELSE "nap"
  /\ UNCHANGED <<device, queued, ring, takion, hand, running, requested, gui, frames, inits, heard>>

NapEnds ==
  /\ drain = "nap"
  /\ drain' = IF running THEN "drain" ELSE "gone"
  /\ requested' = (requested /\ ~running)
  /\ UNCHANGED <<device, queued, ring, takion, hand, running, gui, frames, inits, heard>>

-----------------------------------------------------------------------------
\* SDL plays the sample that is first in its queue.
Play ==
  /\ device /\ queued # <<>>
  /\ heard' = Head(queued)
  /\ queued' = Tail(queued)
  /\ UNCHANGED <<device, ring, takion, drain, hand, running, requested, gui, frames, inits>>

TakionGoesOn == PutFrame \/ RequestDrain \/ WakeDrain
Gui == InitAudioBegins \/ WakeToStop \/ OpenDevice \/ CloseDevice
Drain == Decide \/ TakeChunk \/ QueueChunk \/ CheckPending \/ NapEnds

Next ==
  \/ FrameDecoded \/ TellFormat \/ TakionEnds \/ TakionGoesOn
  \/ Fini \/ Gui
  \/ Drain
  \/ Play

-----------------------------------------------------------------------------
(* Properties                                                              *)

TypeOK ==
  /\ device \in BOOLEAN /\ running \in BOOLEAN /\ requested \in BOOLEAN
  /\ queued \in Seq(Samples) /\ hand \in Seq(Samples)
  /\ RingTypeOK(ring, {0, Capacity}, Samples)
  /\ takion \in {"idle", "put", "request", "wake", "blocked", "gone"}
  /\ drain \in {"none", "asleep", "decide", "drain", "queue", "check", "nap", "gone"}
  /\ gui \in {"idle", "init wakes", "init joins", "fini wakes", "fini joins", "done"}
  /\ frames \in 0 .. MaxFrames /\ inits \in 0 .. MaxInits /\ heard \in Samples \cup {0}

\* What the device has played, what is queued, what the thread has in its hand
\* and what is in the buffer are in the order they were decoded in, and nothing
\* is there twice, whatever is thrown away on the way
\* (QueueAudioOutData and DrainAudioOutRingBuffer).
SoundInOrder ==
  Increasing(<<heard>> \o queued \o hand \o Content(ring))

\* The thread never runs more than two buffers ahead, so that the sound stays
\* with the picture (target_queue_size in DrainAudioOutRingBuffer).
NotTooFarAhead ==
  Len(queued) + Len(hand) <= TargetQueueSize

\* The thread does not sleep without a limit over samples it could move: there
\* is a request, or one is coming, or it is to end (AudioOutDrainThreadMain).
NoSleepOverSamples ==
  (drain = "asleep" /\ device /\ ring.fill > 0) =>
     \/ takion \in {"request", "wake"}
     \/ gui \in {"init wakes", "fini wakes"}

\* No thread is left behind, and none works while the device is replaced
\* (StopAudioOutDrainThread).
DrainStopsFirst ==
  /\ gui = "done" => drain = "none" /\ ~device
  /\ drain \in {"drain", "queue", "check", "nap"} => running \/ gui # "idle"

\* Samples that wait, and a caller that waits: both must end.
Unfinished ==
  \/ device /\ ring.fill > 0
  \/ takion = "blocked"
  \/ gui \notin {"idle", "done"}
=============================================================================
