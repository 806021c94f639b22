----------------------------- MODULE FrameQueue -----------------------------
(***************************************************************************)
(* Decoded frames on their way to the screen (gui/src/qmlmainwindow.cpp).  *)
(* The application's thread presents each one: it goes into libplacebo's   *)
(* queue, or waits behind it in pending_frame and pending_frame_overflow.  *)
(* The thread that renders takes frames out of the queue, puts waiting     *)
(* ones in and resets the queue. Copies are kept for when there is none.   *)
(* Times are whole numbers; the frame of the warm-up is left out.          *)
(***************************************************************************)
EXTENDS Integers, Sequences, FiniteSets

CONSTANTS DepthLimit,     \* effectiveQueueDepthLimit
          OverflowLimit,  \* pendingFrameOverflowLimit
          Times,          \* times of frames
          MaxFrames,      \* bound: frames that are decoded
          MaxBack,        \* bound: times that go back
          MaxResets       \* bound: resets of the queue

VARIABLES
  queue,    \* placebo_queue
  waiting,  \* pending_frame, then pending_frame_overflow
  kept,     \* kept_frame: its time
  seed,     \* reset_seed_frame: its time and generation
  line,     \* queue_pts_origin, newest_queued_frame_pts, preserve_playback_timeline
  taking,   \* pending_frame_submission_active
  release,  \* pending_frame_release_queued
  reset,    \* placebo_reset_pending, its preserve, capture, the throttling
  gui,      \* presentFrame: where it is and what it knows
  render,   \* render: where it is and what it knows
  came,     \* frames that were decoded: the number, the last time, times that went back
  freed     \* how often each frame was freed, and those refused on their way back

frameVars == <<queue, waiting, kept, seed, line, taking, release, reset, gui, render, came, freed>>

FrameQueueConstantsOK ==
  /\ DepthLimit \in Nat \ {0} /\ OverflowLimit \in Nat
  /\ Times \subseteq Nat /\ MaxFrames \in Nat /\ MaxBack \in Nat /\ MaxResets \in Nat

None == -1
NoSeed == [pts |-> None, gen |-> 0]
Nothing == [id |-> 0, pts |-> None, origin |-> None]
Idle == [at |-> "idle", frame |-> Nothing, other |-> Nothing, busy |-> FALSE, taking |-> FALSE]
Frees(ids) == [freed EXCEPT !.times = [i \in DOMAIN @ |-> @[i] + IF i \in ids THEN 1 ELSE 0]]
IdsOf(s) == {s[i].id : i \in DOMAIN s} \ {0}

Init ==
  /\ queue = <<>> /\ waiting = <<>> /\ kept = None /\ seed = NoSeed
  /\ line = [origin |-> None, newest |-> None, preserve |-> FALSE]
  /\ taking = FALSE /\ release = FALSE
  /\ reset = [pending |-> FALSE, preserve |-> FALSE, capture |-> 0, throttle |-> 0, timer |-> 0]
  /\ gui = Idle
  /\ render = [at |-> "idle", frame |-> Nothing, behind |-> FALSE, still |-> FALSE, next |-> "idle"]
  /\ came = [count |-> 0, last |-> None, back |-> 0]
  /\ freed = [times |-> [i \in 1 .. MaxFrames |-> 0], refused |-> {}]

-----------------------------------------------------------------------------
(* The frames that wait: pending_frame_mutex                               *)

\* storePendingFrame: a frame that is not newer than those that wait is freed;
\* when the overflow is full its oldest goes.
Stored(f) ==
  IF waiting # <<>> /\ f.pts <= waiting[Len(waiting)].pts
  THEN [waiting |-> waiting, freed |-> {f.id}, ok |-> FALSE]
  ELSE LET g == [f EXCEPT !.origin = line.origin]
           full == Len(waiting) > OverflowLimit
       IN  [waiting |-> Append(IF ~full THEN waiting
                               ELSE IF OverflowLimit = 0 THEN <<>>
                               ELSE <<waiting[1]>> \o Tail(Tail(waiting)), g),
            freed |-> IF ~full THEN {}
                      ELSE {waiting[IF OverflowLimit = 0 THEN 1 ELSE 2].id},
            ok |-> TRUE]

\* prunePendingFramesBeforeLocked
Pruned(w, pts) == SelectSeq(w, LAMBDA f : f.pts >= pts)

\* What is left when the first has been taken: promotePendingFrameFromOverflowLocked.
\* Nothing that waits is to be released any more.
Taken == /\ waiting' = Tail(waiting)
         /\ release' = (release /\ Len(waiting) > 1)

\* storeResetSeedFrame, and its copy of the newest frame that waits.
Seeded(pts, gen) ==
  IF gen = 0 \/ (seed.gen = gen /\ pts <= seed.pts) THEN seed ELSE [pts |-> pts, gen |-> gen]

\* queuePlaceboReset
QueueReset(preserve) ==
  reset' = [reset EXCEPT !.pending = TRUE, !.preserve = @ \/ preserve,
                         !.capture = IF @ = 0 THEN reset.throttle + 1 ELSE @]

-----------------------------------------------------------------------------
(* The application's thread: presentFrame                                  *)

\* A frame comes. A recovered one always waits, and the queue is reset when its
\* time has passed; the frame that waits is what the queue begins with then.
Present(pts, recovered) ==
  /\ gui.at = "idle" /\ came.count < MaxFrames
  /\ pts > came.last \/ came.back < MaxBack
  /\ came' = [count |-> came.count + 1, last |-> pts, back |-> came.back + IF pts > came.last THEN 0 ELSE 1]
  /\ gui' = [Idle EXCEPT !.at = IF recovered THEN "recovered" ELSE "begin",
                         !.frame = [id |-> came.count + 1, pts |-> pts, origin |-> None]]
  /\ UNCHANGED <<queue, waiting, kept, seed, line, taking, release, reset, render, freed>>

StoreRecovered ==
  /\ gui.at = "recovered"
  /\ LET s == Stored(gui.frame)
     IN  /\ waiting' = s.waiting
         /\ freed' = Frees(s.freed)
         /\ kept' = IF s.ok THEN s.waiting[Len(s.waiting)].pts ELSE kept
  /\ gui' = [gui EXCEPT !.at = "passed", !.frame.id = 0]
  /\ UNCHANGED <<queue, seed, line, taking, release, reset, render, came>>

RecoveredResets ==
  /\ gui.at = "passed"
  /\ \E passed \in BOOLEAN :
       /\ line.origin < 0 => passed
       /\ IF passed /\ ~reset.pending /\ reset.throttle < MaxResets
          THEN QueueReset(TRUE) ELSE reset' = reset
       /\ seed' = IF passed /\ waiting # <<>> THEN Seeded(waiting[Len(waiting)].pts, reset'.capture) ELSE seed
  /\ gui' = Idle
  /\ UNCHANGED <<queue, waiting, kept, line, taking, release, render, came, freed>>

\* Another frame: when the thread that renders has the queue, the frame waits.
\* When its time is before the origin the queue begins again with it.
Begin(locked) ==
  /\ gui.at = "begin"
  /\ locked => render.at # "idle"
  /\ LET back == line.origin < 0 \/ gui.frame.pts < line.origin
         old == SelectSeq(waiting, LAMBDA f : f.pts < gui.frame.pts)
     IN  IF ~locked /\ back
         THEN /\ queue' = <<>>
              /\ waiting' = Pruned(waiting, gui.frame.pts)
              /\ release' = (release /\ waiting' # <<>>)
              /\ freed' = Frees(IdsOf(queue) \cup IdsOf(old))
              /\ line' = [line EXCEPT !.origin = gui.frame.pts, !.newest = None]
         ELSE UNCHANGED <<queue, waiting, release, freed, line>>
  /\ gui' = [gui EXCEPT !.at = IF locked THEN "store" ELSE "flags"]
  /\ UNCHANGED <<kept, seed, taking, reset, render, came>>

\* What it sees of the other thread before it takes the lock again.
ReadFlags(scheduled) ==
  /\ gui.at = "flags"
  /\ gui' = [gui EXCEPT !.at = "push", !.busy = scheduled \/ render.at # "idle", !.taking = taking]
  /\ UNCHANGED <<queue, waiting, kept, seed, line, taking, release, reset, render, came, freed>>

Push(f, origin) == Append(queue, [id |-> f.id, pts |-> f.pts, rel |-> f.pts - origin])

Newest(pts) == [line EXCEPT !.newest = IF @ > pts THEN @ ELSE pts]

\* The frame goes into the queue when there is room and none waits. When one
\* waits and nothing renders, the one that waits is taken for the queue.
PushOrPromote ==
  /\ gui.at = "push"
  /\ LET exists == waiting # <<>> \/ gui.taking
         room == Len(queue) < DepthLimit
     IN  IF ~gui.busy /\ room /\ waiting # <<>>
         THEN /\ Taken
              /\ gui' = [gui EXCEPT !.at = "promote", !.other = Head(waiting)]
              /\ UNCHANGED <<queue, line>>
         ELSE /\ UNCHANGED <<waiting, release>>
              /\ IF room /\ ~exists
                 THEN /\ queue' = Push(gui.frame, line.origin)
                      /\ line' = Newest(gui.frame.pts)
                      /\ gui' = [gui EXCEPT !.at = "stale", !.frame.id = 0]
                 ELSE gui' = [gui EXCEPT !.at = "seed"] /\ UNCHANGED <<queue, line>>
  /\ UNCHANGED <<kept, seed, taking, reset, render, came, freed>>

\* The one that was taken goes in, with the origin there was when it was stored.
Promote ==
  /\ gui.at = "promote"
  /\ queue' = Push(gui.other, gui.other.origin)
  /\ line' = Newest(gui.other.pts)
  /\ gui' = [gui EXCEPT !.at = "store", !.other = Nothing]
  /\ UNCHANGED <<waiting, kept, seed, taking, release, reset, render, came, freed>>

\* While a reset is coming the frame is a candidate for what comes after it.
Seed ==
  /\ gui.at = "seed"
  /\ seed' = Seeded(gui.frame.pts, reset.capture)
  /\ gui' = [gui EXCEPT !.at = "store"]
  /\ UNCHANGED <<queue, waiting, kept, line, taking, release, reset, render, came, freed>>

\* The frame waits, and the newest that waits is kept.
Store ==
  /\ gui.at = "store"
  /\ LET s == Stored(gui.frame)
     IN  /\ waiting' = s.waiting
         /\ freed' = Frees(s.freed)
         /\ kept' = IF s.ok THEN s.waiting[Len(s.waiting)].pts ELSE kept
  /\ gui' = Idle
  /\ UNCHANGED <<queue, seed, line, taking, release, reset, render, came>>

\* Frames that waited and are older than the one that went in are dropped, and
\* that one is kept.
DropStale ==
  /\ gui.at = "stale"
  /\ LET old == SelectSeq(waiting, LAMBDA f : f.pts <= gui.frame.pts)
     IN  /\ waiting' = SelectSeq(waiting, LAMBDA f : f.pts > gui.frame.pts)
         /\ freed' = Frees(IdsOf(old))
  /\ release' = (release /\ waiting' # <<>>)
  /\ seed' = Seeded(gui.frame.pts, reset.capture)
  /\ kept' = gui.frame.pts
  /\ gui' = Idle
  /\ UNCHANGED <<queue, line, taking, reset, render, came>>

\* The timer of a reset that was throttled.
ThrottledReset ==
  /\ gui.at = "idle" /\ reset.timer # 0
  /\ IF reset.timer = reset.throttle
     THEN reset' = [reset EXCEPT !.timer = 0, !.pending = TRUE, !.capture = IF @ = 0 THEN reset.throttle + 1 ELSE @]
     ELSE reset' = [reset EXCEPT !.timer = 0]
  /\ UNCHANGED <<queue, waiting, kept, seed, line, taking, release, gui, render, came, freed>>

Gui ==
  \/ StoreRecovered \/ RecoveredResets
  \/ \E locked \in BOOLEAN : Begin(locked)
  \/ \E scheduled \in BOOLEAN : ReadFlags(scheduled)
  \/ PushOrPromote \/ Promote \/ Seed \/ Store \/ DropStale
  \/ ThrottledReset

-----------------------------------------------------------------------------
(* The thread that renders                                                 *)

Goes(at) == [render EXCEPT !.at = at]

\* render: frames that are to be released first, then a reset, then the queue.
Render ==
  /\ render.at = "idle"
  /\ render' = IF release THEN [render EXCEPT !.at = "check", !.next = "reset"] ELSE Goes("reset")
  /\ UNCHANGED <<queue, waiting, kept, seed, line, taking, release, reset, gui, came, freed>>

\* applyPendingFrameIfQueueHasCapacity
Check ==
  /\ render.at = "check"
  /\ IF waiting # <<>> /\ Len(queue) < DepthLimit
     THEN render' = Goes("take") /\ release' = release
     ELSE /\ render' = Goes(render.next)
          /\ release' = IF render.next = "idle" THEN waiting # <<>> ELSE release
  /\ UNCHANGED <<queue, waiting, kept, seed, line, taking, reset, gui, came, freed>>

\* applyPendingFrame: it takes a frame out, and says so while it has it.
\* (still: another one waits, pending_still_present)
Take ==
  /\ render.at = "take"
  /\ IF waiting = <<>>
     THEN /\ render' = Goes(render.next)
          /\ release' = FALSE
          /\ UNCHANGED <<waiting, taking>>
     ELSE /\ render' = [render EXCEPT !.at = "submit", !.frame = Head(waiting),
                                      !.still = Len(waiting) > 1]
          /\ taking' = TRUE
          /\ Taken
  /\ UNCHANGED <<queue, kept, seed, line, reset, gui, came, freed>>

\* queueStoredFrame is through with its frame; it was put somewhere, or not, and
\* then resetPlaceboQueue, if it was the frame the queue was to begin with, goes
\* on with another.
Through(ok) ==
  [render EXCEPT !.at = "submitted", !.frame = Nothing,
                 !.next = IF ok /\ @ = "fallback" THEN "update" ELSE @]

\* queueStoredFrame: a frame that is not newer than the queue's newest is freed.
\* A time before the origin begins the queue again. A full queue defers it.
Submit ==
  /\ render.at = "submit"
  /\ LET f == render.frame
         back == line.origin < 0 \/ f.pts < line.origin
         origin == IF back THEN f.pts ELSE line.origin
         old == SelectSeq(waiting, LAMBDA g : g.pts < f.pts)
     IN  IF line.newest >= 0 /\ f.pts <= line.newest
         THEN /\ freed' = Frees({f.id})
              /\ render' = Through(FALSE)
              /\ UNCHANGED <<queue, waiting, line, release>>
         ELSE /\ waiting' = IF back THEN Pruned(waiting, f.pts) ELSE waiting
              /\ release' = (release /\ (back => waiting' # <<>>))
              /\ freed' = IF back THEN Frees(IdsOf(queue) \cup IdsOf(old)) ELSE freed
              /\ LET rest == IF back THEN <<>> ELSE queue
                     newest == IF back THEN None ELSE line.newest
                 IN  IF Len(rest) < DepthLimit
                     THEN /\ queue' = Append(rest, [id |-> f.id, pts |-> f.pts, rel |-> f.pts - origin])
                          /\ line' = [origin |-> origin, newest |-> IF newest > f.pts THEN newest ELSE f.pts,
                                      preserve |-> FALSE]
                          /\ render' = Through(TRUE)
                     ELSE /\ queue' = rest
                          /\ line' = [origin |-> origin, newest |-> newest, preserve |-> FALSE]
                          /\ render' = Goes("defer")
  /\ UNCHANGED <<kept, seed, taking, reset, gui, came>>

\* It waits again, unless a newer one does: then storePendingFrame frees it, and
\* so does queueStoredFrame, which still has its own pointer to it.
Defer ==
  /\ render.at = "defer"
  /\ LET s == Stored(render.frame)
         once == Frees(s.freed)
         id == render.frame.id
     IN  /\ waiting' = s.waiting
         /\ freed' = IF s.ok THEN once
                     ELSE [times |-> [i \in DOMAIN once.times |-> once.times[i] + IF i = id THEN 1 ELSE 0],
                           refused |-> once.refused \cup {id}]
         /\ render' = Through(s.ok)
  /\ UNCHANGED <<queue, kept, seed, line, taking, release, reset, gui, came>>

\* What still waits is to be released (queuePendingFrameRelease); a caller that
\* put one in says it is not.
Submitted ==
  /\ render.at = "submitted"
  /\ taking' = FALSE
  /\ release' = IF render.next \in {"reset", "idle"} THEN FALSE
                ELSE release \/ (render.still /\ waiting # <<>>)
  /\ render' = [render EXCEPT !.at = render.next, !.still = FALSE]
  /\ UNCHANGED <<queue, waiting, kept, seed, line, reset, gui, came, freed>>

\* resetPlaceboQueue: one that comes too soon after another waits for a timer,
\* unless it is to preserve the timeline.
Reset(soon) ==
  /\ render.at = "reset"
  /\ soon => reset.pending /\ ~reset.preserve /\ reset.throttle > 0 /\ reset.throttle < MaxResets
  /\ IF ~reset.pending
     THEN /\ render' = [render EXCEPT !.at = "update"]
          /\ UNCHANGED <<queue, line, reset, freed>>
     ELSE IF soon
     THEN /\ reset' = [reset EXCEPT !.pending = FALSE, !.throttle = @ + 1, !.timer = reset.throttle + 1]
          /\ render' = [render EXCEPT !.at = "update"]
          /\ UNCHANGED <<queue, line, freed>>
     ELSE /\ reset' = [reset EXCEPT !.pending = FALSE, !.preserve = FALSE, !.throttle = @ + 1]
          /\ queue' = <<>>
          /\ freed' = Frees(IdsOf(queue))
          /\ line' = IF reset.preserve /\ line.origin >= 0
                     THEN [line EXCEPT !.newest = None, !.preserve = TRUE]
                     ELSE [origin |-> None, newest |-> None, preserve |-> FALSE]
          /\ render' = [render EXCEPT !.at = "restart", !.behind = waiting # <<>>]
  /\ UNCHANGED <<waiting, kept, seed, taking, release, gui, came>>

\* The queue begins again with the frame that was seen since, and what waited
\* and is older is dropped (applyResetSeedFrame);
Restart ==
  /\ render.at = "restart"
  /\ reset' = [reset EXCEPT !.capture = 0]
  /\ seed' = NoSeed
  /\ LET old == SelectSeq(waiting, LAMBDA f : f.pts < seed.pts)
     IN  IF seed.pts >= 0 /\ seed.gen = reset.capture
         THEN /\ waiting' = Pruned(waiting, seed.pts)
              /\ release' = (release /\ waiting' # <<>>)
              /\ freed' = Frees(IdsOf(old))
              /\ render' = [render EXCEPT !.at = "submit", !.next = "fallback",
                                          !.frame = [Nothing EXCEPT !.pts = seed.pts]]
         ELSE /\ render' = Goes("fallback")
              /\ UNCHANGED <<waiting, release, freed>>
  /\ UNCHANGED <<queue, kept, line, taking, gui, came>>

\* or, when there is none or it was refused, with the first that waits, or else
\* with a copy of the one that is kept (applyKeptFrameSnapshot).
Fallback ==
  /\ render.at = "fallback"
  /\ render' = IF render.behind THEN [render EXCEPT !.at = "take", !.next = "update"]
               ELSE IF kept < 0 THEN Goes("update")
               ELSE [render EXCEPT !.at = "submit", !.next = "update", !.frame = [Nothing EXCEPT !.pts = kept]]
  /\ UNCHANGED <<queue, waiting, kept, seed, line, taking, release, reset, gui, came, freed>>

\* pl_queue_update shows the last frame whose time has come and frees those
\* before it; none has when the mix is empty, and the kept one is put in.
Update(gone) ==
  /\ render.at = "update"
  /\ gone = 0 \/ gone < Len(queue)
  /\ \E empty \in BOOLEAN :
       /\ empty => gone = 0
       /\ queue = <<>> => empty
       /\ LET behind == waiting # <<>> \/ Len(queue) >= DepthLimit
              fill == empty /\ ~behind /\ kept >= 0
              origin == IF line.origin < 0 THEN kept ELSE line.origin
          IN  /\ queue' = IF fill THEN Append(queue, [id |-> 0, pts |-> kept, rel |-> kept - origin])
                          ELSE SubSeq(queue, gone + 1, Len(queue))
              /\ line' = IF fill THEN [line EXCEPT !.origin = origin,
                                                   !.newest = IF @ > kept THEN @ ELSE kept]
                         ELSE line
              /\ freed' = Frees(IdsOf(SubSeq(queue, 1, gone)))
              /\ render' = IF behind THEN [render EXCEPT !.at = "check", !.next = "idle"] ELSE Goes("idle")
  /\ UNCHANGED <<waiting, kept, seed, taking, release, reset, gui, came>>

\* A mix with a frame that cannot be shown asks for a reset (schedulePlaceboReset).
InvalidMix ==
  /\ render.at = "update" /\ queue # <<>>
  /\ ~reset.pending /\ reset.throttle < MaxResets
  /\ QueueReset(FALSE)
  /\ render' = Goes("idle")
  /\ UNCHANGED <<queue, waiting, kept, seed, line, taking, release, gui, came, freed>>

Renderer ==
  \/ Render \/ Check \/ Take \/ Submit \/ Defer \/ Submitted
  \/ \E soon \in BOOLEAN : Reset(soon)
  \/ Restart \/ Fallback
  \/ \E gone \in 0 .. DepthLimit : Update(gone)
  \/ InvalidMix

Next ==
  \/ \E pts \in Times, recovered \in BOOLEAN : Present(pts, recovered)
  \/ Gui
  \/ Renderer

-----------------------------------------------------------------------------
(* Properties                                                              *)

Frame == [id : 0 .. MaxFrames, pts : Times \cup {None}, origin : Times \cup {None}]

TypeOK ==
  /\ \A i \in DOMAIN queue : queue[i].id \in 0 .. MaxFrames /\ queue[i].pts \in Times
  /\ waiting \in Seq(Frame) /\ Len(waiting) <= OverflowLimit + 1
  /\ Len(queue) <= DepthLimit + 1
  /\ {kept, seed.pts, line.origin, line.newest} \subseteq Times \cup {None}
  /\ {taking, release, line.preserve, reset.pending, reset.preserve} \subseteq BOOLEAN
  /\ gui.frame \in Frame /\ gui.other \in Frame /\ render.frame \in Frame
  /\ freed.times \in [1 .. MaxFrames -> Nat] /\ freed.refused \subseteq 0 .. came.count

\* A frame has one owner until it is freed, once: it is in the queue, it waits,
\* or a thread has it in its hand (frame_data of pl_queue_push, take_ownership).
\* (Known fault: one that came back from a full queue and was refused there, as
\* a newer one waits, is freed twice.)
Owners(id) ==
  Cardinality({i \in DOMAIN queue : queue[i].id = id})
  + Cardinality({i \in DOMAIN waiting : waiting[i].id = id})
  + Cardinality({f \in {1} : gui.frame.id = id}) + Cardinality({f \in {1} : gui.other.id = id})
  + Cardinality({f \in {1} : render.frame.id = id})

OneOwner ==
  \A id \in 1 .. came.count :
    /\ Owners(id) <= 1
    /\ freed.times[id] = IF Owners(id) = 1 THEN 0 ELSE IF id \in freed.refused THEN 2 ELSE 1

\* The frames that wait are in the order of their times.
WaitingInOrder == \A i, j \in DOMAIN waiting : i < j => waiting[i].pts < waiting[j].pts
=============================================================================
