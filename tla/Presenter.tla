----------------------------- MODULE Presenter ------------------------------
(***************************************************************************)
(* When frames are shown (gui/src/qmlmainwindow.cpp, Vulkan). The          *)
(* application's thread asks for a render, the thread that renders begins  *)
(* a frame of the swapchain, and a third thread submits it. Threads call   *)
(* each other through their event queues. What the frames are is left to   *)
(* FrameQueue: here they are numbers. The items of the interface that are  *)
(* drawn over them, and the pacing, are left out.                          *)
(***************************************************************************)
EXTENDS Naturals, Sequences, FiniteSets

CONSTANTS DepthLimit,  \* effectiveQueueDepthLimit
          MaxFrames,   \* bound: frames that are presented
          MaxEvents    \* bound: failures, frames whose time has not come, and what is
                       \* done to the window, the settings and the session

VARIABLES
  frames,    \* in placebo_queue, and in pending_frame; those that came
  posted,    \* events of the application's thread: their kinds, in no order
  renders,   \* events of the thread that renders
  sched,     \* update_pending, render_scheduled, render_pending,
             \* queue_stored_frame_pending, pending_frame_release_queued
  gui,       \* the application's thread: where it is, and what presentFrame saw
  render,    \* the thread that renders: where it is, and what it saw
  inFlight,  \* deferred_present_in_flight
  swap,      \* DeferredSwapThread: has_pending_task, active, where it is
  chain,     \* placebo_swapchain: whether it is made, frames that were begun
  recreate,  \* swapchain_recreate_pending
  deferred,  \* vulkan_deferred_swap_enabled
  lost,      \* vulkan_device_lost
  past       \* what happened: a count, a frame nobody was told of,
             \* and whether inFlight was overruled

presentVars ==
  <<frames, posted, renders, sched, gui, render, inFlight, swap, chain, recreate, deferred, lost, past>>

PresenterConstantsOK ==
  /\ DepthLimit \in Nat \ {0} /\ MaxFrames \in Nat /\ MaxEvents \in Nat

\* At rest a thread knows nothing of what it saw.
Idle == [at |-> "idle", busy |-> FALSE, rearm |-> FALSE]
AtRest == [at |-> "idle", present |-> FALSE, full |-> FALSE]

Init ==
  /\ frames = [queued |-> 0, waiting |-> FALSE, came |-> 0]
  /\ posted = {} /\ renders = <<>>
  /\ sched = [update |-> FALSE, scheduled |-> FALSE, pending |-> FALSE, stored |-> FALSE, release |-> FALSE]
  /\ gui = Idle
  /\ render = AtRest
  /\ inFlight = FALSE
  /\ swap = [task |-> FALSE, at |-> "idle"]
  /\ chain = [made |-> TRUE, begun |-> 0]
  /\ recreate = FALSE /\ deferred = TRUE /\ lost = FALSE
  /\ past = [events |-> 0, missed |-> FALSE, forced |-> FALSE]

-----------------------------------------------------------------------------
(* Asking for a render                                                     *)

\* scheduleUpdate on the application's thread: one update is posted at a time,
\* unless it is forced.
Scheduled(force) ==
  IF force \/ ~sched.update
  THEN posted' = posted \cup {"update"} /\ sched' = [sched EXCEPT !.update = TRUE]
  ELSE UNCHANGED <<posted, sched>>

\* hasBufferedWork, and scheduleRenderIfBacklog with it. On another thread the
\* call is posted.
Work == frames.queued > 0 \/ frames.waiting
Backlog == Work /\ ~(deferred /\ inFlight)
\* The swap thread has nothing to do and nothing to come (hasPendingWork).
SwapIdle == ~swap.task /\ swap.at \notin {"take", "submit", "done"}

Rendering == render.at # "idle"
PipelineBusy == Rendering \/ sched.scheduled \/ sched.pending

\* What need not happen.
Trouble == past.events < MaxEvents
Troubled == past' = [past EXCEPT !.events = @ + 1]

-----------------------------------------------------------------------------
(* The application's thread                                                *)

\* presentFrame reads whether anything renders, or will.
PresentFrame ==
  /\ gui.at = "idle" /\ frames.came < MaxFrames
  /\ gui' = [at |-> "push", busy |-> PipelineBusy,
             rearm |-> ~PipelineBusy /\ ~sched.stored /\ ~frames.waiting]
  /\ UNCHANGED <<frames, posted, renders, sched, render, inFlight, swap, chain, recreate, deferred, lost, past>>

\* The frame goes into the queue, or waits behind it. What waits is promoted when
\* nothing renders. It asks for a render when it saw that none would come.
PushFrame ==
  /\ gui.at = "push"
  /\ LET room == frames.queued < DepthLimit
         promote == frames.waiting /\ room /\ ~gui.busy
         direct == ~frames.waiting /\ room
     IN  /\ frames' = [queued |-> frames.queued + IF promote \/ direct THEN 1 ELSE 0,
                       waiting |-> ~direct, came |-> frames.came + 1]
         /\ IF gui.rearm \/ promote
            THEN /\ posted' = IF sched.update THEN posted ELSE posted \cup {"update"}
                 /\ sched' = [sched EXCEPT !.update = TRUE, !.stored = @ \/ ~direct,
                                           !.release = @ /\ ~promote]
            ELSE posted' = posted /\ sched' = [sched EXCEPT !.stored = @ \/ ~direct]
         /\ past' = [past EXCEPT !.missed = IF direct THEN (~gui.rearm /\ ~PipelineBusy) ELSE @]
         /\ gui' = IF direct THEN Idle ELSE [Idle EXCEPT !.at = "stored"]
  /\ UNCHANGED <<renders, render, inFlight, swap, chain, recreate, deferred, lost>>

\* The end of storePendingFrame: it asks for a render when nothing renders.
StoredFrame ==
  /\ gui.at = "stored"
  /\ IF PipelineBusy THEN UNCHANGED <<posted, sched>> ELSE Scheduled(FALSE)
  /\ gui' = [gui EXCEPT !.at = "idle"]
  /\ UNCHANGED <<frames, renders, render, inFlight, swap, chain, recreate, deferred, lost, past>>

\* An event of the application's thread: scheduleUpdate that was posted, what
\* it posts itself (update), and what finalize_render leaves for later.
Event ==
  /\ gui.at = "idle"
  /\ \E e \in posted :
       LET asks == \/ e \in {"schedule", "force"}
                   \/ e = "finalize" /\ ~(deferred /\ inFlight)
           rest == posted \ {e}
       IN  IF e = "update"
           THEN /\ posted' = rest
                /\ sched' = [sched EXCEPT !.update = FALSE, !.scheduled = TRUE, !.pending = @ \/ sched.scheduled]
                /\ renders' = IF sched.scheduled THEN renders ELSE Append(renders, "render")
           ELSE /\ renders' = renders
                /\ posted' = IF asks /\ (e = "force" \/ ~sched.update) THEN rest \cup {"update"} ELSE rest
                /\ sched' = [sched EXCEPT !.update = @ \/ asks, !.stored = @ /\ e # "finalize"]
  /\ UNCHANGED <<frames, gui, render, inFlight, swap, chain, recreate, deferred, lost, past>>

\* The window is shown (updateSwapchain): the swapchain is made, and a render is
\* posted that nobody else knows of. When it is hidden, the application's thread
\* waits until the swapchain is gone.
Expose(shown) ==
  /\ gui.at = "idle" /\ Trouble /\ ~lost
  /\ Troubled
  /\ renders' = renders \o (IF shown THEN <<"resize", "render">> ELSE <<"destroy">>)
  /\ gui' = [gui EXCEPT !.at = IF shown THEN "idle" ELSE "blocked"]
  /\ UNCHANGED <<frames, posted, sched, render, inFlight, swap, chain, recreate, deferred, lost>>

\* The setting of vsync makes the swapchain anew (updateVSync).
UpdateVSync ==
  /\ gui.at = "idle" /\ Trouble
  /\ Troubled
  /\ recreate' = TRUE
  /\ Scheduled(TRUE)
  /\ UNCHANGED <<frames, renders, gui, render, inFlight, swap, chain, deferred, lost>>

\* updateVulkanDeferredSwap: before the third thread is given up its work is
\* waited for, but a swap that is queued in between is not.
SetDeferredSwap(on) ==
  /\ gui.at = "idle" /\ Trouble /\ ~lost
  /\ Troubled
  /\ gui' = [gui EXCEPT !.at = IF on THEN "on" ELSE "drain"]
  /\ UNCHANGED <<frames, posted, renders, sched, render, inFlight, swap, chain, recreate, deferred, lost>>

Switched ==
  /\ gui.at \in {"on", "off"}
  /\ deferred' = (gui.at = "on")
  /\ past' = [past EXCEPT !.forced = @ \/ gui.at = "off"]
  /\ Scheduled(TRUE)
  /\ gui' = [gui EXCEPT !.at = "idle"]
  /\ UNCHANGED <<frames, renders, render, inFlight, swap, chain, recreate, lost>>

\* A session ends: drainRenderThread waits for the third thread and then for the
\* one that renders.
SessionEnds ==
  /\ gui.at = "idle" /\ Trouble
  /\ Troubled
  /\ gui' = [gui EXCEPT !.at = "drainAll"]
  /\ UNCHANGED <<frames, posted, renders, sched, render, inFlight, swap, chain, recreate, deferred, lost>>

\* drainDeferredSwaps: a render is asked for when no present is under way.
Drained ==
  /\ gui.at \in {"drain", "drainAll"} /\ SwapIdle
  /\ IF inFlight THEN UNCHANGED <<posted, sched>> ELSE Scheduled(FALSE)
  /\ renders' = IF gui.at = "drainAll" THEN Append(renders, "fence") ELSE renders
  /\ gui' = [gui EXCEPT !.at = IF @ = "drain" THEN "off" ELSE "blocked"]
  /\ UNCHANGED <<frames, render, inFlight, swap, chain, recreate, deferred, lost, past>>

\* What is left of the session is cleared, whatever the third thread does.
SessionGone ==
  /\ gui.at = "ended"
  /\ frames' = [frames EXCEPT !.queued = 0, !.waiting = FALSE]
  /\ inFlight' = FALSE
  /\ past' = [past EXCEPT !.forced = TRUE, !.missed = FALSE]
  /\ posted' = posted \cup {"update"}
  /\ sched' = [update |-> TRUE, scheduled |-> FALSE, pending |-> FALSE, stored |-> FALSE, release |-> FALSE]
  /\ gui' = [gui EXCEPT !.at = "idle"]
  /\ UNCHANGED <<renders, render, swap, chain, recreate, deferred, lost>>

Gui == PushFrame \/ StoredFrame \/ Event \/ Switched \/ Drained \/ SessionGone

-----------------------------------------------------------------------------
(* The thread that renders                                                 *)

Goes(at) == render' = [AtRest EXCEPT !.at = at]

\* The other events: the swapchain is made when there is none (resizeSwapchain),
\* or destroyed once the third thread is done with it. The fence is what
\* drainRenderThread waits for.
Resize ==
  /\ render.at = "idle" /\ renders # <<>> /\ Head(renders) = "resize"
  /\ SwapIdle
  /\ renders' = Tail(renders)
  /\ chain' = [chain EXCEPT !.made = TRUE]
  /\ UNCHANGED <<frames, posted, sched, gui, render, inFlight, swap, recreate, deferred, lost, past>>

Destroy ==
  /\ render.at = "idle" /\ renders # <<>> /\ Head(renders) = "destroy"
  /\ chain.made => SwapIdle
  /\ renders' = Tail(renders)
  /\ chain' = [chain EXCEPT !.made = FALSE]
  /\ gui' = [gui EXCEPT !.at = "idle"]
  /\ UNCHANGED <<frames, posted, sched, render, inFlight, swap, recreate, deferred, lost, past>>

Fence ==
  /\ render.at = "idle" /\ renders # <<>> /\ Head(renders) = "fence"
  /\ renders' = Tail(renders)
  /\ gui' = [gui EXCEPT !.at = "ended"]
  /\ UNCHANGED <<frames, posted, sched, render, inFlight, swap, chain, recreate, deferred, lost, past>>

\* A frame that waits goes into the queue when there is room
\* (applyPendingFrameIfQueueHasCapacity): the flag of stored frames stays set.
Apply ==
  IF frames.waiting /\ frames.queued < DepthLimit
  THEN /\ frames' = [frames EXCEPT !.queued = @ + 1, !.waiting = FALSE]
       /\ sched' = [sched EXCEPT !.stored = TRUE, !.release = FALSE]
       /\ posted' = posted \cup {"schedule"}
  ELSE UNCHANGED <<frames, sched, posted>>

\* render: nothing any more on a device that is lost. Otherwise what was to be
\* released, and then, while a present is under way, only its end.
Render ==
  /\ render.at = "idle" /\ renders # <<>> /\ Head(renders) = "render"
  /\ renders' = Tail(renders)
  /\ IF lost
     THEN /\ sched' = [sched EXCEPT !.scheduled = FALSE, !.pending = FALSE]
          /\ UNCHANGED <<frames, posted, render>>
     ELSE /\ IF sched.release THEN Apply ELSE UNCHANGED <<frames, sched, posted>>
          /\ Goes(IF deferred /\ inFlight THEN "finalize" ELSE "recreate")
  /\ UNCHANGED <<gui, inFlight, swap, chain, recreate, deferred, lost, past>>

\* The swapchain is made anew: the third thread is waited for. It may fail, and is
\* tried again then.
Recreate(fails) ==
  /\ render.at = "recreate"
  /\ fails => recreate /\ Trouble
  /\ recreate /\ chain.made => SwapIdle
  /\ recreate' = fails
  /\ chain' = [chain EXCEPT !.made = IF recreate THEN ~fails ELSE @]
  /\ IF fails THEN Troubled ELSE past' = past
  /\ posted' = IF fails THEN posted \cup {"force"}
               ELSE IF recreate THEN posted \cup {"force"} ELSE posted
  /\ Goes(IF chain'.made THEN "update" ELSE "finalize")
  /\ UNCHANGED <<frames, renders, sched, gui, inFlight, swap, deferred, lost>>

\* The queue is asked for what is to be shown. A frame whose time has come leaves
\* it; a frame that waits goes in, or will be released later.
Update(early) ==
  /\ render.at = "update"
  /\ early => frames.queued > 0 /\ Trouble
  /\ IF early THEN Troubled ELSE past' = past
  /\ LET left == IF frames.queued > 0 /\ ~early THEN frames.queued - 1 ELSE frames.queued
         waited == frames.waiting \/ frames.queued >= DepthLimit
         applies == waited /\ frames.waiting /\ left < DepthLimit
         releases == waited /\ ~applies /\ frames.waiting
     IN  /\ frames' = [frames EXCEPT !.queued = left + (IF applies THEN 1 ELSE 0),
                                     !.waiting = @ /\ ~applies]
         /\ sched' = [sched EXCEPT !.stored = @ \/ applies, !.release = (@ /\ ~applies) \/ releases]
         /\ posted' = IF applies \/ (releases /\ ~sched.release) THEN posted \cup {"schedule"} ELSE posted
         /\ render' = [render EXCEPT !.at = "start", !.full = waited /\ frames'.queued >= DepthLimit]
  /\ UNCHANGED <<renders, gui, inFlight, swap, chain, recreate, deferred, lost>>

\* finalize_render: nothing is scheduled any more. An update that came in the
\* meantime, or work that is left, asks for another.
Finalized ==
  /\ sched' = [sched EXCEPT !.scheduled = FALSE, !.pending = FALSE]
  /\ posted' = IF sched.pending THEN posted \cup {"finalize"} ELSE IF Backlog THEN posted \cup {"schedule"} ELSE posted

\* When the queue is full the render is finalized, and goes on all the same.
StartDeferred ==
  /\ render.at = "start" /\ render.full
  /\ Finalized
  /\ render' = [render EXCEPT !.full = FALSE]
  /\ UNCHANGED <<frames, renders, gui, inFlight, swap, chain, recreate, deferred, lost, past>>

\* pl_swapchain_start_frame: when it fails the swapchain is made anew, and after
\* many failures the program gives the device up.
StartFrame ==
  /\ render.at = "start" /\ ~render.full
  /\ chain' = [chain EXCEPT !.begun = @ + 1]
  /\ \E present \in BOOLEAN :
       /\ ~present => Trouble
       /\ IF present THEN past' = past ELSE Troubled
       /\ render' = [render EXCEPT !.at = "close", !.present = present]
  /\ UNCHANGED <<frames, posted, renders, sched, gui, inFlight, swap, recreate, deferred, lost>>

StartFails(gives) ==
  /\ render.at = "start" /\ ~render.full /\ Trouble
  /\ Troubled
  /\ lost' = gives
  /\ IF gives
     THEN deferred' = FALSE /\ recreate' = FALSE /\ inFlight' = FALSE /\ posted' = posted
     ELSE recreate' = TRUE /\ posted' = posted \cup {"force"} /\ UNCHANGED <<deferred, inFlight>>
  /\ Goes("finalize")
  /\ UNCHANGED <<frames, renders, sched, gui, swap, chain>>

\* close_started_frame: the third thread submits what is to be presented, or this
\* one does.
Close ==
  /\ render.at = "close"
  /\ IF render.present /\ deferred /\ ~inFlight
     THEN inFlight' = TRUE /\ Goes("enqueue") /\ chain' = chain
     ELSE chain' = [chain EXCEPT !.begun = @ - 1] /\ Goes("finalize") /\ inFlight' = inFlight
  /\ UNCHANGED <<frames, posted, renders, sched, gui, swap, recreate, deferred, lost, past>>

Enqueue ==
  /\ render.at = "enqueue"
  /\ swap' = [swap EXCEPT !.task = TRUE]
  /\ Goes("finalize")
  /\ UNCHANGED <<frames, posted, renders, sched, gui, inFlight, chain, recreate, deferred, lost, past>>

Finalize ==
  /\ render.at = "finalize"
  /\ Finalized
  /\ Goes("end")
  /\ UNCHANGED <<frames, renders, gui, inFlight, swap, chain, recreate, deferred, lost, past>>

\* The end of RenderActiveGuard, when the thread is no longer active: a frame that
\* waits is to be released, and other work asks for a render.
RenderEnds ==
  /\ render.at = "end"
  /\ IF frames.waiting
     THEN /\ sched' = [sched EXCEPT !.release = TRUE]
          /\ posted' = IF sched.release THEN posted ELSE posted \cup {"schedule"}
     ELSE sched' = sched /\ posted' = IF Backlog THEN posted \cup {"schedule"} ELSE posted
  /\ render' = AtRest
  /\ UNCHANGED <<frames, renders, gui, inFlight, swap, chain, recreate, deferred, lost, past>>

Renderer ==
  \/ Resize \/ Destroy \/ Fence \/ Render
  \/ \E fails \in BOOLEAN : Recreate(fails)
  \/ \E early \in BOOLEAN : Update(early)
  \/ StartDeferred \/ StartFrame \/ (\E gives \in BOOLEAN : StartFails(gives))
  \/ Close \/ Enqueue \/ Finalize \/ RenderEnds

-----------------------------------------------------------------------------
(* The thread that submits: DeferredSwapThread                             *)

TakeTask ==
  /\ swap.at = "idle" /\ swap.task
  /\ swap' = [task |-> FALSE, at |-> "submit"]
  /\ UNCHANGED <<frames, posted, renders, sched, gui, render, inFlight, chain, recreate, deferred, lost, past>>

\* processDeferredSwapTask
SubmitTask ==
  /\ swap.at = "submit"
  /\ chain' = IF chain.made THEN [chain EXCEPT !.begun = @ - 1] ELSE chain
  /\ swap' = [swap EXCEPT !.at = "done"]
  /\ UNCHANGED <<frames, posted, renders, sched, gui, render, inFlight, recreate, deferred, lost, past>>

\* It is idle; then the present is not under way any more; then a render is asked
\* for: each under the mutex, and the last two only when no task came in between.
TaskDone ==
  /\ swap.at = "done"
  /\ swap' = [swap EXCEPT !.at = "clear"]
  /\ UNCHANGED <<frames, posted, renders, sched, gui, render, inFlight, chain, recreate, deferred, lost, past>>

ClearInFlight ==
  /\ swap.at = "clear"
  /\ inFlight' = (inFlight /\ swap.task)
  /\ swap' = [swap EXCEPT !.at = "tell"]
  /\ UNCHANGED <<frames, posted, renders, sched, gui, render, chain, recreate, deferred, lost, past>>

TellPresented ==
  /\ swap.at = "tell"
  /\ posted' = IF swap.task THEN posted ELSE posted \cup {"schedule"}
  /\ swap' = [swap EXCEPT !.at = "idle"]
  /\ UNCHANGED <<frames, renders, sched, gui, render, inFlight, chain, recreate, deferred, lost, past>>

Swapper == TakeTask \/ SubmitTask \/ TaskDone \/ ClearInFlight \/ TellPresented

Next ==
  \/ PresentFrame \/ Gui
  \/ \E shown \in BOOLEAN : Expose(shown)
  \/ UpdateVSync \/ SessionEnds
  \/ \E on \in BOOLEAN : SetDeferredSwap(on)
  \/ Renderer \/ Swapper

-----------------------------------------------------------------------------
(* Properties                                                              *)

TypeOK ==
  /\ frames.queued \in 0 .. DepthLimit /\ frames.waiting \in BOOLEAN /\ frames.came \in 0 .. MaxFrames
  /\ posted \subseteq {"update", "schedule", "force", "finalize"}
  /\ renders \in Seq({"render", "resize", "destroy", "fence"})
  /\ {sched.update, sched.scheduled, sched.pending, sched.stored, sched.release} \subseteq BOOLEAN
  /\ {inFlight, recreate, deferred, lost, swap.task, chain.made} \subseteq BOOLEAN
  /\ chain.begun \in Nat

\* A frame of the swapchain is submitted before the next is begun, by either
\* thread, and only a frame that was begun is submitted. (Not when the setting or
\* the end of a session has overruled deferred_present_in_flight.)
BegunThenSubmitted == past.forced \/ chain.begun \in {0, 1}

\* The swapchain is not destroyed while a frame of it is begun.
DestroyedWhenIdle == past.forced \/ chain.made \/ chain.begun = 0

\* Nobody sleeps while there are frames to show, unless the last one came when a
\* render it had seen was over (or nobody renders any more).
Asleep == posted = {} /\ renders = <<>> /\ render.at = "idle" /\ gui.at = "idle" /\ swap.at = "idle" /\ ~swap.task
NoSleepOverFrames == Asleep /\ Work => past.missed \/ lost

\* The application's thread is not blocked forever, and frames are shown while
\* there is a swapchain.
Unfinished == gui.at \in {"drain", "drainAll", "blocked"} \/ (Work /\ chain.made /\ ~past.missed /\ ~lost)
=============================================================================
