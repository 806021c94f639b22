--------------------------- MODULE FeedbackSender ---------------------------
(***************************************************************************)
(* lib/src/feedbacksender.c and the history buffer of lib/src/feedback.c:  *)
(* the application sets the state of the controller, a thread sends it.    *)
(* Sticks and motion go out as the latest state; what is pressed and       *)
(* released goes out as events, in packets that repeat the last events, so *)
(* that a lost packet does no harm.                                        *)
(***************************************************************************)
EXTENDS Naturals, Sequences, FiniteSets

CONSTANTS Sticks,       \* states of the sticks, triggers and sensors; 0 is idle
          Buttons,      \* buttons and touches
          QueueSize,    \* CHIAKI_FEEDBACK_HISTORY_PACKET_QUEUE_SIZE
          HistorySize,  \* FEEDBACK_HISTORY_BUFFER_SIZE
          Resend,       \* FEEDBACK_HISTORY_RESEND_EVENT_COUNT
          MaxEvents     \* bound

FeedbackConstantsOK ==
  /\ 0 \in Sticks /\ IsFiniteSet(Buttons)
  /\ Cardinality(Buttons) <= HistorySize  \* so many events in one call
  /\ {QueueSize, HistorySize, Resend} \subseteq Nat \ {0}

VARIABLES controller, \* controller_state, which controller_state_history_prev follows
          changed,    \* controller_state_changed
          events,     \* how many were made: event n is the nth
          history,    \* history_buf, the newest event first
          queue,      \* history_packets
          overflow,   \* a packet was displaced
          setter,     \* the application's thread: "idle", "signal"
          thread,     \* feedback_sender_thread_func
          sentPrev,   \* controller_state_prev
          console,    \* what was sent: the sticks, and the packets of events
          closer      \* chiaki_feedback_sender_fini

appVars == <<controller, changed, events, history, queue, overflow>>
vars == <<appVars, setter, thread, sentPrev, console, closer>>

Waiting == [at |-> "waiting", state |-> <<>>, history |-> <<>>]
Awake == [at |-> "awake", state |-> <<>>, history |-> <<>>]

Init ==
  /\ controller = [sticks |-> 0, down |-> {}]
  /\ changed = FALSE
  /\ events = 0 /\ history = <<>> /\ queue = <<>> /\ overflow = FALSE
  /\ setter = "idle"
  /\ thread = Awake
  /\ sentPrev = 0
  /\ console = [sticks |-> 0, packets |-> <<>>]
  /\ closer = "no"

AtMost(s, n) == SubSeq(s, 1, IF Len(s) > n THEN n ELSE Len(s))

\* feedback_sender_record_history: n events are pushed in front of the others
Recorded(n) == AtMost([i \in 1..n |-> events + n + 1 - i] \o history, HistorySize)

\* (bug: the queue is taken to be full one packet late)
EnqueueOneTooMany(packet) ==
  /\ queue' = IF Len(queue) <= QueueSize THEN Append(queue, packet)
              ELSE Append(Tail(queue), packet)
  /\ overflow' = (overflow \/ Len(queue) = QueueSize)

\* feedback_sender_flush_history_locked: the new packet takes the place of the
\* oldest one of a full queue, and becomes the last.
Enqueue(packet) ==
  /\ queue' = IF Len(queue) < QueueSize THEN Append(queue, packet)
              ELSE Append(Tail(queue), packet)
  /\ overflow' = (overflow \/ Len(queue) = QueueSize)

\* chiaki_feedback_sender_set_controller_state with a state that is not equal
SetControllerState(state) ==
  LET n == Cardinality((state.down \ controller.down) \union (controller.down \ state.down))
  IN  /\ closer = "no" /\ setter = "idle"
      /\ state # controller
      /\ events + n <= MaxEvents
      /\ controller' = state
      /\ events' = events + n
      /\ IF n > 0
         THEN Enqueue(Recorded(n)) /\ history' = AtMost(Recorded(n), Resend)
         ELSE UNCHANGED <<history, queue, overflow>>
      /\ changed' = TRUE
      /\ setter' = "signal"
      /\ UNCHANGED <<thread, sentPrev, console, closer>>

\* chiaki_cond_signal after the unlock
Signal == thread' = IF thread = Waiting THEN Awake ELSE thread

SetterSignals ==
  /\ setter = "signal"
  /\ setter' = "idle"
  /\ Signal
  /\ UNCHANGED <<appVars, sentPrev, console, closer>>

-----------------------------------------------------------------------------
(* The thread                                                              *)

\* chiaki_cond_timedwait_pred with nothing to send
Wait ==
  /\ thread = Awake
  /\ queue = <<>> /\ ~changed /\ closer = "no"
  /\ thread' = Waiting
  /\ UNCHANGED <<appVars, setter, sentPrev, console, closer>>

\* From there, or with packets queued, to the unlock.  What is sent is the
\* state of this moment, if the interval is over or the sticks have moved.
RoundTrip(elapsed) ==
  /\ closer = "no"
  /\ changed' = FALSE
  /\ LET moved == controller.sticks # sentPrev
         sends == IF changed THEN moved ELSE elapsed
     IN  thread' = [at |-> "sending",
                    state |-> IF sends THEN <<controller.sticks>> ELSE <<>>,
                    history |-> AtMost(queue, 1)]
  /\ queue' = IF queue = <<>> THEN <<>> ELSE Tail(queue)
  /\ UNCHANGED <<controller, events, history, overflow, setter, sentPrev, console, closer>>

Round == thread = Awake /\ (queue # <<>> \/ changed) /\ \E elapsed \in BOOLEAN : RoundTrip(elapsed)

\* the wait times out, FEEDBACK_STATE_TIMEOUT_MAX_MS after the last state
Timeout == thread = Waiting /\ RoundTrip(TRUE)

\* (bug: the change is noted as sent only now)
SentClearing ==
  /\ thread.at = "sending"
  /\ console' = [sticks |-> IF thread.state = <<>> THEN console.sticks ELSE thread.state[1],
                 packets |-> console.packets \o thread.history]
  /\ sentPrev' = IF thread.state = <<>> THEN sentPrev ELSE thread.state[1]
  /\ changed' = FALSE
  /\ thread' = Awake
  /\ UNCHANGED <<controller, events, history, queue, overflow, setter, closer>>

\* both packets are sent without the mutex, which is then taken again
Sent ==
  /\ thread.at = "sending"
  /\ console' = [sticks |-> IF thread.state = <<>> THEN console.sticks ELSE thread.state[1],
                 packets |-> console.packets \o thread.history]
  /\ sentPrev' = IF thread.state = <<>> THEN sentPrev ELSE thread.state[1]
  /\ thread' = Awake
  /\ UNCHANGED <<appVars, setter, closer>>

Stops ==
  /\ thread = Awake /\ closer # "no"
  /\ thread' = [Awake EXCEPT !.at = "ended"]
  /\ UNCHANGED <<appVars, setter, sentPrev, console, closer>>

\* chiaki_feedback_sender_fini sets should_stop, signals and joins
Fini ==
  /\ setter = "idle"
  /\ \/ closer = "no" /\ closer' = "signal" /\ UNCHANGED thread
     \/ closer = "signal" /\ closer' = "join" /\ Signal
     \/ closer = "join" /\ thread.at = "ended" /\ closer' = "done" /\ UNCHANGED thread
  /\ UNCHANGED <<appVars, setter, sentPrev, console>>

Steps == SetterSignals \/ Wait \/ Round \/ Sent \/ Stops \/ (closer # "no" /\ Fini)

States == [sticks : Sticks, down : SUBSET Buttons]

Next ==
  \/ \E state \in States : SetControllerState(state)
  \/ SetterSignals \/ Wait \/ Round \/ Timeout \/ Sent \/ Stops \/ Fini

-----------------------------------------------------------------------------
(* Properties                                                              *)

Packet(p) == \A i \in DOMAIN p : p[i] \in 1..events

TypeOK ==
  /\ controller \in States
  /\ changed \in BOOLEAN /\ overflow \in BOOLEAN
  /\ events \in 0..MaxEvents
  /\ Len(history) <= Resend /\ Packet(history)
  /\ Len(queue) <= QueueSize /\ \A i \in DOMAIN queue : Packet(queue[i])
  /\ setter \in {"idle", "signal"}
  /\ thread.at \in {"awake", "waiting", "sending", "ended"}
  /\ sentPrev \in Sticks /\ console.sticks \in Sticks
  /\ \A i \in DOMAIN console.packets : Packet(console.packets[i])
  /\ closer \in {"no", "signal", "join", "done"}

Packets == console.packets \o thread.history \o queue

\* Packets of events keep their order, each one begins with a newer event than
\* the one before, and no event is left out unless the queue overflowed, and
\* never the newest one.
EventsInOrder ==
  /\ \A i \in DOMAIN Packets, k \in DOMAIN Packets : i < k => Packets[i][1] < Packets[k][1]
  /\ events > 0 => Packets # <<>> /\ Packets[Len(Packets)][1] = events
  /\ ~overflow => \A n \in 1..events : \E i \in DOMAIN Packets :
                    \E j \in DOMAIN Packets[i] : Packets[i][j] = n

\* When the thread waits and nobody is about to wake it, the console was sent
\* the sticks as they are, and every packet of events.
UpToDateWhenAsleep ==
  thread = Waiting /\ setter = "idle" =>
    console.sticks = controller.sticks /\ queue = <<>> /\ ~changed

\* Why these hold. The history is the last events, a thread that does not send
\* has nothing in its hands, and the packets end with the newest event;
QueueInv ==
  /\ events \in Nat /\ Len(queue) <= QueueSize
  /\ history \in Seq(Nat) /\ Len(history) <= events
  /\ history = [i \in 1..Len(history) |-> events + 1 - i]
  /\ thread.at # "sending" => thread.history = <<>>
  /\ {console.packets, thread.history, queue} \subseteq Seq(Seq(Nat) \ {<<>>})
  /\ EventsInOrder /\ \A i \in DOMAIN Packets : Packets[i][1] <= events

\* and unless there is a change that was not looked at, the sticks are what was
\* sent or is being sent.
SticksInv ==
  /\ thread.at # "sending" => thread.state = <<>>
  /\ sentPrev = console.sticks
  /\ ~changed => controller.sticks = IF thread.state = <<>> THEN sentPrev ELSE thread.state[1]
  /\ thread = Waiting /\ setter = "idle" => queue = <<>> /\ ~changed
  /\ controller.down \subseteq Buttons

FeedbackInv == QueueInv /\ SticksInv

\* chiaki_feedback_sender_fini returns.
Unfinished == closer \in {"signal", "join"}
=============================================================================
