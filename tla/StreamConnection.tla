--------------------------- MODULE StreamConnection ---------------------------
(***************************************************************************)
(* lib/src/streamconnection.c: connecting to the console, streaming, and   *)
(* taking everything down again.  These threads meet in it:                *)
(*   - the session thread in chiaki_stream_connection_run (run);           *)
(*   - the Takion thread, whose events and messages end in its callback;   *)
(*   - the thread of congestioncontrol.c, which sends on Takion;           *)
(*   - a user's thread that stops the connection (stopper), and one that   *)
(*     sets the state of the controller (setter).                          *)
(*                                                                         *)
(* state_mutex is held where MutexHeld says so and within each step that   *)
(* touches what it protects; feedback_sender_mutex is held by the setter   *)
(* while setter = "using".  Allocations do not fail here.                  *)
(***************************************************************************)
EXTENDS Naturals

VARIABLES run,          \* where chiaki_stream_connection_run is
          signalled,    \* its wait on state_cond has been signalled
          err,          \* its result so far
          state,        \* the phase: STATE_...
          finished,     \* state_finished
          failed,       \* state_failed
          shouldStop,   \* should_stop
          remote,       \* remote_disconnected
          early,        \* how many early streaminfos are saved
          crypt,        \* the keys: none, the secret alone, or Takion has them
          takion,       \* the Takion thread, then "closed"
          congestion,   \* the thread of congestion control
          feedback,     \* feedback_sender_active
          stopper,      \* where chiaki_stream_connection_stop is
          setter,       \* where chiaki_session_set_controller_state is
          banged,       \* the console has answered BIG
          info          \* how far the console's streaminfos got

flags == <<finished, failed>>
links == <<state, finished, failed, remote, early, crypt>>
threads == <<takion, congestion, feedback>>
users == <<shouldStop, stopper, setter>>
console == <<banged, info>>
vars == <<run, signalled, err, links, threads, users, console>>

\* "ready": about to wait; "joining": in chiaki_congestion_control_stop
MutexHeld == run \in {"ready", "joining"}

Returned == run \in {"done", "fini", "gone"}

Init ==
  /\ run = "start"
  /\ signalled = FALSE
  /\ err = "SUCCESS"
  /\ state = "IDLE"
  /\ finished = FALSE
  /\ failed = FALSE
  /\ shouldStop = FALSE
  /\ remote = FALSE
  /\ early = 0
  /\ crypt = "none"
  /\ takion = "none"
  /\ congestion = "none"
  /\ feedback = FALSE
  /\ stopper = "idle"
  /\ setter = "idle"
  /\ banged = FALSE
  /\ info = "none"

-----------------------------------------------------------------------------
(* chiaki_stream_connection_run                                            *)

\* chiaki_cond_signal(&state_cond) wakes run if it waits, and else nobody.
Signal == signalled' = (run = "blocked")

\* (bug: the stop is forgotten)
FinishedCheckNoStop == finished \/ remote

\* state_finished_cond_check
FinishedCheck == finished \/ shouldStop \/ remote

\* (bug: state_finished is not reset)
EnterStateFinished(s) == state' = s /\ failed' = FALSE /\ UNCHANGED finished

EnterState(s) == state' = s /\ finished' = FALSE /\ failed' = FALSE

\* chiaki_takion_connect, and chiaki_congestion_control_start
Start ==
  /\ run = "start"
  /\ EnterState("TAKION_CONNECT")
  /\ \/ run' = "done" /\ err' = "NETWORK" /\ UNCHANGED <<takion, congestion>>
     \/ takion' = "handshake" /\ run' = "closing" /\ err' = "THREAD" /\ UNCHANGED congestion
     \/ takion' = "handshake" /\ run' = "ready" /\ congestion' = "waiting" /\ UNCHANGED err
  /\ UNCHANGED <<signalled, remote, early, crypt, feedback, users, console>>

\* (bug: the console's disconnect is not looked at)
DisconnectUnasked(e) ==
  /\ err' = IF shouldStop THEN "CANCELED" ELSE e
  /\ early' = 0
  /\ run' = "joining"

\* the labels disconnect and err_congestion_control: DISCONNECT is sent, and
\* the congestion thread told to stop
Disconnect(e) ==
  /\ err' = IF shouldStop THEN "CANCELED" ELSE IF remote THEN "DISCONNECTED" ELSE e
  /\ early' = 0
  /\ run' = "joining"

Refuse == info' = IF info = "accepted" THEN info ELSE "refused"

\* a streaminfo is looked at: expect_streaminfo, which also sends the ack
HandleInfo ==
  \/ finished' = TRUE /\ info' = "accepted" /\ Signal /\ UNCHANGED failed
  \/ failed' = TRUE /\ Refuse /\ Signal /\ UNCHANGED finished
  \/ Refuse /\ UNCHANGED <<flags, signalled>>

\* Takion is connected, or is not: send BIG.
AfterConnect(result) ==
  /\ state = "TAKION_CONNECT"
  /\ \/ /\ shouldStop
        /\ run' = "closing"
        /\ err' = result
        /\ UNCHANGED <<state, flags, early>>
     \/ /\ ~shouldStop
        /\ result # "SUCCESS"
        /\ run' = "joining"
        /\ err' = result
        /\ UNCHANGED <<state, flags, early>>
     \/ /\ ~shouldStop
        /\ result = "SUCCESS"
        /\ EnterState("EXPECT_BANG")
        /\ \/ run' = "ready" /\ UNCHANGED <<err, early>>
           \/ Disconnect("NETWORK")
  /\ UNCHANGED <<feedback, info>>

\* (bug: the streaminfo that came early is thrown away)
UseEarlyInfoNot ==
  /\ early' = 0
  /\ finished' = FALSE
  /\ failed' = FALSE
  /\ UNCHANGED info

\* The flags are reset before the early streaminfo is looked at.
UseEarlyInfo ==
  /\ early' = 0
  /\ \/ finished' = FALSE /\ failed' = FALSE /\ info' = IF early > 0 THEN "refused" ELSE info
     \/ early > 0 /\ finished' = TRUE /\ failed' = FALSE /\ info' = "accepted"
     \/ early > 0 /\ finished' = FALSE /\ failed' = TRUE /\ info' = "refused"

AfterBang(result) ==
  /\ state = "EXPECT_BANG"
  /\ \/ /\ shouldStop \/ ~finished
        /\ Disconnect("UNKNOWN")
        /\ UNCHANGED <<state, flags, info>>
     \/ /\ ~shouldStop
        /\ finished
        /\ state' = "EXPECT_STREAMINFO"
        /\ UseEarlyInfo
        /\ run' = "ready"
        /\ UNCHANGED err
  /\ UNCHANGED feedback

\* chiaki_feedback_sender_init, under feedback_sender_mutex
AfterInfo(result) ==
  /\ state = "EXPECT_STREAMINFO"
  /\ \/ /\ shouldStop \/ ~finished
        /\ Disconnect("UNKNOWN")
        /\ UNCHANGED <<state, flags, feedback>>
     \/ /\ ~shouldStop
        /\ finished
        /\ setter = "idle"
        /\ \/ Disconnect("THREAD") /\ UNCHANGED <<state, flags, feedback>>
           \/ /\ feedback' = TRUE
              /\ EnterState("IDLE")
              /\ run' = "event"
              /\ UNCHANGED <<err, early>>
  /\ UNCHANGED info

\* A heartbeat for every timeout; else the end of the stream, which first
\* joins the thread of the feedback sender.
AfterBeat(result) ==
  /\ state = "IDLE"
  /\ \/ /\ result = "TIMEOUT"
        /\ run' = "ready"
        /\ UNCHANGED <<err, early, feedback>>
     \/ /\ result # "TIMEOUT"
        /\ setter = "idle"
        /\ feedback' = FALSE
        /\ Disconnect("SUCCESS")
  /\ UNCHANGED <<state, flags, info>>

Proceed(result) ==
  /\ AfterConnect(result) \/ AfterBang(result) \/ AfterInfo(result) \/ AfterBeat(result)
  /\ signalled' = FALSE
  /\ UNCHANGED <<remote, crypt, takion, congestion, users, banged>>

\* chiaki_cond_timedwait_pred evaluates the predicate, ...
EnterWait ==
  /\ run = "ready"
  /\ ~FinishedCheck
  /\ run' = "blocked"
  /\ UNCHANGED <<signalled, err, links, threads, users, console>>
PassWait ==
  /\ run = "ready"
  /\ FinishedCheck
  /\ Proceed("SUCCESS")

\* ... and does so again when it is woken, ...
WakeUp ==
  /\ run = "blocked"
  /\ signalled
  /\ FinishedCheck
  /\ Proceed("SUCCESS")
WakeUpInVain ==
  /\ run = "blocked"
  /\ signalled
  /\ ~FinishedCheck
  /\ signalled' = FALSE
  /\ UNCHANGED <<run, err, links, threads, users, console>>
\* (bug: only the wait of the heartbeats is a timed one)
TimeOutBeat ==
  /\ run = "blocked"
  /\ state = "IDLE"
  /\ Proceed("TIMEOUT")

\* ... but not when the time is up.
TimeOut ==
  /\ run = "blocked"
  /\ Proceed("TIMEOUT")

\* The callback of CHIAKI_EVENT_CONNECTED has returned.
EventSent ==
  /\ run = "event"
  /\ run' = "ready"
  /\ UNCHANGED <<signalled, err, links, threads, users, console>>

\* (bug: the thread is told to stop and not waited for)
CongestionTold ==
  /\ run = "joining"
  /\ run' = "closing"
  /\ UNCHANGED <<signalled, err, links, threads, users, console>>

\* chiaki_congestion_control_stop has joined its thread.
CongestionJoined ==
  /\ run = "joining"
  /\ congestion = "done"
  /\ run' = "closing"
  /\ UNCHANGED <<signalled, err, links, threads, users, console>>

\* chiaki_takion_close has joined the Takion thread; the receivers are freed.
TakionJoined ==
  /\ run = "closing"
  /\ takion = "done"
  /\ takion' = "closed"
  /\ run' = "done"
  /\ UNCHANGED <<signalled, err, links, congestion, feedback, users, console>>

\* chiaki_stream_connection_fini stops a congestion thread that was left.
Fini ==
  /\ \/ run = "done" /\ run' = "fini"
     \/ run = "fini" /\ congestion \in {"none", "done"} /\ run' = "gone"
  /\ UNCHANGED <<signalled, err, links, threads, users, console>>

Run == \/ Start \/ EnterWait \/ PassWait \/ WakeUp \/ WakeUpInVain \/ TimeOut
       \/ EventSent \/ CongestionJoined \/ TakionJoined

-----------------------------------------------------------------------------
(* The Takion thread and stream_connection_takion_cb                       *)

Callback == takion = "loop" /\ ~MutexHeld

\* CHIAKI_TAKION_EVENT_TYPE_CONNECTED; DISCONNECT at the thread's end
ConnectEvent(connected) ==
  IF state = "TAKION_CONNECT"
  THEN finished' = connected /\ failed' = ~connected /\ Signal
  ELSE UNCHANGED <<flags, signalled>>

TakionConnected ==
  /\ takion = "handshake"
  /\ ~MutexHeld
  /\ takion' = "loop"
  /\ ConnectEvent(TRUE)
  /\ UNCHANGED <<run, err, state, remote, early, crypt, congestion, feedback, users, console>>

\* The handshake fails, or receiving does: for an error of the socket, or
\* because chiaki_takion_close has signalled the stop pipe.
TakionEnds ==
  /\ takion \in {"handshake", "loop"}
  /\ takion' = "ending"
  /\ UNCHANGED <<run, signalled, err, links, congestion, feedback, users, console>>

TakionDisconnected ==
  /\ takion = "ending"
  /\ ~MutexHeld
  /\ takion' = "done"
  /\ ConnectEvent(FALSE)
  /\ UNCHANGED <<run, err, state, remote, early, crypt, congestion, feedback, users, console>>

\* The answer to BIG, of which there is one: expect_bang.  It may not decode,
\* it may refuse the version or the key, the secret may not be derived, the
\* keys not be set up.
Bang ==
  /\ Callback
  /\ ~banged
  /\ state \in {"EXPECT_BANG", "EXPECT_STREAMINFO", "IDLE"}
  /\ banged' = TRUE
  /\ IF state = "EXPECT_BANG"
     THEN \/ finished' = TRUE /\ crypt' = "set" /\ Signal /\ UNCHANGED failed
          \/ failed' = TRUE /\ crypt' \in {"none", "secret"} /\ Signal /\ UNCHANGED finished
          \/ UNCHANGED <<flags, crypt, signalled>>
     ELSE UNCHANGED <<flags, crypt, signalled>>
  /\ UNCHANGED <<run, err, state, remote, early, threads, users, info>>

\* (bug: each early streaminfo is saved, over the one saved before)
SaveEarlyAgain == early' = early + 1 /\ info' = "arrived"

\* expect_bang keeps the first streaminfo that comes before its time.
SaveEarly ==
  \/ early = 0 /\ early' = 1 /\ info' = "arrived"
  \/ early > 0 /\ UNCHANGED <<early, info>>

StreamInfo ==
  /\ Callback
  /\ \/ state = "EXPECT_BANG" /\ SaveEarly /\ UNCHANGED <<flags, signalled>>
     \/ /\ state = "EXPECT_STREAMINFO"
        /\ HandleInfo
        /\ UNCHANGED early
  /\ UNCHANGED <<run, err, state, remote, crypt, threads, users, banged>>

\* (bug: nobody is told)
HandleDisconnectQuietly == remote' = TRUE /\ UNCHANGED signalled

\* takion_data_handle_disconnect
HandleDisconnect == remote' = TRUE /\ Signal

\* DISCONNECT is understood in every phase.
RemoteDisconnect ==
  /\ Callback
  /\ HandleDisconnect
  /\ UNCHANGED <<run, err, state, flags, early, crypt, threads, users, console>>

Takion ==
  TakionConnected \/ TakionEnds \/ TakionDisconnected \/ Bang \/ StreamInfo \/ RemoteDisconnect

-----------------------------------------------------------------------------
(* congestion_control_thread_func                                          *)

CongestionStop == run \in {"joining", "fini"}

\* The interval is over: chiaki_takion_send_congestion.
CongestionSend == congestion = "waiting" /\ congestion' = "sending"
CongestionSent ==
  /\ congestion = "sending"
  /\ congestion' = IF CongestionStop THEN "done" ELSE "waiting"
CongestionStopped == congestion = "waiting" /\ CongestionStop /\ congestion' = "done"

Congestion ==
  /\ CongestionSend \/ CongestionSent \/ CongestionStopped
  /\ UNCHANGED <<run, signalled, err, links, takion, feedback, users, console>>

-----------------------------------------------------------------------------
(* The user's threads                                                      *)

\* chiaki_stream_connection_stop signals after it has released the mutex.
Stop ==
  /\ stopper = "idle"
  /\ ~MutexHeld
  /\ run # "gone"
  /\ shouldStop' = TRUE
  /\ stopper' = "signal"
  /\ UNCHANGED <<run, signalled, err, links, threads, setter, console>>
StopSignal ==
  /\ stopper = "signal"
  /\ stopper' = "done"
  /\ Signal
  /\ UNCHANGED <<run, err, links, threads, shouldStop, setter, console>>

\* chiaki_session_set_controller_state, with feedback_sender_mutex held
SetController ==
  /\ \/ setter = "idle" /\ feedback /\ setter' = "using"
     \/ setter = "using" /\ setter' = "idle"
  /\ UNCHANGED <<run, signalled, err, links, threads, shouldStop, stopper, console>>

Next == Run \/ Fini \/ Takion \/ Congestion \/ Stop \/ StopSignal \/ SetController

Spec == Init /\ [][Next]_vars

\* The threads are scheduled, a timed wait ends though it is woken in vain (its
\* limit is a point in time), nobody who takes feedback_sender_mutex over and
\* over keeps run from it for ever, and Takion's thread ends once its stop pipe
\* is signalled.  Nothing is asked of the console.
FairSpec ==
  /\ Spec
  /\ SF_vars(Run)
  /\ WF_vars(TimeOut)
  /\ WF_vars(run = "closing" /\ TakionEnds)
  /\ WF_vars(TakionDisconnected)
  /\ WF_vars(Congestion)
  /\ WF_vars(setter = "using" /\ SetController)

-----------------------------------------------------------------------------
(* Properties                                                              *)

PlaceTypes ==
  /\ run \in {"start", "ready", "blocked", "event", "joining", "closing",
              "done", "fini", "gone"}
  /\ err \in {"SUCCESS", "TIMEOUT", "NETWORK", "THREAD", "UNKNOWN",
              "CANCELED", "DISCONNECTED"}
  /\ state \in {"IDLE", "TAKION_CONNECT", "EXPECT_BANG", "EXPECT_STREAMINFO"}
  /\ crypt \in {"none", "secret", "set"}
  /\ takion \in {"none", "handshake", "loop", "ending", "done", "closed"}
  /\ congestion \in {"none", "waiting", "sending", "done"}
  /\ stopper \in {"idle", "signal", "done"}
  /\ setter \in {"idle", "using"}
  /\ info \in {"none", "arrived", "refused", "accepted"}
  /\ early \in 0..1

FlagTypes ==
  /\ signalled \in BOOLEAN
  /\ finished \in BOOLEAN
  /\ failed \in BOOLEAN
  /\ shouldStop \in BOOLEAN
  /\ remote \in BOOLEAN
  /\ feedback \in BOOLEAN
  /\ banged \in BOOLEAN

TypeOK == PlaceTypes /\ FlagTypes

\* "signaled on change of state_finished or should_stop"
\* (streamconnection.h:64): run never sits out the time of a wait whose
\* condition has come true, because nobody told it.
NoMissedSignal ==
  run = "blocked" /\ FinishedCheck => signalled \/ stopper = "signal"

\* A streaminfo may overtake BANG, or come between BANG and the moment run
\* sees it.  When run waits for the streaminfo, the one that has come has
\* been looked at.
EarlyInfoUsed ==
  run \in {"ready", "blocked"} /\ state = "EXPECT_STREAMINFO" => info # "arrived"

\* CHIAKI_EVENT_CONNECTED is sent only after both halves of the handshake:
\* Takion has the keys, and a streaminfo was accepted.
ConnectedAfterHandshake == run = "event" => crypt = "set" /\ info = "accepted"

\* What the session makes of the result (session.c:684-705): it tells the user
\* that the session was stopped, or why the console left, which must be true.
\* Once connected, the stream ends for one of these two reasons only.
Connected == state = "IDLE" /\ run # "start"
ResultTellsWhy ==
  Returned => /\ err \in {"SUCCESS", "CANCELED"} => shouldStop
              /\ err = "DISCONNECTED" => remote
              /\ Connected => err \in {"CANCELED", "DISCONNECTED"}

\* "Thread-safe while Takion is running" (takion.h:239), "only if this is true,
\* feedback_sender may be accessed!" (streamconnection.h:55): whoever sends on
\* Takion has ended before it is closed.  The congestion thread has when the
\* stream got beyond connecting.
SendersStopFirst ==
  /\ takion = "closed" => ~feedback
  /\ takion = "closed" /\ state # "TAKION_CONNECT" => congestion # "sending"
  /\ setter = "using" => feedback

\* "Thread-safe while Takion is running." (takion.h:239, of
\* chiaki_takion_send_congestion)
CongestionWhileRunning == congestion = "sending" => takion # "closed"

\* The user's stop and the console's DISCONNECT end the stream, at any time.
ReturnsWhenToldTo == (shouldStop \/ remote) /\ run # "start" ~> Returned

\* Connecting ends, with a stream or an error, whatever the console does.
ConnectingEnds == run # "start" /\ state # "IDLE" ~> Returned \/ state = "IDLE"
=============================================================================
