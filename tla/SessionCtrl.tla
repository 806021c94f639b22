----------------------------- MODULE SessionCtrl -----------------------------
(***************************************************************************)
(* lib/src/session.c and lib/src/ctrl.c: the life of a session, and the    *)
(* thread that keeps the control connection to the console meanwhile.      *)
(*   - the session thread (sess) asks for a session, starts ctrl, waits for*)
(*     the session id or passes PINs on, measures (Senkusha), streams and  *)
(*     quits;                                                              *)
(*   - the ctrl thread (ctrl) connects, handles what the console sends, and*)
(*     sends what others leave to it;                                      *)
(*   - the user's threads stop the session (stopper), enter PINs and queue *)
(*     messages (sender).                                                  *)
(*                                                                         *)
(* Two mutexes are held across steps, state_mutex by the session thread and*)
(* notif_mutex by the ctrl thread: StateFree and NotifFree.  All else that *)
(* locks one of them does so within a step.  The connection is not over    *)
(* PSN; threads can be created, memory and random numbers be had.          *)
(***************************************************************************)
EXTENDS Integers

CONSTANTS MaxMsgs,   \* bound: how many messages the user queues in all
          Quiet      \* the console keeps still until it has the PIN it asked for

ASSUME SessionAssumption == MaxMsgs \in Nat /\ Quiet \in BOOLEAN

VARIABLES sess,          \* where session_thread_func is
          await,         \* which of its waits it is in
          signalled,     \* the wait has been signalled
          shouldStop,    \* session->should_stop
          ctrlFailed,    \* session->ctrl_failed
          idReceived,    \* session->ctrl_session_id_received
          pinRequested,  \* session->ctrl_login_pin_requested
          pinEntered,    \* session->login_pin_entered
          reason,        \* session->quit_reason
          ctrl,          \* where ctrl_thread_func is
          retried,       \* ctrl_request_retry
          ctrlStop,      \* ctrl->should_stop
          ctrlPin,       \* ctrl->login_pin_entered
          ctrlAsked,     \* ctrl->login_pin_requested
          pipe,          \* notif_pipe is readable
          msgs,          \* how many messages are in msg_queue
          stopper,       \* where chiaki_session_stop is
          sender,        \* where chiaki_ctrl_send_message is
          queued,        \* how often it was called
          asked          \* the console has asked for a PIN and has none yet

session == <<sess, await, signalled>>
flags == <<shouldStop, ctrlFailed, idReceived, pinRequested, pinEntered>>
ctrlVars == <<ctrl, retried, ctrlStop, ctrlPin, ctrlAsked, pipe, msgs>>
users == <<stopper, sender, queued>>
vars == <<session, flags, reason, ctrlVars, users, asked>>

StateFree == sess \notin {"ready", "setPin", "senkusha"}
NotifFree == ctrl \notin {"request", "tcpFailed", "connectFailed", "loop", "gotId", "storeId",
                          "gotPinReq", "latePinReq", "gotPinIncorrect", "broken", "notified"}

Init ==
  /\ sess = "request"
  /\ await = "start"
  /\ signalled = FALSE
  /\ shouldStop = FALSE
  /\ ctrlFailed = FALSE
  /\ idReceived = FALSE
  /\ pinRequested = FALSE
  /\ pinEntered = FALSE
  /\ reason = "NONE"
  /\ ctrl = "none"
  /\ retried = FALSE
  /\ ctrlStop = FALSE
  /\ ctrlPin = FALSE
  /\ ctrlAsked = FALSE
  /\ pipe = FALSE
  /\ msgs = 0
  /\ stopper = "idle"
  /\ sender = "idle"
  /\ queued = 0
  /\ asked = FALSE

\* chiaki_cond_signal(&session->state_cond).  It comes after the mutex was
\* released, but is one step with the change it follows: a session thread that
\* is not blocked then looks at the change before it blocks.
Signal == signalled' = (sess = "blocked")

-----------------------------------------------------------------------------
(* session_thread_func                                                     *)

\* session_thread_request_session, and the start of ctrl.  A stop cancels it.
Request ==
  /\ sess = "request"
  /\ \/ /\ sess' = "ready"
        /\ ctrl' = "start"
        /\ UNCHANGED reason
     \/ /\ sess' = "quit"
        /\ \/ reason' = "SESSION_REQUEST"
           \/ shouldStop /\ reason' = "STOPPED"
        /\ UNCHANGED ctrl
  /\ UNCHANGED <<await, signalled, flags, retried, ctrlStop, ctrlPin, ctrlAsked, pipe, msgs,
                 users, asked>>

\* session_check_state_pred_pin and session_check_state_pred_ctrl_start
WaitEnds ==
  \/ shouldStop
  \/ ctrlFailed
  \/ await = "pin" /\ pinEntered
  \/ await # "pin" /\ (idReceived \/ pinRequested)

QuitFor(why) == sess' = "stopCtrl" /\ reason' = why

\* the loop on ctrl_login_pin_requested: LOGIN_PIN_REQUEST is sent
AskPin == sess' = "ready" /\ await' = "pin" /\ pinRequested' = FALSE /\ UNCHANGED reason

HaveId == IF idReceived THEN "senkusha" ELSE "fallback"

\* After the wait for a PIN nothing but a PIN is left; after the wait for its
\* effect, a failure of ctrl is not looked at.
AfterWait ==
  /\ signalled' = FALSE
  /\ \/ shouldStop /\ QuitFor("STOPPED") /\ UNCHANGED <<await, pinRequested>>
     \/ /\ ~shouldStop
        /\ ctrlFailed
        /\ await # "reply"
        /\ QuitFor(IF reason = "NONE" THEN "CTRL_UNKNOWN" ELSE reason)
        /\ UNCHANGED <<await, pinRequested>>
     \/ /\ ~shouldStop
        /\ ctrlFailed => await = "reply"
        /\ \/ await = "pin" /\ sess' = "setPin" /\ UNCHANGED <<await, pinRequested, reason>>
           \/ await # "pin" /\ pinRequested /\ AskPin
           \/ await # "pin" /\ ~pinRequested /\ sess' = HaveId /\ UNCHANGED <<await, pinRequested, reason>>
  /\ UNCHANGED <<shouldStop, ctrlFailed, idReceived, pinEntered, ctrlVars, users, asked>>

EnterWait ==
  /\ sess = "ready"
  /\ ~WaitEnds
  /\ sess' = "blocked"
  /\ UNCHANGED <<await, signalled, flags, reason, ctrlVars, users, asked>>
PassWait == sess = "ready" /\ WaitEnds /\ AfterWait
WakeUp == sess = "blocked" /\ signalled /\ WaitEnds /\ AfterWait
WakeUpInVain ==
  /\ sess = "blocked"
  /\ signalled
  /\ ~WaitEnds
  /\ signalled' = FALSE
  /\ UNCHANGED <<sess, await, flags, reason, ctrlVars, users, asked>>

\* There is no time limit for the user.
TimeOut == sess = "blocked" /\ await # "pin" /\ AfterWait

\* (bug: the ctrl thread is not told)
SetPinQuietly ==
  /\ sess = "setPin"
  /\ NotifFree
  /\ ctrlPin' = TRUE
  /\ pinEntered' = FALSE
  /\ sess' = "ready"
  /\ await' = "reply"
  /\ UNCHANGED <<signalled, shouldStop, ctrlFailed, idReceived, pinRequested, reason,
                 ctrl, retried, ctrlStop, ctrlAsked, pipe, msgs, users, asked>>

\* chiaki_ctrl_set_login_pin, called with state_mutex held
SetPin ==
  /\ sess = "setPin"
  /\ NotifFree
  /\ ctrlPin' = TRUE
  /\ pipe' = TRUE
  /\ pinEntered' = FALSE
  /\ sess' = "ready"
  /\ await' = "reply"
  /\ UNCHANGED <<signalled, shouldStop, ctrlFailed, idReceived, pinRequested, reason,
                 ctrl, retried, ctrlStop, ctrlAsked, msgs, users, asked>>

\* ctrl_message_set_fallback_session_id, called without state_mutex
Fallback ==
  /\ sess = "fallback"
  /\ idReceived' = TRUE
  /\ sess' = "senkusha"
  /\ UNCHANGED <<await, signalled, shouldStop, ctrlFailed, pinRequested, pinEntered, reason,
                 ctrlVars, users, asked>>

\* chiaki_senkusha_run, with state_mutex held from beginning to end; when it
\* fails the session goes on.
Senkusha ==
  /\ sess = "senkusha"
  /\ \/ shouldStop /\ QuitFor("STOPPED")
     \/ ~shouldStop /\ ctrlFailed /\ QuitFor(reason)
     \/ ~shouldStop /\ ~ctrlFailed /\ sess' = "stream" /\ UNCHANGED reason
  /\ UNCHANGED <<await, signalled, flags, ctrlVars, users, asked>>

\* (bug: every end of the stream is taken for a stop)
StreamReasonStopped == {"STOPPED"}

\* what becomes of the results of chiaki_stream_connection_run, of which
\* CANCELED comes only after a stop (module StreamConnection)
StreamReason ==
  {"STREAM_CONNECTION_UNKNOWN", "REMOTE_DISCONNECTED", "REMOTE_SHUTDOWN"}
    \cup IF shouldStop THEN {"STOPPED"} ELSE {}

Stream ==
  /\ sess = "stream"
  /\ \E why \in StreamReason : QuitFor(why)
  /\ UNCHANGED <<await, signalled, flags, ctrlVars, users, asked>>

\* (bug: the ctrl thread is not woken)
StopCtrlQuietly ==
  /\ sess = "stopCtrl"
  /\ NotifFree
  /\ ctrlStop' = TRUE
  /\ sess' = "joinCtrl"
  /\ UNCHANGED <<await, signalled, flags, reason, ctrl, retried, ctrlPin, ctrlAsked, pipe,
                 msgs, users, asked>>

\* chiaki_ctrl_stop
StopCtrl ==
  /\ sess = "stopCtrl"
  /\ NotifFree
  /\ ctrlStop' = TRUE
  /\ pipe' = TRUE
  /\ sess' = "joinCtrl"
  /\ UNCHANGED <<await, signalled, flags, reason, ctrl, retried, ctrlPin, ctrlAsked, msgs,
                 users, asked>>

\* chiaki_ctrl_join, and CHIAKI_EVENT_QUIT with the reason
Quit ==
  /\ \/ sess = "joinCtrl" /\ ctrl = "dead"
     \/ sess = "quit"
  /\ sess' = "done"
  /\ UNCHANGED <<await, signalled, flags, reason, ctrlVars, users, asked>>

Session ==
  \/ Request \/ EnterWait \/ PassWait \/ WakeUp \/ WakeUpInVain \/ TimeOut
  \/ SetPin \/ Fallback \/ Senkusha \/ StopCtrl \/ Quit

-----------------------------------------------------------------------------
(* ctrl_thread_func                                                        *)

\* the steps of the ctrl thread, but for ctrl, its place
CtrlTakes(place) == ctrl' = place /\ UNCHANGED <<sess, await, users>>

\* (bug: nobody is told of the failure)
FailQuietly(why) ==
  /\ StateFree
  /\ reason' = why
  /\ ctrlFailed' = TRUE
  /\ UNCHANGED <<signalled, shouldStop, idReceived, pinRequested, pinEntered>>

\* ctrl_failed
Fail(why) ==
  /\ StateFree
  /\ reason' = why
  /\ ctrlFailed' = TRUE
  /\ Signal
  /\ UNCHANGED <<shouldStop, idReceived, pinRequested, pinEntered>>

\* ctrl_connect_tcp releases notif_mutex for chiaki_stop_pipe_connect.
StartCtrl == ctrl = "start" /\ CtrlTakes("connecting") /\ UNCHANGED retried
Connect ==
  /\ ctrl = "connecting"
  /\ \/ CtrlTakes("request")
     \/ CtrlTakes("tcpFailed")
     \/ ctrlStop /\ CtrlTakes("connectFailed")
  /\ UNCHANGED retried

\* The request is sent and its answer awaited with notif_mutex held: a stop
\* cannot come in.  After the first timeout all is tried again.
CtrlRequest ==
  /\ ctrl = "request"
  /\ \/ CtrlTakes("loop") /\ UNCHANGED retried
     \/ CtrlTakes("connectFailed") /\ UNCHANGED retried
     \/ ~retried /\ retried' = TRUE /\ CtrlTakes("connecting")

Connecting ==
  /\ StartCtrl \/ Connect \/ CtrlRequest
  /\ UNCHANGED <<signalled, flags, reason, ctrlStop, ctrlPin, ctrlAsked, pipe, msgs, asked>>

ConnectFails ==
  /\ \/ /\ ctrl = "tcpFailed"
        /\ \E why \in {"CTRL_CONNECTION_REFUSED", "CTRL_UNKNOWN"} : Fail(why)
        /\ CtrlTakes("connectFailed")
     \/ ctrl = "connectFailed" /\ Fail("CTRL_CONNECT_FAILED") /\ CtrlTakes("dead")
  /\ UNCHANGED <<retried, ctrlStop, ctrlPin, ctrlAsked, pipe, msgs, asked>>

\* What the console may do at any time but while it waits for a PIN, if Quiet.
ConsoleActs == ~(Quiet /\ asked)

\* Something is received, and perhaps more is in recv_buf already: it is
\* handled before anything that others left.  A connection that is closed
\* ends the thread without ctrl_failed.
Receive ==
  /\ ConsoleActs
  /\ \/ ctrl = "select" /\ ~pipe
     \/ ctrl = "loop"
  /\ \/ CtrlTakes("gotId") /\ UNCHANGED <<ctrlAsked, asked>>
     \/ CtrlTakes("gotPinReq") /\ ctrlAsked' = TRUE /\ asked' = TRUE
     \/ ctrlAsked /\ CtrlTakes("gotPinIncorrect") /\ asked' = TRUE /\ UNCHANGED ctrlAsked
     \/ CtrlTakes("loop") /\ ctrlAsked' = FALSE /\ UNCHANGED asked
     \/ CtrlTakes("loop") /\ UNCHANGED <<ctrlAsked, asked>>
     \/ CtrlTakes("broken") /\ UNCHANGED <<ctrlAsked, asked>>
     \/ ctrl = "select" /\ CtrlTakes("dead") /\ UNCHANGED <<ctrlAsked, asked>>
  /\ UNCHANGED <<signalled, flags, reason, retried, ctrlStop, ctrlPin, pipe, msgs>>

\* ctrl_message_received_session_id: an id that is not valid is replaced by
\* one that is made up, unless one was received meanwhile.
HandleId ==
  /\ StateFree
  /\ \/ /\ ctrl = "gotId"
        /\ CtrlTakes(IF idReceived THEN "loop" ELSE "storeId")
        /\ UNCHANGED <<signalled, idReceived>>
     \/ /\ ctrl = "storeId"
        /\ idReceived' = TRUE
        /\ Signal
        /\ CtrlTakes("loop")
  /\ UNCHANGED <<shouldStop, ctrlFailed, pinRequested, pinEntered, reason>>

\* ctrl_message_received_login_pin_req, ctrl_message_received_login
HandlePinReq ==
  \/ /\ ctrl = "gotPinReq"
     /\ StateFree
     /\ idReceived
     /\ CtrlTakes("latePinReq")
     /\ UNCHANGED <<signalled, flags, reason>>
  \/ /\ \/ ctrl = "gotPinReq" /\ ~idReceived
        \/ ctrl = "gotPinIncorrect"
     /\ StateFree
     /\ pinRequested' = TRUE
     /\ Signal
     /\ CtrlTakes("loop")
     /\ UNCHANGED <<shouldStop, ctrlFailed, idReceived, pinEntered, reason>>
  \/ /\ ctrl = "latePinReq"
     /\ Fail("CTRL_UNKNOWN")
     /\ CtrlTakes("loop")

Broken == ctrl = "broken" /\ Fail("CTRL_UNKNOWN") /\ CtrlTakes("dead")

Handle ==
  /\ HandleId \/ HandlePinReq \/ Broken
  /\ UNCHANGED <<retried, ctrlStop, ctrlPin, ctrlAsked, pipe, msgs, asked>>

\* (bug: a stop does not keep it from waiting)
WorkWithoutStop == msgs > 0 \/ ctrlPin

Work == ctrlStop \/ msgs > 0 \/ ctrlPin

\* nothing complete is in recv_buf: is there something to do, or wait?
CheckWork ==
  /\ ctrl = "loop"
  /\ \/ Work /\ CtrlTakes("notified") /\ UNCHANGED pipe
     \/ ~Work /\ CtrlTakes("select") /\ pipe' = FALSE
  /\ UNCHANGED <<signalled, flags, reason, retried, ctrlStop, ctrlPin, ctrlAsked, msgs, asked>>

Notified == ctrl = "select" /\ pipe /\ CtrlTakes("notified") /\ UNCHANGED <<ctrlPin, msgs, asked>>

\* (bug: the queue is taken not to be empty)
SendMessageUnchecked ==
  /\ ctrl = "notified"
  /\ ~ctrlPin
  /\ ~ctrlStop
  /\ msgs' = msgs - 1
  /\ CtrlTakes("sendingMsg")
  /\ UNCHANGED <<ctrlPin, asked>>

\* first the messages, then the PIN, which leads back to the top of the loop,
\* then the stop; notif_mutex is released for what is sent
SendMessage ==
  /\ ctrl = "notified"
  /\ msgs > 0
  /\ msgs' = msgs - 1
  /\ CtrlTakes("sendingMsg")
  /\ UNCHANGED <<ctrlPin, asked>>
MessageSent == ctrl = "sendingMsg" /\ CtrlTakes("notified") /\ UNCHANGED <<ctrlPin, msgs, asked>>
SendPin ==
  /\ ctrl = "notified"
  /\ msgs = 0
  /\ ctrlPin
  /\ ctrlPin' = FALSE
  /\ CtrlTakes("sendingPin")
  /\ UNCHANGED <<msgs, asked>>
PinSent == \* it need not arrive
  /\ ctrl = "sendingPin"
  /\ asked' \in {asked, FALSE}
  /\ CtrlTakes("loop")
  /\ UNCHANGED <<ctrlPin, msgs>>
EndNotified ==
  /\ ctrl = "notified"
  /\ msgs = 0
  /\ ~ctrlPin
  /\ CtrlTakes(IF ctrlStop THEN "dead" ELSE "loop")
  /\ UNCHANGED <<ctrlPin, msgs, asked>>

DoWork ==
  /\ Notified \/ SendMessage \/ MessageSent \/ SendPin \/ PinSent \/ EndNotified
  /\ UNCHANGED <<signalled, flags, reason, retried, ctrlStop, ctrlAsked, pipe>>

Ctrl == Connecting \/ ConnectFails \/ Handle \/ CheckWork \/ DoWork

-----------------------------------------------------------------------------
(* The user's threads                                                      *)

CallStop ==
  /\ stopper = "idle"
  /\ stopper' = "call"
  /\ UNCHANGED <<session, flags, reason, ctrlVars, sender, queued, asked>>

\* chiaki_session_stop, which also stops the stream connection
Stop ==
  /\ stopper = "call"
  /\ StateFree
  /\ stopper' = "done"
  /\ shouldStop' = TRUE
  /\ Signal
  /\ UNCHANGED <<sess, await, ctrlFailed, idReceived, pinRequested, pinEntered, reason, ctrlVars,
                 sender, queued, asked>>

\* chiaki_session_set_login_pin, whether a PIN is asked for or not
SetLoginPin ==
  /\ StateFree
  /\ pinEntered' = TRUE
  /\ Signal
  /\ UNCHANGED <<sess, await, shouldStop, ctrlFailed, idReceived, pinRequested, reason, ctrlVars,
                 users, asked>>

\* chiaki_ctrl_send_message signals after it has released notif_mutex.
QueueMessage ==
  /\ sender = "idle"
  /\ NotifFree
  /\ queued < MaxMsgs
  /\ queued' = queued + 1
  /\ msgs' = msgs + 1
  /\ sender' = "signal"
  /\ UNCHANGED <<session, flags, reason, ctrl, retried, ctrlStop, ctrlPin, ctrlAsked, pipe,
                 stopper, asked>>
SignalMessage ==
  /\ sender = "signal"
  /\ pipe' = TRUE
  /\ sender' = "idle"
  /\ UNCHANGED <<session, flags, reason, ctrl, retried, ctrlStop, ctrlPin, ctrlAsked, msgs,
                 stopper, queued, asked>>

User == CallStop \/ Stop \/ SetLoginPin \/ QueueMessage \/ SignalMessage

Next == Session \/ Stream \/ Ctrl \/ Receive \/ User

Spec == Init /\ [][Next]_vars

\* The threads are scheduled and get a mutex that is released again and again;
\* waits with a time limit end; a stopped stream ends (module StreamConnection);
\* recv_buf holds few messages.  Nothing is asked of the console, or the user.
FairSpec ==
  /\ Spec
  /\ SF_vars(Session)
  /\ SF_vars(StopCtrl)
  /\ SF_vars(SetPin)
  /\ WF_vars(TimeOut)
  /\ WF_vars(shouldStop /\ Stream)
  /\ SF_vars(Ctrl)
  /\ SF_vars(CheckWork)
  /\ SF_vars(Stop)
  /\ WF_vars(SignalMessage)

-----------------------------------------------------------------------------
(* Properties                                                              *)

Reasons == {"NONE", "STOPPED", "SESSION_REQUEST", "CTRL_CONNECTION_REFUSED",
            "CTRL_CONNECT_FAILED", "CTRL_UNKNOWN", "STREAM_CONNECTION_UNKNOWN",
            "REMOTE_DISCONNECTED", "REMOTE_SHUTDOWN"}
SessPlaces == {"request", "ready", "blocked", "setPin", "fallback", "senkusha", "stream",
               "stopCtrl", "joinCtrl", "quit", "done"}
CtrlPlaces == {"none", "start", "connecting", "request", "tcpFailed", "connectFailed", "loop",
               "select", "gotId", "storeId", "gotPinReq", "latePinReq", "gotPinIncorrect",
               "broken", "notified", "sendingMsg", "sendingPin", "dead"}

PlaceTypes ==
  /\ sess \in SessPlaces
  /\ await \in {"start", "pin", "reply"}
  /\ reason \in Reasons
  /\ ctrl \in CtrlPlaces
  /\ stopper \in {"idle", "call", "done"}
  /\ sender \in {"idle", "signal"}
SessionFlagTypes ==
  /\ signalled \in BOOLEAN
  /\ shouldStop \in BOOLEAN
  /\ ctrlFailed \in BOOLEAN
  /\ idReceived \in BOOLEAN
  /\ pinRequested \in BOOLEAN
  /\ pinEntered \in BOOLEAN
CtrlFlagTypes ==
  /\ retried \in BOOLEAN
  /\ ctrlStop \in BOOLEAN
  /\ ctrlPin \in BOOLEAN
  /\ ctrlAsked \in BOOLEAN
  /\ pipe \in BOOLEAN
  /\ asked \in BOOLEAN
QueueTypes == msgs \in 0..MaxMsgs /\ queued \in 0..MaxMsgs

TypeOK == PlaceTypes /\ SessionFlagTypes /\ CtrlFlagTypes /\ QueueTypes

\* The session thread waits for a PIN without a time limit: whatever ends one
\* of its waits, in whichever thread, comes with a signal for it.
NoMissedSignal == sess = "blocked" /\ WaitEnds => signalled

\* The ctrl thread waits in select without a time limit: if a stop, a PIN or a
\* message is there for it, notif_pipe is readable or about to be, though the
\* thread empties the pipe and others write to it without the mutex.
NoMissedNotification ==
  ctrl = "select" /\ (ctrlStop \/ ctrlPin \/ msgs > 0) => pipe \/ sender = "signal"

\* CHIAKI_EVENT_QUIT tells the truth: a stop was asked for, ctrl failed, or
\* there is some reason else.
ReasonTellsWhy ==
  sess = "done" =>
    /\ reason # "NONE"
    /\ reason = "STOPPED" => shouldStop
    /\ reason \in {"CTRL_CONNECTION_REFUSED", "CTRL_CONNECT_FAILED", "CTRL_UNKNOWN"} => ctrlFailed

\* chiaki_session_stop ends the session: both mutexes are to be had, every
\* wait ends, the ctrl thread is joined, wherever the stop comes in.
StopEnds == stopper = "call" ~> sess = "done"

\* A PIN the user enters while the session asks for one is passed from thread
\* to thread and sent, unless the session ends or ctrl has.
PinIsSent ==
  await = "pin" /\ sess \in {"ready", "blocked"} /\ pinEntered
    ~> ctrl \in {"sendingPin", "dead"} \/ sess \in {"stopCtrl", "joinCtrl", "done"}

\* chiaki_ctrl_set_login_pin asserts that it gets notif_mutex (ctrl.c:255-256):
\* the session thread, which calls it with state_mutex held, does get on.
PinPassesLock == sess = "setPin" ~> sess # "setPin"

\* A session that ends because it was stopped says so: once the session thread
\* has decided on CHIAKI_QUIT_REASON_STOPPED, which is no error (session.h:116),
\* the ctrl thread, which is yet to be joined, does not replace the reason.
StoppedStays ==
  [][(sess \in {"stopCtrl", "joinCtrl"} /\ reason = "STOPPED") => (reason' = reason)]_vars
=============================================================================
