-------------------------- MODULE SessionCtrlProofs --------------------------
(***************************************************************************)
(* Session and ctrl for every number of messages, and for a console that   *)
(* keeps still while it waits for a PIN as well as for one that does not.  *)
(* The invariant is inductive with two additions to what the runs check:   *)
(* no more messages are in the queue than were queued, and quit_reason and *)
(* ctrl_failed tell the truth from the moment they are set.  One lemma per *)
(* part of it, one step per thread or group of its actions.                *)
(***************************************************************************)
EXTENDS SessionCtrl, TLAPS

Decided == sess \in {"stopCtrl", "joinCtrl", "quit", "done"}

ReasonInv ==
  /\ Decided => reason # "NONE"
  /\ ctrlFailed => reason # "NONE"
  /\ reason = "STOPPED" => shouldStop
  /\ reason \in {"CTRL_CONNECTION_REFUSED", "CTRL_CONNECT_FAILED", "CTRL_UNKNOWN"} => ctrlFailed

IInv ==
  /\ TypeOK
  /\ msgs <= queued
  /\ NoMissedSignal
  /\ NoMissedNotification
  /\ ReasonInv

LEMMA InitOK == Init => IInv
PROOF
  <1> SUFFICES ASSUME Init PROVE IInv
    OBVIOUS
  <1>1. PlaceTypes
    BY DEF Init, PlaceTypes, SessPlaces, CtrlPlaces, Reasons
  <1>2. SessionFlagTypes /\ CtrlFlagTypes
    BY DEF Init, SessionFlagTypes, CtrlFlagTypes
  <1>3. QueueTypes /\ msgs <= queued
    BY SessionAssumption DEF Init, QueueTypes
  <1>4. NoMissedSignal /\ NoMissedNotification
    BY DEF Init, NoMissedSignal, NoMissedNotification
  <1>5. ReasonInv
    BY DEF Init, ReasonInv, Decided
  <1> QED
    BY <1>1, <1>2, <1>3, <1>4, <1>5 DEF IInv, TypeOK

\* The threads are only where the code has a place for them.
LEMMA PlacesStep ==
  ASSUME PlaceTypes, [Next]_vars
  PROVE  PlaceTypes'
PROOF
  <1> USE DEF PlaceTypes, SessPlaces, CtrlPlaces, Reasons, session, flags, ctrlVars, users
  <1>1. CASE Session \/ Stream
    BY <1>1 DEF Session, Request, PassWait, WakeUp, TimeOut, EnterWait, AfterWait, QuitFor, AskPin,
       HaveId, WakeUpInVain, SetPin, Fallback, Senkusha, Stream, StreamReason, StopCtrl, Quit
  <1>2. CASE Connecting
    BY <1>2 DEF Connecting, StartCtrl, Connect, CtrlRequest, CtrlTakes
  <1>3. CASE ConnectFails
    BY <1>3 DEF ConnectFails, Fail, Signal, CtrlTakes
  <1>4. CASE Handle
    BY <1>4 DEF Handle, HandleId, HandlePinReq, Broken, Fail, Signal, CtrlTakes
  <1>5. CASE CheckWork
    BY <1>5 DEF CheckWork, Work, CtrlTakes
  <1>6. CASE DoWork
    BY <1>6 DEF DoWork, Notified, SendMessage, MessageSent, SendPin, PinSent, EndNotified,
       CtrlTakes
  <1>7. CASE Receive
    BY <1>7 DEF Receive, CtrlTakes
  <1>8. CASE User
    BY <1>8 DEF User, CallStop, Stop, SetLoginPin, QueueMessage, SignalMessage, Signal
  <1>9. CASE UNCHANGED vars
    BY <1>9 DEF vars
  <1> QED
    BY <1>1, <1>2, <1>3, <1>4, <1>5, <1>6, <1>7, <1>8, <1>9 DEF Next, Ctrl

\* The flags that state_mutex protects stay Boolean.
LEMMA SessionFlagsStep ==
  ASSUME SessionFlagTypes, [Next]_vars
  PROVE  SessionFlagTypes'
PROOF
  <1> USE DEF SessionFlagTypes, session, flags, ctrlVars, users
  <1>1. CASE Session \/ Stream
    BY <1>1 DEF Session, Request, PassWait, WakeUp, TimeOut, EnterWait, AfterWait, QuitFor, AskPin,
       HaveId, WakeUpInVain, SetPin, Fallback, Senkusha, Stream, StreamReason, StopCtrl, Quit
  <1>2. CASE Connecting
    BY <1>2 DEF Connecting, StartCtrl, Connect, CtrlRequest, CtrlTakes
  <1>3. CASE ConnectFails
    BY <1>3 DEF ConnectFails, Fail, Signal, CtrlTakes
  <1>4. CASE Handle
    BY <1>4 DEF Handle, HandleId, HandlePinReq, Broken, Fail, Signal, CtrlTakes
  <1>5. CASE CheckWork
    BY <1>5 DEF CheckWork, Work, CtrlTakes
  <1>6. CASE DoWork
    BY <1>6 DEF DoWork, Notified, SendMessage, MessageSent, SendPin, PinSent, EndNotified,
       CtrlTakes
  <1>7. CASE Receive
    BY <1>7 DEF Receive, CtrlTakes
  <1>8. CASE User
    BY <1>8 DEF User, CallStop, Stop, SetLoginPin, QueueMessage, SignalMessage, Signal
  <1>9. CASE UNCHANGED vars
    BY <1>9 DEF vars
  <1> QED
    BY <1>1, <1>2, <1>3, <1>4, <1>5, <1>6, <1>7, <1>8, <1>9 DEF Next, Ctrl

\* ... and those of the ctrl thread.
LEMMA CtrlFlagsStep ==
  ASSUME CtrlFlagTypes, [Next]_vars
  PROVE  CtrlFlagTypes'
PROOF
  <1> USE DEF CtrlFlagTypes, session, flags, ctrlVars, users
  <1>1. CASE Session \/ Stream
    BY <1>1 DEF Session, Request, PassWait, WakeUp, TimeOut, EnterWait, AfterWait, QuitFor, AskPin,
       HaveId, WakeUpInVain, SetPin, Fallback, Senkusha, Stream, StreamReason, StopCtrl, Quit
  <1>2. CASE Connecting
    BY <1>2 DEF Connecting, StartCtrl, Connect, CtrlRequest, CtrlTakes
  <1>3. CASE ConnectFails
    BY <1>3 DEF ConnectFails, Fail, Signal, CtrlTakes
  <1>4. CASE Handle
    BY <1>4 DEF Handle, HandleId, HandlePinReq, Broken, Fail, Signal, CtrlTakes
  <1>5. CASE CheckWork
    BY <1>5 DEF CheckWork, Work, CtrlTakes
  <1>6. CASE DoWork
    BY <1>6 DEF DoWork, Notified, SendMessage, MessageSent, SendPin, PinSent, EndNotified,
       CtrlTakes
  <1>7. CASE Receive
    BY <1>7 DEF Receive, CtrlTakes
  <1>8. CASE User
    BY <1>8 DEF User, CallStop, Stop, SetLoginPin, QueueMessage, SignalMessage, Signal
  <1>9. CASE UNCHANGED vars
    BY <1>9 DEF vars
  <1> QED
    BY <1>1, <1>2, <1>3, <1>4, <1>5, <1>6, <1>7, <1>8, <1>9 DEF Next, Ctrl

\* msg_queue holds no more than was queued: messages are taken only if there
\* are some.
LEMMA QueueStep ==
  ASSUME QueueTypes, msgs <= queued, [Next]_vars
  PROVE  QueueTypes' /\ msgs' <= queued'
PROOF
  <1> USE SessionAssumption DEF QueueTypes, session, flags, ctrlVars, users
  <1>1. CASE Session \/ Stream
    BY <1>1 DEF Session, Request, PassWait, WakeUp, TimeOut, EnterWait, AfterWait, QuitFor, AskPin,
       HaveId, WakeUpInVain, SetPin, Fallback, Senkusha, Stream, StreamReason, StopCtrl, Quit
  <1>2. CASE Connecting
    BY <1>2 DEF Connecting, StartCtrl, Connect, CtrlRequest, CtrlTakes
  <1>3. CASE ConnectFails
    BY <1>3 DEF ConnectFails, Fail, Signal, CtrlTakes
  <1>4. CASE Handle
    BY <1>4 DEF Handle, HandleId, HandlePinReq, Broken, Fail, Signal, CtrlTakes
  <1>5. CASE CheckWork
    BY <1>5 DEF CheckWork, Work, CtrlTakes
  <1>6. CASE DoWork
    <2>1. CASE SendMessage
      <3>1. msgs' = msgs - 1 /\ msgs > 0 /\ queued' = queued
        BY <1>6, <2>1 DEF DoWork, SendMessage, CtrlTakes
      <3> QED
        BY <3>1
    <2>2. CASE Notified \/ MessageSent \/ SendPin \/ PinSent \/ EndNotified
      <3>1. UNCHANGED <<msgs, queued>>
        BY <1>6, <2>2 DEF DoWork, Notified, MessageSent, SendPin, PinSent, EndNotified, CtrlTakes
      <3> QED
        BY <3>1
    <2> QED
      BY <1>6, <2>1, <2>2 DEF DoWork
  <1>7. CASE Receive
    BY <1>7 DEF Receive, CtrlTakes
  <1>8. CASE User
    BY <1>8 DEF User, CallStop, Stop, SetLoginPin, QueueMessage, SignalMessage, Signal
  <1>9. CASE UNCHANGED vars
    BY <1>9 DEF vars
  <1> QED
    BY <1>1, <1>2, <1>3, <1>4, <1>5, <1>6, <1>7, <1>8, <1>9 DEF Next, Ctrl

\* Whoever makes a condition of the session's wait true signals; a wait begins
\* only when none is.
LEMMA SignalStep ==
  ASSUME SessionFlagTypes, NoMissedSignal, [Next]_vars
  PROVE  NoMissedSignal'
PROOF
  <1> USE DEF NoMissedSignal, WaitEnds, SessionFlagTypes, session, flags, ctrlVars, users
  <1>1. CASE Session \/ Stream
    BY <1>1 DEF Session, Request, PassWait, WakeUp, TimeOut, EnterWait, AfterWait, QuitFor, AskPin,
       HaveId, WakeUpInVain, SetPin, Fallback, Senkusha, Stream, StreamReason, StopCtrl, Quit
  <1>2. CASE Connecting
    BY <1>2 DEF Connecting, StartCtrl, Connect, CtrlRequest, CtrlTakes
  <1>3. CASE ConnectFails
    BY <1>3 DEF ConnectFails, Fail, Signal, CtrlTakes
  <1>4. CASE Handle
    BY <1>4 DEF Handle, HandleId, HandlePinReq, Broken, Fail, Signal, CtrlTakes
  <1>5. CASE CheckWork
    BY <1>5 DEF CheckWork, Work, CtrlTakes
  <1>6. CASE DoWork
    BY <1>6 DEF DoWork, Notified, SendMessage, MessageSent, SendPin, PinSent, EndNotified,
       CtrlTakes
  <1>7. CASE Receive
    BY <1>7 DEF Receive, CtrlTakes
  <1>8. CASE User
    BY <1>8 DEF User, CallStop, Stop, SetLoginPin, QueueMessage, SignalMessage, Signal
  <1>9. CASE UNCHANGED vars
    BY <1>9 DEF vars
  <1> QED
    BY <1>1, <1>2, <1>3, <1>4, <1>5, <1>6, <1>7, <1>8, <1>9 DEF Next, Ctrl

\* Whoever leaves something to the ctrl thread makes notif_pipe readable; the
\* pipe is emptied only when nothing was left.
LEMMA NotificationStep ==
  ASSUME CtrlFlagTypes, QueueTypes, NoMissedNotification, [Next]_vars
  PROVE  NoMissedNotification'
PROOF
  <1> USE DEF NoMissedNotification, CtrlFlagTypes, QueueTypes, session, flags, ctrlVars, users
  <1>1. CASE Session \/ Stream
    BY <1>1 DEF Session, Request, PassWait, WakeUp, TimeOut, EnterWait, AfterWait, QuitFor, AskPin,
       HaveId, WakeUpInVain, SetPin, Fallback, Senkusha, Stream, StreamReason, StopCtrl, Quit
  <1>2. CASE Connecting
    BY <1>2 DEF Connecting, StartCtrl, Connect, CtrlRequest, CtrlTakes
  <1>3. CASE ConnectFails
    BY <1>3 DEF ConnectFails, Fail, Signal, CtrlTakes
  <1>4. CASE Handle
    BY <1>4 DEF Handle, HandleId, HandlePinReq, Broken, Fail, Signal, CtrlTakes
  <1>5. CASE CheckWork
    BY <1>5 DEF CheckWork, Work, CtrlTakes
  <1>6. CASE DoWork
    BY <1>6 DEF DoWork, Notified, SendMessage, MessageSent, SendPin, PinSent, EndNotified,
       CtrlTakes
  <1>7. CASE Receive
    BY <1>7 DEF Receive, CtrlTakes
  <1>8. CASE User
    BY <1>8 DEF User, CallStop, Stop, SetLoginPin, QueueMessage, SignalMessage, Signal
  <1>9. CASE UNCHANGED vars
    BY <1>9 DEF vars
  <1> QED
    BY <1>1, <1>2, <1>3, <1>4, <1>5, <1>6, <1>7, <1>8, <1>9 DEF Next, Ctrl

\* The reason is set by who has one: stop, failure of ctrl, end of the stream.
LEMMA ReasonStep ==
  ASSUME SessionFlagTypes, ReasonInv, [Next]_vars
  PROVE  ReasonInv'
PROOF
  <1> USE DEF ReasonInv, Decided, SessionFlagTypes, session, flags, ctrlVars, users
  <1>1. CASE Session \/ Stream
    BY <1>1 DEF Session, Request, PassWait, WakeUp, TimeOut, EnterWait, AfterWait, QuitFor, AskPin,
       HaveId, WakeUpInVain, SetPin, Fallback, Senkusha, Stream, StreamReason, StopCtrl, Quit
  <1>2. CASE Connecting
    BY <1>2 DEF Connecting, StartCtrl, Connect, CtrlRequest, CtrlTakes
  <1>3. CASE ConnectFails
    BY <1>3 DEF ConnectFails, Fail, Signal, CtrlTakes
  <1>4. CASE Handle
    BY <1>4 DEF Handle, HandleId, HandlePinReq, Broken, Fail, Signal, CtrlTakes
  <1>5. CASE CheckWork
    BY <1>5 DEF CheckWork, Work, CtrlTakes
  <1>6. CASE DoWork
    BY <1>6 DEF DoWork, Notified, SendMessage, MessageSent, SendPin, PinSent, EndNotified,
       CtrlTakes
  <1>7. CASE Receive
    BY <1>7 DEF Receive, CtrlTakes
  <1>8. CASE User
    BY <1>8 DEF User, CallStop, Stop, SetLoginPin, QueueMessage, SignalMessage, Signal
  <1>9. CASE UNCHANGED vars
    BY <1>9 DEF vars
  <1> QED
    BY <1>1, <1>2, <1>3, <1>4, <1>5, <1>6, <1>7, <1>8, <1>9 DEF Next, Ctrl

\* The invariant of all that follows.
THEOREM Invariance == Spec => []IInv
PROOF
  <1>1. Init => IInv
    BY InitOK
  <1>2. IInv /\ [Next]_vars => IInv'
    BY PlacesStep, SessionFlagsStep, CtrlFlagsStep, QueueStep, SignalStep, NotificationStep,
       ReasonStep DEF IInv, TypeOK
  <1> QED
    BY <1>1, <1>2, PTL DEF Spec

\* The variables of session.c and ctrl.c keep their types, and msg_queue its
\* bound.
THEOREM TypeCorrect == Spec => []TypeOK
PROOF
  <1>1. IInv => TypeOK
    BY DEF IInv
  <1> QED
    BY <1>1, Invariance, PTL

\* The session thread sleeps over nothing that ends its wait: no stop, PIN,
\* failure of ctrl or session id goes unnoticed, even when it waits for a PIN
\* without a time limit.
THEOREM SignalNeverMissed == Spec => []NoMissedSignal
PROOF
  <1>1. IInv => NoMissedSignal
    BY DEF IInv
  <1> QED
    BY <1>1, Invariance, PTL

\* The ctrl thread does not wait in select over a stop, a PIN or a message,
\* though several threads write notif_pipe and it empties the pipe itself.
THEOREM NotificationNeverMissed == Spec => []NoMissedNotification
PROOF
  <1>1. IInv => NoMissedNotification
    BY DEF IInv
  <1> QED
    BY <1>1, Invariance, PTL

\* CHIAKI_EVENT_QUIT carries a reason that is true.
THEOREM ReasonIsTrue == Spec => []ReasonTellsWhy
PROOF
  <1>1. IInv => ReasonTellsWhy
    BY DEF IInv, ReasonInv, ReasonTellsWhy, Decided
  <1> QED
    BY <1>1, Invariance, PTL
=============================================================================
