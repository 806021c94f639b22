----------------------- MODULE StreamConnectionProofs -----------------------
(***************************************************************************)
(* The safety of a stream connection, for every interleaving of its five   *)
(* threads and a console that answers what and when it likes.  Only the    *)
(* type and the signals are inductive alone: what is true when             *)
(* CHIAKI_EVENT_CONNECTED is sent, or when run returns, was decided        *)
(* several phases before, and what state_finished means depends on the     *)
(* phase.  The invariant follows these facts through the phases; one lemma *)
(* per part of it, one step per action or group of actions.                *)
(***************************************************************************)
EXTENDS StreamConnection, TLAPS

\* The phases in which run still may go on to the next one.
Waiting == run \in {"ready", "blocked"}
\* The result is decided.
Over == run \in {"joining", "closing"} \/ Returned

\* A streaminfo that has come is kept until it is looked at, and none comes
\* before Takion is connected.
InfoKept ==
  /\ run = "start" \/ state = "TAKION_CONNECT" => info = "none"
  /\ Waiting /\ state = "EXPECT_BANG" /\ info = "arrived" => early > 0
  /\ Waiting /\ state = "EXPECT_STREAMINFO" => info # "arrived"

\* state_finished means of each phase what the phase waits for, and once the
\* keys are set nobody takes them back.
FinishedMeans ==
  /\ state = "IDLE" => ~finished
  /\ state = "EXPECT_BANG" /\ finished => banged /\ crypt = "set"
  /\ state = "EXPECT_STREAMINFO" => crypt = "set" /\ (finished => info = "accepted")
  /\ state = "IDLE" /\ run # "start" => crypt = "set" /\ info = "accepted"

\* What ResultTellsWhy says holds from the moment the result is decided.
ResultInv ==
  Over => /\ err \in {"SUCCESS", "CANCELED"} => shouldStop
          /\ err = "DISCONNECTED" => remote
          /\ Connected => err \in {"CANCELED", "DISCONNECTED"}

\* The feedback sender is there while the stream runs; congestion control is
\* not when the stream that got beyond connecting is about to be closed.
SendersInv ==
  /\ feedback => state = "IDLE" /\ run \in {"event", "ready", "blocked"}
  /\ setter = "using" => feedback
  /\ run \in {"event", "start"} => state = "IDLE"
  /\ takion = "closed" => Returned
  /\ (run = "closing" \/ Returned) /\ state # "TAKION_CONNECT" => congestion = "done"

IInv == /\ TypeOK /\ NoMissedSignal
        /\ InfoKept /\ FinishedMeans /\ ResultInv /\ SendersInv

\* A wait has ended: run goes on with its result.
WaitEnds(result) ==
  /\ run \in {"ready", "blocked"}
  /\ result = "SUCCESS" => FinishedCheck
  /\ Proceed(result)

\* A wait ends with success only if the predicate is true, whether it was
\* true before the wait or when it was woken.
LEMMA WaitResult ==
  ASSUME PassWait \/ WakeUp \/ TimeOut
  PROVE  \E result \in {"SUCCESS", "TIMEOUT"} : WaitEnds(result)
BY DEF PassWait, WakeUp, TimeOut, WaitEnds

\* What chiaki_stream_connection_init leaves satisfies the invariant.
LEMMA InitOK == Init => IInv
PROOF
  <1> SUFFICES ASSUME Init PROVE IInv
    OBVIOUS
  <1>1. PlaceTypes
    BY DEF Init, PlaceTypes
  <1>2. FlagTypes
    BY Zenon DEF Init, FlagTypes
  <1>3. NoMissedSignal /\ InfoKept /\ FinishedMeans /\ ResultInv /\ SendersInv
    BY DEF Init, NoMissedSignal, InfoKept, FinishedMeans, ResultInv, SendersInv,
           Waiting, Over, Returned
  <1> QED
    BY <1>1, <1>2, <1>3 DEF IInv, TypeOK

\* The threads are only where the code has a place for them.
LEMMA PlacesStep ==
  ASSUME PlaceTypes, [Next]_vars
  PROVE  PlaceTypes'
PROOF
  <1> USE DEF PlaceTypes, links, flags, threads, users, console
  <1>1. CASE PassWait \/ WakeUp \/ TimeOut
    <2>1. PICK result \in {"SUCCESS", "TIMEOUT"} : WaitEnds(result)
      BY <1>1, WaitResult
    <2>2. CASE AfterConnect(result)
      BY <2>1, <2>2 DEF WaitEnds, Proceed, AfterConnect, Disconnect, EnterState
    <2>3. CASE AfterBang(result)
      BY <2>1, <2>3 DEF WaitEnds, Proceed, AfterBang, Disconnect, UseEarlyInfo
    <2>4. CASE AfterInfo(result)
      BY <2>1, <2>4 DEF WaitEnds, Proceed, AfterInfo, Disconnect, EnterState
    <2>5. CASE AfterBeat(result)
      BY <2>1, <2>5 DEF WaitEnds, Proceed, AfterBeat, Disconnect
    <2> QED
      BY <2>1, <2>2, <2>3, <2>4, <2>5 DEF WaitEnds, Proceed
  <1>2. CASE Start
    BY <1>2 DEF Start, EnterState
  <1>3. CASE EnterWait \/ WakeUpInVain \/ EventSent
    BY <1>3 DEF EnterWait, WakeUpInVain, EventSent, FinishedCheck
  <1>4. CASE CongestionJoined \/ TakionJoined \/ Fini
    BY <1>4 DEF CongestionJoined, TakionJoined, Fini
  <1>5. CASE TakionConnected \/ TakionDisconnected
    BY <1>5 DEF TakionConnected, TakionDisconnected, ConnectEvent, Signal, MutexHeld
  <1>6. CASE Bang
    BY <1>6 DEF Bang, Callback, MutexHeld, Signal
  <1>7. CASE StreamInfo
    BY <1>7 DEF StreamInfo, Callback, MutexHeld, HandleInfo, SaveEarly, Refuse, Signal
  <1>8. CASE TakionEnds \/ RemoteDisconnect
    BY <1>8 DEF TakionEnds, RemoteDisconnect, Callback, MutexHeld, HandleDisconnect, Signal
  <1>9. CASE Congestion
    BY <1>9 DEF Congestion, CongestionSend, CongestionSent, CongestionStopped, CongestionStop
  <1>10. CASE Stop \/ StopSignal \/ SetController
    BY <1>10 DEF Stop, StopSignal, SetController, MutexHeld, Signal
  <1>11. CASE UNCHANGED vars
    BY <1>11 DEF vars
  <1> QED
    BY <1>1, <1>2, <1>3, <1>4, <1>5, <1>6, <1>7, <1>8, <1>9, <1>10, <1>11
    DEF Next, Run, Takion

\* The flags stay Boolean.
LEMMA FlagsStep ==
  ASSUME FlagTypes, [Next]_vars
  PROVE  FlagTypes'
PROOF
  <1> USE DEF FlagTypes, links, flags, threads, users, console
  <1>1. CASE PassWait \/ WakeUp \/ TimeOut
    <2>1. PICK result \in {"SUCCESS", "TIMEOUT"} : WaitEnds(result)
      BY <1>1, WaitResult
    <2>2. CASE AfterConnect(result)
      BY <2>1, <2>2 DEF WaitEnds, Proceed, AfterConnect, Disconnect, EnterState
    <2>3. CASE AfterBang(result)
      BY <2>1, <2>3 DEF WaitEnds, Proceed, AfterBang, Disconnect, UseEarlyInfo
    <2>4. CASE AfterInfo(result)
      BY <2>1, <2>4 DEF WaitEnds, Proceed, AfterInfo, Disconnect, EnterState
    <2>5. CASE AfterBeat(result)
      BY <2>1, <2>5 DEF WaitEnds, Proceed, AfterBeat, Disconnect
    <2> QED
      BY <2>1, <2>2, <2>3, <2>4, <2>5 DEF WaitEnds, Proceed
  <1>2. CASE Start
    BY <1>2 DEF Start, EnterState
  <1>3. CASE EnterWait \/ WakeUpInVain \/ EventSent
    BY <1>3 DEF EnterWait, WakeUpInVain, EventSent, FinishedCheck
  <1>4. CASE CongestionJoined \/ TakionJoined \/ Fini
    BY <1>4 DEF CongestionJoined, TakionJoined, Fini
  <1>5. CASE TakionConnected \/ TakionDisconnected
    BY <1>5 DEF TakionConnected, TakionDisconnected, ConnectEvent, Signal, MutexHeld
  <1>6. CASE Bang
    BY <1>6 DEF Bang, Callback, MutexHeld, Signal
  <1>7. CASE StreamInfo
    BY <1>7 DEF StreamInfo, Callback, MutexHeld, HandleInfo, SaveEarly, Refuse, Signal
  <1>8. CASE TakionEnds \/ RemoteDisconnect
    BY <1>8 DEF TakionEnds, RemoteDisconnect, Callback, MutexHeld, HandleDisconnect, Signal
  <1>9. CASE Congestion
    BY <1>9 DEF Congestion, CongestionSend, CongestionSent, CongestionStopped, CongestionStop
  <1>10. CASE Stop \/ StopSignal \/ SetController
    BY <1>10 DEF Stop, StopSignal, SetController, MutexHeld, Signal
  <1>11. CASE UNCHANGED vars
    BY <1>11 DEF vars
  <1> QED
    BY <1>1, <1>2, <1>3, <1>4, <1>5, <1>6, <1>7, <1>8, <1>9, <1>10, <1>11
    DEF Next, Run, Takion

\* Whoever makes the predicate of the wait true signals, the stopper a step
\* later.
LEMMA SignalStep ==
  ASSUME TypeOK, NoMissedSignal, [Next]_vars
  PROVE  NoMissedSignal'
PROOF
  <1> USE DEF NoMissedSignal, FinishedCheck, links, flags, threads, users, console
  <1>1. CASE PassWait \/ WakeUp \/ TimeOut
    <2>1. PICK result \in {"SUCCESS", "TIMEOUT"} : WaitEnds(result)
      BY <1>1, WaitResult
    <2>2. CASE AfterConnect(result)
      BY <2>1, <2>2 DEF WaitEnds, Proceed, AfterConnect, Disconnect, EnterState
    <2>3. CASE AfterBang(result)
      BY <2>1, <2>3 DEF WaitEnds, Proceed, AfterBang, Disconnect, UseEarlyInfo
    <2>4. CASE AfterInfo(result)
      BY <2>1, <2>4 DEF WaitEnds, Proceed, AfterInfo, Disconnect, EnterState
    <2>5. CASE AfterBeat(result)
      BY <2>1, <2>5 DEF WaitEnds, Proceed, AfterBeat, Disconnect
    <2> QED
      BY <2>1, <2>2, <2>3, <2>4, <2>5 DEF WaitEnds, Proceed
  <1>2. CASE Start
    BY <1>2 DEF Start, EnterState
  <1>3. CASE EnterWait \/ WakeUpInVain \/ EventSent
    BY <1>3 DEF EnterWait, WakeUpInVain, EventSent, FinishedCheck
  <1>4. CASE CongestionJoined \/ TakionJoined \/ Fini
    BY <1>4 DEF CongestionJoined, TakionJoined, Fini
  <1>5. CASE TakionConnected \/ TakionDisconnected
    BY <1>5 DEF TakionConnected, TakionDisconnected, ConnectEvent, Signal, MutexHeld
  <1>6. CASE Bang
    BY <1>6 DEF Bang, Callback, MutexHeld, Signal
  <1>7. CASE StreamInfo
    <2>1. CASE state = "EXPECT_BANG"
      BY <1>7, <2>1 DEF StreamInfo
    <2>2. CASE state = "EXPECT_STREAMINFO" /\ run = "blocked"
      <3>1. CASE signalled' = (run = "blocked")
        BY <2>2, <3>1
      <3>2. CASE UNCHANGED <<flags, signalled>>
        BY <1>7, <2>2, <3>2 DEF StreamInfo
      <3> QED
        BY <1>7, <2>2, <3>1, <3>2 DEF StreamInfo, HandleInfo, Signal
    <2>3. CASE run # "blocked"
      BY <1>7, <2>3 DEF StreamInfo
    <2> QED
      BY <1>7, <2>1, <2>2, <2>3 DEF StreamInfo
  <1>8. CASE TakionEnds \/ RemoteDisconnect
    BY <1>8 DEF TakionEnds, RemoteDisconnect, Callback, MutexHeld, HandleDisconnect, Signal
  <1>9. CASE Congestion
    BY <1>9 DEF Congestion, CongestionSend, CongestionSent, CongestionStopped, CongestionStop
  <1>10. CASE Stop \/ StopSignal \/ SetController
    BY <1>10 DEF Stop, StopSignal, SetController, MutexHeld, Signal
  <1>11. CASE UNCHANGED vars
    BY <1>11 DEF vars
  <1> QED
    BY <1>1, <1>2, <1>3, <1>4, <1>5, <1>6, <1>7, <1>8, <1>9, <1>10, <1>11
    DEF Next, Run, Takion

\* A streaminfo is saved before its time, and looked at when that has come.
LEMMA InfoStep ==
  ASSUME TypeOK, InfoKept, SendersInv, [Next]_vars
  PROVE  InfoKept'
PROOF
  <1> USE DEF TypeOK, PlaceTypes, InfoKept, Waiting, SendersInv, links, flags, threads, users, console
  <1>1. CASE PassWait \/ WakeUp \/ TimeOut
    <2>1. PICK result \in {"SUCCESS", "TIMEOUT"} : WaitEnds(result)
      BY <1>1, WaitResult
    <2>2. CASE AfterConnect(result)
      BY <2>1, <2>2 DEF WaitEnds, Proceed, AfterConnect, Disconnect, EnterState
    <2>3. CASE AfterBang(result)
      BY <2>1, <2>3 DEF WaitEnds, Proceed, AfterBang, Disconnect, UseEarlyInfo
    <2>4. CASE AfterInfo(result)
      BY <2>1, <2>4 DEF WaitEnds, Proceed, AfterInfo, Disconnect, EnterState
    <2>5. CASE AfterBeat(result)
      BY <2>1, <2>5 DEF WaitEnds, Proceed, AfterBeat, Disconnect
    <2> QED
      BY <2>1, <2>2, <2>3, <2>4, <2>5 DEF WaitEnds, Proceed
  <1>2. CASE Start
    BY <1>2 DEF Start, EnterState
  <1>3. CASE EnterWait \/ WakeUpInVain \/ EventSent
    BY <1>3 DEF EnterWait, WakeUpInVain, EventSent, FinishedCheck
  <1>4. CASE CongestionJoined \/ TakionJoined \/ Fini
    BY <1>4 DEF CongestionJoined, TakionJoined, Fini
  <1>5. CASE TakionConnected \/ TakionDisconnected
    BY <1>5 DEF TakionConnected, TakionDisconnected, ConnectEvent, Signal, MutexHeld
  <1>6. CASE Bang
    BY <1>6 DEF Bang, Callback, MutexHeld, Signal
  <1>7. CASE StreamInfo
    BY <1>7 DEF StreamInfo, Callback, MutexHeld, HandleInfo, SaveEarly, Refuse, Signal
  <1>8. CASE TakionEnds \/ RemoteDisconnect
    BY <1>8 DEF TakionEnds, RemoteDisconnect, Callback, MutexHeld, HandleDisconnect, Signal
  <1>9. CASE Congestion
    BY <1>9 DEF Congestion, CongestionSend, CongestionSent, CongestionStopped, CongestionStop
  <1>10. CASE Stop \/ StopSignal \/ SetController
    BY <1>10 DEF Stop, StopSignal, SetController, MutexHeld, Signal
  <1>11. CASE UNCHANGED vars
    BY <1>11 DEF vars
  <1> QED
    BY <1>1, <1>2, <1>3, <1>4, <1>5, <1>6, <1>7, <1>8, <1>9, <1>10, <1>11
    DEF Next, Run, Takion

\* state_finished is reset at the start of a phase, and set by what the phase
\* waits for.
LEMMA FinishedStep ==
  ASSUME TypeOK, InfoKept, FinishedMeans, SendersInv, [Next]_vars
  PROVE  FinishedMeans'
PROOF
  <1> USE DEF TypeOK, PlaceTypes, FinishedMeans, InfoKept, SendersInv, Returned, links, flags, threads, users, console
  <1>1. CASE PassWait \/ WakeUp \/ TimeOut
    <2>1. PICK result \in {"SUCCESS", "TIMEOUT"} : WaitEnds(result)
      BY <1>1, WaitResult
    <2>2. CASE AfterConnect(result)
      BY <2>1, <2>2 DEF WaitEnds, Proceed, AfterConnect, Disconnect, EnterState
    <2>3. CASE AfterBang(result)
      BY <2>1, <2>3 DEF WaitEnds, Proceed, AfterBang, Disconnect, UseEarlyInfo
    <2>4. CASE AfterInfo(result)
      BY <2>1, <2>4 DEF WaitEnds, Proceed, AfterInfo, Disconnect, EnterState
    <2>5. CASE AfterBeat(result)
      BY <2>1, <2>5 DEF WaitEnds, Proceed, AfterBeat, Disconnect
    <2> QED
      BY <2>1, <2>2, <2>3, <2>4, <2>5 DEF WaitEnds, Proceed
  <1>2. CASE Start
    BY <1>2 DEF Start, EnterState
  <1>3. CASE EnterWait \/ WakeUpInVain \/ EventSent
    BY <1>3 DEF EnterWait, WakeUpInVain, EventSent, FinishedCheck
  <1>4. CASE CongestionJoined \/ TakionJoined \/ Fini
    BY <1>4 DEF CongestionJoined, TakionJoined, Fini
  <1>5. CASE TakionConnected \/ TakionDisconnected
    BY <1>5 DEF TakionConnected, TakionDisconnected, ConnectEvent, Signal, MutexHeld
  <1>6. CASE Bang
    BY <1>6 DEF Bang, Callback, MutexHeld, Signal
  <1>7. CASE StreamInfo
    BY <1>7 DEF StreamInfo, Callback, MutexHeld, HandleInfo, SaveEarly, Refuse, Signal
  <1>8. CASE TakionEnds \/ RemoteDisconnect
    BY <1>8 DEF TakionEnds, RemoteDisconnect, Callback, MutexHeld, HandleDisconnect, Signal
  <1>9. CASE Congestion
    BY <1>9 DEF Congestion, CongestionSend, CongestionSent, CongestionStopped, CongestionStop
  <1>10. CASE Stop \/ StopSignal \/ SetController
    BY <1>10 DEF Stop, StopSignal, SetController, MutexHeld, Signal
  <1>11. CASE UNCHANGED vars
    BY <1>11 DEF vars
  <1> QED
    BY <1>1, <1>2, <1>3, <1>4, <1>5, <1>6, <1>7, <1>8, <1>9, <1>10, <1>11
    DEF Next, Run, Takion

\* The result is decided from the flags of that moment, which are not taken
\* back.  A heartbeat's wait cannot end with success otherwise: in the phase
\* IDLE state_finished is never set.
LEMMA ResultStep ==
  ASSUME TypeOK, FinishedMeans, ResultInv, SendersInv, [Next]_vars
  PROVE  ResultInv'
PROOF
  <1> USE DEF TypeOK, FinishedMeans, ResultInv, Over, Returned, Connected, FinishedCheck,
             SendersInv, links, flags, threads, users, console
  <1>1. CASE PassWait \/ WakeUp \/ TimeOut
    <2>1. PICK result \in {"SUCCESS", "TIMEOUT"} : WaitEnds(result)
      BY <1>1, WaitResult
    <2>2. CASE AfterConnect(result)
      BY <2>1, <2>2 DEF WaitEnds, Proceed, AfterConnect, Disconnect, EnterState
    <2>3. CASE AfterBang(result)
      BY <2>1, <2>3 DEF WaitEnds, Proceed, AfterBang, Disconnect, UseEarlyInfo
    <2>4. CASE AfterInfo(result)
      BY <2>1, <2>4 DEF WaitEnds, Proceed, AfterInfo, Disconnect, EnterState
    <2>5. CASE AfterBeat(result)
      BY <2>1, <2>5 DEF WaitEnds, Proceed, AfterBeat, Disconnect
    <2> QED
      BY <2>1, <2>2, <2>3, <2>4, <2>5 DEF WaitEnds, Proceed
  <1>2. CASE Start
    BY <1>2 DEF Start, EnterState
  <1>3. CASE EnterWait \/ WakeUpInVain \/ EventSent
    BY <1>3 DEF EnterWait, WakeUpInVain, EventSent, FinishedCheck
  <1>4. CASE CongestionJoined \/ TakionJoined \/ Fini
    BY <1>4 DEF CongestionJoined, TakionJoined, Fini
  <1>5. CASE TakionConnected \/ TakionDisconnected
    BY <1>5 DEF TakionConnected, TakionDisconnected, ConnectEvent, Signal, MutexHeld
  <1>6. CASE Bang
    BY <1>6 DEF Bang, Callback, MutexHeld, Signal
  <1>7. CASE StreamInfo
    BY <1>7 DEF StreamInfo, Callback, MutexHeld, HandleInfo, SaveEarly, Refuse, Signal
  <1>8. CASE TakionEnds \/ RemoteDisconnect
    BY <1>8 DEF TakionEnds, RemoteDisconnect, Callback, MutexHeld, HandleDisconnect, Signal
  <1>9. CASE Congestion
    BY <1>9 DEF Congestion, CongestionSend, CongestionSent, CongestionStopped, CongestionStop
  <1>10. CASE Stop \/ StopSignal \/ SetController
    BY <1>10 DEF Stop, StopSignal, SetController, MutexHeld, Signal
  <1>11. CASE UNCHANGED vars
    BY <1>11 DEF vars
  <1> QED
    BY <1>1, <1>2, <1>3, <1>4, <1>5, <1>6, <1>7, <1>8, <1>9, <1>10, <1>11
    DEF Next, Run, Takion

\* The feedback sender ends before run stops waiting for good, congestion
\* control before Takion is closed.
LEMMA SendersStep ==
  ASSUME TypeOK, SendersInv, [Next]_vars
  PROVE  SendersInv'
PROOF
  <1> USE DEF SendersInv, Returned, links, flags, threads, users, console
  <1>1. CASE PassWait \/ WakeUp \/ TimeOut
    <2>1. PICK result \in {"SUCCESS", "TIMEOUT"} : WaitEnds(result)
      BY <1>1, WaitResult
    <2>2. CASE AfterConnect(result)
      BY <2>1, <2>2 DEF WaitEnds, Proceed, AfterConnect, Disconnect, EnterState
    <2>3. CASE AfterBang(result)
      BY <2>1, <2>3 DEF WaitEnds, Proceed, AfterBang, Disconnect, UseEarlyInfo
    <2>4. CASE AfterInfo(result)
      BY <2>1, <2>4 DEF WaitEnds, Proceed, AfterInfo, Disconnect, EnterState
    <2>5. CASE AfterBeat(result)
      BY <2>1, <2>5 DEF WaitEnds, Proceed, AfterBeat, Disconnect
    <2> QED
      BY <2>1, <2>2, <2>3, <2>4, <2>5 DEF WaitEnds, Proceed
  <1>2. CASE Start
    BY <1>2 DEF Start, EnterState
  <1>3. CASE EnterWait \/ WakeUpInVain \/ EventSent
    BY <1>3 DEF EnterWait, WakeUpInVain, EventSent, FinishedCheck
  <1>4. CASE CongestionJoined \/ TakionJoined \/ Fini
    BY <1>4 DEF CongestionJoined, TakionJoined, Fini
  <1>5. CASE TakionConnected \/ TakionDisconnected
    BY <1>5 DEF TakionConnected, TakionDisconnected, ConnectEvent, Signal, MutexHeld
  <1>6. CASE Bang
    BY <1>6 DEF Bang, Callback, MutexHeld, Signal
  <1>7. CASE StreamInfo
    BY <1>7 DEF StreamInfo, Callback, MutexHeld, HandleInfo, SaveEarly, Refuse, Signal
  <1>8. CASE TakionEnds \/ RemoteDisconnect
    BY <1>8 DEF TakionEnds, RemoteDisconnect, Callback, MutexHeld, HandleDisconnect, Signal
  <1>9. CASE Congestion
    BY <1>9 DEF Congestion, CongestionSend, CongestionSent, CongestionStopped, CongestionStop
  <1>10. CASE Stop \/ StopSignal \/ SetController
    BY <1>10 DEF Stop, StopSignal, SetController, MutexHeld, Signal
  <1>11. CASE UNCHANGED vars
    BY <1>11 DEF vars
  <1> QED
    BY <1>1, <1>2, <1>3, <1>4, <1>5, <1>6, <1>7, <1>8, <1>9, <1>10, <1>11
    DEF Next, Run, Takion

\* So does every step of the specification.
LEMMA NextIInv == IInv /\ [Next]_vars => IInv'
BY PlacesStep, FlagsStep, SignalStep, InfoStep, FinishedStep, ResultStep, SendersStep
DEF IInv, TypeOK

\* The invariant holds of every behaviour of the code.
LEMMA SpecIInv == Spec => []IInv
BY InitOK, NextIInv, PTL DEF Spec

-----------------------------------------------------------------------------
(* The theorems                                                            *)

\* Every variable keeps its type; one early streaminfo at most is saved.
THEOREM TypeCorrect == Spec => []TypeOK
PROOF
  <1>1. IInv => TypeOK
    BY DEF IInv
  <1> QED BY <1>1, SpecIInv, PTL

\* run is signalled, or about to be, whenever the predicate of its wait on
\* state_cond is true: no stop and no answer waits for the time to run out.
THEOREM NeverMissesASignal == Spec => []NoMissedSignal
PROOF
  <1>1. IInv => NoMissedSignal
    BY DEF IInv
  <1> QED BY <1>1, SpecIInv, PTL

\* A streaminfo that came before BANG, or before run had seen BANG, has been
\* looked at when run waits for one.
THEOREM EarlyInfoIsUsed == Spec => []EarlyInfoUsed
PROOF
  <1>1. IInv => EarlyInfoUsed
    BY DEF IInv, InfoKept, Waiting, EarlyInfoUsed
  <1> QED BY <1>1, SpecIInv, PTL

\* CHIAKI_EVENT_CONNECTED is sent only when Takion has the keys and a streaminfo
\* was accepted, whatever the console sent in which order.
THEOREM ConnectedOnlyAfterHandshake == Spec => []ConnectedAfterHandshake
PROOF
  <1>1. IInv => ConnectedAfterHandshake
    BY DEF IInv, FinishedMeans, SendersInv, ConnectedAfterHandshake
  <1> QED BY <1>1, SpecIInv, PTL

\* The result of chiaki_stream_connection_run blames the user's stop, or the
\* console, only when they did what they are blamed for.
THEOREM ResultIsTrue == Spec => []ResultTellsWhy
PROOF
  <1>1. IInv => ResultTellsWhy
    BY DEF IInv, ResultInv, Over, ResultTellsWhy
  <1> QED BY <1>1, SpecIInv, PTL

\* Nobody but congestion control of a stream that never got beyond connecting
\* still sends when Takion is closed.
THEOREM SendersHaveStopped == Spec => []SendersStopFirst
PROOF
  <1>1. IInv => SendersStopFirst
    BY DEF IInv, SendersInv, SendersStopFirst, Returned
  <1> QED BY <1>1, SpecIInv, PTL
=============================================================================
