------------------------------ MODULE MCParts -------------------------------
(***************************************************************************)
(* TLC on the parts of the program that share no state with each other:    *)
(* those of Parts, which are also proved about, and the others, whose      *)
(* parameters are in the instances below.                                  *)
(***************************************************************************)
EXTENDS Parts

\* The calls of chiaki_rudp_send_recv in the order of a connection: the answer
\* that is expected, and whether the connection fails without it.
Call(answer, must) == [answer |-> answer, must |-> must]
ConnectionCalls ==
  <<Call("init", TRUE), Call("cookie", TRUE), Call("ctrl", TRUE), Call("finish", FALSE),
    Call("init", TRUE), Call("cookie", TRUE), Call("ctrl", TRUE)>>

\* By how much the NAT raises its port.
NatSteps == -1..2

Video == INSTANCE VideoReceiver WITH
  SeqMod <- 12, PromotedAdd <- TRUE, JoinFrames <- {0, 10}, MaxFrames <- 4,
  Source <- 2, FecFrames <- {2, 3, 11, 12}, RefMax <- 3, first <- s1, frame <- s2,
  unit <- s3, got <- s4, cur <- s5, receiver <- s6

Audio == INSTANCE AudioReceiver WITH
  SeqMod <- 24, PromotedAdd <- TRUE, JoinPackets <- {0, 21}, MaxPackets <- 6,
  FecUnits <- 2, BufferSize <- 4, Prefill <- 3, joined <- s1, arrived <- s2,
  todo <- s3, storing <- s4, jitter <- s5, next <- s6, started <- s7,
  played <- s8, hapticsPrev <- s9, haptics <- s10

Sound == INSTANCE GuiAudioOut WITH
  BufferSize <- 1, FrameSize <- 5, MaxFrames <- 2, MaxInits <- 2, device <- s1,
  queued <- s2, ring <- s3, takion <- s4, drain <- s5, hand <- s6,
  running <- s7, requested <- s8, gui <- s9, frames <- s10, inits <- s11,
  heard <- s12

Voice == INSTANCE GuiMic WITH
  FrameBytes <- 2, PieceSizes <- {3, 5}, MaxBytes <- 18, MaxToggles <- 2,
  active <- s1, open <- s2, connected <- s3, muted <- s4, ring <- s5,
  queued <- s6, events <- s7, capture <- s8, piece <- s9, captured <- s10,
  gui <- s11, chunk <- s12, part <- s13, sent <- s14, toggles <- s15

Pictures == INSTANCE FrameQueue WITH
  DepthLimit <- 1, OverflowLimit <- 1, Times <- {0, 1, 2}, MaxFrames <- 3,
  MaxBack <- 1, MaxResets <- 1, queue <- s1, waiting <- s2, kept <- s3,
  seed <- s4, line <- s5, taking <- s6, release <- s7, reset <- s8, gui <- s9,
  render <- s10, came <- s11, freed <- s12

Screen == INSTANCE Presenter WITH
  DepthLimit <- 1, MaxFrames <- 2, MaxEvents <- 1, frames <- s1, posted <- s2,
  renders <- s3, sched <- s4, gui <- s5, render <- s6, inFlight <- s7,
  swap <- s8, chain <- s9, recreate <- s10, deferred <- s11, lost <- s12,
  past <- s13

Library == INSTANCE SessionCalls
Punching == INSTANCE PunchCalls
AllCalls == Punching!PunchTable @@ Library!LibTable @@ Library!SessionTable
AllRoots == Punching!PunchRoots \cup Library!LibRoots \cup Library!SessionRoots
AllFaults == Punching!PunchFaults \cup Library!LibFaults \cup Library!SessionFaults
AllMutexes == UNION {s.locks : s \in UNION {Range(AllCalls[f].steps) : f \in DOMAIN AllCalls}}
Ladder == INSTANCE CallLadder WITH
  Calls <- AllCalls, Roots <- AllRoots, Faults <- AllFaults, Mutexes <- AllMutexes,
  MaxFailures <- 1,
  stack <- s1, held <- s2, dangling <- s3, failures <- s4

ASSUME OtherPartsAssumption ==
  /\ Video!VideoConstantsOK
  /\ Audio!AudioConstantsOK
  /\ Sound!AudioOutConstantsOK
  /\ Voice!MicConstantsOK
  /\ Pictures!FrameQueueConstantsOK
  /\ Screen!PresenterConstantsOK
  /\ Ladder!LadderConstantsOK

Init ==
  \/ PartsInit
  \/ part = "video" /\ Video!Init /\ Rest(6)
  \/ part = "audio" /\ Audio!Init /\ Rest(10)
  \/ part = "sound" /\ Sound!Init /\ Rest(12)
  \/ part = "voice" /\ Voice!Init
  \/ part = "pictures" /\ Pictures!Init /\ Rest(12)
  \/ part = "screen" /\ Screen!Init /\ Rest(13)
  \/ part = "calls" /\ Ladder!Init /\ Rest(4)

Next ==
  \/ PartsNext
  \/ part = "video" /\ Video!Next /\ After6
  \/ part = "audio" /\ Audio!Next /\ After10
  \/ part = "sound" /\ Sound!Next /\ After12
  \/ part = "voice" /\ Voice!Next /\ After15
  \/ part = "pictures" /\ Pictures!Next /\ After12
  \/ part = "screen" /\ Screen!Next /\ After13
  \/ part = "calls" /\ Ladder!Next /\ After4

\* Each thread goes on while it can; what the environment does, and what fails,
\* need not happen.
Fairness ==
  /\ WF_vars(part = "keys" /\ Cipher!ReaderSignals /\ After10)
  /\ WF_vars(part = "keys" /\ Cipher!ThreadRound /\ After10)
  /\ WF_vars(part = "keys" /\ (Cipher!ChunkDone \/ Cipher!ChunkFails) /\ After10)
  /\ WF_vars(part = "keys" /\ (Cipher!StopSignals \/ Cipher!Join) /\ After10)
  /\ WF_vars(part = "feedback" /\ Feedback!Steps /\ After11)
  /\ WF_vars(part = "discovery" /\ Discovery!ServiceSteps /\ After11)
  /\ WF_vars(part = "discovery" /\ Discovery!ReceiverSteps /\ After11)
  /\ WF_vars(part = "discovery" /\ Discovery!FiniJoins /\ After11)
  /\ WF_vars(part = "senkusha" /\ Measure!Run /\ After14)
  /\ WF_vars(part = "handshake" /\ Handshake!Next /\ After5)
  /\ WF_vars(part = "regist" /\ Regist!Thread /\ After11)
  /\ WF_vars(part = "regist" /\ Regist!Fini /\ After11)
  /\ WF_vars(part = "candidates" /\ Search!Search /\ After14)
  /\ WF_vars(part = "punch" /\ Punch!Main /\ After15)
  /\ WF_vars(part = "punch" /\ Punch!Websocket /\ After15)
  /\ WF_vars(part = "punch" /\ Punch!WsStops /\ After15)
  /\ WF_vars(part = "sound" /\ Sound!TakionGoesOn /\ After12)
  /\ WF_vars(part = "sound" /\ Sound!Gui /\ After12)
  /\ WF_vars(part = "sound" /\ Sound!Drain /\ After12)
  /\ WF_vars(part = "sound" /\ Sound!Play /\ After12)
  /\ WF_vars(part = "voice" /\ Voice!Capture /\ After15)
  /\ WF_vars(part = "voice" /\ Voice!Drain /\ After15)
  /\ WF_vars(part = "input" /\ Input!DpadStops /\ After15)
  /\ WF_vars(part = "effects" /\ Effects!HapticsTimer /\ After12)
  /\ WF_vars(part = "screen" /\ Screen!Gui /\ After13)
  /\ WF_vars(part = "screen" /\ Screen!Renderer /\ After13)
  /\ WF_vars(part = "screen" /\ Screen!Swapper /\ After13)

Spec == Init /\ [][Next]_vars /\ Fairness

-----------------------------------------------------------------------------
(* Properties                                                              *)

PartsTypeOK ==
  /\ part = "video" => Video!TypeOK
  /\ part = "audio" => Audio!TypeOK
  /\ part = "keys" => Cipher!TypeOK
  /\ part = "crypt" => Crypt!TypeOK
  /\ part = "stats" => Stats!TypeOK
  /\ part = "feedback" => Feedback!TypeOK
  /\ part = "discovery" => Discovery!TypeOK
  /\ part = "senkusha" => Measure!TypeOK
  /\ part = "rudp" => Reliable!TypeOK
  /\ part = "handshake" => Handshake!TypeOK
  /\ part = "regist" => Regist!TypeOK
  /\ part = "candidates" => Search!TypeOK
  /\ part = "punch" => Punch!TypeOK
  /\ part = "ports" => Ports!TypeOK
  /\ part = "sound" => Sound!TypeOK
  /\ part = "voice" => Voice!TypeOK
  /\ part = "input" => Input!TypeOK
  /\ part = "effects" => Effects!TypeOK
  /\ part = "pictures" => Pictures!TypeOK
  /\ part = "screen" => Screen!TypeOK
  /\ part = "calls" => Ladder!TypeOK

\* Video frames are shown in their order, each one and the ones that are lost
\* accounted for once, as soon as they can be; audio frames are played
\* consecutively and concealed only when they are overtaken, and none stays
\* behind in the buffer. The application plays sound and sends the voice in
\* order, sleeps over no samples and no picture, owns each picture once and
\* frees it once, but for those refused on their way back from a full queue, and
\* submits what it has begun to draw before it begins the next.
MediaInOrder ==
  /\ part = "video" => Video!ShownInOrder /\ Video!EveryFrameAccountedFor /\ Video!FlushedWhenPossible
  /\ part = "audio" => Audio!PlayedConsecutively /\ Audio!NothingStaysBuffered
                       /\ Audio!ConcealedOnlyWhenOvertaken
  /\ part = "sound" => Sound!SoundInOrder /\ Sound!NotTooFarAhead /\ Sound!NoSleepOverSamples
                       /\ Sound!DrainStopsFirst
  /\ part = "voice" => Voice!VoiceInOrder /\ Voice!DrainIsComing /\ Voice!MicIsWhatItSeems
  /\ part = "pictures" => Pictures!OneOwner /\ Pictures!WaitingInOrder
  /\ part = "screen" => Screen!BegunThenSubmitted /\ Screen!DestroyedWhenIdle
                        /\ Screen!NoSleepOverFrames

\* Whichever step fails, but for the known faults: a function that returns has
\* released what it took and does not give its caller, one that succeeds gives
\* what it promises, nothing is released twice, used when it is not there or
\* overwritten while it is held, and nobody waits for a lock of his own.
ReleasedOnEveryPath ==
  part = "calls" =>
    /\ Ladder!NothingLeft /\ Ladder!SuccessGives
    /\ Ladder!ReleasedOnce /\ Ladder!UsedWhileHeld
    /\ Ladder!NoSelfDeadlock /\ Ladder!NothingOverwritten

Unfinished ==
  \/ (part = "keys" /\ Cipher!Unfinished) \/ (part = "feedback" /\ Feedback!Unfinished)
  \/ (part = "discovery" /\ Discovery!Unfinished) \/ (part = "senkusha" /\ Measure!Unfinished)
  \/ (part = "handshake" /\ Handshake!Unfinished) \/ (part = "regist" /\ Regist!Unfinished)
  \/ (part = "candidates" /\ Search!Unfinished) \/ (part = "punch" /\ Punch!Unfinished)
  \/ (part = "sound" /\ Sound!Unfinished) \/ (part = "voice" /\ Voice!Unfinished)
  \/ (part = "input" /\ Input!Unfinished) \/ (part = "screen" /\ Screen!Unfinished)
  \/ (part = "effects" /\ Effects!Unfinished)

\* Nobody waits forever: what was begun, or told to stop, ends.
PartsEnd == Unfinished ~> ~Unfinished
=============================================================================
