------------------------------- MODULE Parts --------------------------------
(***************************************************************************)
(* The parts of the program that share no state with each other in the     *)
(* models and are proved about as well as checked: a behaviour is one of   *)
(* one part, chosen at the beginning.  The variables s1, s2 and so on are  *)
(* those of that part, in the order of its module, and the rest of them is *)
(* Off.  MCParts adds the parts that are only checked.                     *)
(***************************************************************************)
EXTENDS Integers, Sequences, Functions, TLC

CONSTANTS KeyMod, KeyChunk, KeyBuffer, KeyLast, KeyLen,   \* of KeyStream
          CryptSenders, CryptReporter, CryptSizes, CryptBlock, CryptRefresh, CryptMax,
          CryptPackets,                                     \* of SendCrypt
          StatsMod, StatsReceived, StatsLost, StatsJoin, StatsPushes,
          StatsLoss,                                        \* of PacketStats
          FeedbackSticks, FeedbackButtons, FeedbackQueue, FeedbackHistory,
          FeedbackResend, FeedbackMax,                      \* of FeedbackSender
          DiscoveryIds, DiscoveryData, DiscoveryHosts, DiscoveryDrop,
          DiscoveryPings,                                   \* of DiscoveryService
          InputPad, InputKeys, InputShortcut, InputFingers, InputPlaces,
          InputIds, InputTouches,                           \* of GuiInput
          EffectsPads, EffectsDual, EffectsLooks, EffectsPackets,
          EffectsMax,                                       \* of PadEffects
          MeasureMin, MeasureMax, MeasureRetries, MeasurePings,
          MeasurePaths,                                     \* of Senkusha
          RudpMod, RudpSenders, RudpStarts, RudpCount, RudpBuffer,
          RudpTries,                                        \* of Rudp
          HandshakeCalls, HandshakeTries, HandshakeFaults,  \* of RudpHandshake
          RegistParts,                                      \* of Registration
          SearchListed, SearchSix, SearchGuessed, SearchOthers, SearchExtra,
          SearchSlots, SearchTries, SearchMessages,         \* of Candidates
          PunchCopies,                                      \* of Holepunch
          PortsMax, PortsKnown, PortsDynamic, PortsAhead, PortsGuesses,
          PortsLocal, PortsAddresses, PortsStarts, PortsSteps, PortsJumps,
          PortsUnseen                                       \* of PortProbe

VARIABLES part,
          s1, s2, s3, s4, s5, s6, s7, s8, s9, s10, s11, s12, s13, s14, s15

Cipher == INSTANCE KeyStream WITH
  SeqMod <- KeyMod, PromotedAdd <- FALSE, ChunkSize <- KeyChunk, BufSize <- KeyBuffer,
  LastPos <- KeyLast, MaxLen <- KeyLen,
  prev <- s1, min <- s2, populated <- s3, start <- s4, last <- s5, buf <- s6,
  thread <- s7, reader <- s8, read <- s9, closer <- s10

Crypt == INSTANCE SendCrypt WITH
  Senders <- CryptSenders, Reporter <- CryptReporter, Sizes <- CryptSizes,
  BlockSize <- CryptBlock,
  Refresh <- CryptRefresh, SizeMax <- CryptMax, MaxPackets <- CryptPackets,
  crypt <- s1, keyPos <- s2, gmacIndex <- s3, holds <- s4, sent <- s5

Stats == INSTANCE PacketStats WITH
  SeqMod <- StatsMod, PromotedAdd <- TRUE,
  Generations <- [received : StatsReceived, lost : StatsLost],
  JoinSeqs <- StatsJoin, MaxPushes <- StatsPushes, LossMax <- StatsLoss,
  gen <- s1, seqMin <- s2, seqMax <- s3, seqReceived <- s4, pusher <- s5,
  getter <- s6, pushed <- s7, reported <- s8, report <- s9

Feedback == INSTANCE FeedbackSender WITH
  Sticks <- FeedbackSticks, Buttons <- FeedbackButtons, QueueSize <- FeedbackQueue,
  HistorySize <- FeedbackHistory, Resend <- FeedbackResend, MaxEvents <- FeedbackMax,
  controller <- s1,
  changed <- s2, events <- s3, history <- s4, queue <- s5, overflow <- s6,
  setter <- s7, thread <- s8, sentPrev <- s9, console <- s10, closer <- s11

Discovery == INSTANCE DiscoveryService WITH
  Ids <- DiscoveryIds, Data <- DiscoveryData, HostsMax <- DiscoveryHosts,
  DropPings <- DiscoveryDrop, MaxPings <- DiscoveryPings,
  hosts <- s1, infos <- s2, ping <- s3, service <- s4, receiver <- s5,
  answer <- s6, stop <- s7, stopPipe <- s8, closer <- s9, reported <- s10,
  heard <- s11

Input == INSTANCE GuiInput WITH
  PadButtons <- InputPad, Keys <- InputKeys, Shortcut <- InputShortcut,
  Fingers <- InputFingers, TouchesMax <- InputPlaces, IdMod <- InputIds,
  MaxTouches <- InputTouches, pad <- s1,
  micPush <- s2, keyboard <- s3, mouse <- s4, touch <- s5, tracker <- s6,
  dpad <- s7, regular <- s8, switched <- s9, block <- s10, sent <- s11,
  held <- s12, stuck <- s13, over <- s14, begun <- s15

Effects == INSTANCE PadEffects WITH
  Pads <- EffectsPads, DualSense <- EffectsDual, Looks <- EffectsLooks,
  Packets <- EffectsPackets, MaxEvents <- EffectsMax,
  stream <- s1, effect <- s2, takion <- s3, gui <- s4, posted <- s5, manager <- s6,
  pads <- s7, haptics <- s8, humming <- s9, unheard <- s10, leveled <- s11,
  count <- s12

Measure == INSTANCE Senkusha WITH
  MinMtu <- MeasureMin, MaxMtu <- MeasureMax, Retries <- MeasureRetries,
  PingCount <- MeasurePings, PathMtus <- MeasurePaths, phase <- s1,
  finished <- s2, id <- s3, asked <- s4, net <- s5, low <- s6, high <- s7,
  attempt <- s8, pongs <- s9, mtuIn <- s10, mtuOut <- s11, result <- s12,
  path <- s13, unlucky <- s14

Reliable == INSTANCE Rudp WITH
  SeqMod <- RudpMod, PromotedAdd <- FALSE, Senders <- RudpSenders,
  Starts <- RudpStarts, MaxCount <- RudpCount, BufferSize <- RudpBuffer,
  TriesMax <- RudpTries, counter <- s1, first <- s2, sender <- s3, packets <- s4,
  resender <- s5, net <- s6, got <- s7, acks <- s8, dropped <- s9, refused <- s10,
  raced <- s11

Handshake == INSTANCE RudpHandshake WITH
  Calls <- HandshakeCalls, Tries <- HandshakeTries, FaultsMax <- HandshakeFaults,
  call <- s1, try <- s2, at <- s3, socket <- s4, faults <- s5

Regist == INSTANCE Registration WITH
  Parts <- RegistParts, at <- s1, psn <- s2, stop <- s3, ignored <- s4,
  sockets <- s5, missing <- s6, found <- s7, outcome <- s8, events <- s9, broken <- s10,
  joined <- s11

Search == INSTANCE Candidates WITH
  Listed <- SearchListed, Six <- SearchSix, Guessed <- SearchGuessed,
  Others <- SearchOthers, Extra <- SearchExtra, Slots <- SearchSlots,
  Tries <- SearchTries, MaxMessages <- SearchMessages, pc <- s1, guessing <- s2,
  count <- s3, open <- s4, derived <- s5, tries <- s6, received <- s7,
  connecting <- s8, responded <- s9, asked <- s10, out <- s11, result <- s12,
  messages <- s13, paired <- s14

Punch == INSTANCE Holepunch WITH
  MaxCopies <- PunchCopies, pc <- s1, port <- s2, state <- s3, reqId <- s4, result <- s5,
  used <- s6, queue <- s7, stop <- s8, wsStop <- s9, kept <- s10, ws <- s11,
  hand <- s12, coming <- s13, copies <- s14, acked <- s15

Ports == INSTANCE PortProbe WITH
  PortMax <- PortsMax, WellKnown <- PortsKnown, Dynamic <- PortsDynamic,
  Ahead <- PortsAhead, GuessCount <- PortsGuesses, LocalPort <- PortsLocal,
  Addresses <- PortsAddresses, Starts <- PortsStarts, Steps <- PortsSteps,
  Jumps <- PortsJumps, MaxUnseen <- PortsUnseen, step <- s1, next <- s2,
  answers <- s3, since <- s4, odd <- s5, phase <- s6, found <- s7, offer <- s8

ASSUME PartsAssumption ==
  /\ Cipher!KeyStreamConstantsOK
  /\ Crypt!SendCryptConstantsOK
  /\ Stats!PacketStatsConstantsOK
  /\ Feedback!FeedbackConstantsOK
  /\ Discovery!DiscoveryConstantsOK
  /\ Input!InputConstantsOK
  /\ Effects!PadEffectsConstantsOK
  /\ Measure!SenkushaConstantsOK
  /\ Reliable!RudpConstantsOK
  /\ Handshake!RudpHandshakeConstantsOK
  /\ Regist!RegistrationConstantsOK
  /\ Search!CandidatesConstantsOK
  /\ Punch!HolepunchConstantsOK
  /\ Ports!PortProbeConstantsOK

Off == "off"
vars == <<part, s1, s2, s3, s4, s5, s6, s7, s8, s9, s10, s11, s12, s13, s14, s15>>

\* The variables after the n-th are not of this part.
Rest(n) ==
  /\ IF n < 5 THEN s5 = Off ELSE TRUE
  /\ IF n < 6 THEN s6 = Off ELSE TRUE
  /\ IF n < 7 THEN s7 = Off ELSE TRUE
  /\ IF n < 8 THEN s8 = Off ELSE TRUE
  /\ IF n < 9 THEN s9 = Off ELSE TRUE
  /\ IF n < 10 THEN s10 = Off ELSE TRUE
  /\ IF n < 11 THEN s11 = Off ELSE TRUE
  /\ IF n < 12 THEN s12 = Off ELSE TRUE
  /\ IF n < 13 THEN s13 = Off ELSE TRUE
  /\ IF n < 14 THEN s14 = Off ELSE TRUE
  /\ IF n < 15 THEN s15 = Off ELSE TRUE

\* A step leaves the part as it is, and the variables after its n-th.
After15 == UNCHANGED part
After14 == After15 /\ UNCHANGED s15
After13 == After14 /\ UNCHANGED s14
After12 == After13 /\ UNCHANGED s13
After11 == After12 /\ UNCHANGED s12
After10 == After11 /\ UNCHANGED s11
After9 == After10 /\ UNCHANGED s10
After8 == After9 /\ UNCHANGED s9
After6 == After8 /\ UNCHANGED <<s7, s8>>
After5 == After6 /\ UNCHANGED s6
After4 == After5 /\ UNCHANGED s5

PartsInit ==
  \/ part = "keys" /\ Cipher!Init /\ Rest(10)
  \/ part = "crypt" /\ Crypt!Init /\ Rest(5)
  \/ part = "stats" /\ Stats!Init /\ Rest(9)
  \/ part = "feedback" /\ Feedback!Init /\ Rest(11)
  \/ part = "discovery" /\ Discovery!Init /\ Rest(11)
  \/ part = "input" /\ Input!Init
  \/ part = "effects" /\ Effects!Init /\ Rest(12)
  \/ part = "senkusha" /\ Measure!Init /\ Rest(14)
  \/ part = "rudp" /\ Reliable!Init /\ Rest(11)
  \/ part = "handshake" /\ Handshake!Init /\ Rest(5)
  \/ part = "regist" /\ Regist!Init /\ Rest(11)
  \/ part = "candidates" /\ Search!Init /\ Rest(14)
  \/ part = "punch" /\ Punch!Init
  \/ part = "ports" /\ Ports!Init /\ Rest(8)

PartsNext ==
  \/ part = "keys" /\ Cipher!Next /\ After10
  \/ part = "crypt" /\ Crypt!Next /\ After5
  \/ part = "stats" /\ Stats!Next /\ After9
  \/ part = "feedback" /\ Feedback!Next /\ After11
  \/ part = "discovery" /\ Discovery!Next /\ After11
  \/ part = "input" /\ Input!Next /\ After15
  \/ part = "effects" /\ Effects!Next /\ After12
  \/ part = "senkusha" /\ Measure!Next /\ After14
  \/ part = "rudp" /\ Reliable!Next /\ After11
  \/ part = "handshake" /\ Handshake!Next /\ After5
  \/ part = "regist" /\ Regist!Next /\ After11
  \/ part = "candidates" /\ Search!Next /\ After14
  \/ part = "punch" /\ Punch!Next /\ After15
  \/ part = "ports" /\ Ports!Next /\ After8

PartsSpec == PartsInit /\ [][PartsNext]_vars

-----------------------------------------------------------------------------
(* Properties                                                              *)

\* The key stream a packet meets is the one of its own position: on the way in,
\* while the thread computes ahead in a ring buffer, and on the way out, with
\* several threads that take positions. The key is set without their lock, so
\* one report of congestion control may be signed at position 0 unasked
\* (SendCrypt.RangesApart).
KeyStreamRight ==
  /\ part = "keys" => Cipher!DecryptedWithItsOwn /\ Cipher!AsleepOnlyWhenIdle
  /\ part = "crypt" => Crypt!RangesApart /\ Crypt!KeyOfItsPosition

\* What is told to others is what is: to the console the units that came and
\* were lost, and the sticks and events of the controller, the buttons and
\* fingers that are held, to the application the consoles that answer, to the
\* pads the color, the effects and their intensity that the console told.
ReportedAsItIs ==
  /\ part = "stats" => Stats!UnitsReportedOnce
  /\ part = "feedback" => Feedback!EventsInOrder /\ Feedback!UpToDateWhenAsleep
  /\ part = "discovery" => Discovery!ListReported /\ Discovery!ListedWhileHeard
                           /\ Discovery!QuietAfterFini
  /\ part = "input" => Input!NothingStaysPressed /\ Input!TouchesAreFingers
                       /\ Input!MenuKeepsItsButtons /\ Input!DpadTouchIsLifted
  /\ part = "effects" => Effects!LooksAsTold /\ Effects!EffectsEnd /\ Effects!IntensityAsTold

\* Answers that are late, lost or repeated do not decide what they do not
\* answer: the sizes senkusha measures are the path's, a packet is forgotten
\* only when it was acknowledged or given up, a connection survives fewer
\* faults than tries, a registration has one verdict, and a hole is punched with
\* the messages of its own port, to an address that answered, with one socket
\* left open, at the ports the NAT gives next.
AnswersDecide ==
  /\ part = "senkusha" => Measure!MtuIsOfThePath /\ Measure!SuccessHasAll
  /\ part = "rudp" => Reliable!NothingForgotten
  /\ part = "handshake" => Handshake!FaultsSurvived
  /\ part = "regist" => Regist!OneVerdict
  /\ part = "candidates" => Search!PairedBothWays /\ Search!OnlyTheChosenStaysOpen
  /\ part = "punch" => Punch!RightMessages
  /\ part = "ports" => Ports!GuessesFollowNat /\ Ports!OffersArePorts
=============================================================================
