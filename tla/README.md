# Zanit in TLA+

This directory holds TLA+ models of Zanit (a fork of chiaki-ng, a client for
PlayStation Remote Play), the configurations with which TLC checks them, and
proofs checked with TLAPS. The models are written from the C library in `lib/`
and from the parts of the Qt application in `gui/` that run concurrently. Paths
below are file names of `lib/src` (`takion.c`, `remote/holepunch.c`) or of
`gui/src` (`streamsession.cpp`, `qmlmainwindow.cpp`).

Contents: 1 the system; 2 the models; 3 what each run checks; 4 fairness;
5 where code and documentation disagree; 6 what is proved; 7 what is only
model-checked; 8 what the models leave out, and what was seen on the way; 9 the
plan; 10 how to run it.

## 1. The system

A client connects to a console in phases. A *session* thread asks the console
for a session over HTTP, starts *ctrl* (a connection with a thread of its own,
which brings the session id and asks for a login PIN), measures the network
(*Senkusha*), then opens the *stream connection*, which runs on *Takion*, a
protocol over UDP with a reliable data channel and unreliable video and audio.
A console on the internet is reached through PSN: *holepunch* finds addresses
and sockets, and *RUDP* takes TCP's place. Before all this, *discovery* finds
consoles and *registration* pairs with one. The application plays what comes,
and sends what the user does and says.

| Component | State it keeps | Operations | Threads | What makes it correct |
|---|---|---|---|---|
| Session (`session.c`) | flags set by others (stop, ctrl failed, session id, PIN), quit reason | start, stop, set PIN, set controller state | session thread; calls from the user's threads | a stop ends it from anywhere; no signal for it is missed; the reason it quits with is true |
| Ctrl (`ctrl.c`) | queue of messages, PIN to send, TCP or RUDP connection | connect, receive, send, stop | ctrl thread; called by session and user | it never sleeps over something to send; what it finds out reaches the session |
| Senkusha (`senkusha.c`) | phase of the measurement of MTU and round trip time | run | session thread, its own Takion | it ends, whatever the console does; a late answer decides nothing |
| Stream connection (`streamconnection.c`) | phase of the handshake, keys, receivers, early streaminfo | run, stop, callback of Takion | session, Takion and congestion threads | connected only after the whole handshake; a true result; senders end before Takion is closed; it returns |
| Takion (`takion.c`) | sequence numbers, data queue, video queue, postponed packets, keys | connect, close, send data, receive | Takion thread; senders | data in order and complete, video in order, nothing leaked or kept for ever, what comes after the key is checked |
| Reorder queue (`reorderqueue.c`, `seqnum.h`) | ring buffer, begin, count | push, pull, peek, drop | its owner's | the window fits the buffer, an element never comes out under another's number, each is freed once |
| Send buffer (`takionsendbuffer.c`) | packets not yet acknowledged | push, ack, fini | resending thread, senders, Takion thread | no unreceived packet is forgotten, no wake-up lost, it ends |
| Congestion control, packet statistics | counters | start, stop; push, get | congestion thread; Takion thread | it ends before Takion; each unit is reported once |
| Video receiver, frame processor | frame being put together, reference frames | packet, flush | Takion thread | each frame is passed on once, or its loss reported |
| Audio receiver and sender | frame indices, jitter buffer | packet | Takion thread, user | frames in order, once |
| Feedback sender (`feedbacksender.c`) | controller state, history, queue of packets | set state, fini | its own thread, user | the last state is sent, no event of the history dropped |
| Stream encryption (`gkcrypt.c`) | ring buffer of the key stream, positions | get key stream, decrypt, gmac | its own thread, Takion thread, senders | a reader gets the key stream of its position; no two packets share one |
| Discovery (`discoveryservice.c`) | list of hosts with the ping they answered last | ping, host received | discovery threads | hosts that do not answer leave the list |
| Registration (`regist.c`) | sockets, fields of the host found | start, stop | its own thread | it ends, with one verdict |
| RUDP (`remote/rudp.c`, `rudpsendbuffer.c`) | counters, packets not yet acknowledged | send, receive, ack | ctrl, session, resender | as the send buffer; a connection survives what its retries are for |
| Holepunch (`remote/holepunch.c`, `stun.h`) | session with PSN, queue of notifications, candidates, sockets | create, start, punch, cancel, fini | session thread, WebSocket thread, UPnP thread, the application | goes by the messages of its own port, hands out one socket that works both ways, ends |
| Application (`streamsession.cpp`) | ring buffers of samples, states of the pads, keyboard and screen | audio and microphone callbacks, input events, effects | Qt's thread, Takion's, SDL's, a drain thread | sound and voice in order, nothing stays pressed, pads show what the console told |
| Application's picture (`qmlmainwindow.cpp`) | queue of decoded frames, waiting and kept ones, swapchain | present, render, swap, reset | Qt's thread, render thread, swap thread | each frame is freed once, nobody sleeps over one, the swapchain is used in order |

How they interact:

- *calls*: the session calls holepunch, ctrl, Senkusha and the stream connection
  in turn; the stream connection calls Takion; Takion calls its queues and send
  buffer; the application calls the session;
- *callbacks*: Takion's thread calls back into the stream connection (connected,
  disconnected, data, video), that into the receivers, and these, still on
  Takion's thread, into the application (`StreamSession::Event`,
  `PushAudioFrame`, `PushHapticsFrame`, the decoder);
- *posted events*: the application leaves to Qt's thread what must run there,
  some of it blocking (`BlockingQueuedConnection`), some coalesced by a flag;
- *shared state*: flags of the session under `state_mutex`, ctrl's queue under
  `notif_mutex`, the stream connection's phase under a `state_mutex` of its
  own, the send buffers' arrays under their `mutex`;
- *conditions and pipes*: waits with a predicate (`thread.c`), with and without
  a time limit, and pipes that interrupt `select` (`stoppipe.c`).

What is hard about it: signals that are sent without the mutex; mutexes released
in the middle of an operation; two threads that take two mutexes in different
orders; flags that outlive the phase they belong to; 16 and 32 bit numbers that
wrap; datagrams that are lost, repeated and reordered; answers to an earlier
question; waits that are carried over; a stop that may come at any place of any
thread; the many error paths of functions that take several things.
`PROJECT.json` lists these hazards at the lines where they bite, with the
properties that watch them.

## 2. The models

| Module | Models | Uses |
|---|---|---|
| `SeqNum` | comparison of serial numbers (`seqnum.h`), the functions `reorderqueue.c` wraps around it | |
| `ReorderQueue` | the functions of `reorderqueue.c` as operators on a record | `SeqNum` |
| `LossyStream` | abstract: what the video path promises | |
| `TakionVideoQueue` | the receive loop of Takion for video packets | `ReorderQueue`; implements `LossyStream` |
| `TakionSendBuffer` | sending data, acknowledgements, sending again, the end | `SeqNum` |
| `OrderedChannel` | abstract: what the data channel promises | |
| `TakionData` | handshake, data channel, postponed packets, checks of MACs, close | `ReorderQueue`; implements `OrderedChannel` |
| `StreamConnection` | a stream connection with Takion's thread, congestion control, a user who stops and one who plays | |
| `SessionCtrl` | session thread, ctrl thread, users | its stream step stands for `StreamConnection` |
| `VideoReceiver`, `AudioReceiver` | the receivers on Takion's thread | `SeqNum` |
| `KeyStream`, `SendCrypt` | encryption, receiving and sending | `SeqNum` |
| `PacketStats`, `FeedbackSender` | what is told to the console from other threads | `SeqNum` |
| `Senkusha`, `DiscoveryService`, `Registration` | the measurement; the search for consoles; the pairing | |
| `Rudp`, `RudpHandshake` | the send buffer and numbers of RUDP; its requests with retries | `SeqNum` |
| `Holepunch`, `Candidates`, `PortProbe` | the PSN session; the search for an address; the ports guessed | |
| `ByteRing`, `GuiAudioOut`, `GuiMic` | the application's ring buffers, sound and voice | |
| `GuiInput`, `PadEffects` | from the user's hands to the session, and back to the pads | |
| `FrameQueue`, `Presenter` | decoded frames and who owns them; the three threads that show them | |
| `CallSteps`, `CallLadder` | a C function as a sequence of steps; one thread that runs through such functions while a step fails | |
| `PunchCalls`, `LibCalls`, `SessionCalls` | 159 functions as such steps | `CallSteps` |
| `Parts` | 14 parts, of which a behaviour has one (`PartsSpec`): those section 6 is about | `KeyStream` to `PadEffects` above but for sound, voice and the receivers |
| `MCParts` | `Parts` and seven more, for TLC | `Parts`; the receivers, sound and voice, the two of pictures, the ladder |
| `MCVideoQueue` | the refinement, and bounds for TLC; the other runs take their module itself | `TakionVideoQueue` |
| `ReorderQueueProofs`, `TakionVideoQueueProofs`, `TakionSendBufferProofs`, `TakionDataProofs`, `StreamConnectionProofs`, `SessionCtrlProofs` | theorems and lemmas | the module they are about (`ReorderQueueProofs`: also `SeqNum`) |
| `PartsProofs`, `AnswerProofs` | theorems and lemmas | `Parts` |

The modules meet at what they promise and assume. `VideoReceiver` takes units in
order with gaps, which is what `LossyStream` promises; `SessionCtrl.StreamReason`
allows the results of `chiaki_stream_connection_run` that
`StreamConnection.ResultTellsWhy` checks (CANCELED only after a stop,
DISCONNECTED only after a DISCONNECT of the console), and its fairness assumes
what `ReturnsWhenToldTo` checks; `StreamConnection` abstracts Takion to the place
where its thread is, and its assumption that a closed Takion's thread ends is the
subject of `TakionSendBuffer.FiniReturns...` (section 5); `Registration` takes
the calls over RUDP to end well or not, which is `RudpHandshake`'s subject;
`Holepunch` has the search of `Candidates` as one step; `Presenter` numbers the
frames that `FrameQueue` is about. The parts of `MCParts` share no state in the
models: a behaviour belongs to one of them, chosen at the beginning. `Init` and
`Next` of `MCParts` are those of `Parts` with more disjuncts, so that a behaviour
of `MCParts` in one of the parts of `Parts` is one of `PartsSpec`.

**SeqNum, ReorderQueue.** A number travels as `uint64_t` and is cast to 16 or 32
bits by each comparison; `SeqMod` is that width. `PromotedAdd` says whether the
sum of two numbers wraps: C adds two `uint16_t` in `int`, so 16 bit sums do not
(TRUE), 32 bit sums do (FALSE). The loops of `push` and of repeated `pull` are
in closed form: `Least` of the counts at which their condition is false. `Push`
and `FiniDropped` return what goes to the drop callback, which frees it. Both
drop strategies are there; the video queue uses "begin", as in the code.

**TakionVideoQueue.** `queue`, `waited`, `waitSeq` are `video_queue`,
`now - video_queue_head_wait_start_us` and `video_queue_head_wait_seq_num`; the
elements of the queue are the console's packet numbers, which the code never
sees, so that the model can tell a packet from another one with the same 16 bit
number. `HandlePacket` is the whole of `takion_handle_packet_av` (create the
queue at the first packet, push, flush), `FlushOnTimeout` the receive call that
times out, `Close` the end of the loop with `chiaki_reorder_queue_fini`.
`Flush` composes its parts in the order of the code: drain, settle the wait,
skip a gap whose wait ran out, drain again. The network is external: `net` is
the set of packets in flight, from which one may be delivered (and stay, to be
delivered again), or lost, in any order. `held` counts allocated packet buffers.

**TakionSendBuffer.** `slot` and `count` are the array and `packets_count`; a
slot keeps the packet, its `tries` and the `age` of its last sending. `sender`
follows a thread through `chiaki_takion_send_message_data`: number taken, sent,
pushed. `resender` is the place of the resending thread; the mutex is held
across steps at one place only, between the check of the predicate and the wait
("blocking"). To give a packet up the code releases the mutex, reads
`packet->seq_num` through a pointer into the array, acknowledges it and locks
again: three steps (`ReadVictim`, `GiveUp`, `Resume`). `lag` is how far the
clock got since the scan read it, since `now` is not read again; the unsigned
difference of the code is why `Overdue` holds for a packet younger than that.
`takion` follows `chiaki_takion_send_buffer_fini`; a push after it is undefined
behaviour and leads to a place without a next step.

**StreamConnection.** `run` follows `chiaki_stream_connection_run`; a wait has
three places: "ready" (about to wait, with the mutex), "blocked", and what
follows (`Proceed`, by phase). `state`, `finished`, `failed`, `shouldStop`,
`remote`, `early` are the fields of the same names in the code. `Callback` holds
for Takion's thread when it can take `state_mutex`. `congestion` and `setter`
are the two threads that send on Takion from outside. The console may answer in
any order: the streaminfo before BANG, between BANG and the moment it is seen,
or after.

**SessionCtrl.** `sess` follows `session_thread_func`, `ctrl` follows
`ctrl_thread_func`; `await` is which of the three waits the session is in. Two
mutexes are held across steps: `StateFree` and `NotifFree` say when they are to
be had. `pipe` is whether `notif_pipe` is readable. The ctrl thread's handlers
are split where they release or take `state_mutex` (`gotId`, `storeId`;
`tcpFailed`, `connectFailed`). `Quiet` is an assumption about the console that
section 5 explains.

**TakionData.** `pc` follows `takion_thread_func`: INIT and COOKIE with their
`tries`, the second loop of the connection, the receive loop. `queue` is
`data_queue`, whose elements are the console's data; `TakionDataAssumption` fixes
what distinguishes it from the video queue (32 bits, so `PromotedAdd = FALSE`, and
the strategy "end"). `Spec` says what may happen, and `FairSpec` adds the fairness. In the loop
a packet is received as a whole: MAC, push, the flush with the callback (which
sets the key in the middle of it when it gets the BANG), the acknowledgement, the
packets postponed. `crypt` tells no key from one that was just set and one that
is in use. `FlushDataQueue` keeps the code's condition that it acknowledges when
something was pulled. The check of the queued data, once there is a key, calls
`peek` with a NULL that `peek` writes to if any packet is there: that is the place
"crashed". The console (external) sends again until it is acknowledged; the
network loses, repeats and reorders both ways.

**VideoReceiver.** A step is one unit: `chiaki_video_receiver_av_packet` with the
flush of the frame before and of its own when there are enough. `receiver` has
the fields the flush changes and, as ghosts, what was `shown`, what the decoder
took (`good`) and what was `reported`. The console's choice of references and the
decoder's refusals are free.

**AudioReceiver.** A packet is split into its units (`todo`), each of which goes
through `chiaki_audio_receiver_frame`: late, waiting in `jitter`, stored, played,
concealed. With these sizes the branch for a full buffer is never reached: the
buffer is emptied as soon as playback has begun.

**KeyStream, SendCrypt.** `buf` holds at each offset the position its key stream
was computed for, or `Torn` while the thread computes it with the mutex released.
`reader` is Takion's thread, which completes the low half of a position. In
`SendCrypt` a sender takes its range in one critical section and goes out in
another one; a packet in between is marked `keyed` if there was a key when its
position was taken. `SetCrypt` takes no mutex, as `chiaki_takion_set_crypt` does
not: congestion control (`Reporter`), which runs before the key is there, may be
between its two sections. No other thread is: Takion's own is the one that sets
the key, and the stream connection's sends with the `state_mutex` that is held
while it does.

**PacketStats, FeedbackSender, DiscoveryService.** Each thread's critical sections
are its actions; what is read before one and used after it is in the thread's
record. `PacketStats` has the race of `push_seq`, which takes no mutex: its result
may be `Garbage`. In `FeedbackSender` events are numbered; a packet is the
sequence of the numbers it repeats.

**Senkusha.** `phase` is what is waited for; `Expected` says which answer that is.
Answers in `net` have the number of their request, and may come during it or the
next one. `low`, `high` and `attempt` are the search's variables.

**Rudp, RudpHandshake, Registration.** `Rudp` has the numbering of messages in a
step of its own: it is read again when the message is pushed. The kinds of
acknowledgements the code does not know acknowledge number 0. `RudpHandshake` is
the loop of `chiaki_rudp_send_recv`, called seven times on one socket, in which
late answers stay. `Registration` splits `regist_thread_func` at the waits; a
wait that fails before the request counts as a cancel, as in the code (`broken`).

**Holepunch, Candidates, PortProbe.** `Holepunch.pc` goes through
`session_create`, `session_start`, `punch_hole` for both ports and
`session_fini`; `queue` is the queue of notifications with the messages that stay
in it; the request ids are those of the code; a notification may lack what it
should hold (`Malformed`). `Candidates` is `check_candidates`:
the sockets are numbered, the last two are the session's. `PortProbe` is the
arithmetic of `stun_port_allocation_test` and of the offer, in 16 bits (here
`PortMax`), beside a NAT that gives ports by a step or jumps, and also gives them
to others.

**The application.** `ByteRing` is the ring buffer of samples; `GuiAudioOut` has
Takion's thread, the drain thread, SDL's playing and the GUI's opening and
closing of the device; `GuiMic` SDL's capture, the coalesced event, the encoder's
frames and muting. `GuiInput` has one action per input event, each of which ends
in `SendFeedbackState`; its ghosts say what the user holds. `PadEffects` begins
with the messages of `streamconnection.c`, runs `StreamSession::Event` on
Takion's thread, and what that posts on the application's; a session may end and
another one begin with the same `ControllerManager`. `FrameQueue` gives every
decoded frame a number and follows its owner through `presentFrame`,
`storePendingFrame`, `queueStoredFrame`, promotion and reset, and counts how often
it was freed; a reset goes on with a waiting frame or with the kept one when the
frame it was to begin with is refused (`Fallback`). `Presenter` has the
events that Qt's thread and the render thread post to each other, the flags that
coalesce them, and the swap thread; events posted to Qt's thread are a set of
kinds without an order, which allows more than the code does.

**The ladder of calls.** In `PunchCalls`, `LibCalls` and `SessionCalls` a function
is a sequence of steps that take things (memory, sockets, threads, locks, and
flags that stand for something done), release them, go on elsewhere or return;
`CallSteps` has the forms they are written in. `CallLadder` runs one thread from a
root through all calls, and lets at most one step fail. What a message, an answer
or a list holds is one thing with it; loops go round once; threads run where they
are joined. A session, its ctrl thread, its streams and Takion's thread are roots
of their own, and stand in each other as summaries (`StreamRan`, `CtrlRan`,
`TakionRan`). The steps are those of the Linux build with OpenSSL.

## 3. What each run checks

The runs whose expected result is "pass" finish without an error; the mutants in
`PROJECT.json` (definitions marked "bug:" in the modules) show for each property
a plausible mistake in the code that TLC finds with it.

| Run | Module, configuration | Distinct states | Result |
|---|---|---|---|
| `video_queue` | `MCVideoQueue`, `MCVideoQueue.cfg` | 31122 | pass |
| `video_wrap` | `MCVideoQueue`, `MCVideoWrap.cfg` | | violated, see 5 |
| `send_buffer` | `TakionSendBuffer`, `MCSendBuffer.cfg` | 263977 | pass |
| `send_buffer_give_up` | `TakionSendBuffer`, `MCSendBufferGiveUp.cfg` | | violated, see 5 |
| `send_buffer_fini` | `TakionSendBuffer`, `MCSendBufferFini.cfg` | | violated, see 5 |
| `data_channel` | `TakionData`, `TakionData.cfg` | 323372 | pass |
| `stream` | `StreamConnection`, `MCStream.cfg` | 4021 | pass |
| `stream_stop` | `StreamConnection`, `MCStreamStop.cfg` | | violated, see 5 |
| `session` | `SessionCtrl`, `MCSession.cfg` | 57742 | pass |
| `session_reason` | `SessionCtrl`, `MCSessionReason.cfg` | | violated, see 5 |
| `session_locks` | `SessionCtrl`, `MCSessionLocks.cfg` | | violated, see 5 |
| `parts` | `MCParts`, `MCParts.cfg` | 1465464 | pass |

**video_queue.** The window never exceeds the ring buffer (`WindowFits`, the
assertion of the code); the thread blocks without a timeout exactly when nothing
waits (`WaitsIffBuffered`); between two calls the queue begins with a missing
packet and ends with one that is there (`OnlyGapsAreBuffered`); every buffer is
freed once (`NoLeak`); no entry comes out under another one's number
(`SlotsHoldTheirOwn`); packets come out in the order they were sent, each at
most once (`ImplementsStream`, the refinement of `LossyStream`); a missing packet is
passed only when its wait ran out or a packet is in flight for which there is no
room behind it (`GapOnlyAfterWait`); a packet
in the queue leaves it (`EveryPacketLeaves`).

*Bounds.* `QueueSize = 4` for 64 and `SeqMod = 32` for 2^16 keep the ratio that
matters, a window far below half the modulus; `StartSeq = 29` and
`MaxPackets = 7` make the numbers wrap in the middle, both for `begin` and for
the end of the window. `FrameUnits = 3` lets the first packet be in the middle
of its frame. `Span = 4` packets may overtake one another, as many as the window
has places, so that one may come in which there is no room for while the first
place is still waited for; as packets may also be lost, gaps longer than the
window and packets older than it both arise.
`Timeout = 1` tick separates "waits", "at the limit" and "over it"; the clock
counts no further, as the code only compares. Seven packets suffice to fill the
window, to pass two gaps and to cross the wrap.

**send_buffer.** The resender never sleeps without a timeout over a packet
(`NoSleepOverPackets`, the promise of the comment at `takionsendbuffer.c:119`);
no packet the console lacks disappears other than by being given up or refused
(`NothingForgotten`); every packet leaves the buffer (`EveryPacketLeaves`);
`fini` returns when packets are in the buffer (`FiniReturnsIfBusy`).

*Bounds.* Two senders are as many as meet in one critical section besides the
two threads; `BufferSize = 2` with `MaxPackets = 3` makes the buffer full and
refuse a packet; `TriesMax = 1` and `ResendTimeout = 1` let a packet be sent
again and then be given up; `MaxLag = 1` lets the clock move while a packet is
given up, which is when the age of a newer packet underflows. `StartSeq = 14` of
`SeqMod = 16` makes the numbers wrap. Symmetry of the senders is not used, since
liveness is checked. The sleep of `TAKION_DATA_RESEND_WAKEUP_TIMEOUT_MS` may end
at any time: the order of its end and of everything else is free.

**stream.** No signal misses the wait it is meant for (`NoMissedSignal`); an
early streaminfo is used (`EarlyInfoUsed`); CONNECTED is sent only with keys and
an accepted streaminfo (`ConnectedAfterHandshake`); the result tells a true
reason (`ResultTellsWhy`); whoever sends on Takion has ended before it is closed
(`SendersStopFirst`, with the exception of section 5); a stop or a DISCONNECT
makes it return (`ReturnsWhenToldTo`); connecting ends whatever the console does
(`ConnectingEnds`). The module has no constants: the state is finite, and the
run is exhaustive for the model.

**session.** Neither thread sleeps over something meant for it
(`NoMissedSignal`, `NoMissedNotification`); CHIAKI_EVENT_QUIT comes with a true
reason (`ReasonTellsWhy`); a stop ends the session from wherever it comes in
(`StopEnds`); a PIN that is entered gets to the console or the session ends
(`PinIsSent`). `MaxMsgs = 1` bounds the messages queued; the queue matters by
being empty or not, and the theorems of section 6 hold for any number.
`Quiet = TRUE`: see section 5.

**data_channel.** The callback gets the console's data in order, each once, and
the console takes for received only what the callback was given
(`ImplementsChannel`, the refinement of `OrderedChannel`); data whose MAC was not
checked goes to the callback only in a flush that began without a key
(`CheckedAfterBang`, the promise of the comment at `takion.h:145`); postponed
audio and video is passed on before what came later, each packet once, and only
with a key (`AVInArrivalOrder`; what does not fit among the postponed is dropped);
the handshake ends, and data reaches the callback however often it is lost
(`ConnectionProgresses`, unless closed or "crashed").

*Bounds.* `QueueSize = 3` and `SeqMod = 12` with `MaxData = 4` make a packet come
beyond the window and the numbers wrap (`Tag = 7`). `BangAt = 1`: some data comes
before the BANG, without a MAC. `PostponeSize = 1` with `MaxAV = 2` reaches the full list. `MaxTries = 2`
separates "again" from "the last time".

**parts.** Each property is a conjunction over the parts, because each part is a
system of its own and its properties are of the same kinds.

| Property | Part: what is checked |
|---|---|
| `MediaInOrder` | *video*: frames are shown in order and once, with references the decoder took; each frame is shown or reported by the time a later one begins; a frame with enough units is flushed at once. *audio*: consecutive frames, concealed only when overtaken, none stays behind. *sound*: samples in order on every way they take, never more than two buffers ahead, no sleep over samples, no thread left behind. *voice*: the same for the microphone; muted means nothing is captured. *pictures*: a frame has one owner until it is freed, once, or twice if it was refused on its way back from a full queue; waiting frames are in order. *screen*: a swapchain frame is submitted before the next is begun; the swapchain is destroyed only when idle; nobody sleeps over a frame |
| `KeyStreamRight` | *keys*: a packet meets the key stream of its own position, and the thread sleeps only when it has nothing to do. *crypt*: ranges of the key stream are apart, a packet is signed with the key of its position, and the only packet outside the ranges is one congestion report that was begun before the key |
| `ReportedAsItIs` | *stats*: each unit is in one report. *feedback*: events keep their order and none is left out unless the queue overflowed; when the thread waits the console is up to date. *discovery*: the list told is the list; who does not answer leaves it and who does stays; no callback after fini. *input*: nothing stays pressed, a touch is a finger, what the menu took stays away from the game, the finger put down by the buttons is lifted. *effects*: colors, effects and their intensity are what the console told last |
| `AnswersDecide` | *senkusha*: sizes are the path's, success has all. *rudp*: what was sent is received, kept, given up or refused. *handshake*: fewer faults than tries are survived. *regist*: one verdict, and a true one: cancelled only after a stop or a wait that failed. *punch*: the messages used are those of the port. *candidates*: the address handed out answered both ways, one socket stays open. *ports*: the port a rising NAT gives next is offered |
| `ReleasedOnEveryPath` | *calls*: whichever step fails, a function that returns has released what it took and does not give away, one that succeeds gives what it promises, nothing is released twice, used when gone or overwritten, nobody waits for its own lock: but for the faults in the `...Faults` sets |
| `PartsEnd` | what was begun or told to stop ends: fini of key stream, feedback sender and discovery, the runs of senkusha, RUDP's requests, registration, the search and the holepunch session, the buffers of sound and voice, the finger of the buttons, frames that wait to be shown, rumbling by haptics |

`PartsTypeOK` collects the type invariants. The `...Faults` sets are the known
defects (130 triples of a kind, a function and a thing, with their lines beside
them in the modules); the run fails for any other one, and each member is one TLC
found. `PartsEnd` says that what is unfinished will once not be: for a part whose
`Unfinished` comes and goes that is "again and again".

*Bounds.* Each bound is named in its module, and its values stand in `MCParts.cfg`
for the parts of `Parts`, and in `MCParts` for the others:
moduli of 8 to 24 with starts below the wrap, so that numbers wrap in the middle;
queues and buffers of 1 to 4, so that they overflow; tries of 1 to 3, so that
"again" and "no more" differ; two senders; two pads of which one has triggers;
answers that come in their own or the next request. `PortProbe` scales the ports
to 32 with 3 guesses ahead and up to 4 mappings nobody tells of.

CHECK_DEADLOCK is FALSE everywhere because each of these systems does stop: a
session is over, a Takion closed, all packets of a bounded number are sent.
That something stops which should not is the subject of the liveness properties.

## 4. Fairness

- Threads are scheduled: weak fairness of a thread whose step stays possible.
- A thread that waits for a mutex others take and release again and again gets
  it in the end: strong fairness (`Session`, `Ctrl`, `StopCtrl`, `SetPin`,
  `Stop`, `Run`). Without it one could not say of any program with mutexes that
  it ends. Where several steps are disjuncts of one fair action, the critical
  one has a condition of its own (`StopCtrl`, `SetPin`, `CheckWork`).
- Waits with a time limit end: weak fairness of `TimeOut`, and of the clocks.
- `send_buffer` asks for fairness of the whole of a sender's call, not that a
  call is ever made, and of the resender; nothing of acknowledgements.
- `video_queue` asks nothing of the network.
- `stream` asks that a Takion that is being closed ends, `session` that a stream
  that was stopped ends: each is what a module below it is about.
- In these runs the console and the user are under no obligation. `CheckWork` has strong
  fairness because `recv_buf` is finite: the ctrl thread cannot for ever find
  another complete message in it without calling `recv`.
- `data_channel`: Takion's thread goes on while it can, its timeouts end, the
  console sends what is not acknowledged again, and data that is in flight again
  and again while the loop receives is handled once in a while: a network that
  loses every copy of it promises nothing. The handshake needs no such thing, for
  it may fail. Audio and video need not arrive.
- `parts`: weak fairness of each thread's own steps, of devices that
  play and of timers. Nothing of the network, of PSN's servers, of the
  user, of failures. Two waits of holepunch are no fault of these assumptions and
  left out of `Unfinished`: for a WebSocket that cannot connect, which nobody
  tells, and after a cancel or a notification without its user that left
  `state_mutex` locked. The candidates' search ends partly because the bound on
  messages ends what candidates send: one that sends for ever keeps it turning.

## 5. Where code and documentation disagree

Each of these runs checks one property that a comment, a header or an assertion
of the repository states, and TLC shows an execution of the code that violates
it. The quotations are in `PROJECT.json`.

- `video_wrap`, `RejectsOnlyOldOrDuplicate`: `reorderqueue.h:90-91` says when push
  hands the new element to the drop callback. At the wrap of the 16 bit packet
  index `begin` and the end of the window become 65536 instead of 0, because the
  sum is computed in `int` and stored in 64 bits (`reorderqueue.c:37`), and `ge`
  compares raw values for equality. A packet that is neither old nor a duplicate
  is then dropped. The properties of `video_queue` hold nevertheless: a packet
  is lost, and the stream goes on.
- `send_buffer_give_up`, `GivesUpOnlyExhausted`: the packet given up is not
  always the one whose tries are exhausted (`takionsendbuffer.c:253`).
- `send_buffer_fini`, `FiniReturns`: the signal of `fini` may fall between the
  resender's check and its wait; with an empty buffer that wait has no timeout
  and the join never returns. `FiniReturnsIfBusy` is what does hold.
- `stream_stop`, `CongestionWhileRunning`: a stop while Takion connects closes
  Takion under the congestion thread (`streamconnection.c:231`).
- `session_reason`, `StoppedStays`: a stop while ctrl connects is reported as a
  failure of ctrl, by which the GUI starts the session again.
- `session_locks`, `PinPassesLock`: the session thread takes `notif_mutex` with
  `state_mutex` held (`session.c:558`), the ctrl thread takes them in the other
  order. If the console sends something, or its connection breaks, just as a PIN
  is passed on, both wait for ever.

The last one would make every liveness property of the session fail. `Quiet`
separates it from them: with `Quiet = TRUE` the console sends nothing between
asking for a PIN and having one. The repository promises no such thing; it is an
assumption of the run `session`, made so that it says what else holds, and the
run `session_locks` shows what happens without it. The theorems about the
session do not need it.

## 6. What is proved

TLAPS checks every proof to the last leaf; the modules use no recursive operator.
The theorems are about the modules below; the others are model-checked only. Each
state property is `Spec => []Inv`, from `Init => IInv`, `IInv /\ [Next]_vars =>
IInv'` and `IInv => Inv`; an action property and a refinement come from the same
invariant, step by step. The named assumptions of the constants are evaluated by
TLC in every run.

**Serial numbers** (`ReorderQueueProofs`). Casting, adding and advancing in closed
form, without the remainder (`CastAdd`, `CastPlus`, `ModAdd`, `ModSub`), that
numbers less than a modulus apart are different (`ModApart`), and what `SeqLt` and
the distance decide for numbers less than half the modulus apart (`LtCast`,
`LtStops`, `LtAdd`, `LtCounted`, `DistanceCounted`). The other proofs rest on
these. From `SeqNumAssumption`: the modulus is an even number above 3.

**Reorder queue** (`ReorderQueueProofs`). What `Push`, repeated pulls and their
loops do to a queue of the right shape: the loop that drops heads ends with room
for the new element, the loop that extends the window ends at it, and never
beyond the buffer. Then what they do to the contents: a place of the window has
an entry of the buffer of its own (`IdxApart`); a push changes no other place than
that of its element, pulls and drops move the window without moving an element
(`ExtendPlaces`, `DropPlaces`, `PushPlaces`, `PullPlaces`). From
`ReorderQueueAssumption`: twice the size of the queue is at most half the modulus
(64 and 2^16 in the code).

**Video path, timer and window** (`TakionVideoQueueProofs`). `TypeCorrect`,
`WindowAlwaysFits`, `NoStrandedPacket`, `NothingDeliverableHeld`, for every size,
width, timeout and number of packets. The invariant is the conjunction of
`TypeOK`, `WindowFits`, `WaitsIffBuffered` and `OnlyGapsAreBuffered`. None of them
is inductive alone: that the last place of the window is occupied bounds what a
skip may look for, that the first one is not is what makes the wait be recorded
exactly when the queue is not empty, and both need that the window fits. A flush
is a composition of functions, so the lemmas carry the invariant through drain,
settle, skip and drain; a step of the specification is then one application of
`FlushOK`.

**Video path, the packets** (same module). `NoBufferLeaks`, `EachAtItsOwnPlace`,
`GapsAreWaitedFor`, and `StreamImplemented`, the refinement of `LossyStream`. The
invariant counts packets as the console does, without wrapping: the window begins
at some packet `B` later than the last one delivered, what is at place `i` is the
packet `B + i` and nothing else, and as many buffers are held as the window has
packets (`StreamInv`). `B` is in no variable; the code knows only its number,
`queue.begin`, and that number must mean one packet. It does as long as the
packets in question are less than half the modulus apart. So these four theorems are about behaviours with `[]Recent`:
no packet in flight is half the range of numbers old, less a
window, and the stream did not lose half a range at once. The code needs the same:
a packet delayed by 32768 others is taken for a new one. At the rates of a stream
those are many seconds, far beyond what a datagram survives, but nothing in the
code checks it, which is why it is a hypothesis and not an invariant. Behaviours
meet it: each one in which the console sends at most half the modulus less a
window does (`ShortSessionIsRecent`), and others that wrap any number of times.

**Data channel** (`TakionDataProofs`). `DataTypes`, `AVOrderKept`,
`OnlyCheckedData`, and `ChannelImplemented`, the refinement of `OrderedChannel`,
for every size of the queue, modulus, tag, number of data and tries, and every
loss, repetition and reordering. The heart of the invariant is `Holds`: the queue
begins at the number of the first datum the callback was not given, and what is
in it is at the place of its own number, which is why what is pulled is the next
datum, and why the number that is acknowledged is that of the last one. `KeyInv` says when there
is a key and that queued data was then checked; `AVInv` that what was passed on
and what is postponed are, one behind the other, what arrived but for one gap
behind the packets that filled the list. Assumed: the queue's assumption above,
and `2 * MaxData <= SeqMod`, for 32 bit numbers no more than 2^31 data.

**Send buffer** (`TakionSendBufferProofs`). `TypeCorrect`, `NoSleep`,
`NoneForgotten`, for any set of senders, size, tries, timeouts and modulus.
`NoSleepOverPackets` is not inductive: it must hold already when the resender is
about to wait ("blocking", with the mutex), which is `NoSleepInv`; a push into
the empty buffer is where it could break, and the signal is what saves it. For
`NothingForgotten` the wire numbers must order as the packets do: fewer than half
the modulus are numbered in all (`MaxPackets < SeqHalf` in
`SendBufferAssumption`), so an acknowledgement that compares not less is of a
packet not later, and all packets up to it were received. This bound is the
abstraction of a window that is never wider than the buffer; a run of the
program sends more packets than that, but never has so many on their way.

**Stream connection** (`StreamConnectionProofs`). `TypeCorrect`,
`NeverMissesASignal`, `EarlyInfoIsUsed`, `ConnectedOnlyAfterHandshake`,
`ResultIsTrue`, `SendersHaveStopped`. The module has no parameter and TLC's run is
exhaustive; the proofs are there for the argument. Types and signals are inductive
alone. What is true when CHIAKI_EVENT_CONNECTED is sent was decided phases before,
and `state_finished` means something else in each of them: `FinishedMeans` says
what, by phase, `InfoKept` where a streaminfo may be that nobody looked at yet,
`ResultInv` and `SendersInv` carry result and senders from where they are decided
to where the properties speak.

**Session and ctrl** (`SessionCtrlProofs`). `TypeCorrect`, `SignalNeverMissed`,
`NotificationNeverMissed`, `ReasonIsTrue`, for every number of messages and for
`Quiet` TRUE and FALSE. `ReasonTellsWhy` speaks of the end only; `ReasonInv`
carries it from the moment a reason is set. The type of `msgs` needs
`msgs <= queued`.

**Key stream** (`PartsProofs`). `KeyStreamIsRight`, about two parts of `Parts`: for
every modulus of the positions on the wire, size of the ring buffer and of its
chunks, range of positions, number of threads that send and sizes of packets.
Receiving: the offsets that count as populated hold the key stream of their own
positions, around the end of the ring and while the thread computes a chunk with
the mutex released (`BufferHolds`), because such a chunk has its place behind them
(`RoomForChunk`); and the thread went to sleep only over a full buffer
(`SleepsOverFullBuffer`). Sending: the ranges taken with a key are apart and
below `keyPos`, those a thread still holds among them (`HeldInv`), and the
generation of the key is that of the position (`SentInv`). A packet begun without
a key has position 0, and once there is a key it is the one congestion control
holds; after that one is sent nobody holds such a packet again, so at most one is
signed. Of congestion control nothing is assumed but that it is one thread.

**What is reported** (`PartsProofs`). `ReportedIsAsItIs`, about five more parts of
`Parts`, for every value of their constants: modulus, pushes, loss; sticks,
buttons, lengths of queue and history; consoles, length of the list and pings it
keeps one for; buttons, keys, places and numbers of touches; pads, looks and
amount of effects. `Init` of a part gives its invariant, each of its actions
keeps it, and it gives the part of `ReportedAsItIs`. The invariants stand at the
end of the parts' modules:

- *stats*, `StatsInv`: what was pushed of frames is what reports took and what is
  still counted, units received and lost apart. Between `get` and `reset_stats`,
  which hold the mutex, both are the same units, and `push_generation` waits;
  `push_seq`, which does not, touches none of them.
- *feedback*, `QueueInv`: the history is the last events without a gap and a packet
  is never empty, so the first events of packets rise in the order they are made,
  from what the console got over what is being sent to what waits. `SticksInv`:
  unless a change was not looked at, the sticks are those being sent, or the last
  ones sent.
- *discovery*, `ListInv`: a console's index is the ping it was heard of last, and
  not too old, with a `Grace` of one ping while the list is about to be checked
  and one for the first console: when the first is removed, the next one is not
  looked at and becomes the first. `ThreadsInv`: when the service ended, so had
  the receiver.
- *input*, `ButtonsInv`: each button in each of the states has something that holds
  it, and once the menu no longer blocks, something that was not held all the time
  since. `TouchesInv`: the touches on the screen have different numbers, all below
  the next one, and each is a finger that is down.
- *effects*: two queues follow each other. `ToSendInv`: what Takion's thread has
  still to hand over is what the console told last, and of what there is nothing,
  `StreamSession` has it. `LooksInv`, `EndsInv` and `LevelInv`: the same from
  there to the pads and to the manager, of the last event of each mark, and only
  of marks nobody missed.

**Answers** (`AnswerProofs`). `AnswersDecideAlone`, about the other seven parts of
`Parts`, in the same way and again for every value of their constants. That an
answer decides only what it answers is nowhere written in the code. It follows
from which answers there can be at all at each place, which is what the
invariants say:

- *senkusha*, `SenkushaInv`: an answer that bears the number of the last request
  is there only if the size of that request gets through, so the search leaves
  the size of the path between `low` and `high` (`SearchLeaves`). The exceptions
  are a size that fits and whose answers were all lost (`unlucky`), and the
  largest one, which the second search need not have asked for.
- *rudp*, `RudpInv`: with any number of senders, a message is in one place and has
  one number, is kept under a number above its own, and an acknowledgement bears
  a number below which all was received. So an acknowledgement takes nothing
  away that is still missing, late or wrong as it may be. Unless two threads
  counted at once, a kept message has the number right after its own (`InTurn`).
- *handshake*, `HandshakeInv`: every answer in the socket but that of the last
  request was late, and the tries used up by this call, with those the wrong
  answers in the socket will use up, are no more than the faults so far.
- *regist*, `RegistInv`: a thread that was stopped does not get to the answer, but
  where it no longer looks at the stop pipe; it reports a cancel only after a stop
  or a failed wait.
- *candidates*, `SearchInv`: nothing is chosen before an answer came to a request of
  ours, and then all other sockets are closed.
- *punch*, `PunchInv`: queue, hand of the WebSocket thread and what the server has
  still to send are one line. In it no OFFER for the control port comes after a
  RESULT and no ACCEPT for that port after an OFFER for the data port. This is why
  the first message in the queue that fits is of the right port, although what was
  used stays there.
- *ports*, `PortsInv`: while a NAT rises evenly, the port it gives next is that of
  the last answer raised by the mappings nobody told of and one more, and each
  answer is a step after the one before, but for as many as `odd` says
  (`AnswersInv`). From that the cases of `check` follow: two, three or four answers
  of which some have the same address tell the step, also across the end of the
  ports (`FoundInv`). That the guesses are apart is proved of the recursive
  function that makes them by looking at the least place where it fails.

Assumed of the constants is what each module's `...ConstantsOK` says. Most of it is
their types. `RudpConstantsOK` keeps the numbers of a connection below half the
modulus. The code starts below 24576 of 65536, so that leaves it 8192 messages
(`rudp.c:80`); beyond half, an acknowledgement of a kind the code does not know,
read as number 0, would take away what the console still lacks, and the property
is false. `PortProbeConstantsOK` has fewer guesses than dynamic ports (75 and
16383 in the code), and a NAT that does not come around a whole turn between two
answers; one that does cannot be told from one that stands still.

## 7. What is only model-checked

- Liveness (`EveryPacketLeaves`, `FiniReturnsIfBusy`, `ReturnsWhenToldTo`,
  `ConnectingEnds`, `StopEnds`, `PinIsSent`, `ConnectionProgresses`, `PartsEnd`):
  fairness and ENABLED are out of TLAPS's reach.
- Of `MCParts`, `PartsTypeOK`, `MediaInOrder` and `ReleasedOnEveryPath`.
  `MediaInOrder` needs an invariant for each of six parts; none stands in the way
  but the work. What a part needs of `PartsTypeOK` to keep the properties proved of
  it is in its invariant. The ladder of calls is finite, without a parameter, and
  its functions are data: TLC goes through all of them.
- Of the `violation` runs, the properties, which are false.

## 8. What the models leave out, and what was seen on the way

Not modelled:

- The layout of messages (protobuf, JSON, HTTP, headers), ciphers and key exchange
  (`rpcrypt.c`, `ecdh.c`: functions on bytes), codecs, and forward error
  correction beyond counting units.
- In the session: the resolving of hosts and the HTTP exchange (one step; their
  error paths are in the ladder). Its PSN branches are in the ladder only.
- In ctrl: keyboard, heartbeat and display messages, the counters of encryption.
- In discovery the one-shot search and wake-up; in Senkusha the average of times,
  and `should_stop`, which nothing sets; the audio sender's repetition of frames;
  `stream_connection_send_big` with an MTU below 77, which Senkusha never gives.
- In the application: settings, QML pages, steering of windows, statistics shown,
  drawing, the warm-up frame, sticks and motion, handheld pads, the haptics' own
  audio device. They keep values or draw; what is concurrent in them is above.
- The Android, Switch, Steam Deck, setsu and command line front ends, and vendored
  and generated code.

What goes wrong in the code and is not an error of a run. Models take these as
they are, and properties say in their exceptions where they bite; the list is for
whoever works on the code. Those of the error paths stand in the `...Faults` sets.

*The queue's buffer.* With a full window, a packet whose number is exactly one
short of half the modulus past the window's end is not taken for one beyond it,
the loop that extends the window ends at once, and the element is stored in the
place of another one (`reorderqueue.c`). `ReorderQueueProofs` has this as the
hypothesis `Reaches` of `PushPlaces`. It is proved never to occur for data
(`MaxData <= SeqHalf`), and for video as long as packets are `Recent`.

*Takion.* A packet whose push was overtaken by its acknowledgement is sent again
until a later one; a packet pushed while another is given up is sent again early
(`takionsendbuffer.c:244`); a number whose packet the socket refused is never
sent (`takion.c:615`), so the console waits for it. `chiaki_takion_set_crypt`
takes no mutex while congestion control is already sending: a report whose
position 0 was taken without a key is signed with the new key, at the position
the first packet after it also has (`takion.h:193`, `streamconnection.c:222`;
`RangesApart`). `chiaki_takion_connect`
reports success after failing to make its stop pipe or thread (248, 258). The check of
queued data passes NULL to `peek`, which writes to it (1102).

*Receivers and statistics.* `push_seq` takes no mutex (`packetstats.c:52`); what is
checked and proved is that this never touches the units of the generations. A
late packet in `packetstats.c`, or a get between two of its assignments, gives a loss of nearly all; the same across a wrap. The
count of lost frames is wrong across the wrap of frame indices. Copies of audio
frames for error correction arrive after the frame was concealed.

*Senkusha, discovery.* The search outwards never tries the largest size unless the
search inwards found it; a lost last answer discards all results. Senkusha runs
with the session's `state_mutex` locked, so that a stop waits for it. Discovery
skips a host after removing one at index 0 (`discoveryservice.c:296`).

*RUDP.* Two threads can take the same number, and a message of a kind the code does
not know acknowledges number 0; messages that come twice are handled twice.

*Registration.* `chiaki_regist_fini` is called with the `state_mutex` that its
callback needs: a stop during the registration over PSN, or one that takes longer
than ten seconds, hangs the session (`session.c:475-478`). Over RUDP it does not
heed a stop. A wait before the request that fails in any way but the time limit
is reported as a cancel (`regist.c:333`).

*Holepunch.* Waiting for the WebSocket has no end when it cannot connect; a cancel
in the loops of create and start returns with `state_mutex` locked; start unlocks
it twice (1212); a notification of a created session that lacks the user's
online id makes create return with `state_mutex` locked (984-1005); in start the
error of a console id that is no number, or not the one asked for, is set in an
inner `err` and lost, and start returns success (1144-1160); a RESULT of another request is never taken off the queue, and
the loop turns until it is cancelled. The session punches while it holds
its `state_mutex`, and goes on after `create_offer` failed. In `stun.h` a step
told by four answers is 16 bits wide, so that a falling NAT gives one of nearly a
whole turn; some patterns of equal addresses among the answers give a wrong step: `Telling`
lists those that give a right one.

*Sound, voice, input.* SDL's queue never exceeds two buffers, so that the branches
for more than three are dead. `AudioSettingsCb` blocks Takion's thread on the
application's; that ends well because the destructor runs after the session. A
button let go while the microphone's is held stays pressed (`stuck`). A menu waits
for buttons only, not for sticks or fingers.

*Pads.* With an intensity "off" the message that ends an effect is dropped like the
one that begins it: a DualSense that rumbles goes on (`streamsession.cpp:2358`,
`unheard`). The intensity lives in `ControllerManager` and outlives the session,
whose default nobody tells again (`leveled`). The lambda that runs a second after
a pad was plugged in captures it, and it may be gone. `PushHapticsFrame` walks
over the pads on Takion's thread while `UpdateGamepads` changes them.

*Picture.* A frame that comes back from a full queue while a newer one waits is
freed by `storePendingFrame` (`qmlmainwindow.cpp:3679`) and again by
`queueStoredFrame` (4302): `OneOwner` counts both, and allows two for such a
frame (`refused`) only. A promoted frame is pushed with the origin it was
stored with (3268); `presentFrame` uses a frame after giving it away (3388); the
warm-up frame has two owners. A frame pushed right after `presentFrame` saw the
renderer busy is shown with the next one only (`past.missed`);
`updateVulkanDeferredSwap` and the end of a session reset the mark of a frame
that is still to be submitted (`past.forced`).

## 9. The plan

Done: what Takion promises for video, for sent and for received data; the threads
of a stream and of a session; the receivers, encryption, feedback, statistics,
discovery, Senkusha, RUDP, registration and holepunch; the error paths of the
library; the application's sound, voice, input, effects and pictures.

Proved since: the refinement of `LossyStream` with the safety of the ring buffer,
the refinement of `OrderedChannel`, the key stream in both directions, the
safety of `StreamConnection`, what the parts report, and which answers decide.

Next is a proof of `MediaInOrder`, beginning with `FrameQueue` and `Presenter`,
whose parts then move from `MCParts` to `Parts`.

Models that could follow: `TakionData` composed with `TakionSendBuffer` over one
network; the sender of the microphone's packets; the switch of video profiles.

## 10. How to run it

    tlc -workers 2 -config MCVideoQueue.cfg MCVideoQueue.tla
    tlapm TakionVideoQueueProofs.tla

and so on for the configurations in section 3 and the modules named `...Proofs`.
Each run takes less than three minutes, and so does each of the proof modules but
`TakionVideoQueueProofs`, `PartsProofs` and `AnswerProofs`, which take up to ten.
