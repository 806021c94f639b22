---------------------------- MODULE SessionCalls ----------------------------
(***************************************************************************)
(* A session as steps, from the application's object to the connections    *)
(* under it: ctrl, senkusha, takion and the stream connection. Threads run *)
(* where they are joined, and the stream's data comes where its owner      *)
(* waits too. A session over PSN holds psn, and rudp once that works; it   *)
(* is then given its sockets. The session, its ctrl thread, its streams    *)
(* and takion's thread are roots of their own: in each one stands what the *)
(* others do to it.                                                        *)
(***************************************************************************)
EXTENDS LibCalls

State == "session state_mutex"
Notif == "notif_mutex"
StreamState == "stream state_mutex"

\* A step that may go to the step t instead of the next one, releasing rs.
Or(i, rs, t) == Does({Goes({}, {}), Outcome({}, rs, t - i, "")})
TakeOr(r, i, rs, t) == Does({Goes({r}, {}), Outcome({}, rs, t - i, "")})
CallOr(f, gets, i, rs, t) == [Or(i, rs, t) EXCEPT !.calls = f, !.gets = gets]

-----------------------------------------------------------------------------
(* Ctrl                                                                    *)

Ctrl == {"notif_mutex object", "ctrl stop_pipe", "notif_pipe"}
CtrlInit ==
  LET before == {"notif_mutex object", Notif}
  IN Function(<<Try("notif_mutex object", {}), Lock(Notif),
                Call("stop_pipe_init", {"ctrl stop_pipe"}, before),
                Call("stop_pipe_init", {"notif_pipe"}, before \cup {"ctrl stop_pipe"}),
                Free({Notif})>>,
              Ctrl, Ctrl, {}, {})
CtrlFini == Function(<<Free(Ctrl \cup {"ctrl login_pin"})>>, {}, {}, {"ctrl login_pin"}, {})
CtrlSendMessage ==
  Function(<<Try("queue", {}), Skip(1), Try("payload", {"queue"}), Lock(Notif),
             Set("msg_queue"), Free({"queue", "payload", Notif})>>,
           {}, {"msg_queue"}, {"payload", "msg_queue"}, {"msg_queue"})
CtrlSetLoginPin ==
  Function(<<TryOk("buf", {}), Lock(Notif), Free({"ctrl login_pin"}),
             Becomes("buf", "ctrl login_pin"), Free({Notif})>>,
           {}, {"ctrl login_pin"}, {"ctrl login_pin"}, {"ctrl login_pin"})

CtrlConnectTcp ==
  Function(<<Try("sa", {}), Check({"sa"}), Try("sock", {"sa"}), Check({"sa", "sock"}),
             Free({Notif}), Lock(Notif), Free({"sa"}), Check({"sock"}),
             Becomes("sock", "ctrl sock")>>,
           {"ctrl sock"}, {"ctrl sock", Notif}, {}, {})
\* Over RUDP err is another variable while the connection is made. A request
\* that is too long, or that cannot be sent, leaves err as it is. What gets no
\* answer in time is asked once more.
CtrlSock == {"ctrl sock"}
CtrlConnection ==
  <<OnlyIf({"rudp"}, 6),
    CallElse("rudp_send_recv", {"init message"}, 4), Free({"init message"}),
    CallElse("rudp_send_recv", {"cookie message"}, 2), Free({"cookie message"}),
    Jump(2), Return({}), Call("ctrl_connect_tcp", {}, {})>>
CtrlRequest == <<Check(CtrlSock), Enough(CtrlSock)>>
CtrlAnswer ==
  <<OnlyIf({"rudp"}, 4), CallElse("send_recv_http_header_psn", {}, 1), Jump(1),
    Call("send_recv_http_header_psn", {}, {}), Jump(4),
    Enough(CtrlSock),
    Does({Outcome({}, {}, 3, ""), Goes({}, CtrlSock), Ends(CtrlSock, "failed")}),
    Call("ctrl_connect_tcp", {}, {}), Back(3),
    Check(CtrlSock), Call("http_response_parse", {}, CtrlSock),
    Check(CtrlSock \cup {"headers"}), Free({"headers"}), Take("ctrl connected")>>
CtrlConnect ==
  Function(CtrlConnection \o CtrlRequest \o CtrlAnswer,
           {"ctrl connected"}, CtrlSock, CtrlSock, CtrlSock \cup {"headers"})
CtrlMessageSend ==
  Function(<<Skip(2), Try("enc", {}), Check({"enc"}), Check({"enc"}), Free({"enc"}), Check({})>>,
           {}, {}, {"enc"}, {})
CtrlFailed == Simple(Locked(State, <<>>))
\* What it receives, it hands to the session. From step 7: the messages that are
\* complete, what is to be sent, and the pin; from step 21: what comes next.
CtrlHasFailed == 28
CtrlIsOver == 29
CtrlStarts ==
  <<Lock(Notif), CallOr("ctrl_connect", {"ctrl connected"}, 2, {}, 4), Jump(3),
    CallAnyway("ctrl_failed", {}), Free({Notif}), Return({})>>
CtrlSends ==
  <<Or(7, {}, CtrlHasFailed),
    OnlyIf({"msg_queue"}, 5), Becomes("msg_queue", "msg"), Free({Notif}),
    CallAnyway("ctrl_message_send", {}), Free({"msg"}), Lock(Notif),
    OnlyIf({"ctrl login_pin"}, 5), Becomes("ctrl login_pin", "login pin"),
    Free({Notif}), CallAnyway("ctrl_message_send", {}), Free({"login pin"}),
    Lock(Notif), Or(20, {}, CtrlIsOver)>>
CtrlReceives ==
  <<OnlyIf({"rudp"}, 4), CallOr("rudp_select_recv", {}, 22, {}, CtrlHasFailed),
    Or(23, {}, CtrlHasFailed), Free({"read message"}), Back(18),
    Or(26, {}, CtrlHasFailed), Back(20)>>
CtrlThread ==
  Function(CtrlStarts \o CtrlSends \o CtrlReceives
           \o <<CallAnyway("ctrl_failed", {}), Free({Notif}),
                Free({"ctrl sock", "ctrl connected"})>>,
           {}, {"msg_queue", "ctrl login_pin", "ctrl sock"}, {"ctrl sock", "ctrl connected"},
           {"ctrl sock", "ctrl connected", "msg_queue", "ctrl login_pin", "read message"})

-----------------------------------------------------------------------------
(* Takion                                                                  *)

Takion == {"gkcrypt_local_mutex", "seq_num_local_mutex", "takion stop_pipe"}
\* It says that it is connected, when the stop pipe or what the socket still has
\* failed, and whether or not there is a thread.
TakionLocks ==
  <<Check({}), Try("gkcrypt_local_mutex", {}),
    Try("seq_num_local_mutex", {"gkcrypt_local_mutex"}),
    [Call("stop_pipe_init", {"takion stop_pipe"}, {}) EXCEPT
       !.outs = {Goes({}, {}), Ends({"gkcrypt_local_mutex", "seq_num_local_mutex"}, "ok")}]>>
TakionGivenSock(all) ==
  <<OnlyIf({"rudp"}, 4), Use({"data_sock"}), Enough(all), Check(all), Jump(2)>>
TakionOwnSock(sock, all) == <<Try(sock, Takion), Check(all)>>
TakionConnect(sock) ==
  LET all == Takion \cup {sock, "data_sock"}
  IN Function(TakionLocks \o TakionGivenSock(all) \o TakionOwnSock(sock, all)
              \o <<Maybe("takion thread")>>,
              Takion \cup {"takion thread"}, Takion \cup {"takion thread", sock},
              {sock, "data_sock"}, {sock, "data_sock"})
TakionClose(thread) ==
  Function(<<Use({"takion thread"}), OnlyIf({"takion thread"}, 2), CallAnyway(thread, {}),
             Free({"takion thread"}), Free(Takion)>>,
           {}, {}, {}, {})
TakionSendBufferInit ==
  Function(Made(<<"packets", "send mutex", "send cond", "send thread">>),
           {"packets", "send mutex", "send cond", "send thread"}, {}, {}, {})
\* Takion's thread to the stream, or to senkusha: its callback locks the state of
\* the one whose data it brings, and it closes the sockets that are its own.
TakionRan(lock, owned, data) ==
  Function(<<Lock(lock), Free({lock}), Skip(1), CallAnyway(data, {}), Lock(lock), Free({lock}),
             Free(owned)>>,
           {}, {}, owned, owned)
\* By itself, as the stream's. Packets that come before the keys wait for them.
TakionThread ==
  LET close == 21
      queue == 23
      beach == 24
  IN Function(<<Or(1, {}, beach), TakeOr("data_queue", 2, {}, beach),
                CallOr("takion_send_buffer_init", {"takion send_buffer"}, 3, {}, queue),
                Lock(StreamState), Free({StreamState}),
                \* 6: packets that have waited for the keys; the next packet
                OnlyIf({"gkcrypt_remote"}, 1), Free({"postponed_packets", "postponed"}),
                TakeOr("buf", 8, {}, close),
                Does({Goes({}, {}), Outcome({}, {"buf"}, -3, ""),
                      Outcome({}, {"buf"}, close - 9, "")}),
                OnlyIf({"gkcrypt_remote"}, 1), Jump(3), Skip(2), CallAnyway("takion_postpone_packet", {}), Back(8),
                Skip(1), Set("video_queue"), Into({"buf"}), Skip(1), Set("gkcrypt_remote"), Back(14),
                Free({"takion send_buffer"}), Free({"video_queue"}), Free({"data_queue"}),
                Lock(StreamState), Free({StreamState}), Free({"takion sock"})>>,
              {}, {"gkcrypt_remote"},
              {"takion sock", "postponed_packets", "postponed", "video_queue", "buf"},
              {"takion sock", "postponed_packets", "postponed", "video_queue"})
\* The application's messages are sent while it runs.
TakionUse ==
  Function(<<Call("takion_connect", {}, {}), Skip(1), CallAnyway("takion_send_message_data", {}),
             CallAnyway("takion_close", {}), Free({"gkcrypt_remote"})>>,
           {}, {}, {"gkcrypt_remote"}, {})
\* Without memory or space it keeps a packet nowhere.
TakionPostpone ==
  Function(<<OnlyIf({"postponed_packets"}, 1), Jump(1), TryOk("postponed_packets", {}),
             Enough({}), Does({Goes({"postponed"}, {"buf", "postponed"})})>>,
           {}, {"postponed_packets", "postponed"}, {"postponed"}, {"postponed"})
TakionSendData ==
  Simple(<<Check({}), Try("packet_buf", {}), Check({}), Check({"packet_buf"}),
           Into({"packet_buf"})>>)

-----------------------------------------------------------------------------
(* The stream connection                                                   *)

Stream == {"stream mutex", "stream cond", "packet_stats", "feedback_sender_mutex object"}
Crypt == {"gkcrypt_local", "local key stream", "gkcrypt_remote", "remote key stream"}
Congestion == {"congestion cond", "congestion thread"}
StreamConnectionInit ==
  Function(Made(<<"stream mutex", "stream cond", "packet_stats", "feedback_sender_mutex object">>),
           Stream, Stream, {}, {})
\* A thread of congestion control that still runs uses takion.
StreamConnectionFini ==
  Function(<<Free(Crypt \cup {"remote_disconnect_reason", "ecdh_secret"}),
             OnlyIf({"congestion thread"}, 2), Use({"gkcrypt_local_mutex"}), Free(Congestion),
             Free(Stream \cup {"remote_disconnected"})>>,
           {}, {}, Crypt \cup {"remote_disconnect_reason", "ecdh_secret", "remote_disconnected"}, {})
CongestionStart ==
  Function(Made(<<"congestion cond", "congestion thread">>), Congestion, Congestion, {}, {})
Feedback == {"history_buf", "feedback mutex", "feedback cond", "feedback thread"}
FeedbackSenderInit ==
  Function(Made(<<"history_buf", "feedback mutex", "feedback cond", "feedback thread">>),
           Feedback, Feedback, {}, {})

FrameBuffers == {"unit_slots", "frame_buf"}
AllocFrame ==
  Function(<<Check({}), Does({Goes({"unit_slots"}, {"unit_slots"}), Ends({"unit_slots"}, "failed")}),
             Check({}), OnlyIf({"frame_buf"}, 1), Skip(1),
             Does({Goes({"frame_buf"}, {"frame_buf"}), Ends({"frame_buf"}, "failed")}),
             Use(FrameBuffers)>>,
           {}, FrameBuffers, FrameBuffers, FrameBuffers)

\* The first keys of the stream are released without what they own when there are
\* no others.
InitCrypt ==
  Function(<<Call("gkcrypt_new", {"gkcrypt_local", "local key stream"}, {}),
             Call("gkcrypt_new", {"gkcrypt_remote", "remote key stream"}, {"gkcrypt_local"})>>,
           Crypt, Crypt, {}, {"gkcrypt_local"})
HandleDisconnect ==
  Function(<<Enough({}), Set("remote_disconnected"), Free({"remote_disconnect_reason"}),
             Maybe("remote_disconnect_reason")>>,
           {}, {"remote_disconnected", "remote_disconnect_reason"},
           {"remote_disconnect_reason", "remote_disconnected"},
           {"remote_disconnect_reason", "remote_disconnected"})
\* A stream info that comes too early is kept. A second bang is followed to the
\* secret it overwrites, when there are keys already.
ExpectBang ==
  Function(<<Does({Goes({}, {}), Outcome({}, {}, 6, ""), Ends({}, "ok")}),
             OnlyIf({"streaminfo_early_buf"}, 1), Return({}),
             Maybe("streaminfo_early_buf"), Use({"streaminfo_early_buf"}), Return({}),
             Check({}), Try("ecdh_secret", {}), OnlyIf({"gkcrypt_remote"}, 1), Return({}),
             Call("ecdh_derive_secret", {}, {"ecdh_secret"}), Call("stream_init_crypt", {}, {})>>,
           {}, {"streaminfo_early_buf", "ecdh_secret"}, {}, {"ecdh_secret"})
DecodeResolution ==
  Function(<<Maybe("header_buf"), Check({}), OnlyIf({"header_buf"}, 1), Jump(1), Return({}),
             Enough({"header_buf"}), Enough({}), Becomes("header_buf", "header")>>,
           {}, {"header"}, {}, {})
ExpectStreaminfo ==
  Function(<<Skip(4), Call("pb_decode_resolution", {}, {}), OnlyIf({"header"}, 1),
             Does({Goes({"profile headers"}, {"header", "profile headers"})}), Back(4),
             Enough({}), Check({}),
             OnlyIf({"profile headers"}, 3), OnlyIf({"video headers"}, 1), Jump(1),
             Becomes("profile headers", "video headers"), Check({})>>,
           {}, {"video headers"}, {"profile headers"}, {"profile headers"})
\* What is expected decides, and a disconnection may come at any time.
StreamData ==
  Function(<<Lock(StreamState), Skip(2), CallAnyway("handle_disconnect", {}), Jump(5),
             OnlyIf({"EXPECT_BANG"}, 2), CallAnyway("expect_bang", {}), Jump(2),
             OnlyIf({"EXPECT_STREAMINFO"}, 1), CallAnyway("expect_streaminfo", {}),
             Free({StreamState}), Again(10), Skip(1), CallAnyway("alloc_frame", {})>>,
           {}, {}, {}, {})

Receivers == {"audio_receiver", "haptics_receiver", "video_receiver"}
StreamWaits ==
  <<Free({StreamState}), Skip(1), CallAnyway("stream_takion_data", {}), Lock(StreamState)>>
\* The labels disconnect, err_congestion_control and close_takion.
StreamDisconnect == 40
StreamCongestion == 41
StreamCloses == 42
\* Step 10: it is connected, or stopped, or not connected in time.
StreamStarts ==
  LET before == {"stream sa", StreamState}
      all == Receivers \cup before
  IN <<OnlyIf({"rudp"}, 1), Jump(1), Try("stream sa", {}), Lock(StreamState),
       Try("audio_receiver", before),
       Try("haptics_receiver", before \cup {"audio_receiver"}),
       Try("video_receiver", before \cup {"audio_receiver", "haptics_receiver"}),
       Call("takion_connect", {}, all),
       CallOr("congestion_control_start", {}, 9, {}, StreamCloses),
       Does({Goes({}, {}), Outcome({}, {}, StreamCloses - 10, ""),
             Outcome({}, {}, StreamCongestion - 10, "")})>>
StreamHandshake ==
  <<Take("EXPECT_BANG"), Or(12, {}, StreamDisconnect)>> \o StreamWaits
  \o <<[Or(17, {}, StreamDisconnect) EXCEPT !.when = {"gkcrypt_remote"}],
       Or(18, {}, StreamDisconnect), Becomes("EXPECT_BANG", "EXPECT_STREAMINFO"),
       OnlyIf({"streaminfo_early_buf"}, 2), CallAnyway("expect_streaminfo", {}),
       Free({"streaminfo_early_buf"})>>
  \o StreamWaits
  \o <<Or(27, {}, StreamDisconnect), Lock("feedback_sender_mutex"),
       CallOr("feedback_sender_init", {}, 29, {"feedback_sender_mutex"}, StreamDisconnect),
       Free({"feedback_sender_mutex"})>>
StreamRuns ==
  <<Free({"EXPECT_STREAMINFO"})>> \o StreamWaits
  \o <<Again(4), Lock("feedback_sender_mutex"), Free(Feedback),
       Free({"feedback_sender_mutex"})>>
StreamEnds ==
  <<Free({"streaminfo_early_buf"}), Free(Congestion), Free({StreamState}),
    CallAnyway("stream_takion_close", {}), Lock(StreamState),
    Free(Receivers \cup FrameBuffers \cup {"video headers", StreamState}),
    Free({"stream sa", "EXPECT_BANG", "EXPECT_STREAMINFO"})>>
StreamConnectionRun ==
  Function(StreamStarts \o StreamHandshake \o StreamRuns \o StreamEnds,
           {}, Congestion,
           FrameBuffers \cup {"streaminfo_early_buf", "stream sa", "video headers",
                              "EXPECT_BANG", "EXPECT_STREAMINFO"},
           {"streaminfo_early_buf", "video headers", "EXPECT_BANG", "EXPECT_STREAMINFO"}
             \cup FrameBuffers)

-----------------------------------------------------------------------------
(* Senkusha and the session                                                *)

SenkushaParts == {"senkusha mutex", "senkusha cond"}
SenkushaState == "senkusha state_mutex"
SenkushaInit ==
  Function(Made(<<"senkusha mutex", "senkusha cond">>), SenkushaParts, SenkushaParts, {}, {})
SenkushaRun ==
  LET before == {"senkusha sa", SenkushaState}
  IN Function(<<Lock(SenkushaState), Check({SenkushaState}),
                OnlyIf({"rudp"}, 1), Jump(1), Try("senkusha sa", {SenkushaState}),
                Call("senkusha_takion_connect", {}, before), Free(before),
                CallAnyway("senkusha_takion_close", {})>>,
              {}, {}, {"senkusha sa"}, {"senkusha sa"})
SenkushaData == Simple(Locked(SenkushaState, <<>>))

\* Over the network each of the console's addresses is tried. A session whose
\* target has no version ends before it asks.
RequestSock == {"session_sock"}
RequestConnection ==
  LET all == {"request sa", "session_sock"}
      over == 14
      request == 15
  IN <<OnlyIf({"rudp"}, 5), Call("rudp_send_recv", {"init message"}, {}),
       Free({"init message"}), Call("rudp_send_recv", {"cookie message"}, {}),
       Free({"cookie message"}), Jump(8), Or(7, {}, over),
       TakeOr("request sa", 8, {}, 7), TakeOr("session_sock", 9, {"request sa"}, 7),
       Or(10, all, 7), Free({State}), Lock(State),
       Does({Outcome({}, {"request sa"}, request - 13, ""), Outcome({}, all, 7 - 13, ""),
             Outcome({}, all, 1, "")}),
       Fail({})>>
RequestSent == <<Check(RequestSock), Check({}), Check(RequestSock)>>
RequestAnswer ==
  <<Free({State}), OnlyIf({"rudp"}, 1), CallAnyway("send_recv_http_header_psn", {}),
    Lock(State), Check(RequestSock),
    OnlyIf({"rudp"}, 2), CallElse("rudp_send_recv", {"finish message"}, 1),
    Free({"finish message"}),
    Call("http_response_parse", {}, RequestSock),
    Check({"headers"} \cup RequestSock), Return({"headers"} \cup RequestSock)>>
SessionRequest ==
  Function(RequestConnection \o RequestSent \o RequestAnswer,
           {}, {State}, RequestSock, {"headers"} \cup RequestSock)

SessionParts == {"state_cond", "session mutex", "session stop_pipe"}
\* A failing step ends a session over PSN that the caller made.
SessionInit ==
  LET before == SessionParts \cup {"psn"}
  IN Function(<<Try("state_cond", {"psn"}), Try("session mutex", {"state_cond", "psn"}),
                Call("stop_pipe_init", {"session stop_pipe"}, before \ {"session stop_pipe"}),
                Lock(State), Free({State}), Call("ctrl_init", {}, before),
                Call("stream_connection_init", {}, before \cup Ctrl),
                OnlyIf({"psn"}, 1), Return({}), TakeOr("host_addrinfos", 10, {}, 12),
                Return({}), CallAnyway("session_fini", {}), Fail({})>>,
              SessionParts, SessionParts \cup {"host_addrinfos"}, {"psn"}, {"psn"})
SessionFini ==
  Function(<<Lock(State), Free({"login_pin", "quit_reason_str", State}),
             CallAnyway("stream_connection_fini", {}), CallAnyway("ctrl_fini", {}),
             CallAnyway("rudp_fini", {}),
             Free(SessionParts \cup {"psn", "host_addrinfos"})>>,
           {}, {}, {"login_pin", "quit_reason_str", "psn", "host_addrinfos"}, {})
SetLoginPin ==
  Function(<<Try("pin buf", {}), Lock(State), Free({"login_pin"}),
             Becomes("pin buf", "login_pin"), Free({State})>>,
           {}, {"login_pin"}, {"login_pin"}, {"login_pin"})

\* What the stream, with the socket it was given, leaves to the session.
StreamRan ==
  Function(<<Free({"data_sock"}), Skip(2), Take("remote_disconnected"),
             Maybe("remote_disconnect_reason")>>,
           {}, {"remote_disconnected", "remote_disconnect_reason"}, {"data_sock"},
           {"data_sock"})
\* The ctrl thread has the session's state locked now and then.
CtrlRan == Simple(<<CallAnyway("ctrl_failed", {})>>)

\* The state is locked but while it waits and while the stream runs. From step 11:
\* a login pin, from the user; from step 21: the socket for the data, and a
\* session id.
QuitCtrl == 42
QuitNow == 46
Quit(i, t) == Or(i, {State}, t)
SessionAsks ==
  <<Lock(State), Quit(2, QuitNow),
    OnlyIf({"psn"}, 3), CallElse("rudp_init", {"rudp sock"}, 2),
    CallAnyway("psn_regist", {}), Quit(6, QuitNow),
    CallOr("session_request", {}, 7, {State}, QuitNow), Again(1),
    TakeOr("ctrl thread", 9, {State}, QuitNow), Quit(10, QuitCtrl)>>
SessionPin ==
  <<Skip(9), Free({State}), CallAnyway("session_set_login_pin", {}), Lock(State),
    [Quit(15, QuitCtrl) EXCEPT !.when = {"login_pin"}], Quit(16, QuitCtrl),
    CallAnyway("ctrl_set_login_pin", {}), Free({"login_pin"}), Quit(19, QuitCtrl),
    Back(9)>>
SessionData ==
  <<OnlyIf({"rudp"}, 2), TakeOr("data_sock", 22, {State}, QuitCtrl), Quit(23, QuitCtrl),
    Skip(3), Free({State}), Lock(State), Quit(27, QuitCtrl)>>
SessionStream ==
  <<CallOr("senkusha_init", {}, 28, {State}, QuitCtrl),
    Free(SenkushaParts), Quit(30, QuitCtrl),
    OnlyIf({"rudp"}, 1), Quit(32, QuitCtrl),
    CallOr("ecdh_init", {}, 33, {State}, QuitCtrl), Free({State}),
    CallAnyway("stream_ran", {}), Lock(State),
    OnlyIf({"remote_disconnected"}, 2), Use({"remote_disconnect_reason"}),
    Maybe("quit_reason_str"), Free({State}), CallAnyway("ecdh_fini", {})>>
SessionThread ==
  Function(SessionAsks \o SessionPin \o SessionData \o SessionStream
           \o <<Lock(Notif), Free({Notif}), CallAnyway("ctrl_ran", {}),
                Free({"ctrl thread"}), Lock(State), Free({State})>>,
           {}, {"quit_reason_str", "login_pin", "rudp sock"}, {}, {"login_pin"})
\* The ctrl connection, which has messages to send; and the connections for the
\* stream, over PSN or not.
CtrlUse ==
  Function(<<Call("ctrl_init", {}, {}), Skip(1), CallAnyway("ctrl_send_message", {}),
             Skip(1), CallAnyway("ctrl_set_login_pin", {}), Skip(1), TakeAll(Rudp),
             CallAnyway("ctrl_thread_func", {}), CallAnyway("ctrl_fini", {}), Free(Rudp)>>,
           {}, {}, Rudp, {})
StreamUse ==
  Function(<<Call("stream_connection_init", {}, {}), Skip(1), TakeAll(Rudp \cup {"data_sock"}),
             CallElse("senkusha_init", {}, 2), CallAnyway("senkusha_run", {}),
             Free(SenkushaParts),
             CallElse("ecdh_init", {}, 2), CallAnyway("stream_connection_run", {}),
             CallAnyway("ecdh_fini", {}), CallAnyway("stream_connection_fini", {}), Free(Rudp)>>,
           {}, {}, Rudp, {})
\* A session that the application makes, sends a message to, and ends.
SessionUse ==
  Simple(<<Skip(1), Take("psn"), Call("session_init", {}, {}), Or(4, {}, 8),
           Skip(1), CallAnyway("ctrl_send_message", {}), CallAnyway("session_thread_func", {}),
           CallAnyway("session_fini", {})>>)

SessionTable ==
  [ctrl_init |-> CtrlInit, ctrl_fini |-> CtrlFini, ctrl_send_message |-> CtrlSendMessage,
   ctrl_set_login_pin |-> CtrlSetLoginPin, ctrl_connect_tcp |-> CtrlConnectTcp,
   ctrl_connect |-> CtrlConnect, ctrl_message_send |-> CtrlMessageSend,
   ctrl_failed |-> CtrlFailed, ctrl_thread_func |-> CtrlThread,
   takion_connect |-> TakionConnect("takion sock"),
   takion_close |-> TakionClose("takion_thread_func"), takion_thread_func |-> TakionThread,
   stream_takion_close |-> TakionClose("stream_takion_ran"),
   stream_takion_ran |-> TakionRan(StreamState, {"takion sock", "data_sock"},
                                   "stream_takion_data"),
   senkusha_takion_connect |-> TakionConnect("senkusha sock"),
   senkusha_takion_close |-> TakionClose("senkusha_takion_ran"),
   senkusha_takion_ran |-> TakionRan(SenkushaState, {"senkusha sock"}, "senkusha_takion_data"),
   senkusha_takion_data |-> SenkushaData,
   takion_send_buffer_init |-> TakionSendBufferInit,
   takion_postpone_packet |-> TakionPostpone, takion_send_message_data |-> TakionSendData,
   stream_connection_init |-> StreamConnectionInit,
   stream_connection_fini |-> StreamConnectionFini,
   stream_connection_run |-> StreamConnectionRun,
   congestion_control_start |-> CongestionStart, feedback_sender_init |-> FeedbackSenderInit,
   alloc_frame |-> AllocFrame, stream_init_crypt |-> InitCrypt,
   handle_disconnect |-> HandleDisconnect, expect_bang |-> ExpectBang,
   pb_decode_resolution |-> DecodeResolution, expect_streaminfo |-> ExpectStreaminfo,
   stream_takion_data |-> StreamData,
   senkusha_init |-> SenkushaInit, senkusha_run |-> SenkushaRun,
   session_request |-> SessionRequest, session_init |-> SessionInit,
   session_fini |-> SessionFini, session_set_login_pin |-> SetLoginPin,
   stream_ran |-> StreamRan, ctrl_ran |-> CtrlRan, session_thread_func |-> SessionThread,
   ctrl |-> CtrlUse, takion |-> TakionUse, stream |-> StreamUse, session |-> SessionUse]
SessionRoots == {"session", "ctrl", "stream", "takion"}

SessionFaults ==
  \* ctrl.c 1169: err is another one; 1310, 1338: it is as it was. 527: a
  \* message that is too short. 196: what is still to be sent.
  Fault("missing", "ctrl_connect", {"ctrl connected"})
  \cup Fault("left", "ctrl", {"msg_queue", "read message"})
  \cup Fault("left", "session", {"msg_queue", "read message"})
  \cup Fault("lost", "rudp_message_parse", {"read message"})
  \* session.c 927: the version that there is not; 595, 628, 663: stopped with the
  \* hole punched. 687: the console has given no reason that could be kept.
  \cup Fault("left", "session_request", {"session_sock"})
  \cup Fault("left", "session_thread_func", {"data_sock"})
  \cup Fault("used", "session_thread_func", {"remote_disconnect_reason"})
  \* takion.c 248, 258 and 440: it has failed, and says it is connected; what is
  \* closed then (461-468). 605: the packet. 1261, 1269: the packet that is not
  \* kept; 1128: those that are, when no keys come.
  \cup UNION {Fault("missing", f, Takion \cup {"takion thread"}) :
                f \in {"takion_connect", "senkusha_takion_connect"}}
  \cup UNION {Fault("twice", f, Takion) \cup Fault("used", f, {"takion thread"}) :
                f \in {"takion_close", "stream_takion_close", "senkusha_takion_close"}}
  \cup Fault("left", "takion_send_message_data", {"packet_buf"})
  \cup Fault("lost", "takion_thread_func", {"buf"})
  \cup Fault("left", "takion_thread_func", {"buf"})
  \cup Fault("left", "takion", {"postponed", "postponed_packets", "takion sock"})
  \* senkusha closes the socket of the stream when it cannot connect; nobody does
  \* when the stream does not come to its thread.
  \cup Fault("used", "takion_connect", {"data_sock"})
  \cup Fault("left", "stream", {"data_sock", "takion sock", "senkusha sock"})
  \* streamconnection.c 231: congestion control goes on without takion. 735: what
  \* the keys own. 818: a second bang. 779: malloc is not looked at; a stream info
  \* that comes after 340. 891: one resolution too many; 924 to 973: all of them.
  \cup Fault("used", "stream_connection_fini", {"gkcrypt_local_mutex"})
  \cup Fault("left", "stream_init_crypt", {"local key stream"})
  \cup Fault("lost", "expect_bang", {"ecdh_secret"})
  \cup Fault("used", "expect_bang", {"streaminfo_early_buf"})
  \cup Fault("left", "stream", {"streaminfo_early_buf"})
  \cup Fault("left", "pb_decode_resolution", {"header_buf"})
  \cup Fault("left", "expect_streaminfo", {"profile headers"})
=============================================================================
