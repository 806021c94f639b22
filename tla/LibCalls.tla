------------------------------ MODULE LibCalls ------------------------------
(***************************************************************************)
(* The library's own objects as steps: what their init functions take and  *)
(* give back when one of their steps fails, what their fini functions       *)
(* release, and the functions that work with memory in between. The names  *)
(* are those of the build for Linux with OpenSSL.                          *)
(***************************************************************************)
EXTENDS CallSteps, Integers, Sequences

\* An object that its init function makes in steps, each of which may fail and
\* then releases the ones before it.
Made(parts) ==
  [i \in DOMAIN parts |-> Try(parts[i], {parts[j] : j \in 1..(i - 1)})]

-----------------------------------------------------------------------------
(* Decoders and encoders                                                   *)

DecoderLock == {"decoder lock", "decoder mutex"}
FfmpegContext == DecoderLock \cup {"codec_context", "hw_device_ctx"}
FfmpegInit ==
  Function(<<Try("decoder mutex", {}), Lock("decoder lock"),
             Skip(1), Take("hw_device_ctx"),
             Check(DecoderLock), Try("codec_context", DecoderLock),
             Skip(4), Check(FfmpegContext),
             OnlyIf({"hw_device_ctx"}, 1), Jump(1), Try("hw_device_ctx", FfmpegContext),
             Check(FfmpegContext), Free({"decoder lock"})>>,
           {"codec_context", "decoder mutex"}, FfmpegContext \ {"decoder lock"},
           {"hw_device_ctx"}, {})
FfmpegFini ==
  Function(Locked("decoder lock", <<Free({"codec_context", "hw_device_ctx"})>>)
           \o <<Free({"decoder mutex"})>>,
           {}, {}, {"hw_device_ctx"}, {})
\* A codec that is full gives a frame away, and is asked again.
FfmpegSample ==
  LET hell == {"packet", "decoder lock"}
  IN Function(<<Lock("decoder lock"), Maybe("packet"), Use({"packet"}),
                Does({Goes({}, {}), Outcome({}, {}, 4, ""), Ends(hell, "failed")}),
                Try("dropped frame", hell),
                Does({Goes({}, {"dropped frame"}), Ends(hell \cup {"dropped frame"}, "failed")}),
                Back(3), Return(hell)>>,
              {}, {}, {"packet"}, {})
\* The last frame there is: two of them change places.
FfmpegPull ==
  Function(<<Lock("decoder lock"),
             Does({Goes({"frame"}, {}), Outcome({}, {}, 4, "")}),
             Does({Goes({}, {}), Outcome({}, {"frame"}, 3, "")}),
             Does({Goes({"frame_last"}, {}), Outcome({}, {}, 2, "")}),
             Does({Outcome({}, {}, 0, ""), Goes({}, {"frame_last"})}),
             Free({"decoder lock"})>>,
           {}, {"frame"}, {}, {"frame"})
FfmpegDecoder ==
  Function(<<Call("ffmpeg_decoder_init", {}, {}),
             Skip(1), CallAnyway("ffmpeg_decoder_video_sample_cb", {}),
             Skip(2), CallAnyway("ffmpeg_decoder_pull_frame", {}), Free({"frame"}),
             Again(5), CallAnyway("ffmpeg_decoder_fini", {})>>,
           {}, {}, {"frame"}, {"frame"})

OpusDecoderParts == {"opus_decoder", "pcm_buf"}
OpusDecoderHeader ==
  Function(<<Free({"opus_decoder"}), TryOk("opus_decoder", {}),
             Does({Goes({"pcm_buf"}, {"pcm_buf"}), Ends(OpusDecoderParts, "failed")})>>,
           {}, OpusDecoderParts, OpusDecoderParts, OpusDecoderParts)
OpusDecoderFrame ==
  Function(<<OnlyIf({"opus_decoder"}, 1), Use(OpusDecoderParts)>>, {}, OpusDecoderParts, {}, {})
OpusDecoder ==
  Function(<<Skip(1), CallAnyway("opus_decoder_header", {}),
             Skip(1), CallAnyway("opus_decoder_frame", {}), Again(4),
             Free(OpusDecoderParts)>>,
           {}, {}, OpusDecoderParts, {})

Microphone == {"mic frame_buf", "filled_packet_buf", "mic mutex"}
MicFrames == {"framea", "frameb"}
AudioSenderInit ==
  Function(Made(<<"mic frame_buf", "filled_packet_buf", "mic mutex">>),
           Microphone, Microphone, {}, {})
AudioSenderFini ==
  Function(<<Free(Microphone \cup MicFrames)>>, {}, {}, MicFrames, MicFrames)
AudioSenderNew ==
  Function(<<Try("audio_sender", {}), Call("audio_sender_init", {}, {"audio_sender"})>>,
           {"audio_sender"}, {"audio_sender"}, {}, {})
AudioSenderFree ==
  Function(<<OnlyIf({"audio_sender"}, 2), CallAnyway("audio_sender_fini", {}),
             Free({"audio_sender"})>>,
           {}, {}, {}, {})
\* The first two units that come are kept, whatever they are kept for.
AudioSenderData ==
  Function(<<OnlyIf({"frameb"}, 1), Jump(2), TryOk("frameb", {}), Return({}),
             OnlyIf({"framea"}, 1), Jump(2), TryOk("framea", {}), Return({}),
             Use(Microphone \cup MicFrames)>>
           \o Locked("mic lock", <<>>),
           {}, MicFrames, {}, {})

OpusEncoderParts == {"opus_encoder", "opus_frame_buf"}
OpusEncoderHeader ==
  Function(<<Free({"opus_encoder"}), CallAnyway("audio_sender_free", {}),
             Call("audio_sender_new", {}, {}),
             Does({Goes({"opus_encoder"}, {}), Outcome({}, {}, 3, "")}),
             Does({Goes({"opus_frame_buf"}, {"opus_frame_buf"}),
                   Outcome({}, OpusEncoderParts, 2, "")}),
             Return({}), CallAnyway("audio_sender_free", {}), Fail({})>>,
           {}, OpusEncoderParts, OpusEncoderParts, OpusEncoderParts)
OpusEncoderFrame ==
  Function(<<OnlyIf({"opus_encoder"}, 4), Use({"opus_frame_buf"}), Enough({}),
             Use({"audio_sender"}), CallAnyway("audio_sender_opus_data", {})>>,
           {}, {}, {}, {})
OpusEncoder ==
  Function(<<Skip(1), CallAnyway("opus_encoder_header", {}),
             Skip(1), CallAnyway("opus_encoder_frame", {}), Again(4),
             Free({"opus_frame_buf"}), CallAnyway("audio_sender_free", {}),
             Free({"opus_encoder"})>>,
           {}, {}, OpusEncoderParts, {})

-----------------------------------------------------------------------------
(* Pipes, answers and keys                                                 *)

StopPipeInit == Function(<<Try("pipe", {}), Check({"pipe"})>>, {"pipe"}, {}, {}, {})

\* The list is released when one of its lines cannot be read; nobody looks at the
\* pointer that stays.
HeaderParse ==
  Function(<<Check({"headers"}),
             Does({Goes({"headers"}, {"headers"}), Ends({"headers"}, "failed")}), Again(2)>>,
           {}, {"headers"}, {"headers"}, {"headers"})
ResponseParse == Simple(<<Check({}), Call("http_header_parse", {}, {})>>)
ResponseFini == Function(<<Free({"headers"})>>, {}, {}, {"headers"}, {})

Key == {"key_local", "group"}
EcdhInit ==
  Function(<<Try("group", Key), Try("key_local", Key), Check(Key)>>, Key, Key, Key, {})
EcdhFini == Function(<<Free(Key)>>, {}, {}, Key, {})
SetLocalKey ==
  LET point == {"private_key_bn", "public_key_point"}
  IN Simple(<<Try("private_key_bn", {}), Try("public_key_point", {"private_key_bn"}),
              Check(point), Use({"key_local"}), Check(point), Return(point)>>)
DeriveSecret ==
  LET point == {"remote_public_key"}
  IN Simple(<<Try("remote_public_key", {}), Check(point), Use({"key_local"}), Free(point),
              Check({})>>)

\* With a buffer, as both of a session's streams have one.
KeyStreamOf == {"key_buf", "key_buf_mutex", "key_buf_cond", "key_buf_thread"}
GkcryptInit ==
  Function(Made(<<"key_buf", "key_buf_mutex", "key_buf_cond">>)
           \o <<Check(KeyStreamOf), Try("key_buf_thread", KeyStreamOf)>>,
           KeyStreamOf, {}, {"key_buf_thread"}, {})
GkcryptNew ==
  Function(<<Try("gkcrypt", {}), Call("gkcrypt_init", {"key stream"}, {"gkcrypt"})>>,
           {"gkcrypt", "key stream"}, {}, {}, {})

-----------------------------------------------------------------------------
(* The search for consoles                                                 *)

DiscoveryInit ==
  Function(<<Check({}), Try("discovery socket", {}), Check({"discovery socket"})>>,
           {"discovery socket"}, {}, {}, {})
\* Its thread reads until it is told to stop or cannot go on.
DiscoveryThreadStart ==
  Function(<<Call("stop_pipe_init", {"search stop_pipe"}, {}),
             Try("search thread", {"search stop_pipe"})>>,
           {"search stop_pipe", "search thread"}, {"search stop_pipe", "search thread"}, {}, {})
DiscoveryThreadStop ==
  Function(<<CallAnyway("discovery_thread_func", {}), Free({"search thread"}),
             Free({"search stop_pipe"})>>,
           {}, {}, {}, {})
DiscoveryThread ==
  Simple(<<Enough({}), CallElse("discovery_srch_response_parse", {}, 1),
           CallAnyway("discovery_service_host_received", {}), Back(3)>>)
SrchResponseParse ==
  Function(<<Call("http_response_parse", {}, {}), Free({"headers"})>>, {}, {}, {}, {"headers"})
DiscoveryWakeup ==
  Simple(<<Try("addrinfos", {}), Free({"addrinfos"}), Check({}),
           Skip(4), Call("discovery_init", {"wakeup socket"}, {}),
           Check({"wakeup socket"}), Free({"wakeup socket"}), Return({}), Check({})>>)

ServiceAddresses == {"send_addr", "broadcast_addrs", "send_host"}
ServiceState == {"hosts", "host_discovery_infos", "service state_mutex"}
ServiceSearch == {"service discovery", "stop_cond", "service thread"}
Service == ServiceState \cup ServiceAddresses \cup ServiceSearch
\* Without memory for the broadcast addresses it goes to the label that leaves
\* the first address.
DiscoveryServiceInit ==
  Function(Made(<<"hosts", "host_discovery_infos", "service state_mutex", "send_addr">>)
           \o <<Skip(1), Try("broadcast_addrs", ServiceState),
                Skip(1), Try("send_host", ServiceState \cup ServiceAddresses),
                Call("discovery_init", {"service discovery"}, ServiceState \cup ServiceAddresses),
                Try("stop_cond", ServiceState \cup ServiceAddresses \cup {"service discovery"}),
                Try("service thread", Service)>>,
           {"service thread"}, Service, {"broadcast_addrs", "send_host", "service thread"}, {})
DiscoveryServiceFini ==
  Function(<<CallAnyway("discovery_service_thread_func", {}),
             Free(Service \cup {"host strings"})>>,
           {}, {}, {"broadcast_addrs", "send_host", "host strings"}, {})
ServiceThread ==
  Simple(<<Lock("stop_cond lock"), Call("discovery_thread_start", {}, {"stop_cond lock"}),
           Skip(2), CallAnyway("discovery_service_ping", {}), Back(2),
           CallAnyway("discovery_thread_stop", {}), Free({"stop_cond lock"})>>)
\* A name is resolved until that succeeds once.
ServicePing ==
  Function(Locked("service state lock", <<MayFree("host strings")>>)
           \o <<OnlyIf({"send_host"}, 4), Try("host_addrinfos", {}), Free({"host_addrinfos"}),
                Check({}), Free({"send_host"}), Use({"send_addr"}), Check({})>>,
           {}, {}, {"host strings"}, {"send_host", "host strings"})
HostReceived ==
  Function(<<Lock("service state lock"), Enough({"service state lock"}),
             Does({Goes({"host strings"}, {"host strings"}), Goes({}, {"host strings"}), Goes({}, {})}),
             Free({"service state lock"})>>,
           {}, {"host strings"}, {"host strings"}, {"host strings"})
SearchService ==
  Function(<<Call("discovery_service_init", {}, {}), CallAnyway("discovery_service_fini", {}),
             Skip(1), CallAnyway("discovery_wakeup", {})>>,
           {}, {}, {}, {})

-----------------------------------------------------------------------------
(* Messages over UDP                                                       *)

SendBufferInit ==
  Function(<<Try("send mutex", {}), Lock("send lock"), Try("packets", {"send mutex", "send lock"}),
             Free({"send lock"}), Try("send cond", {"packets", "send mutex"}),
             Try("send thread", {"send cond", "packets", "send mutex"})>>,
           {"send mutex", "packets", "send cond", "send thread"}, {}, {}, {})

Rudp == {"rudp", "counter_mutex", "rudp stop_pipe", "rudp send_buffer"}
\* A mutex that is forgotten when the pipe cannot be made.
RudpInitLeavingMutex ==
  Function(Made(<<"rudp", "counter_mutex">>)
           \o <<Call("stop_pipe_init", {"rudp stop_pipe"}, {"rudp"}),
                Call("rudp_send_buffer_init", {"rudp send_buffer"},
                     Rudp \ {"rudp send_buffer"})>>,
           Rudp, Rudp, {}, {})
RudpInit ==
  Function(Made(<<"rudp", "counter_mutex">>)
           \o <<Call("stop_pipe_init", {"rudp stop_pipe"}, {"rudp", "counter_mutex"}),
                Call("rudp_send_buffer_init", {"rudp send_buffer"},
                     Rudp \ {"rudp send_buffer"})>>,
           Rudp, Rudp, {}, {})
\* It has sent what it was given when it returns, or left it to the send buffer,
\* which releases what it has no room for.
RudpSendMessage ==
  Simple(<<Try("serialized_msg", {}), Check({"serialized_msg"}), Use(Rudp),
           Return({"serialized_msg"})>>)
\* One that contains another one, which cannot be read.
RudpMessageParse ==
  Function(<<Try("read message", {}), Check({})>>,
           {"read message"}, {"read message"}, {}, {})
RudpSelectRecv ==
  Simple(<<Use(Rudp), Check({}), Call("rudp_message_parse", {}, {})>>)
RudpSendRecv ==
  Function(<<CallAnyway("rudp_send_message", {}), Skip(2),
             Call("rudp_select_recv", {}, {}),
             Does({Outcome({"received"}, {"read message"}, 3, ""), Goes({}, {"read message"})}),
             Back(4), Fail({})>>,
           {"received"}, {}, {}, {})
RudpFini ==
  Function(<<OnlyIf({"rudp"}, 1), Free(Rudp \cup {"rudp sock"})>>, {}, {}, {"rudp sock"}, {})
SendRecvHeaderPsn ==
  Simple(<<Call("rudp_send_recv", {"message"}, {}), Free({"message"}), Check({})>>)

-----------------------------------------------------------------------------
(* Registration, on the network or over RUDP                               *)

RegistCopies == {"host copy", "online id copy"}
Regist == RegistCopies \cup {"regist stop_pipe", "regist thread"}
\* Over RUDP there is no host.
RegistStart ==
  Function(<<Skip(1), Try("host copy", {}), Skip(1), Try("online id copy", {"host copy"}),
             Call("stop_pipe_init", {"regist stop_pipe"}, RegistCopies),
             Try("regist thread", Regist)>>,
           {"regist stop_pipe", "regist thread"}, Regist, RegistCopies \cup {"regist thread"}, {})
\* A thread that has not ended yet does so before it is joined.
RegistFini(f) ==
  Function(<<OnlyIf({"regist thread"}, 2), CallAnyway(f, {}), Becomes("regist thread", "ended regist"),
             Free({"ended regist", "regist stop_pipe"}), Free(RegistCopies)>>,
           {}, {"ended regist"}, RegistCopies, RegistCopies)
RegistThread ==
  LET all == {"addrinfos", "request sock"}
  IN Function(<<Check({}), Try("addrinfos", {}), Call("regist_search", {}, {"addrinfos"}),
                Check({"addrinfos"}),
                Call("regist_request_connect", {"request sock"}, {"addrinfos"}),
                Check(all), Call("regist_recv_response", {}, all), Return(all)>>,
              {}, {}, {}, {})
RegistRudp ==
  Simple(<<Check({}),
           Call("rudp_send_recv", {"init message"}, {}), Free({"init message"}),
           Call("rudp_send_recv", {"cookie message"}, {}), Free({"cookie message"}),
           Maybe("send_buf"), Use({"send_buf"}), Call("regist_recv_response_psn", {}, {})>>)
RegistThreadPsn == Simple(<<CallAnyway("regist_rudp", {}), CallAnyway("regist_cb", {})>>)
\* The session's callback.
RegistCb == Simple(Locked("session state_mutex", <<>>))
RegistSearch ==
  Simple(<<Call("regist_search_connect", {"search sock"}, {}), Check({"search sock"}),
           Again(1), Free({"search sock"})>>)
\* The next address is tried with another socket.
RegistSearchConnect ==
  Function(<<Does({Goes({"sock"}, {}), Outcome({}, {}, 4, "")}),
             Does({Goes({}, {}), Outcome({}, {"sock"}, 3, "")}),
             Does({Goes({}, {}), Outcome({}, {}, 2, "")}), Return({}),
             Skip(1), Back(5), Fail({"sock"})>>,
           {"sock"}, {}, {"sock"}, {"sock"})
RegistRequestConnect ==
  Function(<<Try("sock", {}), Check({"sock"}), Check({"sock"})>>, {"sock"}, {}, {}, {})
RegistContent == <<Call("http_response_parse", {}, {}), Check({"headers"}), Free({"headers"}), Check({})>>
RegistRecvResponse ==
  Function(<<Check({})>> \o RegistContent, {}, {}, {}, {"headers"})
RegistRecvResponsePsn ==
  Function(<<CallElse("send_recv_http_header_psn", {}, 4), Free({"send_buf"}),
             CallElse("rudp_send_recv", {"finish message"}, 1), Free({"finish message"}),
             Jump(1), Fail({"send_buf"})>> \o RegistContent,
           {}, {}, {"send_buf"}, {"headers"})
RegistUse == Simple(<<Call("regist_start", {}, {}), CallAnyway("regist_fini", {})>>)
\* The session's thread waits for it with its state released, for ten seconds or
\* until the session is stopped; then it has its state locked.
PsnRegist ==
  Function(<<CallAnyway("regist_start", {}), Free({"session state_mutex"}),
             OnlyIf({"regist thread"}, 3), Skip(2), CallAnyway("regist_thread_func_psn", {}),
             Becomes("regist thread", "ended regist"), Lock("session state_mutex"),
             CallAnyway("regist_psn_fini", {})>>,
           {}, {"session state_mutex", "ended regist"}, {}, {})
RegistPsn ==
  Simple(<<Take("rudp sock"), Call("rudp_init", {}, {"rudp sock"}), Lock("session state_mutex"),
           CallAnyway("psn_regist", {}), Free({"session state_mutex"}),
           CallAnyway("rudp_fini", {})>>)

LibTable ==
  [ffmpeg_decoder_init |-> FfmpegInit, ffmpeg_decoder_fini |-> FfmpegFini,
   ffmpeg_decoder_video_sample_cb |-> FfmpegSample, ffmpeg_decoder_pull_frame |-> FfmpegPull,
   ffmpeg_decoder |-> FfmpegDecoder,
   opus_decoder_header |-> OpusDecoderHeader, opus_decoder_frame |-> OpusDecoderFrame,
   opus_decoder |-> OpusDecoder,
   audio_sender_init |-> AudioSenderInit, audio_sender_fini |-> AudioSenderFini,
   audio_sender_new |-> AudioSenderNew, audio_sender_free |-> AudioSenderFree,
   audio_sender_opus_data |-> AudioSenderData,
   opus_encoder_header |-> OpusEncoderHeader, opus_encoder_frame |-> OpusEncoderFrame,
   opus_encoder |-> OpusEncoder,
   stop_pipe_init |-> StopPipeInit, http_header_parse |-> HeaderParse,
   http_response_parse |-> ResponseParse,
   ecdh_init |-> EcdhInit, ecdh_fini |-> EcdhFini, ecdh_set_local_key |-> SetLocalKey,
   ecdh_derive_secret |-> DeriveSecret,
   gkcrypt_init |-> GkcryptInit, gkcrypt_new |-> GkcryptNew,
   discovery_init |-> DiscoveryInit, discovery_thread_start |-> DiscoveryThreadStart,
   discovery_thread_stop |-> DiscoveryThreadStop, discovery_thread_func |-> DiscoveryThread,
   discovery_srch_response_parse |-> SrchResponseParse, discovery_wakeup |-> DiscoveryWakeup,
   discovery_service_init |-> DiscoveryServiceInit,
   discovery_service_fini |-> DiscoveryServiceFini,
   discovery_service_thread_func |-> ServiceThread, discovery_service_ping |-> ServicePing,
   discovery_service_host_received |-> HostReceived, search_service |-> SearchService,
   rudp_send_buffer_init |-> SendBufferInit, rudp_init |-> RudpInit, rudp_fini |-> RudpFini,
   rudp_send_message |-> RudpSendMessage, rudp_message_parse |-> RudpMessageParse,
   rudp_select_recv |-> RudpSelectRecv, rudp_send_recv |-> RudpSendRecv,
   send_recv_http_header_psn |-> SendRecvHeaderPsn,
   regist_start |-> RegistStart, regist_fini |-> RegistFini("regist_thread_func"),
   regist_psn_fini |-> RegistFini("regist_thread_func_psn"), regist_cb |-> RegistCb,
   regist_rudp |-> RegistRudp,
   regist_thread_func |-> RegistThread, regist_thread_func_psn |-> RegistThreadPsn,
   regist_search |-> RegistSearch, regist_search_connect |-> RegistSearchConnect,
   regist_request_connect |-> RegistRequestConnect,
   regist_recv_response |-> RegistRecvResponse,
   regist_recv_response_psn |-> RegistRecvResponsePsn,
   regist |-> RegistUse, psn_regist |-> PsnRegist, regist_psn |-> RegistPsn]
LibRoots ==
  {"ffmpeg_decoder", "opus_decoder", "opus_encoder", "search_service", "regist", "regist_psn"}

LibFaults ==
  \* ffmpegdecoder.c 61, 68: the device; discoveryservice.c 63: the wrong label.
  Fault("left", "ffmpeg_decoder", {"hw_device_ctx"})
  \cup Fault("left", "search_service", {"send_addr"})
  \* ffmpegdecoder.c 190: av_packet_alloc is not looked at.
  \cup Fault("used", "ffmpeg_decoder_video_sample_cb", {"packet"})
  \* rudp.c 348: what was read of a message that contains another one; 483:
  \* nobody releases it then.
  \cup Fault("left", "rudp_message_parse", {"read message"})
  \cup Fault("left", "regist_psn", {"read message"})
  \* regist.c 591, 605: a socket that cannot be used is not closed; 377: calloc is
  \* not looked at.
  \cup Fault("lost", "regist_search_connect", {"sock"})
  \cup Fault("used", "regist_rudp", {"send_buf"})
  \* session.c 475: a registration that did not start is ended all the same, and
  \* 477: its thread is joined with the lock its callback needs (1128, 1135, 1143).
  \cup Fault("twice", "regist_psn_fini", {"ended regist", "regist stop_pipe"} \cup RegistCopies)
  \cup Fault("waits", "regist_cb", {"session state_mutex"})
=============================================================================
