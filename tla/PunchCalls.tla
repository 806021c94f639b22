----------------------------- MODULE PunchCalls -----------------------------
(***************************************************************************)
(* The functions of remote/holepunch.c and remote/stun.h as steps: what    *)
(* each one takes, the ways it may fail, and what it releases then. What   *)
(* a message, an answer or a list holds is one thing with it, and is       *)
(* released with it.                                                       *)
(***************************************************************************)
EXTENDS CallSteps, Integers, Sequences

\* The http requests. curl_write_cb frees the body when it cannot enlarge it,
\* and leaves the pointer as it is.
Transfer(before, cleanup) ==
  <<Does({Goes({}, {}), Outcome({}, {"body"}, 3, "")}),
    Does({Goes({}, before), Ends(cleanup \cup before, "failed")}),
    Jump(1),
    Fail(cleanup \cup before)>>
HttpRequest(cleanup) == <<Take("headers")>> \o Transfer({"headers"}, cleanup)
Answer(cleanup) == <<TryOk("tok", cleanup), Try("json", cleanup \cup {"tok"})>>
Parsed(cleanup) == cleanup \cup {"tok", "json"}

MakeHeader(r) == Function(<<Try(r, {})>>, {r}, {}, {}, {})

ListCleanup == {"oauth_header", "body", "curl"}
ListRequest ==
  <<Try("curl", {}), Check({"curl"}),
    Call("make_oauth2_header", {"oauth_header"}, {"curl"}), Take("body")>>
  \o HttpRequest(ListCleanup) \o <<Check(ListCleanup)>> \o Answer(ListCleanup)
ListDevices ==
  LET all == Parsed(ListCleanup)
  IN Function(
    ListRequest
    \o <<Check(all), Try("devices", {}),
         Check(all \cup {"devices"}), Check(all), Check(all \cup {"devices"}),
         Again(3), Return(all)>>,
    {"devices"}, {}, {}, {"devices"})
FreeDeviceList == Function(<<Free({"devices"})>>, {}, {}, {"devices"}, {"devices"})

-----------------------------------------------------------------------------
(* A session                                                               *)

SessionParts ==
  {"session", "queue", "queue struct", "notif_pipe", "select_pipe",
   "stop_mutex object", "curl_share"}
Offer == {"our_offer_msg", "local_candidates"}
Sockets == {"ipv4_sock", "ipv6_sock"}

SessionInit ==
  Function(<<Try("session", {}), CallAnyway("make_oauth2_header", {"oauth_header"}),
             Does({Goes({"queue", "queue struct"}, {}), Ends({"session"}, "failed")}),
             TakeAll({"notif_pipe", "select_pipe", "stop_mutex object", "curl_share"})>>
           \o Locked("stop_mutex", <<>>) \o Locked("state_mutex", <<>>),
           SessionParts, SessionParts \cup {"oauth_header"}, {}, {})

GatewayInfo ==
  Function(<<Try("devlist", {}), Check({}), Maybe("url strings"), Check({"devlist"}),
             Free({"devlist"})>>,
           {}, {"url strings"}, {}, {})

Gateway == {"gw_data", "gw_urls"}
UpnpThread ==
  Function(<<CallElse("upnp_get_gateway_info", {}, 4)>>
           \o Locked("state_mutex", <<Set("GATEWAY_FOUND")>>) \o <<Return({})>>
           \o Locked("state_mutex", <<Free(Gateway)>>),
           {}, {"GATEWAY_FOUND"}, Gateway, Gateway)
UpnpFallback ==
  Function(<<CallElse("upnp_get_gateway_info", {}, 2), Set("GATEWAY_FOUND"), Return({}),
             Free(Gateway)>>,
           {}, {"GATEWAY_FOUND"}, Gateway, Gateway)
ExternalAddress == Simple(<<Check({})>>)
AddMapping == Function(<<Try("mapping", {})>>, {"mapping"}, {}, {}, {})
DeleteMapping ==
  Function(<<Check({}), Free({"port mapping"})>>, {}, {}, {"port mapping"}, {"port mapping"})
\* The thread ends in time, or is left to itself.
UpnpDiscover ==
  Function(<<Try("gw_data", {}), Try("gw_urls", {"gw_data"}),
             Does({Outcome({"upnp_thread"}, {}, 3, ""), Goes({}, {})}),
             CallAnyway("upnp_fallback", {}), Return({}),
             Skip(4), CallAnyway("upnp_discover_thread_func", {})>>
           \o Locked("state_mutex", <<>>) \o <<Return({"upnp_thread"})>>
           \o Locked("state_mutex", <<>>),
           {}, Gateway \cup {"upnp_thread"}, {}, {})

\* Waiting for notifications: each one is looked at with the state's lock held,
\* and the loop ends when what it waits for has come.
SessionCreate ==
  Function(<<Call("get_websocket_fqdn", {"ws_fqdn"}, {})>> \o IfStopped({})
           \o <<Try("ws_thread", {})>> \o Locked("state_mutex", <<>>) \o IfStopped({})
           \o <<Call("http_create_session", {}, {})>> \o IfStopped({})
           \o <<Call("wait_for_notification", {}, {}), Lock("state_mutex"),
                Skip(2), Check({}), Try("online_id", {})>>
           \o IfStopped({})
           \o <<CallAnyway("http_check_session", {}), Free({"state_mutex"}),
                CallAnyway("clear_notification", {}), Again(10)>>,
           {}, {"ws_fqdn", "ws_thread", "online_id"}, {}, {})

\* The error of a console's id that cannot be read is another variable's, in the
\* branch of the members, and the loop is left with success.
ConsoleFlags == {"CONSOLE_JOINED", "CUSTOMDATA1_RECEIVED"}
StartRequested ==
  <<Lock("state_mutex"), Check({"state_mutex"}), Free({"state_mutex"}),
    Skip(2), Call("http_ps4_session_wakeup", {}, {}), Jump(1),
    Call("http_start_session", {}, {})>>
  \o IfStopped({})
SessionStart ==
  Function(StartRequested
           \o <<Call("wait_for_notification", {}, {}), Lock("state_mutex"),
                Skip(3),
                Does({Goes({}, {}), Ends({"state_mutex"}, "failed"), Ends({"state_mutex"}, "ok")}),
                Set("CONSOLE_JOINED"), Jump(3),
                Check({"state_mutex"}), Call("decode_customdata1", {}, {"state_mutex"}),
                Set("CUSTOMDATA1_RECEIVED"), CallAnyway("clear_notification", {})>>
           \o IfStopped({})
           \o <<CallAnyway("http_check_session", {}), Free({"state_mutex"}),
                Until(ConsoleFlags, 14), Take("console"), Free({"state_mutex"})>>,
           {"console"}, ConsoleFlags, {}, {})

Request == {"curl", "body"}
Ps4Profile ==
  <<Take("body"), Try("curl", {})>> \o HttpRequest(Request) \o Answer(Request)
  \o <<Check(Parsed(Request)), Free(Request)>>
Ps4Wakeup ==
  LET all == Parsed(Request)
  IN Function(
    Ps4Profile \o <<Take("body"), Try("curl", {"tok", "json"})>>
    \o HttpRequest(all) \o Locked("state_mutex", <<Set("DATA_SENT")>>) \o <<Return(all)>>,
    {"DATA_SENT"}, {"DATA_SENT"}, {}, {})

-----------------------------------------------------------------------------
(* Punching a hole: sock is the socket of the candidate that is selected,  *)
(* which becomes the session's, for the port p.                            *)

Unneeded == Offer \cup Sockets \cup {"console_offer_msg"}
Offers(before) ==
  <<Lock("state_mutex"), Needs(before, Offer \cup {"state_mutex"}), Free({"state_mutex"}),
    Call("wait_for_session_message", {"console_offer_msg"}, Offer)>>
  \o Locked("state_mutex", <<>>)
  \o <<Call("http_send_session_message", {}, Unneeded)>> \o IfStopped(Unneeded)
  \o <<Use({"our_offer_msg"}), CallAnyway("send_offer", {}),
       Call("wait_for_session_message_ack", {}, Unneeded)>>
PunchHole(p, before, after) ==
  Function(Offers(before)
           \o <<CallAnyway("http_check_session", {}),
                Call("check_candidates", {"sock"}, Unneeded)>> \o IfStopped(Unneeded)
           \o <<Call("send_accept", {}, Unneeded)>> \o IfStopped(Unneeded)
           \o <<Call("wait_for_session_message", {"msg"}, Unneeded \cup {"msg"}),
                Call("http_send_session_message", {}, Unneeded \cup {"msg"})>>
           \o IfStopped(Unneeded \cup {"msg"})
           \o Locked("state_mutex", <<Becomes("sock", p), Set(after)>>)
           \o IfStopped(Unneeded \cup {"msg"})
           \o <<Check(Unneeded \cup {"msg"}), Return(Offer \cup {"console_offer_msg", "msg"})>>,
           {p}, {after}, Unneeded \cup {"msg"}, Offer \cup Sockets)

\* What it does not release: the session, its queue and the lock, and what the
\* gateway's addresses point to.
Flags == {"WS_OPEN", "GATEWAY_FOUND", "DATA_SENT", "CTRL_ESTABLISHED", "DATA_ESTABLISHED"} \cup ConsoleFlags
Released ==
  {"oauth_header", "session_id_header", "online_id", "curl_share", "ws_fqdn", "queue",
   "stun_hosts", "stun_hosts_ipv6", "select_pipe", "notif_pipe"} \cup Flags
SessionFini ==
  Function(<<OnlyIf({"ws_thread"}, 9), Skip(8), CallAnyway("deleteSession", {}),
             CallElse("wait_for_notification", {}, 3)>>
           \o Locked("state_mutex", <<>>) \o <<CallAnyway("clear_notification", {})>>
           \o Locked("stop_mutex", <<>>)
           \o <<Free({"ws_thread"}),
                OnlyIf({"upnp_thread"}, 3), Skip(2),
                CallAnyway("upnp_discover_thread_func", {}), Free({"upnp_thread"}),
                OnlyIf({"gw_data"}, 1), CallAnyway("upnp_delete_udp_port_mapping", {}),
                Free(Gateway)>>
           \o Locked("notif_mutex", <<Free(Released)>>),
           {}, {}, Released \cup Gateway, Released)

-----------------------------------------------------------------------------
(* The notifications                                                       *)

WebsocketFqdn ==
  LET all == Parsed(Request)
  IN Function(<<Take("body"), Try("curl", {})>> \o HttpRequest(Request) \o Answer(Request)
              \o <<Check(all), Maybe("ws_fqdn"), Return(all)>>,
              {"ws_fqdn"}, {}, {}, {})

Websocket == {"ws_tok", "ws_buf", "ws_curl", "ws_open"}
WebsocketOpen ==
  <<Try("ws_curl", {}), Take("ws_headers"),
    Does({Goes({}, {"ws_headers"}), Ends({"ws_headers", "ws_curl"}, "failed")}),
    Take("ws_open")>>
  \o Locked("state_mutex", <<Set("WS_OPEN")>>)
  \o <<Check({"ws_curl", "ws_open"}), Try("ws_tok", {"ws_curl", "ws_open"}),
       Try("ws_buf", {"ws_tok", "ws_curl", "ws_open"})>>
\* A notification belongs to the queue once it is in it, and whoever takes it
\* from there may have released it when its type is looked at.
WebsocketRead ==
  <<Lock("stop_mutex"),
    Does({Goes({}, {"stop_mutex"}), Ends(Websocket \cup {"stop_mutex"}, "ok")}),
    Enough(Websocket), Again(3),
    Does({Goes({"ws_json"}, {}), Outcome({}, {}, -4, "")}),
    TryOk("json_buf", Websocket),
    Does({Goes({"notif"}, {"ws_json", "json_buf"}), Ends(Websocket, "ok")})>>
  \o Locked("state_mutex", <<>>)
  \o <<Skip(6), CallAnyway("session_message_get_payload", {"payload"}),
       CallElse("session_message_parse", {"ws_msg"}, 10), Free({"payload"}),
       Skip(1), CallAnyway("http_send_session_message", {}), Free({"ws_msg"})>>
  \o Locked("notif_mutex", <<Into({"notif"})>>)
  \o <<Use({"notif"}), Enough(Websocket), Back(21), Free({"payload"}), Back(23)>>
WebsocketThread == Function(WebsocketOpen \o WebsocketRead, {}, {"WS_OPEN"}, {"payload"}, {})

WaitForNotification ==
  Simple(<<Lock("notif_mutex"), Skip(3), Check({"notif_mutex"})>> \o IfStopped({"notif_mutex"})
         \o <<Again(4), Return({"notif_mutex"})>>)
ClearNotification == Simple(<<Lock("notif_mutex"), Check({"notif_mutex"}), Free({"notif_mutex"})>>)

GetPayload == Function(<<Try("payload", {})>>, {"payload"}, {}, {}, {})
ParseRequest ==
  LET request == {"parsed", "request"}
  IN <<Try("request", {"parsed"}), Check(request), Try("request candidates", request),
       Check(request \cup {"request candidates"}),
       Into({"request", "request candidates"})>>
MessageParse ==
  Function(<<Try("parsed", {}), Check({"parsed"}), Skip(5)>> \o ParseRequest,
           {"parsed"}, {}, {}, {})
WaitForMessage ==
  Function(<<Call("wait_for_notification", {}, {})>> \o IfStopped({})
           \o <<CallAnyway("session_message_get_payload", {"payload"}),
                CallElse("session_message_parse", {"message"}, 6), Free({"payload"}),
                Check({"message"}),
                Does({Goes({}, {"message"}), Outcome({}, {}, 3, "")}),
                CallAnyway("clear_notification", {}), Back(9),
                Return({}), Fail({"payload"})>>,
           {"message"}, {}, {"payload"}, {})
WaitForAck ==
  Simple(<<Call("wait_for_session_message", {"ack"}, {}), Lock("stop_mutex"),
           Check({"ack", "stop_mutex"}),
           Does({Goes({}, {"stop_mutex"}), Outcome({}, {"ack", "stop_mutex"}, -3, "")})>>
         \o Locked("notif_mutex", <<Free({"ack"})>>))

-----------------------------------------------------------------------------
(* The offer                                                               *)

OfferSockets ==
  <<Free(Offer), Try("ipv4_sock", {}), Check({}), Check({"ipv4_sock"}),
    Try("ipv6_sock", {"ipv4_sock"}), Check(Sockets)>>
OfferAll == Sockets \cup {"conn_request", "candidates"}
OfferParts ==
  <<Try("conn_request", Sockets), Try("candidates", Sockets \cup {"conn_request"}),
    OnlyIf({"GATEWAY_FOUND"}, 3),
    CallElse("upnp_add_udp_port_mapping", {"port mapping"}, 1),
    CallAnyway("get_client_addr_remote_upnp", {}), Jump(1),
    CallAnyway("get_client_addr_local", {})>>
\* Without an address from the gateway; the list grows with the ports that may be
\* the next ones.
OfferPorts == <<Check(OfferAll)>>
OfferStun ==
  <<Skip(7), CallAnyway("get_client_addr_remote_stun_ipv4", {})>> \o OfferPorts
  \o <<Needs({"ipv4_sock"}, OfferAll), Check(OfferAll),
    Skip(1), CallAnyway("get_client_addr_remote_stun_ipv6", {}), MayFree("ipv6_sock")>>
OfferDone ==
  <<Check(OfferAll), Try("local_candidates", OfferAll),
    Does({Goes({"our_offer_msg"}, {"conn_request", "candidates"}), Ends(Sockets, "failed")})>>
CreateOffer ==
  Function(OfferSockets \o OfferParts \o OfferStun \o OfferDone,
           {"our_offer_msg", "ipv4_sock"}, Offer \cup Sockets \cup {"port mapping"},
           Offer \cup Sockets, Offer \cup Sockets)

SendOffer == Simple(<<Call("http_send_session_message", {}, {})>>)
SendAccept ==
  LET accept == {"accept request", "accept candidates"}
  IN Simple(<<Try("accept request", {}), Try("accept candidates", {"accept request"}),
              Call("http_send_session_message", {}, accept), Free(accept)>>)

LocalAddress == Simple(<<Try("ifaddrs", {}), Check({}), Free({"ifaddrs"})>>)

\* The remote address with the socket s: the test is run as long as it has found
\* no increment, whichever socket it is.
RemoteStun(s) ==
  Simple(<<Skip(3), CallAnyway("get_stun_servers", {}),
           Call("stun_port_allocation_test_" \o s, {}, {}), Return({}),
           Call("stun_get_external_address_" \o s, {}, {})>>)
\* A server that cannot be sent to costs the socket.
StunRequest(s) ==
  <<Try("resolved", {}), Does({Goes({}, {"resolved"}), Ends({"resolved", s}, "failed")}),
    Check({s})>>
StunServer(s) == Function(StunRequest(s) \o <<Check({})>>, {}, {}, {s}, {s})
StunAddress(s) ==
  Simple(<<Needs({s}, {}), CallElse("stun_server_" \o s, {}, 1), Return({}), Again(3), Fail({})>>)
StunTest(s) ==
  Simple(<<OnlyIf({s}, 2), CallAnyway("stun_server_" \o s, {}), Again(2), Check({})>>)

\* The hosts of the servers: one that has no port is not counted.
StunHosts(r) ==
  <<Check({}), Does({Goes({r}, {}), Ends({}, "failed"), Outcome({"uncounted host"}, {}, 0, "failed")})>>
StunIpv4 ==
  <<Try("curl", {}), Take("body")>> \o Transfer({}, Request) \o StunHosts("stun_hosts")
  \o <<Free(Request)>>
StunServers ==
  Function(StunIpv4
           \o <<Take("body"), Try("curl", {})>> \o Transfer({}, Request)
           \o StunHosts("stun_hosts_ipv6") \o <<Free(Request)>>,
           {}, {"stun_hosts", "stun_hosts_ipv6"}, {}, {})

-----------------------------------------------------------------------------
(* The candidates' sockets: guessed ones are socks, which are closed by    *)
(* their count, and the goto over the declaration of poll_ctx leaves the   *)
(* cleanup what happens to be there.                                       *)

CandidateEvent == Simple(<<Check({}), Try("event", {}), Check({"event"}), Into({"event"})>>)
Guessing == Sockets \cup {"socks", "socks array"}
Polling == Guessing \cup {"poll_ctx", "event_base", "events"}
GuessSockets ==
  <<Skip(2),
    Does({Goes({"socks", "socks array"}, {}), Outcome({}, {}, 6, "")}),
    Maybe("uncounted sock")>>
CandidateSockets ==
  <<Take("addr_remote"), Free({"addr_remote"}),
    Skip(1), Jump(1), [Fail(Guessing) EXCEPT !.uses = {"poll_ctx"}]>>
CandidatePolling ==
  <<Take("poll_ctx"), Check(Polling), Try("event_base", Polling), Try("events", Polling),
    Call("candidate_event_add_socket", {}, Polling), Check(Polling)>>
\* One of the sockets is selected.
CandidateSelected ==
  <<Does({Goes({}, (Sockets \cup {"socks"}) \ {s}) : s \in Sockets \cup {"socks"}}),
    Check(Polling), Free({"events", "event_base", "poll_ctx"}), Does({Goes({"sock"}, Guessing)})>>
CheckCandidates ==
  Function(GuessSockets \o CandidateSockets \o CandidatePolling \o CandidateSelected,
           {"sock"}, {}, Polling, Polling)

-----------------------------------------------------------------------------
(* Requests for a session                                                  *)

CreateRequest == Request \cup {"create_json"}
CreateSession ==
  Function(<<Try("create_json", {}), Take("body"), Try("curl", {"body", "create_json"})>>
           \o HttpRequest(CreateRequest) \o Answer(CreateRequest)
           \o <<Check(Parsed(CreateRequest)),
                CallAnyway("make_session_id_header", {"session_id_header"}),
                Return(Parsed(CreateRequest))>>,
           {"session_id_header"}, {"session_id_header"}, {}, {})
CheckSession ==
  Simple(<<Take("body"), Try("curl", {"body"})>> \o HttpRequest(Request) \o Answer(Request)
         \o <<Return(Parsed(Request))>>)
StartSession ==
  Function(<<Take("body"), Try("curl", {"body"} \cup Offer)>> \o HttpRequest(Request \cup Offer)
           \o Locked("state_mutex", <<Set("DATA_SENT")>>) \o <<Return(Request)>>,
           {"DATA_SENT"}, {"DATA_SENT"}, Offer, Offer)
SendMessage ==
  LET all == Request \cup {"payload_str"}
  IN Function(<<Take("body"), Skip(2), CallAnyway("short_message_serialize", {"payload_str"}),
                Jump(1), CallAnyway("session_message_serialize", {"payload_str"}),
                Use({"payload_str"}), Try("curl", {"body", "payload_str"})>>
              \o HttpRequest(all) \o <<Return(all)>>,
              {}, {}, {"payload_str"}, {})
DeleteSession ==
  Simple(<<Take("body"), Try("curl", {"body"})>> \o HttpRequest(Request) \o <<Return(Request)>>)

ShortSerialize == Function(<<Try("serialized", {})>>, {"serialized"}, {}, {}, {})
Serialize ==
  LET all == {"candidates_json", "candidate_str", "connreq_json"}
  IN Function(<<Try("candidates_json", {}), Try("candidate_str", {"candidates_json"}),
                Check(all), Try("connreq_json", all), Try("serialized", all), Return(all)>>,
              {"serialized"}, {}, {"connreq_json"}, {})

-----------------------------------------------------------------------------
(* Who calls them: the application's session, its thread, the thread of the *)
(* WebSocket and the search for consoles.                                  *)

DecodeCustomdata1 == Simple(<<Check({}), Check({}), Check({})>>)

ConnectPsnConnection ==
  Function(<<Check({}), Call("upnp_discover", {}, {}), Call("session_create", {}, {}),
             Call("create_offer", {}, {}), Call("session_start", {}, {}),
             Call("punch_hole_ctrl", {"ctrl_sock"}, {})>>,
           {"ctrl_sock"}, {}, {}, {})
\* Without a RUDP instance the session goes on as with a console nearby, and
\* without an offer it punches all the same.
SessionThreadPsn ==
  Function(<<Check({}), Does({Goes({"rudp"}, {}), Ends({}, "failed")}), Check({}),
             CallAnyway("create_offer", {}), Check({}),
             Call("punch_hole_data", {"data_sock"}, {}), Check({}), Free({"data_sock"})>>,
           {}, {"rudp"}, {}, {})
PsnSession ==
  Function(<<Call("holepunch_session_init", {}, {}), Check({}), Skip(2),
             CallElse("ConnectPsnConnection", {"ctrl_sock"}, 1),
             CallAnyway("session_thread_psn", {}),
             OnlyIf({"rudp"}, 1), Free({"rudp", "ctrl_sock"}),
             CallAnyway("holepunch_session_fini", {})>>,
           {}, {}, {}, {})
UpdatePsnHosts ==
  Simple(<<Enough({}), CallElse("list_devices", {"devices"}, 1), Jump(1), Again(2),
           CallAnyway("free_device_list", {})>>)

PunchTable ==
  [make_oauth2_header |-> MakeHeader("header"), make_session_id_header |-> MakeHeader("header"),
   list_devices |-> ListDevices, free_device_list |-> FreeDeviceList,
   holepunch_session_init |-> SessionInit, holepunch_session_fini |-> SessionFini,
   upnp_get_gateway_info |-> GatewayInfo, upnp_discover_thread_func |-> UpnpThread,
   upnp_add_udp_port_mapping |-> AddMapping, upnp_delete_udp_port_mapping |-> DeleteMapping,
   get_client_addr_remote_upnp |-> ExternalAddress,
   upnp_fallback |-> UpnpFallback, upnp_discover |-> UpnpDiscover,
   session_create |-> SessionCreate, session_start |-> SessionStart,
   http_ps4_session_wakeup |-> Ps4Wakeup, decode_customdata1 |-> DecodeCustomdata1,
   punch_hole_ctrl |-> PunchHole("ctrl_sock", {"CUSTOMDATA1_RECEIVED"}, "CTRL_ESTABLISHED"),
   punch_hole_data |-> PunchHole("data_sock", {"CTRL_ESTABLISHED"}, "DATA_ESTABLISHED"),
   get_websocket_fqdn |-> WebsocketFqdn, websocket_thread_func |-> WebsocketThread,
   wait_for_notification |-> WaitForNotification, clear_notification |-> ClearNotification,
   session_message_get_payload |-> GetPayload, session_message_parse |-> MessageParse,
   wait_for_session_message |-> WaitForMessage, wait_for_session_message_ack |-> WaitForAck,
   create_offer |-> CreateOffer, send_offer |-> SendOffer, send_accept |-> SendAccept,
   get_client_addr_local |-> LocalAddress,
   get_client_addr_remote_stun_ipv4 |-> RemoteStun("ipv4_sock"),
   get_client_addr_remote_stun_ipv6 |-> RemoteStun("ipv6_sock"),
   stun_server_ipv4_sock |-> StunServer("ipv4_sock"),
   stun_server_ipv6_sock |-> StunServer("ipv6_sock"),
   stun_get_external_address_ipv4_sock |-> StunAddress("ipv4_sock"),
   stun_get_external_address_ipv6_sock |-> StunAddress("ipv6_sock"),
   stun_port_allocation_test_ipv4_sock |-> StunTest("ipv4_sock"),
   stun_port_allocation_test_ipv6_sock |-> StunTest("ipv6_sock"),
   get_stun_servers |-> StunServers,
   candidate_event_add_socket |-> CandidateEvent, check_candidates |-> CheckCandidates,
   http_create_session |-> CreateSession, http_check_session |-> CheckSession,
   http_start_session |-> StartSession, http_send_session_message |-> SendMessage,
   deleteSession |-> DeleteSession,
   short_message_serialize |-> ShortSerialize, session_message_serialize |-> Serialize,
   ConnectPsnConnection |-> ConnectPsnConnection, session_thread_psn |-> SessionThreadPsn,
   psn_session |-> PsnSession, update_psn_hosts |-> UpdatePsnHosts]
PunchRoots == {"psn_session", "websocket_thread_func", "update_psn_hosts"}

-----------------------------------------------------------------------------
(* What goes wrong, with the lines of holepunch.c where it does.           *)

\* curl_write_cb (2004) releases the body, which every request releases again.
BodyTwice ==
  {"list_devices", "get_websocket_fqdn", "http_create_session", "http_check_session",
   "http_start_session", "http_send_session_message", "deleteSession",
   "http_ps4_session_wakeup", "get_stun_servers"}
RequestFaults ==
  UNION {Fault("twice", f, {"body"}) : f \in BodyTwice}
  \* 529, 1290, 1948, 2974: without a tokener they report success; and the
  \* results of strdup (1972) and of make_session_id_header (3015) are not looked at.
  \cup Fault("missing", "list_devices", {"devices"})
  \cup Fault("missing", "http_ps4_session_wakeup", {"DATA_SENT"})
  \cup Fault("missing", "get_websocket_fqdn", {"ws_fqdn"})
  \cup Fault("missing", "http_create_session", {"session_id_header"})
  \* 562, 588: a return and the wrong label.
  \cup Fault("left", "list_devices", {"devices", "json", "tok", "body", "curl", "oauth_header"})
  \* 1237, 1382, 1902: the body when there is no handle.
  \cup Fault("left", "http_ps4_session_wakeup", {"body"})
  \cup Fault("left", "get_websocket_fqdn", {"body"})
  \* 3278: the text that could not be made is printed.
  \cup Fault("used", "http_send_session_message", {"payload_str"})
  \* 5780, 5787, 5795: the list is refused with all that was read; called again it
  \* overwrites what it has.
  \cup Fault("left", "get_stun_servers", {"body", "curl", "uncounted host"})
  \cup Fault("lost", "get_stun_servers", {"stun_hosts", "stun_hosts_ipv6"})

SessionFaults ==
  \* 990, 996, 1004, 1017, 1026 and 1203: state_mutex stays locked, and fini and
  \* the thread of the gateway wait for it.
  UNION {Fault("left", f, {"state_mutex"}) :
           f \in {"session_create", "session_start", "holepunch_session_fini", "psn_session"}}
  \cup Fault("waits", "holepunch_session_fini", {"state_mutex"})
  \cup Fault("waits", "upnp_discover_thread_func", {"state_mutex"})
  \* 1212: unlocked once more. 1144: err is another one. 999: a second notification.
  \cup Fault("twice", "session_start", {"state_mutex"})
  \cup Fault("missing", "session_start", {"console"})
  \cup Fault("lost", "session_create", {"online_id"})
  \* 850: data is released and not forgotten. 3575: a list with another error.
  \cup Fault("twice", "holepunch_session_fini", {"gw_data"})
  \cup Fault("left", "upnp_get_gateway_info", {"devlist"})
  \* 1736: a WebSocket that is not open yet. 1781: a thread that has ended since it
  \* was given up. 1836: nobody releases the session, its queue and stop_mutex, nor
  \* 1803 what the urls hold, nor an offer that was not sent and its sockets.
  \cup Fault("left", "psn_session",
              {"ws_thread", "upnp_thread", "session", "queue struct", "stop_mutex object",
               "url strings"} \cup Offer \cup Sockets)
  \* 1794: the gateway may keep the port.
  \cup Fault("left", "psn_session", {"port mapping"})
  \* streamsession.cpp 547: an account that is refused once the session is there.
  \cup Fault("left", "psn_session",
              {"oauth_header", "queue", "notif_pipe", "select_pipe", "curl_share"})

HoleFaults ==
  \* 2399: the socket; 2829: the lists when the message cannot be made.
  Fault("left", "create_offer", {"ipv4_sock", "conn_request", "candidates"})
  \cup Fault("left", "get_client_addr_local", {"ifaddrs"})    \* 3556
  \* session.c 572: goes on without an offer, which 1537 reads.
  \cup Fault("used", "punch_hole_data", {"our_offer_msg"})
  \* 1600 and after: the socket that was selected.
  \cup Fault("left", "punch_hole_ctrl", {"sock", "ctrl_sock"})
  \cup Fault("left", "punch_hole_data", {"sock", "data_sock"})
  \* session.c 447, 454, 595: stopped, or without RUDP, before somebody owns it.
  \cup Fault("left", "psn_session", {"ctrl_sock"})
  \cup Fault("left", "session_thread_psn", {"data_sock"})
  \* 3881: the sockets are closed by their count. 4008: poll_ctx is not set yet.
  \cup Fault("left", "check_candidates", {"uncounted sock"})
  \cup Fault("used", "check_candidates", {"poll_ctx"})

\* 2258, 2264: what was parsed; 2286: the notification; 2306: it may be gone.
WebsocketFaults ==
  Fault("left", "websocket_thread_func", {"ws_json", "json_buf", "notif"})
  \cup Fault("lost", "websocket_thread_func", {"notif"})
  \cup Fault("used", "websocket_thread_func", {"notif"})

PunchFaults == RequestFaults \cup SessionFaults \cup HoleFaults \cup WebsocketFaults
=============================================================================
