----------------------------- MODULE Holepunch ------------------------------
(***************************************************************************)
(* The connection over PSN of lib/src/remote/holepunch.c: the thread that  *)
(* runs session_create, session_start, punch_hole for the control and the  *)
(* data port and session_fini, one after the other; the WebSocket thread,  *)
(* which queues the notifications of the server and acknowledges offers    *)
(* that nobody waits for; and main_thread_cancel.  The server and the      *)
(* console are external: they react to what they are sent, in order, or    *)
(* too late.                                                               *)
(***************************************************************************)
EXTENDS Naturals, Sequences

CONSTANTS MaxCopies  \* bound: copies of OFFERs, TERMINATEs and cancels

HolepunchConstantsOK == MaxCopies \in Nat

Ports == {"ctrl", "data"}
Message(action, p, req) == [type |-> "message", action |-> action, port |-> p, req |-> req]
Notice(type) == [type |-> type, action |-> "none", port |-> "none", req |-> 0]

VARIABLES pc,       \* of the main thread
          port,     \* the port of the punch_hole that runs, or ran last
          state,    \* session->state
          reqId,    \* local_req_id
          result,
          used,     \* the messages this punch_hole went by
          queue,    \* ws_notification_queue
          stop,     \* main_should_stop
          wsStop,   \* ws_thread_should_stop and the select pipe
          kept,     \* the main thread left with state_mutex locked
          ws, hand, \* the WebSocket thread and the notification it has
          coming,   \* on its way from the server
          copies,   \* OFFERs, TERMINATEs and cancels so far
          acked     \* ports whose OFFER was acknowledged

outside == <<ws, hand, copies>>
vars == <<pc, port, state, reqId, result, used, queue, stop, wsStop, kept,
          ws, hand, coming, copies, acked>>

Init ==
  /\ pc = "create" /\ port = "ctrl" /\ state = {} /\ reqId = 1 /\ result = "none" /\ used = <<>>
  /\ queue = <<>> /\ stop = FALSE /\ wsStop = FALSE /\ kept = FALSE
  /\ ws = "off" /\ hand = <<>> /\ coming = <<>> /\ copies = 0 /\ acked = {}

-----------------------------------------------------------------------------
(* The console, and the user                                               *)

\* The console repeats the OFFER for a port until it is acknowledged.
Offering == IF port = "data" \/ pc \in {"establishing", "established"} THEN {"ctrl", "data"} ELSE {"ctrl"}
ConsoleSends ==
  /\ copies < MaxCopies /\ copies' = copies + 1
  /\ \/ {"CONSOLE_JOINED", "CUSTOMDATA1_RECEIVED"} \cap state # {}
        /\ \E p \in Offering \ acked : coming' = Append(coming, Message("OFFER", p, 10))
     \/ acked # {} /\ coming' = Append(coming, Message("TERMINATE", "none", 0))
  /\ UNCHANGED <<pc, port, state, reqId, result, used, queue, stop, wsStop, kept, ws, hand, acked>>

\* chiaki_holepunch_main_thread_cancel
MainThreadCancel(stopThread) ==
  /\ copies < MaxCopies /\ copies' = copies + 1
  /\ result = "none"
  /\ stop' = TRUE /\ wsStop' = (wsStop \/ stopThread)
  /\ UNCHANGED <<pc, port, state, reqId, result, used, queue, kept, ws, hand, coming, acked>>

-----------------------------------------------------------------------------
(* The WebSocket thread                                                    *)

wsRest == <<pc, port, reqId, result, used, stop, wsStop, kept, copies>>

WsConnect ==
  /\ ws = "connecting"
  /\ \/ ws' = "open" /\ state' = state \cup {"WS_OPEN"}
     \/ ws' = "done" /\ UNCHANGED state
  /\ UNCHANGED <<wsRest, queue, hand, coming, acked>>

\* No offer is waited for between the first one and its port's ESTABLISHED.
ShouldAckOffers ==
  \/ "CTRL_OFFER_RECEIVED" \in state /\ "CTRL_ESTABLISHED" \notin state
  \/ "DATA_OFFER_RECEIVED" \in state

\* The state is read under state_mutex; the notification is queued after that.
WsReceive ==
  /\ ws = "open" /\ hand = <<>> /\ coming # <<>>
  /\ hand' = <<Head(coming)>> /\ coming' = Tail(coming)
  /\ IF kept THEN ws' = "blocked" /\ UNCHANGED acked
     ELSE /\ acked' = IF ShouldAckOffers /\ Head(coming).action = "OFFER"
                      THEN acked \cup {Head(coming).port} ELSE acked
          /\ UNCHANGED ws
  /\ UNCHANGED <<wsRest, state, queue>>

WsEnqueue ==
  /\ ws = "open" /\ hand # <<>>
  /\ queue' = queue \o hand /\ hand' = <<>>
  /\ ws' = IF hand[1].type = "SESSION_DELETED" THEN "done" ELSE ws
  /\ UNCHANGED <<wsRest, state, coming, acked>>

\* Told to stop, or the connection is lost.
WsLeave ==
  /\ ws = "open" /\ hand = <<>> /\ ws' = "done"
  /\ UNCHANGED <<wsRest, state, queue, hand, coming, acked>>

-----------------------------------------------------------------------------
(* The main thread                                                         *)

mainRest == <<port, queue, wsStop, kept, outside>>

Return(err) == pc' = "fini" /\ result' = err

\* Where main_should_stop is checked first, and taken back.
Checked == {"created", "opened", "creating_first", "starting_first", "own_offer",
            "accept", "accept_sent", "establishing", "established"}
CheckStop ==
  /\ pc \in Checked /\ stop /\ stop' = FALSE
  /\ Return("canceled")
  /\ UNCHANGED <<mainRest, state, reqId, used, coming, acked>>

At(place) == pc = place /\ (place \in Checked => ~stop)

\* A call over the network fails.
CallFails ==
  /\ \E place \in {"create", "opened", "start", "offer_ack", "candidates", "accept", "accept_ack"} : At(place)
  /\ Return("failed")
  /\ UNCHANGED <<mainRest, state, reqId, used, stop, coming, acked>>

\* Steps that only go on: get_websocket_fqdn, the wait for the WebSocket, which
\* has no time limit and does not see a cancel, check_candidates (module
\* Candidates) and the ACK of the ACCEPT.
GoOn(place, next) ==
  /\ At(place) /\ pc' = next
  /\ place = "opening" => "WS_OPEN" \in state
  /\ UNCHANGED <<mainRest, state, reqId, result, used, stop, coming, acked>>

StartWebsocket ==
  /\ At("created") /\ pc' = "opening" /\ ws' = "connecting"
  /\ UNCHANGED <<port, state, reqId, result, used, queue, stop, wsStop, kept, hand, coming, copies, acked>>

\* A call that the server or the console answers with two notifications, in
\* either order: http_create_session, http_start_session (or the wakeup of a
\* PS4), and send_accept.
CallAnswered(place, next, a, b) ==
  /\ At(place) /\ pc' = next
  /\ \/ coming' = Append(Append(coming, a), b)
     \/ coming' = Append(Append(coming, b), a)
  /\ UNCHANGED <<mainRest, state, reqId, result, used, stop, acked>>

\* What is waited for: the types of notifications, and the action of a message.
Types ==
  CASE pc = "creating" -> {"SESSION_CREATED", "MEMBER_CREATED"}
    [] pc = "starting" -> {"MEMBER_CREATED", "CUSTOM_DATA1_UPDATED"}
    [] pc = "deleting" -> {"MEMBER_DELETED", "SESSION_DELETED"}
    [] OTHER -> {"message"}
WaitingFor == [offer |-> "OFFER", ack |-> "RESULT", accepting |-> "ACCEPT"]
ForMessage == pc \in DOMAIN WaitingFor
Waiting == ForMessage \/ pc \in {"creating", "starting", "deleting"}

\* wait_for_notification: the first one of the types, from the front.
\* (bug: the first with the action, and the others stay in the queue)
MatchesAction(n) == n.type \in Types /\ (ForMessage => n.action = WaitingFor[pc])
Matches(n) == n.type \in Types
Matching == {i \in DOMAIN queue : Matches(queue[i])}
First == CHOOSE i \in Matching : \A j \in Matching : i <= j
Found == Waiting /\ Matching # {}
Without(i) == [j \in 1..Len(queue)-1 |-> queue[IF j < i THEN j ELSE j + 1]]

WaitTimeout ==
  /\ Waiting /\ Matching = {}
  /\ IF pc = "deleting" THEN pc' = "join" /\ wsStop' = TRUE /\ UNCHANGED result
                        ELSE Return("failed") /\ UNCHANGED wsStop
  /\ UNCHANGED <<port, state, reqId, used, queue, stop, kept, outside, coming, acked>>

\* Noticed when the condition wakes up, and for messages also when one is there.
WaitCanceled ==
  /\ Waiting /\ pc # "deleting" /\ (Matching = {} \/ ForMessage)
  /\ stop /\ stop' = FALSE
  /\ Return("canceled")
  /\ UNCHANGED <<mainRest, state, reqId, used, coming, acked>>

\* The loops of session_create and session_start; a cancel that is noticed
\* here returns with state_mutex locked.
Flag(n) ==
  CASE n.type = "SESSION_CREATED" -> "CREATED"
    [] n.type = "MEMBER_CREATED" -> (IF pc = "creating" THEN "CLIENT_JOINED" ELSE "CONSOLE_JOINED")
    [] OTHER -> "CUSTOMDATA1_RECEIVED"
Finished(flags) ==
  IF pc = "creating" THEN {"CREATED", "CLIENT_JOINED"} \subseteq flags
                     ELSE {"CONSOLE_JOINED", "CUSTOMDATA1_RECEIVED"} \subseteq flags
TakeNotification ==
  /\ Found /\ pc \in {"creating", "starting"}
  /\ state' = state \cup {Flag(queue[First])}
  /\ stop' = FALSE /\ kept' = stop
  /\ queue' = IF stop /\ pc = "creating" THEN queue ELSE Without(First)
  /\ IF stop THEN Return("canceled")
     ELSE /\ pc' = IF ~Finished(state') THEN pc ELSE IF pc = "creating" THEN "start" ELSE "punch"
          /\ UNCHANGED result
  /\ UNCHANGED <<port, reqId, used, wsStop, outside, coming, acked>>

\* One that does not hold what it should. session_create returns with state_mutex
\* locked. session_start looks for a field that is not there, or for the console
\* among the members: if it is not the one, the error is lost and all seems well.
Malformed ==
  /\ Found /\ pc \in {"creating", "starting"}
  /\ \/ /\ queue[First].type = "SESSION_CREATED"
        /\ state' = state \cup {"CREATED"} /\ kept' = TRUE /\ Return("failed")
     \/ /\ pc = "starting" /\ UNCHANGED <<state, kept>>
        /\ Return("failed") \/ (queue[First].type = "MEMBER_CREATED" /\ pc' = "punch" /\ UNCHANGED result)
  /\ UNCHANGED <<port, reqId, used, queue, stop, wsStop, outside, coming, acked>>

\* chiaki_holepunch_session_punch_hole: the state it needs.
Punch ==
  /\ pc = "punch" /\ used' = <<>>
  /\ IF (IF port = "ctrl" THEN "CUSTOMDATA1_RECEIVED" ELSE "CTRL_ESTABLISHED") \in state
     THEN pc' = "offer" /\ UNCHANGED result
     ELSE Return("failed")
  /\ UNCHANGED <<mainRest, state, reqId, stop, coming, acked>>

\* wait_for_session_message removes a message it does not want and keeps the
\* one it wants in the queue; TERMINATE ends all.
DropMessage ==
  /\ ForMessage /\ Found /\ ~stop
  /\ queue[First].action # WaitingFor[pc]
  /\ IF queue[First].action = "TERMINATE"
     THEN Return("canceled") /\ UNCHANGED queue
     ELSE queue' = Without(First) /\ UNCHANGED <<pc, result>>
  /\ UNCHANGED <<port, state, reqId, used, stop, wsStop, kept, outside, coming, acked>>

\* A RESULT of another request would be found again and again.
TakeMessage ==
  /\ ForMessage /\ Found /\ ~stop
  /\ queue[First].action = WaitingFor[pc]
  /\ pc = "ack" => queue[First].req = reqId - 1
  /\ used' = Append(used, queue[First])
  /\ pc' = CASE pc = "offer" -> "offer_ack" [] pc = "ack" -> "candidates" [] OTHER -> "accept_ack"
  /\ state' = IF pc # "offer" THEN state
              ELSE state \cup {IF port = "ctrl" THEN "CTRL_OFFER_RECEIVED" ELSE "DATA_OFFER_RECEIVED"}
  /\ UNCHANGED <<mainRest, reqId, result, stop, coming, acked>>

AckOffer ==
  /\ At("offer_ack") /\ pc' = "own_offer"
  /\ acked' = acked \cup {used[1].port}
  /\ UNCHANGED <<mainRest, state, reqId, result, used, stop, coming>>

\* Our own OFFER, which the console acknowledges.
OwnOffer ==
  /\ At("own_offer") /\ pc' = "ack" /\ reqId' = reqId + 1
  /\ coming' = Append(coming, Message("RESULT", port, reqId))
  /\ UNCHANGED <<mainRest, state, result, used, stop, acked>>

AcceptSent ==
  /\ At("accept_sent") /\ pc' = "accepting" /\ reqId' = reqId + 1
  /\ UNCHANGED <<mainRest, state, result, used, stop, coming, acked>>

Establish ==
  /\ At("establishing") /\ pc' = "established"
  /\ state' = state \cup {IF port = "ctrl" THEN "CTRL_ESTABLISHED" ELSE "DATA_ESTABLISHED"}
  /\ UNCHANGED <<mainRest, reqId, result, used, stop, coming, acked>>

\* The console's last requests are answered, which the select pipe may end or
\* an error; after the control port comes the data port, if the session gets
\* there, and then the end.
Punched ==
  /\ At("established")
  /\ \/ Return(IF wsStop THEN "canceled" ELSE "failed") /\ UNCHANGED port
     \/ ~wsStop /\ port = "ctrl" /\ pc' = "punch" /\ port' = "data" /\ UNCHANGED result
     \/ ~wsStop /\ port = "data" /\ Return("success") /\ UNCHANGED port
  /\ UNCHANGED <<state, reqId, used, queue, stop, wsStop, kept, outside, coming, acked>>

\* chiaki_holepunch_session_fini: deleteSession, if there is a WebSocket.
Fini ==
  /\ pc = "fini"
  /\ IF ws \in {"open", "blocked"}
     THEN /\ pc' = "deleting"
          /\ \E type \in {"MEMBER_DELETED", "SESSION_DELETED"} : coming' = Append(coming, Notice(type))
     ELSE pc' = "done" /\ UNCHANGED coming
  /\ UNCHANGED <<mainRest, state, reqId, result, used, stop, acked>>

\* A cancel that comes this late only ends the wait.
Deleted ==
  /\ pc = "deleting"
  /\ \/ Found /\ ~kept /\ state' = state \cup {"DELETED"} /\ queue' = Without(First) /\ UNCHANGED stop
     \/ Matching = {} /\ stop /\ stop' = FALSE /\ UNCHANGED <<state, queue>>
  /\ pc' = "join" /\ wsStop' = TRUE
  /\ UNCHANGED <<port, reqId, result, used, kept, outside, coming, acked>>

Join ==
  /\ pc = "join" /\ ws = "done" /\ pc' = "done"
  /\ UNCHANGED <<mainRest, state, reqId, result, used, stop, coming, acked>>

-----------------------------------------------------------------------------
Calls ==
  \/ GoOn("create", "created") \/ GoOn("opening", "opened")
  \/ GoOn("creating_first", "creating") \/ GoOn("starting_first", "starting")
  \/ GoOn("candidates", "accept") \/ GoOn("accept_ack", "establishing")
  \/ CallAnswered("opened", "creating_first", Notice("SESSION_CREATED"), Notice("MEMBER_CREATED"))
  \/ CallAnswered("start", "starting_first", Notice("CUSTOM_DATA1_UPDATED"), Notice("MEMBER_CREATED"))
  \/ CallAnswered("accept", "accept_sent", Message("RESULT", port, reqId), Message("ACCEPT", port, 20))

Main ==
  \/ CheckStop \/ CallFails \/ Calls \/ StartWebsocket \/ WaitTimeout \/ WaitCanceled
  \/ TakeNotification \/ Malformed \/ Punch \/ DropMessage \/ TakeMessage \/ AckOffer \/ OwnOffer
  \/ AcceptSent \/ Establish \/ Punched \/ Fini \/ Deleted \/ Join

Websocket == WsConnect \/ WsReceive \/ WsEnqueue
WsStops == wsStop /\ WsLeave

Next == Main \/ Websocket \/ WsLeave \/ ConsoleSends \/ \E b \in BOOLEAN : MainThreadCancel(b)

-----------------------------------------------------------------------------
(* Properties                                                              *)

TypeOK ==
  /\ port \in Ports /\ reqId \in Nat /\ stop \in BOOLEAN /\ wsStop \in BOOLEAN /\ kept \in BOOLEAN
  /\ result \in {"none", "success", "failed", "canceled"}
  /\ ws \in {"off", "connecting", "open", "blocked", "done"}
  /\ copies \in 0..MaxCopies /\ acked \subseteq Ports /\ Len(hand) <= 1 /\ Len(used) <= 3

\* The OFFER, the RESULT and the ACCEPT a hole is punched by are those of its
\* own port, although copies of an OFFER come in late, what was used stays in
\* the queue and the console may be ahead with the OFFER for the data port.
RightMessages == pc # "punch" => \A i \in DOMAIN used : used[i].port = port

\* Its inductive invariant.  The notifications are in one line, the queue first:
\* no OFFER for the control port comes after a RESULT, since the console repeats
\* none that was acknowledged, and no ACCEPT for it after an OFFER for the data
\* port.  So what was gone by in the queue when a message was used does not come
\* again.
Notices == {"SESSION_CREATED", "MEMBER_CREATED", "CUSTOM_DATA1_UPDATED", "MEMBER_DELETED", "SESSION_DELETED"}
Notification ==
  [type : {"message"} \cup Notices, action : {"none", "OFFER", "RESULT", "ACCEPT", "TERMINATE"},
   port : {"none"} \cup Ports, req : Nat]
Line == queue \o hand \o coming
Members(line) == {line[i] : i \in DOMAIN line}
Offer(n, p) == n.action = "OFFER" /\ n.port = p
Result(n) == n.action = "RESULT"
Accept(n) == n.action = "ACCEPT"
Agreed == {"candidates", "accept", "accept_sent", "accepting", "accept_ack", "establishing", "established"}
Acknowledged == Agreed \cup {"own_offer", "ack"}
Ending == {"fini", "deleting", "join", "done"}
Opened == {"establishing", "established"}

InOrder(line) ==
  \A i, j \in DOMAIN line : i < j =>
    /\ ~(Result(line[i]) /\ Offer(line[j], "ctrl"))
    /\ ~(Offer(line[i], "data") /\ Accept(line[j]) /\ line[j].port = "ctrl")
Heard(n) ==
  /\ n.type = "message" \/ n.action = "none"
  /\ n.action \in {"OFFER", "RESULT", "ACCEPT"} => n.port \in Ports
OffersInv(n) ==
  /\ Offer(n, "ctrl") => pc \notin Agreed /\ port = "ctrl"
  /\ Offer(n, "data") => port = "data" \/ pc \in Opened \cup Ending
AnswersInv(n) ==
  /\ Result(n) => "ctrl" \in acked
  /\ Result(n) \/ Accept(n) => port \in {n.port, "data"}
  /\ Result(n) /\ pc \notin Ending =>
       n.req < CASE pc = "accept_sent" -> reqId + 1
                 [] pc = "ack" /\ n.port # port -> reqId - 1
                 [] OTHER -> reqId
  /\ Accept(n) /\ n.port = "ctrl" /\ port = "data" => pc \in {"punch", "offer"} \cup Ending
PunchInv ==
  /\ port \in Ports /\ reqId \in Nat /\ used \in Seq(Notification)
  /\ queue \in Seq(Notification) /\ hand \in Seq(Notification) /\ coming \in Seq(Notification)
  /\ pc \in Acknowledged \/ port = "data" => "ctrl" \in acked
  /\ pc = "offer_ack" => used # <<>>
  /\ InOrder(Line)
  /\ \A n \in Members(Line) : Heard(n) /\ OffersInv(n) /\ AnswersInv(n)
  /\ RightMessages

\* The connection is made or given up and its session ended, unless the
\* WebSocket cannot connect, which nobody tells the wait for it, or a cancel or
\* a malformed notification left state_mutex locked.
Unfinished == ~(pc = "done" \/ kept \/ (pc = "opening" /\ ws = "done"))
=============================================================================
