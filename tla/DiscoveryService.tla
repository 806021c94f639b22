-------------------------- MODULE DiscoveryService --------------------------
(***************************************************************************)
(* lib/src/discoveryservice.c with the threads of lib/src/discovery.c: one *)
(* thread looks for consoles at intervals and forgets those that have not  *)
(* answered for a while, another receives the answers, and the application *)
(* is given the whole list whenever it changes.                            *)
(***************************************************************************)
EXTENDS Naturals, Sequences, FiniteSets

CONSTANTS Ids,        \* of consoles; their answers may also have none
          Data,       \* state, name, address ...
          HostsMax,   \* options.hosts_max
          DropPings,  \* options.host_drop_pings
          MaxPings    \* bound

NoId == 0
DiscoveryConstantsOK ==
  /\ NoId \notin Ids
  /\ HostsMax \in Nat \ {0} /\ DropPings \in Nat /\ MaxPings \in Nat

VARIABLES hosts,     \* hosts, hosts_count
          infos,     \* host_discovery_infos
          ping,      \* ping_index
          service,   \* discovery_service_thread_func
          receiver,  \* discovery_thread_func
          answer,    \* what it was sent
          stop,      \* predicate of stop_cond
          stopPipe,  \* of the receiver
          closer,    \* chiaki_discovery_service_fini
          reported,  \* the list that the application has
          heard      \* ping_index at the last answer that was taken

listVars == <<hosts, infos, ping, reported, heard>>
vars == <<listVars, service, receiver, answer, stop, stopPipe, closer>>

None == [id |-> NoId, data |-> NoId]

Init ==
  /\ hosts = <<>> /\ infos = <<>> /\ ping = 0
  /\ service = "wait"
  /\ receiver = "select" /\ answer = None
  /\ stop = FALSE /\ stopPipe = FALSE
  /\ closer = "no"
  /\ reported = <<>>
  /\ heard = [id \in Ids |-> 0]

-----------------------------------------------------------------------------
(* discovery_service_thread_func, which holds the mutex of stop_cond       *)
(* whenever it does not wait                                               *)

Stale(i) == infos[i] + DropPings < ping

\* discovery_service_drop_old_hosts: indices that stay.  When the first one
\* is removed the index is not decremented, and the next one is not looked at.
Kept == {i \in DOMAIN hosts : ~Stale(i) \/ (i = 2 /\ Stale(1))}
InOrder == {order \in [1..Cardinality(Kept) -> Kept] :
              \A i, j \in DOMAIN order : i < j => order[i] < order[j]}

\* (bug: the second memmove is forgotten)
DropHostsOnly ==
  IF Kept = DOMAIN hosts THEN UNCHANGED <<hosts, infos, reported>>
  ELSE \E order \in InOrder :
         /\ hosts' = [i \in DOMAIN order |-> hosts[order[i]]]
         /\ infos' = SubSeq(infos, 1, Len(order))
         /\ reported' = hosts'

Drop ==
  IF Kept = DOMAIN hosts THEN UNCHANGED <<hosts, infos, reported>>
  ELSE \E order \in InOrder :
         /\ hosts' = [i \in DOMAIN order |-> hosts[order[i]]]
         /\ infos' = [i \in DOMAIN order |-> infos[order[i]]]
         /\ reported' = hosts'

\* The interval is over: the part of discovery_service_ping under state_mutex.
\* It counts the ping first.
Ping ==
  /\ service = "wait" /\ ~stop
  /\ ping < MaxPings
  /\ ping' = ping + 1
  /\ service' = "drop"
  /\ UNCHANGED <<hosts, infos, reported, heard, receiver, answer, stop, stopPipe, closer>>

DropOld ==
  /\ service = "drop"
  /\ Drop
  /\ service' = "send"
  /\ UNCHANGED <<ping, heard, receiver, answer, stop, stopPipe, closer>>

\* the search goes out, or fails
SendSearch ==
  /\ service = "send"
  /\ service' = "wait"
  /\ UNCHANGED <<listVars, receiver, answer, stop, stopPipe, closer>>

\* (bug: the stop pipe of the receiving thread is not written)
StopReceiverUnsignaled ==
  /\ service = "wait" /\ stop
  /\ service' = "join"
  /\ UNCHANGED <<listVars, receiver, answer, stop, stopPipe, closer>>

\* chiaki_discovery_thread_stop
StopReceiver ==
  /\ service = "wait" /\ stop
  /\ stopPipe' = TRUE
  /\ service' = "join"
  /\ UNCHANGED <<listVars, receiver, answer, stop, closer>>

ServiceEnds ==
  /\ service = "join" /\ receiver = "ended"
  /\ service' = "ended"
  /\ UNCHANGED <<listVars, receiver, answer, stop, stopPipe, closer>>

-----------------------------------------------------------------------------
(* discovery_thread_func                                                   *)

\* an answer is received and parsed
Receive(host) ==
  /\ receiver = "select" /\ ~stopPipe
  /\ answer' = host
  /\ receiver' = "callback"
  /\ UNCHANGED <<listVars, service, stop, stopPipe, closer>>

Canceled ==
  /\ receiver = "select" /\ stopPipe
  /\ receiver' = "ended"
  /\ UNCHANGED <<listVars, service, answer, stop, stopPipe, closer>>

Indices(id) == {i \in 1..Len(hosts) : hosts[i].id = id}

\* discovery_service_host_received, under state_mutex, so not between the
\* counting of a ping and the removal of old hosts
HostReceived ==
  /\ receiver = "callback"
  /\ service # "drop"
  /\ receiver' = "select" /\ answer' = None
  /\ LET id == answer.id
         known == Indices(id) # {}
         i == IF known THEN CHOOSE j \in Indices(id) : TRUE ELSE Len(hosts) + 1
     IN  IF id = NoId \/ (~known /\ Len(hosts) = HostsMax)
         THEN UNCHANGED listVars
         ELSE /\ hosts' = IF known THEN [hosts EXCEPT ![i] = answer] ELSE Append(hosts, answer)
              /\ infos' = IF known THEN [infos EXCEPT ![i] = ping] ELSE Append(infos, ping)
              /\ reported' = IF hosts' # hosts THEN hosts' ELSE reported
              /\ heard' = [heard EXCEPT ![id] = ping]
              /\ UNCHANGED ping
  /\ UNCHANGED <<service, stop, stopPipe, closer>>

-----------------------------------------------------------------------------
(* chiaki_discovery_service_fini                                           *)

Fini ==
  /\ closer = "no"
  /\ service \in {"wait", "join", "ended"}
  /\ stop' = TRUE
  /\ closer' = "join"
  /\ UNCHANGED <<listVars, service, receiver, answer, stopPipe>>

FiniJoins ==
  /\ closer = "join" /\ service = "ended"
  /\ closer' = "done"
  /\ UNCHANGED <<listVars, service, receiver, answer, stop, stopPipe>>

ServiceSteps == DropOld \/ SendSearch \/ StopReceiver \/ ServiceEnds
ReceiverSteps == Canceled \/ HostReceived

Answers == [id : Ids, data : Data] \union {None}

Next ==
  \/ Ping \/ DropOld \/ SendSearch \/ StopReceiver \/ ServiceEnds
  \/ \E host \in Answers : Receive(host)
  \/ Canceled \/ HostReceived \/ Fini \/ FiniJoins

-----------------------------------------------------------------------------
(* Properties                                                              *)

TypeOK ==
  /\ \A i \in DOMAIN hosts : hosts[i].id \in Ids /\ hosts[i].data \in Data
  /\ Len(hosts) <= HostsMax
  /\ Len(infos) = Len(hosts) /\ \A i \in DOMAIN infos : infos[i] \in 0..ping
  /\ ping \in 0..MaxPings
  /\ service \in {"wait", "drop", "send", "join", "ended"}
  /\ receiver \in {"select", "callback", "ended"} /\ answer \in Answers
  /\ {stop, stopPipe} \subseteq BOOLEAN
  /\ closer \in {"no", "join", "done"}
  /\ heard \in [Ids -> 0..ping]

\* The application has the list as it is, each console in it once.
ListReported ==
  /\ reported = hosts
  /\ \A i, j \in DOMAIN hosts : hosts[i].id = hosts[j].id => i = j

\* What is listed is what answered lately: a console stays for at most one
\* ping longer than it may be silent, and none is removed that answered.
ListedWhileHeard ==
  service # "drop" =>
    \A i \in DOMAIN hosts : /\ heard[hosts[i].id] + DropPings + 1 >= ping
                            /\ infos[i] = heard[hosts[i].id]

\* Nothing calls the application back when fini has returned.
QuietAfterFini == closer = "done" => receiver = "ended" /\ service = "ended"

\* Why these hold: only the first console of the list may have escaped a
\* removal, and the next one begins with it.
Grace(i) == (IF i = 1 THEN 1 ELSE 0) + (IF service = "drop" THEN 1 ELSE 0)
ListInv ==
  /\ hosts \in Seq([id : Ids, data : Data]) /\ infos \in Seq(Nat) /\ Len(infos) = Len(hosts)
  /\ ping \in Nat /\ answer \in Answers
  /\ heard \in [Ids -> Nat] /\ \A id \in Ids : heard[id] <= ping
  /\ ListReported
  /\ \A i \in DOMAIN hosts : /\ infos[i] = heard[hosts[i].id]
                              /\ infos[i] + DropPings + Grace(i) >= ping
ThreadsInv ==
  /\ QuietAfterFini
  /\ service = "ended" => receiver = "ended"
DiscoveryInv == ListInv /\ ThreadsInv

\* chiaki_discovery_service_fini returns.
Unfinished == closer = "join"
=============================================================================
