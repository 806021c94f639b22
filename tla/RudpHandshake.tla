---------------------------- MODULE RudpHandshake ----------------------------
(***************************************************************************)
(* chiaki_rudp_send_recv of lib/src/remote/rudp.c, as session.c, ctrl.c    *)
(* and regist.c call it one time after the other over one socket: INIT,    *)
(* COOKIE, the HTTP request, the ACK that is to be answered by FINISH, and *)
(* again for the connection of ctrl.  A request is sent again if nothing   *)
(* comes in time or something else does; each request that reaches the     *)
(* console is answered, so late answers pile up in the socket.  Errors of  *)
(* the socket, which end the call at once, are left out.                   *)
(***************************************************************************)
EXTENDS Naturals, Sequences, FiniteSets

CONSTANTS Calls,     \* records [answer, must]: the kind expected, and whether to fail without
          Tries,     \* 3
          FaultsMax  \* bound: answers lost or late

RudpHandshakeConstantsOK ==
  /\ Tries \in Nat \ {0} /\ FaultsMax \in Nat
  /\ Calls \in Seq([answer : STRING, must : BOOLEAN]) /\ Calls # <<>>

VARIABLES call,    \* index of the current call
          try,     \* i
          at,      \* "send", "select" or the end: "connected", "failed"
          socket,  \* answers on their way or in the socket
          faults   \* answers lost or late so far

vars == <<call, try, at, socket, faults>>

Init == call = 1 /\ try = 0 /\ at = "send" /\ socket = <<>> /\ faults = 0

Without(s, i) == [j \in 1..Len(s)-1 |-> s[IF j < i THEN j ELSE j + 1]]

Running == at \in {"send", "select"}

\* One of the four requests; its answer may be lost (as the request may).
Send ==
  /\ at = "send"
  /\ at' = "select"
  /\ \/ socket' = Append(socket, Calls[call].answer) /\ UNCHANGED faults
     \/ faults < FaultsMax /\ faults' = faults + 1 /\ UNCHANGED socket
  /\ UNCHANGED <<call, try>>

\* (bug: one try less)
LastTryEarly == try + 2 >= Tries
LastTry == try + 1 >= Tries

Succeed ==
  /\ try' = 0
  /\ IF call < Len(Calls) THEN call' = call + 1 /\ at' = "send"
                          ELSE at' = "connected" /\ UNCHANGED call

\* continue: the next try, if there is one; without FINISH all goes on
TryAgain ==
  IF ~LastTry THEN try' = try + 1 /\ at' = "send" /\ UNCHANGED call
  ELSE IF Calls[call].must THEN at' = "failed" /\ UNCHANGED <<call, try>>
  ELSE Succeed

\* chiaki_rudp_select_recv brings the answer or another one, in any order.
Receive ==
  /\ at = "select"
  /\ \E i \in DOMAIN socket :
       /\ socket' = Without(socket, i)
       /\ IF socket[i] = Calls[call].answer THEN Succeed ELSE TryAgain
  /\ UNCHANGED faults

\* RUDP_EXPECT_TIMEOUT_MS is over, and what is on its way will be late.
Timeout ==
  /\ at = "select"
  /\ \/ socket = <<>> /\ UNCHANGED faults
     \/ socket # <<>> /\ faults < FaultsMax /\ faults' = faults + 1
  /\ TryAgain
  /\ UNCHANGED socket

Next == Send \/ Receive \/ Timeout

-----------------------------------------------------------------------------
(* Properties                                                              *)

TypeOK ==
  /\ call \in DOMAIN Calls /\ try \in 0..Tries - 1
  /\ at \in {"send", "select", "connected", "failed"}
  /\ faults \in 0..FaultsMax

\* Fewer faults than tries, wherever in the sequence of calls they are, do not
\* keep the session from connecting: each late answer costs every later call at
\* most one try, since taking it off the socket for another one leaves no more
\* than one.
FaultsSurvived == at = "failed" => faults >= Tries

\* The inductive invariant of FaultsSurvived: each answer that waits in the
\* socket was late, but for that of the last request, and each try was used up
\* by a fault or will be by an answer to another call.
Wrong == {i \in DOMAIN socket : socket[i] # Calls[call].answer}
HandshakeInv ==
  /\ call \in DOMAIN Calls /\ try \in 0..Tries - 1 /\ faults \in Nat /\ socket \in Seq(STRING)
  /\ at \in {"send", "select", "connected", "failed"}
  /\ at = "send" => Len(socket) <= faults /\ try + Cardinality(Wrong) <= faults
  /\ at = "select" =>
       \/ socket # <<>> /\ Len(socket) <= faults + 1 /\ try + Cardinality(Wrong) <= faults
       \/ Len(socket) < faults /\ try + Cardinality(Wrong) < faults
  /\ FaultsSurvived

\* The sequence of calls comes to an end.
Unfinished == Running
=============================================================================
