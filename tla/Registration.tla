---------------------------- MODULE Registration ----------------------------
(***************************************************************************)
(* lib/src/regist.c: a thread finds the console with a search packet,      *)
(* connects, posts the request and reads the answer with the keys, or, for *)
(* an account on the internet, does so over RUDP.  The owner may ask it to *)
(* stop at any time and joins it.  (The calls over RUDP are those of       *)
(* RudpHandshake; here they end well or not.)                              *)
(***************************************************************************)
EXTENDS Naturals, Sequences

CONSTANTS Parts  \* pieces in which the content of the answer comes

RegistrationConstantsOK == Parts \in Nat

VARIABLES at,      \* where regist_thread_func is
          psn,     \* holepunch_info is given
          stop,    \* the stop pipe was written
          ignored, \* ... when all that is waited for had been received
          sockets, \* that are open, of the search and of the request
          missing, \* pieces of the content still to come
          found,   \* fields of the host that are there and valid
          outcome, \* canceled and success
          events,  \* that the owner was given
          broken,  \* the wait before the request failed
          joined   \* chiaki_regist_fini has returned

vars == <<at, psn, stop, ignored, sockets, missing, found, outcome, events,
          broken, joined>>

Fields == {"registKey", "key", "mac"}

\* chiaki_regist_start
Init ==
  /\ at = "format" /\ psn \in BOOLEAN
  /\ stop = FALSE /\ ignored = FALSE
  /\ sockets = {} /\ missing = Parts /\ found = {}
  /\ outcome = "none" /\ events = <<>> /\ broken = FALSE /\ joined = FALSE

-----------------------------------------------------------------------------
(* regist_thread_func                                                      *)

\* goto fail_socket, fail_addrinfos or fail
Fail(res) ==
  /\ outcome' = res /\ at' = "report" /\ sockets' = {}
  /\ UNCHANGED <<missing, found>>

Go(step, open) ==
  /\ at' = step /\ sockets' = open
  /\ UNCHANGED <<missing, found, outcome>>

\* Waiting for a socket or the stop pipe, which comes first if both are ready;
\* the socket may break or the time be over.
Waits == at \in {"search", "connect", "header", "payload", "response", "content"}

Interrupted == Waits /\ ((stop /\ Fail("canceled")) \/ Fail("failed"))

\* random numbers, the payload and the header, the name of the host
Format ==
  /\ at = "format"
  /\ \/ Fail("failed")
     \/ psn /\ Go("rudp", {})
     \/ ~psn /\ Go("search", {"search"})

\* regist_search: an answer, which closes the socket
Search == at = "search" /\ ~stop /\ Go("sleep", {})

\* the console does not accept requests immediately; a wait that fails counts as
\* a stop
Sleep ==
  /\ at = "sleep"
  /\ \/ stop /\ Fail("canceled") /\ UNCHANGED broken
     \/ ~stop /\ Go("connect", {}) /\ UNCHANGED broken
     \/ broken' = TRUE /\ Fail("canceled")

\* regist_request_connect, the two chiaki_send_fully, the header of the answer
Request ==
  /\ ~stop
  /\ \/ at = "connect" /\ Go("header", {"request"})
     \/ at = "header" /\ Go("payload", sockets)
     \/ at = "payload" /\ Go("response", sockets)
     \/ at = "response" /\ Go(IF missing = 0 THEN "parse" ELSE "content", sockets)

\* the rest of the content, piece by piece
Content ==
  /\ at = "content" /\ ~stop
  /\ missing' = missing - 1
  /\ at' = IF missing = 1 THEN "parse" ELSE "content"
  /\ UNCHANGED <<sockets, found, outcome>>

\* Over RUDP nothing looks at the stop pipe.
Rudp == at = "rudp" /\ (Fail("failed") \/ Go("parse", {}))

\* (bug: the MAC address is not asked for)
CompleteWithoutMac(fields) == {"registKey", "key"} \subseteq fields

Complete(fields) == fields = Fields

\* the code of the answer, and regist_parse_response_payload
Parse ==
  /\ at = "parse"
  /\ found' \in SUBSET Fields
  /\ outcome' = IF Complete(found') THEN "success" ELSE "failed"
  /\ at' = "report" /\ sockets' = {}
  /\ UNCHANGED missing

Report ==
  /\ at = "report"
  /\ events' = Append(events, outcome)
  /\ at' = "ended"
  /\ UNCHANGED <<sockets, missing, found, outcome, broken>>

Thread ==
  /\ UNCHANGED <<psn, stop, ignored, joined>>
  /\ \/ Report
     \/ UNCHANGED <<events, broken>>
        /\ (Interrupted \/ Format \/ Search \/ Request \/ Content \/ Rudp \/ Parse)
     \/ UNCHANGED events /\ Sleep

-----------------------------------------------------------------------------
(* The owner                                                               *)

\* chiaki_regist_stop
Stop ==
  /\ ~stop /\ ~joined
  /\ stop' = TRUE
  /\ ignored' = (psn \/ at \in {"parse", "report", "ended"})
  /\ UNCHANGED <<at, psn, sockets, missing, found, outcome, events, broken, joined>>

\* chiaki_regist_fini
Fini ==
  /\ at = "ended" /\ ~joined
  /\ joined' = TRUE
  /\ UNCHANGED <<at, psn, stop, ignored, sockets, missing, found, outcome, events, broken>>

Next == Thread \/ Stop \/ Fini

-----------------------------------------------------------------------------
(* Properties                                                              *)

TypeOK ==
  /\ at \in {"format", "search", "sleep", "connect", "header", "payload", "response",
             "content", "rudp", "parse", "report", "ended"}
  /\ {psn, stop, ignored, broken, joined} \subseteq BOOLEAN
  /\ sockets \subseteq {"search", "request"} /\ missing \in 0..Parts
  /\ found \subseteq Fields
  /\ outcome \in {"none", "canceled", "success", "failed"}

\* The owner is told once how it ended, after all sockets were closed: as
\* cancelled only if it was asked to stop or the wait before the request failed,
\* and as a success only with all that a host needs and, unless all had been
\* received, never once it was to stop.
OneVerdict ==
  /\ at = "ended" => events = <<outcome>> /\ sockets = {}
  /\ at # "ended" => events = <<>>
  /\ outcome = "canceled" => stop \/ broken
  /\ outcome = "success" => found = Fields /\ (stop => ignored)

\* The inductive invariant of OneVerdict: a thread that is stopped does not get
\* to the answer, unless it looks at the stop pipe no more.
RegistInv ==
  /\ OneVerdict
  /\ outcome = "none" <=> at \notin {"report", "ended"}
  /\ at = "report" => sockets = {}
  /\ at = "rudp" => psn
  /\ stop /\ (psn \/ at = "parse") => ignored

\* Registration ends, stopped or not, and its owner can join it.
Unfinished == ~joined
=============================================================================
