----------------------------- MODULE Candidates -----------------------------
(***************************************************************************)
(* check_candidates of lib/src/remote/holepunch.c: the search for an       *)
(* address of the console that can be reached, and for the socket to reach *)
(* it with.  A request goes to every candidate from the session's socket   *)
(* of its family, and with port guessing from further sockets as well;     *)
(* the console sends requests too, from addresses that may be new ones,    *)
(* and answers; the first answer that carries the id of our request        *)
(* selects the address and the socket.  The sockets that are not chosen    *)
(* are closed, and the console's own requests are answered until it is     *)
(* quiet.                                                                  *)
(***************************************************************************)
EXTENDS Naturals, FiniteSets

CONSTANTS Listed,      \* the console's candidates
          Six,         \* those with an IPv6 address
          Guessed,     \* those with an IPv4 address and of type STATIC or STUN
          Others,      \* further addresses, IPv4, that messages may come from
          Extra,       \* EXTRA_CANDIDATE_ADDRESSES
          Slots,       \* port_guessing_socks
          Tries,       \* SELECT_CANDIDATE_TRIES
          MaxMessages  \* bound: messages that come in

CandidatesConstantsOK ==
  /\ Six \subseteq Listed /\ Guessed \subseteq Listed \ Six /\ Listed \cap Others = {}
  /\ Extra \in Nat /\ Slots \in Nat /\ Tries \in Nat /\ MaxMessages \in Nat

None == 0
Sock4 == Slots + 1         \* ipv4_sock and ipv6_sock of the session
Sock6 == Slots + 2
Sockets == 1..Slots + 2    \* and before them those for port guessing
SockFor(a) == IF a \in Six THEN Sock6 ELSE Sock4

VARIABLES pc, guessing, count, open,   \* stun_random_allocation, socks_count
          derived,                     \* addresses added
          tries, received, connecting, \* retry_counter, received_response
          responded,                   \* some request of the console was answered
          asked,                       \* sockets a request was sent from
          out, result, messages,
          paired                       \* sockets that an answer to our request came in at

vars == <<pc, guessing, count, open, derived, tries, received, connecting,
          responded, asked, out, result, messages, paired>>

Init ==
  /\ pc = "open" /\ guessing \in BOOLEAN
  /\ count = 0 /\ open = {Sock4, Sock6}
  /\ derived = {} /\ tries = 0
  /\ received = FALSE /\ connecting = FALSE /\ responded = FALSE
  /\ asked = {} /\ out = None /\ result = "none" /\ messages = 0 /\ paired = {}

\* The loops over socks[0..socks_count-1].
Counted == open \cap 1..count
Polled == open \cap ({Sock4, Sock6} \cup 1..count)

\* cleanup_sockets
Fail(err) ==
  /\ open' = open \ Polled
  /\ result' = err /\ pc' = "done"

\* The sockets for port guessing: creation stops at the first that cannot be
\* had, and one that cannot be set up is skipped and not counted, and left open
\* if it is the first option that fails.
OpenSockets ==
  /\ pc = "open" /\ pc' = "request"
  /\ IF ~guessing THEN UNCHANGED <<count, open>>
     ELSE \E n \in 0..Slots : \E bad \in SUBSET (1..n) : \E left \in SUBSET bad :
            /\ count' = n - Cardinality(bad)
            /\ open' = open \cup ((1..n) \ bad) \cup left
  /\ UNCHANGED <<guessing, derived, tries, received, connecting, responded,
                 asked, out, result, messages, paired>>

\* Requests to all candidates whose address can be had and sent to; a guessing
\* socket that cannot send is closed.
SendRequests ==
  /\ pc = "request"
  /\ \E sent \in SUBSET Listed, broken \in SUBSET Counted :
       LET probing == guessing /\ sent \cap Guessed # {} IN
       /\ ~probing => broken = {}
       /\ asked' = IF sent = {} THEN {} ELSE {SockFor(a) : a \in sent} \cup (IF probing THEN Counted \ broken ELSE {})
       /\ IF sent = {} THEN Fail("network")
          ELSE pc' = "wait" /\ open' = open \ broken /\ UNCHANGED result
  /\ UNCHANGED <<guessing, count, derived, tries, received, connecting,
                 responded, out, messages, paired>>

\* Nothing came in 0.5 s: all is sent again from the session's sockets, unless
\* there was an answer already; then one more wait of 5 s is granted.
Timeout ==
  /\ pc = "wait"
  /\ IF tries < Tries /\ ~received
     THEN /\ tries' = tries + 1
          /\ \E sent \in SUBSET (Listed \cup derived) : asked' = asked \cup {SockFor(a) : a \in sent}
          /\ UNCHANGED <<connecting, pc, open, result>>
     ELSE IF received /\ ~connecting
     THEN connecting' = TRUE /\ UNCHANGED <<tries, pc, open, asked, result>>
     ELSE Fail("unreachable") /\ UNCHANGED <<tries, connecting, asked>>
  /\ UNCHANGED <<guessing, count, derived, received, responded, out, messages, paired>>

\* The wait itself fails, or the TTL of a guessing socket cannot be set.
SelectFails ==
  /\ pc = "wait"
  /\ Fail("network")
  /\ UNCHANGED <<guessing, count, derived, tries, received, connecting,
                 responded, asked, out, messages, paired>>

\* A message from an address: one that is not known becomes a further
\* candidate as long as there is room.
Known(a) == a \in Listed \cup derived
Room == Cardinality(derived) < Extra
IsDerived(a) == a \notin Listed
Message(s, a) ==
  /\ pc = "wait" /\ messages < MaxMessages /\ messages' = messages + 1
  /\ s \in Polled /\ (s = Sock6 <=> a \in Six)
  /\ Known(a) \/ Room
  /\ derived' = derived \cup ({a} \ Listed)
  /\ UNCHANGED <<guessing, count, tries, connecting>>

\* The console's request is answered; if it comes from a new address, or with
\* port guessing, a request goes back.  If that cannot be sent, all ends with
\* the result of the answer before it.
Request(s, a) ==
  /\ Message(s, a)
  /\ responded' = TRUE
  /\ \/ asked' = (IF guessing \/ IsDerived(a) THEN asked \cup {s} ELSE asked)
        /\ UNCHANGED <<pc, open, result>>
     \/ Fail("network") /\ UNCHANGED asked
     \/ (guessing \/ IsDerived(a)) /\ Fail("success") /\ UNCHANGED asked
  /\ UNCHANGED <<received, out, paired>>

\* A message of another size or type.
Odd(s, a) ==
  /\ Message(s, a)
  /\ IF IsDerived(a) THEN UNCHANGED <<pc, open, result>> ELSE Fail("unknown")
  /\ UNCHANGED <<received, responded, asked, out, paired>>

\* The id of our request is compared, the address is not.
\* (bug: any answer selects)
SelectsAny(mine) == TRUE
Selects(mine) == mine

\* An answer: to our request, which is what a socket that asked may get, or to
\* an earlier one.
Answer(s, a, mine) ==
  /\ Message(s, a)
  /\ mine => s \in asked
  /\ paired' = (IF mine THEN paired \cup {s} ELSE paired)
  /\ IF ~Selects(mine) THEN UNCHANGED <<received, out, pc, open, result>>
     ELSE /\ received' = TRUE
          /\ \/ out' = s /\ pc' = "confirm" /\ open' = open \ (Polled \ {s}) /\ UNCHANGED result
             \/ Fail("network") /\ UNCHANGED out
  /\ UNCHANGED <<responded, asked>>

\* receive_request_send_response_ps on the chosen socket, to the end of it.
\* (bug: silence is always fine)
QuietEnoughAlways(answered) == TRUE
QuietEnough(answered) == answered \/ responded

Succeed == result' = "success" /\ pc' = "done" /\ UNCHANGED open

Confirm ==
  /\ pc = "confirm"
  /\ \E answered \in BOOLEAN :
       /\ responded' = (responded \/ answered)
       /\ \/ IF QuietEnough(answered) THEN Succeed
             ELSE open' = open \ {out} /\ result' = "timeout" /\ pc' = "done"
          \/ open' = open \ {out} /\ pc' = "done" /\ result' \in {"network", "unknown", "canceled"}
  /\ UNCHANGED <<guessing, count, derived, tries, received, connecting, asked,
                 out, messages, paired>>

Arrives == \E s \in Sockets, a \in Listed \cup Others :
             Request(s, a) \/ Odd(s, a) \/ \E mine \in BOOLEAN : Answer(s, a, mine)
Search == OpenSockets \/ SendRequests \/ Timeout \/ Confirm
Next == Search \/ SelectFails \/ Arrives

-----------------------------------------------------------------------------
(* Properties                                                              *)

TypeOK ==
  /\ pc \in {"open", "request", "wait", "confirm", "done"}
  /\ count \in 0..Slots /\ open \subseteq Sockets /\ asked \subseteq Sockets
  /\ Cardinality(derived) <= Extra /\ tries \in 0..Tries
  /\ out \in {None} \cup Sockets
  /\ result \in {"none", "success", "network", "unreachable", "unknown", "timeout", "canceled"}

\* A socket is handed out only if the console answered a request that was sent
\* from it, and some request of the console's was answered: both directions
\* were seen to work.
PairedBothWays ==
  (result = "success" /\ out # None) => (out \in asked \cap paired /\ responded)

\* At the end the socket that is handed out is open and no other one that was
\* counted is; without success none is.
OnlyTheChosenStaysOpen ==
  pc = "done" => Polled = (IF result = "success" /\ out # None THEN {out} ELSE {})

\* The inductive invariant of both: nothing is chosen before an answer to our
\* request, and then all others are closed.
SearchInv ==
  /\ pc \in {"open", "request", "wait", "confirm", "done"}
  /\ pc # "done" => result = "none"
  /\ pc \in {"open", "request", "wait"} => out = None
  /\ pc = "confirm" => out \in Sockets \cap asked \cap paired /\ Polled = {out}
  /\ PairedBothWays /\ OnlyTheChosenStaysOpen

\* The search comes to an end.
Unfinished == pc # "done"
=============================================================================
