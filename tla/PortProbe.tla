----------------------------- MODULE PortProbe ------------------------------
(***************************************************************************)
(* stun_port_allocation_test of lib/src/remote/stun.h and the ports that   *)
(* holepunch_session_create_offer of lib/src/remote/holepunch.c offers.    *)
(* Up to four STUN servers tell which address and port the NAT gave to a   *)
(* request; from these the program guesses the ports that the NAT will     *)
(* give next, while the NAT gives ports to other programs as well and has  *)
(* already given some for requests whose answers were lost.                *)
(***************************************************************************)
EXTENDS Integers, Sequences, FiniteSets, Functions

CONSTANTS PortMax,     \* UINT16_MAX
          WellKnown,   \* 1024
          Dynamic,     \* 49152
          Ahead,       \* the eight ports offered when the step is known
          GuessCount,  \* port_guessing_count
          LocalPort,   \* the socket's own port
          Addresses,   \* the number of addresses the NAT has
          Starts, Steps, Jumps,  \* its ports, see NatGives
          MaxUnseen    \* bound: mappings that nobody tells us of

PortProbeConstantsOK ==
  /\ {PortMax, WellKnown, Dynamic} \subseteq Nat
  /\ 0 < WellKnown /\ WellKnown < Dynamic /\ Dynamic < PortMax
  /\ Addresses \in Nat /\ Ahead \in Nat /\ GuessCount \in Nat /\ MaxUnseen \in Nat
  \* The guesses do not meet, and the NAT does not come around within them.
  /\ GuessCount <= PortMax - Dynamic
  /\ Steps \subseteq Int \ {PortMax}
  /\ \A s \in Steps : /\ -s < PortMax - WellKnown
                      /\ \A u \in 1..MaxUnseen + 1 : u * s < PortMax - WellKnown
  /\ Starts \cup Jumps \cup {LocalPort} \subseteq WellKnown + 1..PortMax

VARIABLES step, next,   \* of the NAT: the port is raised by step, and is next
          answers,      \* addr1, port1 to addr4, port4
          since, odd,   \* mappings nobody told us of: after the last answer, and
                        \* between the answers (and times the NAT began anew)
          phase, found, offer

vars == <<step, next, answers, since, odd, phase, found, offer>>

Word == PortMax + 1
Nothing == [port |-> 0, increment |-> 0, random |-> FALSE]
Jumping == PortMax         \* stands for a NAT without a step

Init ==
  /\ step \in Steps \cup {Jumping} /\ next \in Starts
  /\ answers = <<>> /\ since = 0 /\ odd = 0
  /\ phase = "ask" /\ found = Nothing /\ offer = <<>>

\* External: the port after the one it has given now.
NatGives ==
  IF step = Jumping THEN next' \in Jumps
  ELSE LET p == next + step IN
       next' = IF p > PortMax THEN p - PortMax + WellKnown
               ELSE IF p <= WellKnown THEN p + PortMax - WellKnown ELSE p

\* stun_get_external_address_from_server
Answered(a) ==
  /\ phase = "ask" /\ Len(answers) < 4
  /\ \A b \in 1..a - 1 : \E i \in DOMAIN answers : answers[i].addr = b   \* numbered as they come
  /\ odd' = IF answers = <<>> THEN 0
            ELSE odd + since + (IF next < answers[Len(answers)].port THEN 1 ELSE 0)
  /\ answers' = Append(answers, [addr |-> a, port |-> next])
  /\ NatGives /\ since' = 0
  /\ UNCHANGED <<step, phase, found, offer>>

\* A request without an answer, or another program's connection.  What comes
\* after the last answer is taken to come before the program computes, which
\* does not see it; to a NAT without a step it makes no difference.
Unseen ==
  /\ phase = "ask" /\ odd + since < MaxUnseen /\ step # Jumping
  /\ NatGives /\ since' = since + 1
  /\ UNCHANGED <<step, answers, odd, phase, found, offer>>

-----------------------------------------------------------------------------
\* Division in C, which rounds to zero.
Div(x, n) == IF x < 0 THEN -((-x) \div n) ELSE x \div n

P(i) == answers[i].port
Same(i, j) == answers[i].addr = answers[j].addr
Rise(i, j) == P(j) - P(i)

Sure(inc) == [inc |-> inc, random |-> FALSE]
\* Two ways to compute it, which should agree.
Agree(a, b) == IF a = b THEN Sure(a) ELSE [inc |-> IF a = 0 THEN b ELSE a, random |-> TRUE]

Found1 == Sure(0)
Found2 == Sure(IF Same(1, 2) THEN Rise(1, 2) ELSE 0)

Found3 ==
  IF Same(1, 2) THEN IF Same(1, 3) THEN Agree(Rise(1, 2), Rise(2, 3)) ELSE Sure(Rise(1, 2))
  ELSE IF Same(1, 3) THEN Sure(Div(Rise(1, 3), 2))
  ELSE IF Same(2, 3) THEN Sure(Rise(2, 3)) ELSE Sure(0)

\* The first address came again.
FoundFirst ==
  CASE Same(1, 4) /\ Same(1, 3) -> Agree(Rise(3, 4), Div(Rise(1, 3), 2))
    [] Same(1, 4) /\ ~Same(1, 3) -> Sure(Div(Rise(1, 4), 4))
    [] OTHER -> Sure(Div(Rise(1, 3), 2))
\* The second did, or only the last two are the same, or none.
FoundSecond ==
  CASE Same(2, 4) /\ Same(2, 3) -> Agree(Rise(3, 4), Rise(2, 3))
    [] Same(2, 4) /\ ~Same(2, 3) -> Sure(Div(Rise(1, 4), 4))
    [] ~Same(2, 4) /\ Same(2, 3) -> Sure(Div(Rise(1, 3), 2))
    [] OTHER -> Sure(IF Same(3, 4) THEN Rise(4, 3) ELSE 0)

\* All four are of one address: what two of the three increments say.
FoundAll ==
  LET i == [k \in 1..3 |-> Rise(k, k + 1) % Word] IN
  IF i[1] \in {i[2], i[3]} THEN Sure(i[1])
  ELSE IF i[2] = i[3] THEN Sure(i[2])
  ELSE [inc |-> IF i[1] # 0 THEN i[1] ELSE i[2], random |-> TRUE]

Found4 ==
  IF Same(1, 2)
  THEN IF ~Same(2, 3)
       THEN IF Same(2, 4) THEN Agree(Rise(1, 2), Div(Rise(2, 4), 2)) ELSE Sure(Rise(1, 2))
       ELSE IF Same(3, 4) THEN FoundAll ELSE Agree(Rise(1, 2), Rise(2, 3))
  ELSE IF Same(1, 3) \/ Same(1, 4) THEN FoundFirst ELSE FoundSecond

\* *port: with fewer than four answers it is moved on as if each server that
\* is missing had been asked.
Conclude ==
  LET n == Len(answers)
      f == CASE n = 1 -> Found1 [] n = 2 -> Found2 [] n = 3 -> Found3 [] n = 4 -> Found4
  IN /\ phase = "ask" /\ n > 0
     /\ found' = [port |-> (P(n) + (4 - n) * f.inc) % Word, increment |-> f.inc, random |-> f.random]
     /\ phase' = "offer"
     /\ UNCHANGED <<step, next, answers, since, odd, offer>>

-----------------------------------------------------------------------------
\* port_check: the ports after the one that was found.
OneOn(p) ==
  LET q == p + found.increment IN
  IF q < WellKnown /\ p > WellKnown THEN PortMax - (WellKnown - q)
  ELSE IF q < 1 THEN q + PortMax
  ELSE IF q > PortMax THEN q - PortMax + WellKnown ELSE q

check[i \in 0..Ahead] == IF i = 0 THEN found.port ELSE OneOn(check[i - 1])
Following == [i \in 1..Ahead |-> check[i] % Word]

\* The ports around the one that was found: 0, 1, -1, 2, -2 and so on.
Around ==
  [i \in 1..GuessCount |->
     LET q == found.port + (IF i % 2 = 0 THEN i \div 2 ELSE -(i \div 2)) IN
     IF q > PortMax THEN Dynamic + (q - PortMax - 1)
     ELSE IF q < WellKnown THEN PortMax - (WellKnown - q) ELSE q]

\* The STUN candidates; without an increment and with the port of its own the
\* one that is there anyway, as a STATIC one.
MakeOffer(forceGuessing) ==
  LET forced == forceGuessing /\ found.increment = 0 /\ found.port # LocalPort IN
  /\ phase = "offer" /\ phase' = "offered"
  /\ offer' = IF forced \/ (found.increment # 0 /\ found.random) THEN Around
              ELSE IF found.increment # 0 THEN Following
              ELSE <<found.port>>
  /\ found' = IF forced THEN [found EXCEPT !.random = TRUE, !.increment = 1] ELSE found
  /\ UNCHANGED <<step, next, answers, since, odd>>

Done == phase = "offered" /\ UNCHANGED vars

Next ==
  \/ \E a \in 1..Addresses : Answered(a)
  \/ Unseen
  \/ Conclude
  \/ \E force \in BOOLEAN : MakeOffer(force)
  \/ Done

-----------------------------------------------------------------------------
(* Properties                                                              *)

TypeOK ==
  /\ step \in Steps \cup {Jumping} /\ next \in WellKnown + 1..PortMax
  /\ answers \in Seq([addr : 1..Addresses, port : WellKnown + 1..PortMax]) /\ Len(answers) \in 0..4
  /\ since \in 0..MaxUnseen /\ odd \in Nat
  /\ phase \in {"ask", "offer", "offered"}
  /\ found \in [port : 0..PortMax, increment : Int, random : BOOLEAN]
  /\ offer \in Seq(0..PortMax)

\* The addresses from which the step can be told: two of the answers that are
\* next to each other or next but one have the same, but not only the middle
\* ones within two others that are the same.
Telling ==
  LET n == Len(answers) IN
  CASE n = 1 -> FALSE
    [] n = 2 -> Same(1, 2)
    [] n = 3 -> Same(1, 2) \/ Same(1, 3) \/ Same(2, 3)
    [] n = 4 -> Same(1, 2) \/ Same(1, 3) \/ (Same(2, 3) /\ ~Same(1, 4))
OneAddress == \A i \in DOMAIN answers : Same(1, i)

\* The answers tell what a rising NAT gives next: there are as many mappings
\* that nobody told of as there are guesses, those after the last answer, and
\* with four answers of one address one more between them.
Told ==
  LET n == Len(answers) IN
  /\ step # Jumping /\ step > 0 /\ Telling /\ since \in 4 - n..3 - n + Ahead
  /\ \/ odd = 0 /\ (n = 4 \/ next > P(n))
     \/ odd = 1 /\ n = 4 /\ OneAddress

\* The port that the NAT gives next is then one of those that are offered, and
\* the one that is of a NAT that always gives the same.
GuessesFollowNat ==
  (phase = "offered" /\ step # Jumping) =>
    /\ (step = 0 /\ ~found.random) => offer = <<next>>
    /\ Told => next \in Range(offer)

\* What is offered are ports, apart from each other where they are guesses, and
\* a NAT is called random only with an increment, without which nothing would
\* be guessed.  (An increment of nearly a whole turn is left out.)
OffersArePorts ==
  phase = "offered" =>
    /\ found.increment < PortMax - WellKnown => Range(offer) \subseteq 1..PortMax
    /\ found.random => found.increment # 0 /\ Cardinality(Range(offer)) = GuessCount

\* The inductive invariant of both.  Turned is the port k mappings after p, of a
\* NAT that rises by less than a turn; each answer is a step after the one
\* before it, but for as many as odd tells.
Turned(p, k) ==
  LET q == p + k * step IN IF q > PortMax THEN q - (PortMax - WellKnown) ELSE q
Steady(i) == Rise(i, i + 1) = step
AnswersInv ==
  LET n == Len(answers) IN
  /\ answers = <<>> => phase = "ask"
  /\ step \in Steps /\ step >= 0 /\ n > 0 =>
       /\ next = Turned(P(n), since + 1)
       /\ step = 0 \/ odd = 0 => \A i \in 1..n - 1 : Steady(i)
       /\ odd = 1 => \E j \in 1..n : \A i \in 1..n - 1 : i # j => Steady(i)
FoundInv ==
  /\ found.increment > -(PortMax - WellKnown)
  /\ found.random => found.increment # 0
  /\ phase # "ask" =>
       /\ found.increment = 0 => found.port \in WellKnown + 1..PortMax
       /\ step = 0 => found.random \/ found = [port |-> next, increment |-> 0, random |-> FALSE]
       /\ Told => found = [port |-> P(Len(answers)) + (4 - Len(answers)) * step,
                           increment |-> step, random |-> FALSE]
PortsInv ==
  /\ step \in Steps \cup {Jumping} /\ next \in WellKnown + 1..PortMax
  /\ answers \in Seq([addr : 1..Addresses, port : WellKnown + 1..PortMax]) /\ Len(answers) <= 4
  /\ since \in 0..MaxUnseen /\ odd \in Nat /\ phase \in {"ask", "offer", "offered"}
  /\ found \in [port : 0..PortMax, increment : Int, random : BOOLEAN]
  /\ AnswersInv /\ FoundInv /\ GuessesFollowNat /\ OffersArePorts
=============================================================================
