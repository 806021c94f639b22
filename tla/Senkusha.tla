------------------------------ MODULE Senkusha ------------------------------
(***************************************************************************)
(* lib/src/senkusha.c: before a stream begins, a connection of its own     *)
(* measures the round trip time and the largest packets that get through   *)
(* in both directions.  The thread of the session makes one request after  *)
(* the other and waits; Takion's thread notes an answer if it is the one   *)
(* that is waited for.  Answers may come late, twice or not at all.        *)
(* Bound: an answer comes during its own request or the next one.          *)
(*                                                                         *)
(* should_stop, which nothing sets, is left out.                           *)
(***************************************************************************)
EXTENDS Naturals

CONSTANTS MinMtu, MaxMtu,  \* bounds of the search
          Retries,         \* attempts per size
          PingCount,       \* SENKUSHA_PING_COUNT_DEFAULT
          PathMtus         \* what the network may let through

SenkushaConstantsOK ==
  /\ MinMtu \in Nat \ {0} /\ MaxMtu \in Nat /\ MinMtu < MaxMtu
  /\ Retries \in Nat \ {0} /\ PingCount \in Nat \ {0}
  /\ PathMtus \subseteq MinMtu..MaxMtu

VARIABLES phase,    \* what the session's thread waits for, or does last
          finished, \* state_finished
          id,       \* number of the last request: tag, mtu_id, sequence number
          asked,    \* size of the packet it is about
          net,      \* answers on their way
          low, high,\* min and max of a search
          attempt,  \* or ping_index
          pongs,    \* pings_successful
          mtuIn, mtuOut,
          result,   \* of chiaki_senkusha_run
          path,     \* what the network lets through, in and out
          unlucky   \* a size that fits was given up

searchVars == <<asked, low, high, attempt, pongs, mtuIn, mtuOut>>
vars == <<phase, finished, id, net, searchVars, result, path, unlucky>>

Unknown == 0

Init ==
  /\ phase = "connect" /\ finished = FALSE
  /\ id = 0 /\ asked = Unknown
  /\ net = {[kind |-> "connected", id |-> 0]}
  /\ low = MinMtu /\ high = MaxMtu /\ attempt = 0 /\ pongs = 0
  /\ mtuIn = Unknown /\ mtuOut = Unknown
  /\ result = "none"
  /\ path \in PathMtus \X PathMtus
  /\ unlucky = FALSE

Expected ==
  [connect |-> "connected", version |-> "protocolAck", bang |-> "bang",
   echoOn |-> "dataAck", ping |-> "pong", echoOff |-> "dataAck",
   mtuIn |-> "mtu", clientMtu |-> "clientMtu", mtuOut |-> "pong", final |-> "dataAck"]

Waiting == phase \in DOMAIN Expected
ById == {"dataAck", "pong", "mtu"}

\* (bug: a response to any request will do)
AnswersAny(a) == a.kind = Expected[phase]

\* senkusha_takion_cb and its parts: the answer that the state expects
Answers(a) == a.kind = Expected[phase] /\ (a.kind \in ById => a.id = id)

Deliver ==
  /\ Waiting /\ ~finished
  /\ \E a \in net : Answers(a)
  /\ finished' = TRUE
  /\ UNCHANGED <<phase, id, net, searchVars, result, path, unlucky>>

-----------------------------------------------------------------------------
(* The session's thread                                                    *)

\* a request of a size that the network lets through may be answered
Fits(ph, size) ==
  CASE ph = "mtuIn" -> size <= path[1]
    [] ph = "mtuOut" -> size <= path[2]
    [] OTHER -> TRUE

Request(ph, size) ==
  /\ phase' = ph /\ finished' = FALSE
  /\ id' = id + 1
  /\ asked' = size
  /\ LET late == {a \in net : a.id = id}  \* bound: one request late
     IN \/ net' = late
        \/ Fits(ph, size) /\ net' = late \union {[kind |-> Expected[ph], id |-> id + 1]}
  /\ UNCHANGED <<result, path>>

\* goto quit_takion or disconnect
Quit(ph, res) ==
  /\ phase' = ph /\ finished' = FALSE
  /\ result' = res
  /\ UNCHANGED <<id, asked, net, path>>

\* the steps up to the bang: an answer, or the time is over
Handshake ==
  /\ phase \in {"connect", "version", "bang"}
  /\ \/ finished /\ Request(CASE phase = "connect" -> "version"
                              [] phase = "version" -> "bang"
                              [] phase = "bang" -> "echoOn", Unknown)
     \/ ~finished /\ Quit("close", "error")
  /\ UNCHANGED <<low, high, attempt, pongs, mtuIn, mtuOut, unlucky>>

\* senkusha_run_rtt_test
Echo ==
  /\ phase = "echoOn"
  /\ IF finished THEN Request("ping", Unknown) ELSE Quit("disconnect", "error")
  /\ attempt' = 0 /\ pongs' = 0
  /\ UNCHANGED <<low, high, mtuIn, mtuOut, unlucky>>

Ping ==
  /\ phase = "ping"
  /\ pongs' = IF finished THEN pongs + 1 ELSE pongs
  /\ attempt' = attempt + 1
  /\ Request(IF attempt + 1 < PingCount THEN "ping" ELSE "echoOff", Unknown)
  /\ UNCHANGED <<low, high, mtuIn, mtuOut, unlucky>>

\* the average is taken, and the search begins with the largest packet
EchoOff ==
  /\ phase = "echoOff"
  /\ IF finished /\ pongs > 0
     THEN Request("mtuIn", MaxMtu) /\ low' = MinMtu /\ high' = MaxMtu /\ attempt' = 0
     ELSE Quit("disconnect", "error") /\ UNCHANGED <<low, high, attempt>>
  /\ UNCHANGED <<pongs, mtuIn, mtuOut, unlucky>>

\* One attempt of senkusha_run_mtu_in_test or _out_test has ended: another
\* one, the next size, or the size is found.
Again ==
  /\ ~finished /\ attempt + 1 < Retries
  /\ Request(phase, asked)
  /\ attempt' = attempt + 1
  /\ UNCHANGED <<low, high, unlucky>>

Narrow ==
  /\ finished \/ attempt + 1 = Retries
  /\ low' = IF finished THEN asked ELSE low
  /\ high' = IF finished THEN high ELSE asked
  /\ unlucky' = (unlucky \/ (~finished /\ Fits(phase, asked)))
  /\ attempt' = 0

Found == high' - low' <= 1

MtuIn ==
  /\ phase = "mtuIn"
  /\ UNCHANGED <<pongs, mtuOut>>
  /\ \/ Again /\ UNCHANGED mtuIn
     \/ /\ Narrow
        /\ IF Found THEN Request("clientMtu", Unknown) /\ mtuIn' = low'
           ELSE Request("mtuIn", low' + (high' - low') \div 2) /\ UNCHANGED mtuIn

\* the search outwards begins with the size found inwards
ClientMtu ==
  /\ phase = "clientMtu"
  /\ IF finished
     THEN Request("mtuOut", mtuIn) /\ low' = MinMtu /\ high' = MaxMtu
     ELSE Quit("disconnect", "error") /\ UNCHANGED <<low, high>>
  /\ UNCHANGED <<attempt, pongs, mtuIn, mtuOut, unlucky>>

MtuOut ==
  /\ phase = "mtuOut"
  /\ UNCHANGED <<pongs, mtuIn>>
  /\ \/ Again /\ UNCHANGED mtuOut
     \/ /\ Narrow
        /\ IF Found THEN Request("final", Unknown) /\ mtuOut' = low'
           ELSE Request("mtuOut", low' + (high' - low') \div 2) /\ UNCHANGED mtuOut

\* the final command and its acknowledgement, without which all was in vain
Final ==
  /\ phase = "final"
  /\ Quit("disconnect", IF finished THEN "success" ELSE "error")
  /\ UNCHANGED <<low, high, attempt, pongs, mtuIn, mtuOut, unlucky>>

\* A command or a ping of the round trip test could not be sent.
SendFails ==
  /\ phase \in {"echoOn", "ping", "echoOff", "mtuIn", "clientMtu", "final"} /\ ~finished
  /\ Quit("disconnect", "error")
  /\ UNCHANGED <<low, high, attempt, pongs, mtuIn, mtuOut, unlucky>>

\* senkusha_send_disconnect, then the mutex is released and Takion closed
Leave ==
  /\ phase \in {"disconnect", "close"}
  /\ phase' = IF phase = "disconnect" THEN "close" ELSE "ended"
  /\ UNCHANGED <<finished, id, net, searchVars, result, path, unlucky>>

Run == Handshake \/ Echo \/ Ping \/ EchoOff \/ MtuIn \/ ClientMtu \/ MtuOut \/ Final \/ Leave

Next == Deliver \/ Run \/ SendFails

-----------------------------------------------------------------------------
(* Properties                                                              *)

TypeOK ==
  /\ phase \in DOMAIN Expected \union {"disconnect", "close", "ended"}
  /\ finished \in BOOLEAN
  /\ {low, high} \subseteq MinMtu..MaxMtu
  /\ {asked, mtuIn, mtuOut} \subseteq {Unknown} \union MinMtu..MaxMtu
  /\ attempt \in 0..Retries + PingCount /\ pongs \in 0..PingCount
  /\ \A a \in net : a.id \in 0..id
  /\ result \in {"none", "success", "error"}

\* A size is used only if packets of that size get through: no late answer to
\* another request counts for it.  And it is the largest one, unless a size
\* that fits was given up because no answer came in time.  (The search outwards
\* tries the largest size itself only if that was found inwards.)
MtuIsOfThePath ==
  /\ mtuIn # Unknown => mtuIn <= path[1] /\ (~unlucky => mtuIn = path[1])
  /\ mtuOut # Unknown =>
       /\ mtuOut <= path[2]
       /\ ~unlucky => \/ mtuOut = path[2]
                      \/ mtuIn < MaxMtu /\ mtuOut = MaxMtu - 1 /\ path[2] = MaxMtu

\* The result is success only with both sizes and a round trip time.
SuccessHasAll == result = "success" => mtuIn # Unknown /\ mtuOut # Unknown /\ pongs > 0

\* The inductive invariant of both: an answer to the last request is there only
\* if its size gets through, and a search for the size p has left it between low
\* and high, unless a size that fits was given up or the largest one was not
\* asked for.
SearchLeaves(p, slack) ==
  /\ low \in MinMtu..MaxMtu /\ high \in MinMtu..MaxMtu /\ low < high
  /\ asked \in low..high /\ low <= p
  /\ unlucky \/ p < high \/ (high = MaxMtu /\ (asked = MaxMtu \/ slack))
SenkushaInv ==
  /\ phase \in DOMAIN Expected \union {"disconnect", "close", "ended"}
  /\ path \in (MinMtu..MaxMtu) \X (MinMtu..MaxMtu) /\ unlucky \in BOOLEAN
  /\ id \in Nat /\ pongs \in Nat /\ mtuIn \in {Unknown} \union MinMtu..MaxMtu
  /\ \A a \in net : a.id \in 0..id
  /\ phase \in {"mtuIn", "mtuOut"} /\ (finished \/ \E a \in net : a.id = id) =>
       Fits(phase, asked)
  /\ phase = "mtuIn" => SearchLeaves(path[1], FALSE)
  /\ phase = "mtuOut" => SearchLeaves(path[2], mtuIn < MaxMtu)
  /\ phase \in {"mtuIn", "clientMtu", "mtuOut", "final"} => pongs > 0
  /\ phase \in {"clientMtu", "mtuOut", "final"} => mtuIn # Unknown
  /\ phase \in DOMAIN Expected => result = "none" /\ (mtuOut # Unknown <=> phase = "final")
  /\ MtuIsOfThePath /\ SuccessHasAll

\* chiaki_senkusha_run returns.
Unfinished == phase # "ended"
=============================================================================
