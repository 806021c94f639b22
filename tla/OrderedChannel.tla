--------------------------- MODULE OrderedChannel ---------------------------
(***************************************************************************)
(* What the data channel of Takion promises, whatever the network does:    *)
(* the callback gets the console's data 0, 1, 2, ... in that order, none   *)
(* twice and none left out, and the console takes for received only what   *)
(* the callback has been given.                                            *)
(***************************************************************************)
EXTENDS Naturals, Sequences

VARIABLES sent,      \* how many data the console has sent
          received,  \* the data given to the callback
          acked      \* how many of them the console knows to be received

vars == <<sent, received, acked>>

Init == sent = 0 /\ received = <<>> /\ acked = 0

Send == sent' = sent + 1 /\ UNCHANGED <<received, acked>>

\* the next data, one or more
Receive ==
  /\ Len(received') \in Len(received) + 1 .. sent
  /\ \A i \in 1..Len(received') : received'[i] = i - 1
  /\ UNCHANGED <<sent, acked>>

\* an acknowledgement arrives, perhaps after a later one was lost
Acknowledge ==
  /\ acked' \in acked + 1 .. Len(received)
  /\ UNCHANGED <<sent, received>>

Next == Send \/ Receive \/ Acknowledge

Spec == Init /\ [][Next]_vars
=============================================================================
