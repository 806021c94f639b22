----------------------------- MODULE LossyStream -----------------------------
(***************************************************************************)
(* What the video path of Takion promises to its callback, whatever the    *)
(* network does: the packets handed over are a subsequence of the packets  *)
(* the console sent, in the order it sent them and each at most once.      *)
(* Packets are numbered by the sender, 0, 1, 2, ...                        *)
(***************************************************************************)
EXTENDS Integers, Sequences

VARIABLES sent,       \* how many packets the console has sent
          delivered   \* the numbers handed to the callback, in that order

vars == <<sent, delivered>>

Init == sent = 0 /\ delivered = <<>>

Send == sent' = sent + 1 /\ UNCHANGED delivered

\* One or more packets, each newer than the one handed over before it.
Deliver ==
  /\ Len(delivered') > Len(delivered)
  /\ SubSeq(delivered', 1, Len(delivered)) = delivered
  /\ \A i \in Len(delivered) + 1 .. Len(delivered') :
       delivered'[i] \in (IF i = 1 THEN 0 ELSE delivered'[i-1] + 1) .. sent - 1
  /\ UNCHANGED sent

Next == Send \/ Deliver

Spec == Init /\ [][Next]_vars
=============================================================================
