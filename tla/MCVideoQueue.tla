---------------------------- MODULE MCVideoQueue ----------------------------
(***************************************************************************)
(* TLC on the video path.  The refinement mapping is the identity: the     *)
(* variables of LossyStream are two of the variables of the code's model.  *)
(***************************************************************************)
EXTENDS TakionVideoQueue

Stream == INSTANCE LossyStream WITH sent <- sent, delivered <- delivered

\* The video path implements LossyStream: packets reach the callback in the
\* order they were sent, none twice, none that was not sent.
ImplementsStream == Stream!Spec
=============================================================================
