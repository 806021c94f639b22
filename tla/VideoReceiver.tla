---------------------------- MODULE VideoReceiver ----------------------------
(***************************************************************************)
(* lib/src/videoreceiver.c and the counting of frameprocessor.c: units of  *)
(* frames come in from Takion's thread, in order but with gaps (which is   *)
(* what LossyStream promises); a frame is passed on to the decoder as soon *)
(* as it can be put together, and the console is told which frames were    *)
(* not.                                                                    *)
(*                                                                         *)
(* The console numbers its frames 1, 2, 3, ...; a packet carries that      *)
(* number modulo SeqMod.  What a frame refers to is the console's choice.  *)
(* Whether the error correction works is decided by how many units there   *)
(* are.  The counters of lost frames, which are only displayed, and        *)
(* malformed packets are left out.                                         *)
(***************************************************************************)
EXTENDS SeqNum, Sequences

CONSTANTS JoinFrames,  \* the numbers of the frame before the first
          MaxFrames,   \* bound: frames the console sends
          Source,      \* source units of a frame
          FecFrames,   \* the frames that have a unit for error correction
          RefMax       \* size of reference_frames

VideoConstantsOK ==
  /\ JoinFrames \subseteq Nat
  /\ MaxFrames < SeqHalf  \* frames pass unreported for less than that
  /\ Source \in Nat \ {0}
  /\ RefMax \in Nat \ {0}

VARIABLES first,     \* the frame before the first of this stream
          frame,     \* the console's number of the current frame
          unit,      \* the last unit that came in of it
          got,       \* units_source_received + units_fec_received
          cur,       \* frame_index_cur
          receiver   \* the other fields that a flush changes, and its effects

vars == <<first, frame, unit, got, cur, receiver>>

None == -1
Wire(n) == n % SeqMod
Frames == first + 1 .. first + MaxFrames
Units(n) == Source + IF n \in FecFrames THEN 1 ELSE 0

\* A stream begins, or has gone on for long without a loss.
Init ==
  /\ first \in JoinFrames
  /\ frame = first
  /\ unit = Units(first)
  /\ got = 0
  /\ cur = IF first = 0 THEN None ELSE Wire(first)
  /\ receiver = [prev |-> cur, complete |-> Wire(first),
                 refs |-> IF first = 0 THEN <<>> ELSE <<Wire(first)>>,
                 waiting |-> FALSE, shown |-> <<>>,
                 good |-> {first}, reported |-> {}]

-----------------------------------------------------------------------------
(* chiaki_video_receiver_flush_frame for the frame n, as the set of its    *)
(* possible results                                                        *)

\* reports the frames from the one after the last complete one up to n
Report(v, n) ==
  LET length == (Wire(n) - (v.complete + 1)) % SeqMod
  IN  [v EXCEPT !.reported = @ \union {m \in Frames : m <= n /\ n - m <= length}]

\* Too few units.  If that is switched on, an IDR frame is asked for and
\* waited for, unless the request cannot be sent.
FecFailed(v, n) ==
  {[Report(v, n) EXCEPT !.prev = Wire(n), !.waiting = w] : w \in {v.waiting, TRUE}}

\* what the frame is, and which frame back from it (0: the last) it refers to
Slices == [type : {"I", "unparsed"}, ref : {None}]
          \union [type : {"P"}, ref : {None} \union 0..RefMax-1]

HaveRef(v, n, ref) == \E i \in DOMAIN v.refs : v.refs[i] = Wire(n - ref - 1)

\* The reference the frame is passed on with: its own, or the next older one
\* there is, if the frame can be changed.  The empty set: it is lost.
References(v, n, ref) ==
  IF ref = None \/ HaveRef(v, n, ref) THEN {ref}
  ELSE LET older == {i \in ref+1..RefMax-1 : HaveRef(v, n, i)}
       IN  IF older = {} THEN {} ELSE {Least(older)}

\* add_ref_frame
AddRef(refs, n) == SubSeq(<<Wire(n)>> \o refs, 1,
                          IF Len(refs) < RefMax THEN Len(refs) + 1 ELSE RefMax)

\* (bug: the frame counts as complete although it was not passed on)
FlushedCountingIt(v, n) == [v EXCEPT !.prev = Wire(n), !.complete = Wire(n)]

\* flushed and not passed on
Flushed(v, n) == [v EXCEPT !.prev = Wire(n)]

\* the decoder's callback takes the frame or does not
PassOn(v, n, ref) ==
  LET w == [v EXCEPT !.prev = Wire(n),
                     !.shown = Append(@, [frame |-> n, ref |-> IF ref = None THEN None
                                                               ELSE n - ref - 1])]
  IN  {w, [w EXCEPT !.refs = AddRef(@, n), !.complete = Wire(n), !.good = @ \union {n}]}

Complete(v, n, slice) ==
  IF v.waiting /\ slice.type = "P" THEN {Flushed(v, n)}
  ELSE LET w == [v EXCEPT !.waiting = @ /\ slice.type # "I"]
           refs == References(w, n, slice.ref)
       IN  UNION {PassOn(w, n, ref) : ref \in refs}
           \union (IF refs = {slice.ref} THEN {} ELSE {Flushed(w, n)})

FlushFrame(v, n, units) ==
  IF units < Source THEN FecFailed(v, n)
  ELSE UNION {Complete(v, n, slice) : slice \in Slices}

-----------------------------------------------------------------------------
(* chiaki_video_receiver_av_packet for the unit u of the frame n           *)

\* The console's next frame, before any of its units counts: the last one is
\* flushed if it was not, and what is missing is reported.
NextFrame(n) ==
  LET flushed == IF cur # None /\ receiver.prev # cur
                 THEN FlushFrame(receiver, frame, got) ELSE {receiver}
      Missing(v) == /\ SeqGt(n, v.complete + 1)
                    /\ ~(Wire(n) = 1 /\ cur = None)
  IN  {IF Missing(v) THEN Report(v, n - 1) ELSE v : v \in flushed}

\* units of the frame so far: a new frame begins with none
PutUnit(n) == IF n = frame THEN got + 1 ELSE 1

AVPacket(n, u) ==
  \E v \in IF n = frame THEN {receiver} ELSE NextFrame(n) :
    /\ frame' = n
    /\ unit' = u
    /\ cur' = Wire(n)
    /\ got' = PutUnit(n)
    /\ receiver' \in IF cur' # v.prev /\ (got' >= Source \/ u = Units(n) - 1)
                     THEN FlushFrame(v, n, got') ELSE {v}
    /\ UNCHANGED first

\* RequestIDR of the user interface; the console's answer may have come by
\* the time the flag is set.
SetWaitingForIdr ==
  /\ ~receiver.waiting
  /\ receiver' = [receiver EXCEPT !.waiting = TRUE]
  /\ UNCHANGED <<first, frame, unit, got, cur>>

Next ==
  \/ \E n \in Frames : \E u \in 0..Units(n)-1 :
       /\ n > frame \/ (n = frame /\ u > unit)
       /\ AVPacket(n, u)
  \/ SetWaitingForIdr

Spec == Init /\ [][Next]_vars

-----------------------------------------------------------------------------
(* Properties                                                              *)

TypeOK ==
  /\ first \in JoinFrames
  /\ frame \in {first} \union Frames
  /\ unit \in 0..Units(frame)
  /\ got \in 0..Units(frame)
  /\ cur \in None..SeqMod-1
  /\ receiver.prev \in None..SeqMod-1
  /\ receiver.complete \in 0..SeqMod-1
  /\ receiver.refs \in Seq(0..SeqMod-1) /\ Len(receiver.refs) <= RefMax
  /\ receiver.waiting \in BOOLEAN
  /\ receiver.shown \in Seq([frame : Frames, ref : Int])
  /\ receiver.good \subseteq {first} \union Frames
  /\ receiver.reported \subseteq Frames

\* The decoder gets frames in their order and each at most once, however
\* often a flush is tried; and what a frame refers to is a frame the decoder
\* took before, also where the reference was changed.
ShownInOrder ==
  \A i \in DOMAIN receiver.shown :
    /\ i > 1 => receiver.shown[i-1].frame < receiver.shown[i].frame
    /\ receiver.shown[i].ref = None \/ receiver.shown[i].ref \in receiver.good

\* By the time a frame begins, each frame before it has been taken by the
\* decoder or reported to the console as corrupt, whichever way it failed:
\* no unit of it, too few units, a missing reference, skipped in the wait for
\* an IDR frame, refused by the decoder.
EveryFrameAccountedFor ==
  \A n \in Frames : n < frame => n \in receiver.good \union receiver.reported

\* A frame with enough units is flushed at once and not again.
FlushedWhenPossible ==
  cur # None /\ got >= Source => receiver.prev = cur
=============================================================================
