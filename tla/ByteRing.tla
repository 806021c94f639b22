------------------------------ MODULE ByteRing ------------------------------
(***************************************************************************)
(* The ring buffers of samples of the graphical application                *)
(* (gui/src/streamsession.cpp): audio_out_ring_* between Takion's thread   *)
(* and the thread that feeds SDL, mic_ring_* between SDL's capture thread  *)
(* and the application's. What does not fit pushes out what is oldest.     *)
(***************************************************************************)
EXTENDS Integers, Sequences

Least(a, b) == IF a < b THEN a ELSE b

\* A buffer of that size with nothing in it; one of size 0 takes nothing.
EmptyRing(size) ==
  [size |-> size, cells |-> [i \in 0 .. (size - 1) |-> 0], read |-> 0, write |-> 0, fill |-> 0]

Restarted(r) == [r EXCEPT !.read = 0, !.write = 0, !.fill = 0]

Content(r) == [k \in 1 .. r.fill |-> r.cells[(r.read + k - 1) % r.size]]

\* The oldest samples go until the new ones fit; of more than fit at all only
\* the last are taken.
MakeRoomFor(r, n) ==
  LET over == n - (r.size - r.fill)
  IN  IF n >= r.size THEN Restarted(r)
      ELSE IF over > 0 THEN [r EXCEPT !.read = (@ + over) % r.size, !.fill = @ - over]
      ELSE r

Put(r, data) ==
  LET kept == IF Len(data) > r.size THEN SubSeq(data, Len(data) - r.size + 1, Len(data)) ELSE data
      room == MakeRoomFor(r, Len(data))
      offset(i) == (i + r.size - room.write) % r.size
  IN  IF r.size = 0 \/ data = <<>> THEN r
      ELSE [room EXCEPT
              !.cells = [i \in DOMAIN @ |-> IF offset(i) < Len(kept) THEN kept[offset(i) + 1] ELSE @[i]],
              !.write = (@ + Len(kept)) % r.size,
              !.fill = @ + Len(kept)]

\* What can be taken in one piece: it does not go over the end of the buffer.
ChunkSize(r, limit) == Least(Least(r.fill, limit), r.size - r.read)
Chunk(r, n) == [k \in 1 .. n |-> r.cells[r.read + k - 1]]
Consumed(r, n) == [r EXCEPT !.read = (@ + n) % r.size, !.fill = @ - n]

\* Of two samples the one that was made first comes first.
Increasing(s) == \A i \in 1 .. (Len(s) - 1) : s[i] < s[i + 1]

RingTypeOK(r, sizes, samples) ==
  /\ r.size \in sizes
  /\ r.cells \in [0 .. (r.size - 1) -> samples \cup {0}]
  /\ r.fill \in 0 .. r.size
  /\ IF r.size = 0 THEN r.read = 0 /\ r.write = 0
     ELSE r.read \in 0 .. (r.size - 1) /\ r.write = (r.read + r.fill) % r.size
=============================================================================
