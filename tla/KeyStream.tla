----------------------------- MODULE KeyStream -----------------------------
(***************************************************************************)
(* The receiving side of lib/src/gkcrypt.c: packets carry the low half of  *)
(* their position in the key stream, the receiver completes it and takes   *)
(* the stream from a ring buffer, which a thread fills ahead of it with    *)
(* the mutex released.  Positions count blocks; SeqMod is 2^32.  What the  *)
(* buffer holds at an offset is the position it was computed for.          *)
(***************************************************************************)
EXTENDS SeqNum

CONSTANTS ChunkSize,   \* KEY_BUF_CHUNK_SIZE
          BufSize,     \* key_buf_size
          LastPos,     \* bound: positions the console uses
          MaxLen       \* bound: blocks of a packet

KeyStreamConstantsOK ==
  /\ SeqMod \in Nat /\ SeqMod > 3 /\ SeqMod % 2 = 0
  /\ {ChunkSize, BufSize} \subseteq Nat \ {0}
  /\ {LastPos, MaxLen} \subseteq Nat
  /\ BufSize % ChunkSize = 0
  /\ MaxLen <= ChunkSize

VARIABLES prev,       \* takion->key_state.prev
          min,        \* key_buf_key_pos_min
          populated,  \* key_buf_populated
          start,      \* key_buf_start_offset
          last,       \* last_key_pos
          buf,        \* key_buf
          thread,     \* of gkcrypt: "awake", "asleep", "generating", "ended"
          reader,     \* Takion's thread: "idle", "signal" after the unlock
          read,       \* what it read last
          closer      \* chiaki_gkcrypt_fini: "no", "signal", "join", "done"

vars == <<prev, min, populated, start, last, buf, thread, reader, read, closer>>

Torn == -1

Init ==
  /\ prev = 0 /\ min = 0 /\ populated = 0 /\ start = 0 /\ last = 0
  /\ buf = [o \in 0..BufSize-1 |-> Torn]
  /\ thread = "awake"
  /\ reader = "idle"
  /\ read = [from |-> 0, blocks |-> <<>>]
  /\ closer = "no"

-----------------------------------------------------------------------------
(* Takion's thread                                                         *)

\* chiaki_key_state_request_pos
RequestPos(low) ==
  LET prevLow == prev % SeqMod
      high == prev \div SeqMod
      completed == CASE SeqGt(low, prevLow) /\ low < prevLow -> high + 1
                     [] SeqLt(low, prevLow) /\ low > prevLow /\ high > 0 -> high - 1
                     [] OTHER -> high
  IN  completed * SeqMod + low

\* (bug: a packet from before the wrap is taken for one after it)
RequestPosForward(low) ==
  LET prevLow == prev % SeqMod
      high == prev \div SeqMod
  IN  (IF low < prevLow /\ SeqGt(low, prevLow) THEN high + 1 ELSE high) * SeqMod + low

ShouldGenerate == last > min + populated \div 2

\* gkcrypt_get_key_stream: the buffer, or what is computed here and now
Block(p, len, i) ==
  IF p < min \/ p + len >= min + populated THEN p + i
  ELSE buf[(p - min + start + i) % BufSize]

\* A packet from the true position p comes in: p is nearer to the packet
\* before than half the modulus.  Its MAC was right, so its position is
\* committed.  The stream is asked for after the first block.
Packet(p, len) ==
  /\ closer = "no" /\ reader = "idle"
  /\ p - prev < SeqHalf /\ prev - p < SeqHalf
  /\ LET pos == RequestPos(p % SeqMod)
         from == pos + 1
     IN  /\ prev' = pos
         /\ last' = IF from + len > last THEN from + len ELSE last
         /\ read' = [from |-> p + 1, blocks |-> [i \in 1..len |-> Block(from, len, i - 1)]]
  /\ UNCHANGED <<min, populated, start, buf, thread, closer>>
  /\ reader' = IF ShouldGenerate' THEN "signal" ELSE "idle"

\* pthread_cond_signal by a or b, after the mutex was released
Signal == thread' = IF thread = "asleep" THEN "awake" ELSE thread

ReaderSignals ==
  /\ reader = "signal"
  /\ reader' = "idle"
  /\ Signal
  /\ UNCHANGED <<prev, min, populated, start, last, buf, read, closer>>

-----------------------------------------------------------------------------
(* gkcrypt_thread_func                                                     *)

\* (bug: what is generated is counted at once)
MakeRoomCountingIt ==
  LET skip == last > min + populated
      full == populated = BufSize
  IN  /\ min' = IF skip THEN (last \div ChunkSize) * ChunkSize
                ELSE IF full THEN min + ChunkSize ELSE min
      /\ start' = IF skip THEN 0
                  ELSE IF full THEN (start + ChunkSize) % BufSize ELSE start
      /\ populated' = ChunkSize + IF skip THEN 0
                                  ELSE IF full THEN populated - ChunkSize ELSE populated

\* the buffer moves to what was asked for last, or forward by one chunk
MakeRoom ==
  LET skip == last > min + populated
      full == populated = BufSize
  IN  /\ min' = IF skip THEN (last \div ChunkSize) * ChunkSize
                ELSE IF full THEN min + ChunkSize ELSE min
      /\ start' = IF skip THEN 0
                  ELSE IF full THEN (start + ChunkSize) % BufSize ELSE start
      /\ populated' = IF skip THEN 0
                      ELSE IF full THEN populated - ChunkSize ELSE populated

Target == {(start + populated + i) % BufSize : i \in 0..ChunkSize-1}

\* From waking up with the mutex held to releasing it: key_buf_mutex_pred,
\* and the part of gkcrypt_generate_next_chunk before the unlock.
ThreadRound ==
  /\ thread = "awake"
  /\ IF closer # "no" THEN thread' = "ended" /\ UNCHANGED <<min, start, populated, buf>>
     ELSE IF populated < BufSize \/ ShouldGenerate
     THEN /\ MakeRoom
          /\ thread' = "generating"
          /\ buf' = [o \in DOMAIN buf |-> IF o \in Target' THEN Torn ELSE buf[o]]
     ELSE thread' = "asleep" /\ UNCHANGED <<min, start, populated, buf>>
  /\ UNCHANGED <<prev, last, reader, read, closer>>

\* chiaki_gkcrypt_gen_key_stream returns and the mutex is taken again
ChunkDone ==
  /\ thread = "generating"
  /\ buf' = [o \in DOMAIN buf |->
               IF o \in Target
               THEN min + populated + ((o - (start + populated)) % BufSize)
               ELSE buf[o]]
  /\ populated' = populated + ChunkSize
  /\ thread' = "awake"
  /\ UNCHANGED <<prev, min, start, last, reader, read, closer>>

\* it fails, and the thread ends
ChunkFails ==
  /\ thread = "generating"
  /\ thread' = "ended"
  /\ UNCHANGED <<prev, min, populated, start, last, buf, reader, read, closer>>

-----------------------------------------------------------------------------
(* chiaki_gkcrypt_fini, after Takion was closed                            *)

Stop ==
  /\ closer = "no" /\ reader = "idle"
  /\ closer' = "signal"
  /\ UNCHANGED <<prev, min, populated, start, last, buf, thread, reader, read>>

StopSignals ==
  /\ closer = "signal"
  /\ closer' = "join"
  /\ Signal
  /\ UNCHANGED <<prev, min, populated, start, last, buf, reader, read>>

Join ==
  /\ closer = "join" /\ thread = "ended"
  /\ closer' = "done"
  /\ UNCHANGED <<prev, min, populated, start, last, buf, thread, reader, read>>

Steps == ReaderSignals \/ ThreadRound \/ ChunkDone \/ StopSignals \/ Join

Next ==
  \/ \E p \in 0..LastPos, len \in 1..MaxLen : Packet(p, len)
  \/ Steps \/ ChunkFails \/ Stop

-----------------------------------------------------------------------------
(* Properties                                                              *)

TypeOK ==
  /\ {prev, min, last} \subseteq 0 .. LastPos + BufSize + MaxLen
  /\ populated \in 0..BufSize
  /\ start \in 0..BufSize-1
  /\ buf \in [0..BufSize-1 -> {Torn} \union 0 .. LastPos + 2 * BufSize + MaxLen]
  /\ thread \in {"awake", "asleep", "generating", "ended"}
  /\ reader \in {"idle", "signal"}
  /\ read.from \in Nat /\ \A i \in DOMAIN read.blocks : read.blocks[i] \in Nat \union {Torn}
  /\ closer \in {"no", "signal", "join", "done"}

\* What a packet is decrypted with is the key stream of the position that the
\* console encrypted it at: neither another one across the wrap of the low
\* half, nor what the thread is just computing or has put over it.
DecryptedWithItsOwn ==
  \A i \in DOMAIN read.blocks : read.blocks[i] = read.from + i - 1

\* The thread never sleeps while there is something for it to do, except when
\* a signal is on its way.
AsleepOnlyWhenIdle ==
  thread = "asleep" /\ (ShouldGenerate \/ populated < BufSize) => reader = "signal"

\* Why these hold. The numbers are counts of whole chunks, and a chunk that is
\* being computed has its room behind what the buffer holds;
RoomForChunk ==
  /\ {prev, min, last} \subseteq Nat
  /\ populated \in 0..BufSize /\ populated % ChunkSize = 0
  /\ start \in 0..BufSize-1
  /\ buf \in [0..BufSize-1 -> Int]
  /\ thread = "generating" => populated + ChunkSize <= BufSize

\* what is counted as populated is in the buffer, around its end and while the
\* thread is at work;
BufferHolds == \A k \in 0..populated-1 : buf[(start + k) % BufSize] = min + k

\* and the thread went to sleep with a full buffer and nothing asked for.
SleepsOverFullBuffer ==
  thread = "asleep" => populated = BufSize /\ (ShouldGenerate => reader = "signal")

KeyStreamInv ==
  RoomForChunk /\ BufferHolds /\ SleepsOverFullBuffer /\ DecryptedWithItsOwn

\* The thread catches up with what was asked for, and fini returns.
Unfinished == (ShouldGenerate /\ thread # "ended") \/ closer \in {"signal", "join"}
=============================================================================
