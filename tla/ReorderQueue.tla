---------------------------- MODULE ReorderQueue ----------------------------
(***************************************************************************)
(* lib/src/reorderqueue.c: a ring buffer that puts packets back in the     *)
(* order of their sequence numbers.  The functions of the file are         *)
(* operators on a record [begin, count, slot]; Push and Fini also return   *)
(* the elements they hand to the drop callback, which owns (frees) them.   *)
(* The loops are in closed form: the number of their iterations is the     *)
(* least number that makes their condition false.                          *)
(***************************************************************************)
EXTENDS SeqNum, FiniteSets

CONSTANTS QueueSize,     \* 1 << size_exp
          DropStrategy,  \* "begin" or "end"
          NoUser         \* the entry of a slot that is not set

ASSUME ReorderQueueAssumption ==
  /\ QueueSize \in Nat \ {0}
  /\ SeqMod % QueueSize = 0
  /\ 2 * QueueSize <= SeqHalf
  /\ DropStrategy \in {"begin", "end"}

Idx(seq) == seq % QueueSize

EmptyQueue(start) ==
  [begin |-> start, count |-> 0, slot |-> [i \in 0..QueueSize-1 |-> NoUser]]

\* the sequence number and the entry of the index-th place of the window
SeqAt(q, index) == SeqAdd(q.begin, index)
UserAt(q, index) == q.slot[Idx(SeqAt(q, index))]
SetIndices(q) == {i \in 0..q.count-1 : UserAt(q, i) # NoUser}
Users(q) == {UserAt(q, i) : i \in SetIndices(q)}

QueueEnd(q) == SeqAdd(q.begin, q.count)
InWindow(q, seq) == SeqGe(seq, q.begin) /\ SeqLt(seq, QueueEnd(q))

\* neither older than the window nor at or after its end: the comparisons
\* do not order seq at all
Unordered(q, seq) ==
  ~InWindow(q, seq) /\ ~SeqLt(seq, q.begin) /\ ~SeqGe(seq, QueueEnd(q))

Rejects(q, seq) ==
  \/ InWindow(q, seq) /\ q.slot[Idx(seq)] # NoUser
  \/ ~InWindow(q, seq) /\ SeqLt(seq, q.begin)
  \/ Unordered(q, seq) /\ (q.count # 0 \/ DropStrategy # "begin")

\* An empty queue that cannot order seq starts over at it.
Rebase(q, seq) == IF Unordered(q, seq) THEN [q EXCEPT !.begin = seq] ELSE q

\* (bug: the places in use are taken to be free)
BeyondAllFree(q, seq, k) ==
  SeqLt(SeqAdd(QueueEnd(q), QueueSize + k), SeqAdd(seq, 1))

\* seq lies beyond the places left when the first k elements are gone
Beyond(q, seq, k) ==
  SeqLt(SeqAdd(QueueEnd(q), QueueSize - q.count + k), SeqAdd(seq, 1))

HeadsToDrop(q, seq) ==
  Least({k \in 0..q.count : k = q.count \/ ~Beyond(q, seq, k)})

DropHeads(q, seq) ==
  LET k == HeadsToDrop(q, seq)
  IN  IF ~Beyond(q, seq, 0) THEN q
      ELSE [q EXCEPT !.begin = IF k = q.count THEN seq ELSE SeqAdvance(@, k),
                     !.count = @ - k]

\* (bug: the heads are overwritten without the drop callback)
DroppedHeadsForgotten(q, seq) == {}

\* the users of the heads dropped, in a set: the callback only frees them
DroppedHeads(q, seq) ==
  IF ~Beyond(q, seq, 0) THEN {}
  ELSE {UserAt(q, i) : i \in SetIndices(q) \cap 0..HeadsToDrop(q, seq)-1}

\* "move end until new_end", clearing the entries the window grows over
ExtendedCount(q, seq) ==
  Least({n \in q.count..SeqMod-1 : ~SeqLt(SeqAt(q, n), SeqAdd(seq, 1))})

\* (bug: the entries the window grows over keep what they held before)
ExtendToUncleared(q, seq) == [q EXCEPT !.count = ExtendedCount(q, seq)]

ExtendTo(q, seq) ==
  LET n == ExtendedCount(q, seq)
      grown == {Idx(SeqAt(q, i)) : i \in q.count..n-1}
  IN  [q EXCEPT !.count = n,
                !.slot = [i \in 0..QueueSize-1 |->
                            IF i \in grown THEN NoUser ELSE @[i]]]

Store(q, seq, user) == [q EXCEPT !.slot[Idx(seq)] = user]

\* chiaki_reorder_queue_push
Push(q, seq, user) ==
  LET r == Rebase(q, seq)
      d == DropHeads(r, seq)
      rejected == [queue |-> q, dropped |-> {user}]
  IN  IF Rejects(q, seq) THEN rejected
      ELSE IF InWindow(q, seq)
      THEN [queue |-> Store(q, seq, user), dropped |-> {}]
      ELSE IF Beyond(r, seq, 0) /\ DropStrategy = "end" THEN rejected
      ELSE [queue   |-> Store(ExtendTo(d, seq), seq, user),
            dropped |-> DroppedHeads(r, seq)]

\* (bug: pull does not look whether the entry is set)
PullCountUnchecked(q) == q.count
\* (bug: pull is called once and not until it fails)
PullCountOnce(q) == IF q.count > 0 /\ UserAt(q, 0) # NoUser THEN 1 ELSE 0

\* chiaki_reorder_queue_pull, repeated until it returns false: the number
\* of elements pulled, what they are, in order, and the queue left behind
PullCount(q) ==
  Least({k \in 0..q.count : k = q.count \/ UserAt(q, k) = NoUser})
Pulled(q) == [i \in 1..PullCount(q) |-> UserAt(q, i - 1)]
\* (bug: pull takes the element off but leaves begin where it is)
AfterPullsUnmoved(q) == [q EXCEPT !.count = @ - PullCount(q)]
AfterPulls(q) ==
  [q EXCEPT !.begin = SeqAdvance(@, PullCount(q)), !.count = @ - PullCount(q)]

\* chiaki_reorder_queue_peek succeeds
Peekable(q, index) == index < q.count /\ UserAt(q, index) # NoUser

\* what chiaki_reorder_queue_fini hands to the drop callback
FiniDropped(q) == Users(q)
=============================================================================
