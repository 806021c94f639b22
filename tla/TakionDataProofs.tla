-------------------------- MODULE TakionDataProofs --------------------------
(***************************************************************************)
(* The connection and its data channel for every modulus, queue size, tag, *)
(* number of data and of attempts, and every loss, duplication and         *)
(* reordering.  The heart of the inductive invariant is Holds: between two *)
(* calls the data queue begins at the number of the first datum that was   *)
(* not received, and what is in it is at the place of its own number.      *)
(***************************************************************************)
EXTENDS TakionData, ReorderQueueProofs, SequenceTheorems

Data == 0..MaxData-1

\* The constants in the form the steps below need them.
LEMMA DataConstants ==
  /\ SeqMod \in Nat \ {0} /\ SeqHalf \in Nat /\ SeqHalf > 1 /\ SeqMod = 2 * SeqHalf
  /\ PromotedAdd = FALSE /\ DropStrategy = "end" /\ Tag \in Nat /\ Tag \in 0..SeqMod-1
  /\ MaxData \in Nat /\ MaxData <= SeqHalf /\ MaxAV \in Nat /\ PostponeSize \in Nat
  /\ MaxTries \in Nat /\ MaxTries > 0 /\ BangAt \in Nat
  /\ QueueSize \in Nat \ {0} /\ 2 * QueueSize <= SeqHalf
  /\ NoUser \notin Nat
BY SeqNumAssumption, ReorderQueueAssumption, TakionDataAssumption DEF SeqHalf

-----------------------------------------------------------------------------
(* The data queue                                                          *)

\* The queue waits for datum r; the console has sent s of them.
Holds(q, r, s) ==
  /\ q \in QueueOver(Data)
  /\ q.begin = SeqOf(r)
  /\ LastIsSet(q)
  /\ \A i \in 0..q.count-1 : UserAt(q, i) # NoUser => UserAt(q, i) = r + i /\ r + i < s

HeadIsGap(q) == q.count > 0 => UserAt(q, 0) = NoUser

\* Data that can be in flight together have different sequence numbers.
LEMMA SeqOfApart ==
  ASSUME NEW m \in Nat, NEW n \in Nat, SeqOf(m) = SeqOf(n), m - n < SeqMod, n - m < SeqMod
  PROVE  m = n
PROOF
  <1> DEFINE x == Tag + m
             y == Tag + n
  <1>1. x \in Nat /\ y \in Nat /\ x - y = m - n /\ y - x = n - m
    BY DataConstants
  <1>2. x % SeqMod = y % SeqMod
    BY DEF SeqOf
  <1>3. ~(x < y)
    <2> HIDE DEF x, y
    <2> QED BY <1>1, <1>2, DataConstants, ModApart
  <1>4. ~(y < x)
    <2> HIDE DEF x, y
    <2> QED BY <1>1, <1>2, DataConstants, ModApart
  <1> HIDE DEF x, y
  <1> QED BY <1>1, <1>3, <1>4

\* The number of a datum, and of the place i behind it in the window.
LEMMA SeqOfPlace ==
  ASSUME NEW r \in Nat
  PROVE  /\ SeqOf(r) \in 0..SeqMod-1 /\ SeqOf(r) \in RawSeq
         /\ SeqCast(SeqOf(r)) = SeqOf(r)
         /\ \A i \in 0..SeqMod-1 : SeqCast(SeqAdd(SeqOf(r), i)) = SeqOf(r + i)
PROOF
  <1>1. Tag + r \in Nat
    BY DataConstants
  <1>2. SeqOf(r) \in 0..SeqMod-1
    BY <1>1, DataConstants DEF SeqOf
  <1>3. SeqOf(r) \in RawSeq
    BY <1>2, DataConstants DEF RawSeq
  <1>4. SeqCast(SeqOf(r)) = SeqOf(r)
    BY <1>2, <1>3, DataConstants, CastRaw
  <1>5. ASSUME NEW i \in 0..SeqMod-1 PROVE SeqCast(SeqAdd(SeqOf(r), i)) = SeqOf(r + i)
    <2> DEFINE x == Tag + r
    <2>1. SeqCast(SeqOf(r)) = x % SeqMod
      BY <1>4 DEF SeqOf
    <2>2. x \in Nat
      BY <1>1
    <2>3. x + i = Tag + (r + i)
      BY <2>2, DataConstants
    <2> HIDE DEF x
    <2>4. SeqCast(SeqAdd(SeqOf(r), i)) = (x + i) % SeqMod
      BY <1>3, <2>1, <2>2, CastPlus
    <2> QED BY <2>3, <2>4 DEF SeqOf
  <1> QED BY <1>2, <1>3, <1>4, <1>5

\* Every place of such a queue has the number of its own datum, and the data
\* behind the window's end are far from coming round to it.
LEMMA HoldsPlaces ==
  ASSUME NEW s \in 0..MaxData, NEW r \in 0..s, NEW q, Holds(q, r, s)
  PROVE  /\ q.count \in 0..QueueSize /\ q.begin \in 0..SeqMod-1
         /\ r + q.count <= s
         /\ \A i \in 0..SeqMod-1 : SeqCast(SeqAt(q, i)) = SeqOf(r + i)
PROOF
  <1>1. q.count \in 0..QueueSize /\ r \in Nat /\ s \in Nat /\ r <= s
    BY DataConstants DEF Holds, QueueOver
  <1>2. r + q.count <= s
    <2>1. CASE q.count = 0
      BY <1>1, <2>1
    <2>2. CASE q.count > 0
      <3>1. q.count - 1 \in 0..q.count-1 /\ UserAt(q, q.count - 1) # NoUser
        BY <1>1, <2>2 DEF Holds, LastIsSet
      <3>2. r + (q.count - 1) < s
        BY <3>1 DEF Holds
      <3> QED BY <1>1, <3>2, DataConstants
    <2> QED BY <1>1, <2>1, <2>2, DataConstants
  <1>3. \A i \in 0..SeqMod-1 : SeqCast(SeqAt(q, i)) = SeqOf(r + i)
    BY <1>1, SeqOfPlace DEF Holds, SeqAt
  <1> QED BY <1>1, <1>2, <1>3, SeqOfPlace DEF Holds

\* A push puts the datum at its own place or leaves the queue as it is.
LEMMA PushHolds ==
  ASSUME NEW s \in 0..MaxData, NEW r \in 0..s, NEW n \in 0..s-1, NEW q, Holds(q, r, s)
  PROVE  LET p == Push(q, SeqOf(n), n)
         IN  Holds(p.queue, r, s) /\ Users(p.queue) \subseteq Users(q) \union {n}
PROOF
  <1> DEFINE seq == SeqOf(n)
             p == Push(q, seq, n)
             t == p.queue
  <1>1. /\ r \in Nat /\ s \in Nat /\ n \in Nat /\ r <= s /\ n < s /\ s <= SeqHalf
        /\ n \in Data /\ NoUser \notin Data /\ s <= MaxData
    BY DataConstants DEF Data
  <1>2. /\ q \in QueueOver(Data) /\ LastIsSet(q) /\ q.begin = SeqOf(r)
        /\ q.count \in 0..QueueSize /\ q.count \in 0..SeqMod-1
        /\ r + q.count <= s /\ seq \in 0..SeqMod-1
        /\ \A i \in 0..SeqMod-1 : SeqCast(SeqAt(q, i)) = SeqOf(r + i)
    <2>1. /\ q.count \in 0..QueueSize /\ r + q.count <= s
          /\ \A i \in 0..SeqMod-1 : SeqCast(SeqAt(q, i)) = SeqOf(r + i)
      BY HoldsPlaces
    <2>2. q.count \in 0..SeqMod-1
      BY <2>1, DataConstants
    <2>3. seq \in 0..SeqMod-1
      BY <1>1, SeqOfPlace
    <2> QED BY <2>1, <2>2, <2>3 DEF Holds
  <1>3. Reaches(q, seq)
    <2> SUFFICES ASSUME q.count = QueueSize, seq = SeqCast(SeqAdd(QueueEnd(q), SeqHalf - 1))
                 PROVE  FALSE
      BY DEF Reaches
    <2> DEFINE m == SeqHalf - 1
    <2>1. m \in Nat /\ q.count + m < SeqMod /\ q.count + m \in 0..SeqMod-1 /\ q.count \in Nat
      BY <1>2, DataConstants
    <2>2. q.begin \in RawSeq
      BY <1>2 DEF QueueOver
    <2>3. seq = SeqCast(SeqAdd(SeqAdd(q.begin, q.count), m))
      BY DEF QueueEnd
    <2>4. seq = SeqCast(SeqAt(q, q.count + m))
      <3> HIDE DEF m
      <3> QED BY <2>1, <2>2, <2>3, CastAddAdd DEF SeqAt
    <2>5. SeqOf(n) = SeqOf(r + (q.count + m))
      BY <1>2, <2>1, <2>4
    <2>6. /\ r + (q.count + m) \in Nat
          /\ r + (q.count + m) > n /\ (r + (q.count + m)) - n < SeqMod
      BY <1>1, <1>2, DataConstants
    <2>7. n - (r + (q.count + m)) < SeqMod
      BY <1>1, <2>1, DataConstants
    <2> HIDE DEF m
    <2> QED BY <1>1, <2>5, <2>6, <2>7, SeqOfApart
  <1>4. /\ t \in QueueOver(Data) /\ LastIsSet(t)
    BY <1>1, <1>2, PushOK
  <1>5. \/ NotTaken(q, n, p)
        \/ FillsPlace(q, seq, n, p)
        \/ \E k \in 0..q.count : BecomesLast(q, seq, n, p, k)
    BY <1>1, <1>2, <1>3, PushPlaces
  <1> HIDE DEF p
  <1>6. SUFFICES /\ t.begin = SeqOf(r)
                 /\ \A i \in 0..t.count-1 : UserAt(t, i) # NoUser =>
                      /\ UserAt(t, i) = r + i /\ r + i < s
                      /\ UserAt(t, i) \in Users(q) \union {n}
    BY <1>4 DEF Holds, Users, SetIndices, p
  <1>7. ASSUME NEW i \in 0..q.count-1, UserAt(q, i) # NoUser
        PROVE  UserAt(q, i) = r + i /\ r + i < s /\ UserAt(q, i) \in Users(q)
    BY <1>7 DEF Holds, Users, SetIndices
  <1>8. CASE NotTaken(q, n, p)
    BY <1>2, <1>7, <1>8 DEF NotTaken
  <1>9. CASE FillsPlace(q, seq, n, p)
    <2>1. PICK k \in 0..q.count-1 :
            /\ SeqCast(SeqAt(q, k)) = seq
            /\ \A i \in 0..q.count-1 : UserAt(t, i) = IF i = k THEN n ELSE UserAt(q, i)
      BY <1>9 DEF FillsPlace
    <2>2. k \in 0..SeqMod-1 /\ r + k \in Nat /\ r + k < s
      BY <1>1, <1>2, DataConstants
    <2>3. SeqOf(r + k) = SeqOf(n)
      BY <1>2, <2>1, <2>2
    <2>4. r + k = n
      <3>1. (r + k) - n < SeqMod /\ n - (r + k) < SeqMod
        BY <1>1, <2>2, DataConstants
      <3> QED BY <1>1, <2>2, <2>3, <3>1, SeqOfApart
    <2>5. t.begin = q.begin /\ t.count = q.count
      BY <1>9 DEF FillsPlace
    <2> HIDE DEF t
    <2> QED BY <1>1, <1>2, <1>7, <2>1, <2>4, <2>5
  <1>10. ASSUME NEW k \in 0..q.count, BecomesLast(q, seq, n, p, k)
         PROVE  /\ t.begin = SeqOf(r)
                /\ \A i \in 0..t.count-1 : UserAt(t, i) # NoUser =>
                      /\ UserAt(t, i) = r + i /\ r + i < s
                      /\ UserAt(t, i) \in Users(q) \union {n}
    <2>1. k = 0 /\ t.begin = q.begin
      BY <1>10, DataConstants DEF BecomesLast
    <2>2. /\ t.count \in q.count+1..QueueSize
          /\ SeqCast(SeqAt(t, t.count - 1)) = seq
          /\ \A i \in 0..t.count-1 :
               UserAt(t, i) = IF i = t.count - 1 THEN n
                              ELSE IF k + i < q.count THEN UserAt(q, k + i) ELSE NoUser
      BY <1>2, <1>10, <2>1 DEF BecomesLast
    <2> HIDE DEF t
    <2> DEFINE m == t.count - 1
    <2>3. m \in 0..SeqMod-1 /\ r + m \in Nat /\ m < QueueSize /\ t.count \in Nat
      BY <1>1, <1>2, <2>2, DataConstants
    <2>4. SeqOf(r + m) = SeqOf(n)
      <3>1. SeqCast(SeqAt(q, m)) = seq
        BY <2>1, <2>2 DEF SeqAt
      <3> HIDE DEF m
      <3> QED BY <1>2, <2>3, <3>1
    <2>5. r + m = n
      <3>1. (r + m) - n < SeqMod /\ n - (r + m) < SeqMod
        BY <1>1, <2>3, DataConstants
      <3> HIDE DEF m
      <3> QED BY <1>1, <2>3, <2>4, <3>1, SeqOfApart
    <2>6. ASSUME NEW i \in 0..t.count-1, UserAt(t, i) # NoUser
          PROVE  UserAt(t, i) = r + i /\ r + i < s /\ UserAt(t, i) \in Users(q) \union {n}
      <3>1. CASE i = m
        BY <1>1, <2>2, <2>5, <3>1
      <3>2. CASE i # m
        <4>1. i \in Nat /\ k + i = i
          BY <2>1, <2>3
        <4>2. i \in 0..q.count-1 /\ UserAt(t, i) = UserAt(q, i)
          BY <1>2, <2>2, <2>6, <3>2, <4>1
        <4> QED BY <1>7, <2>6, <4>2
      <3> QED BY <3>1, <3>2
    <2> QED BY <1>2, <2>1, <2>6
  <1> QED BY <1>5, <1>8, <1>9, <1>10

\* Pulling takes the data from r on, and leaves the queue waiting for the
\* next one that is missing.
LEMMA PullHolds ==
  ASSUME NEW s \in 0..MaxData, NEW r \in 0..s, NEW q, Holds(q, r, s)
  PROVE  LET k == PullCount(q)
         IN  /\ k \in Nat /\ r + k <= s
             /\ Holds(AfterPulls(q), r + k, s)
             /\ HeadIsGap(AfterPulls(q))
             /\ Pulled(q) \in Seq(Data) /\ Len(Pulled(q)) = k
             /\ \A i \in 1..k : Pulled(q)[i] = r + i - 1 /\ Pulled(q)[i] \in Users(q)
             /\ k > 0 => SeqCast(SeqAt(q, k - 1)) = SeqOf(r + k - 1)
             /\ HeadIsGap(q) => k = 0
             /\ Users(AfterPulls(q)) \subseteq Users(q)
PROOF
  <1> DEFINE k == PullCount(q)
             t == AfterPulls(q)
  <1>1. /\ q \in QueueOver(Data) /\ LastIsSet(q) /\ NoUser \notin Data /\ q.begin \in RawSeq
        /\ r \in Nat /\ s \in Nat /\ q.count \in 0..QueueSize /\ r + q.count <= s
        /\ \A i \in 0..SeqMod-1 : SeqCast(SeqAt(q, i)) = SeqOf(r + i)
    <2>1. /\ q.count \in 0..QueueSize /\ r + q.count <= s
          /\ \A i \in 0..SeqMod-1 : SeqCast(SeqAt(q, i)) = SeqOf(r + i)
      BY HoldsPlaces
    <2>2. r \in Nat /\ s \in Nat /\ NoUser \notin Data
      BY DataConstants DEF Data
    <2>3. q \in QueueOver(Data) /\ LastIsSet(q)
      BY DEF Holds
    <2> QED BY <2>1, <2>2, <2>3 DEF QueueOver
  <1>2. /\ k \in 0..q.count
        /\ t.count = q.count - k
        /\ SeqCast(t.begin) = SeqCast(SeqAdd(q.begin, k))
        /\ k = 0 => t = q
        /\ k > 0 => \E b \in RawSeq : t.begin = SeqAdd(b, 1)
        /\ \A i \in 0..t.count-1 : UserAt(t, i) = UserAt(q, k + i)
        /\ \A i \in 0..k-1 : UserAt(q, i) # NoUser
        /\ \A i \in 1..k : Pulled(q)[i] = UserAt(q, i - 1)
        /\ Pulled(q) = [i \in 1..k |-> UserAt(q, i - 1)]
    BY <1>1, PullPlaces
  <1>3. /\ t \in QueueOver(Data) /\ LastIsSet(t) /\ HeadIsGap(t)
        /\ Pulled(q) \in [1..k -> Data]
    BY <1>1, PullsOK DEF HeadIsGap
  <1> HIDE DEF k, t
  <1>4. k \in Nat /\ k \in 0..SeqMod-1 /\ r + k <= s /\ r + k \in Nat
    BY <1>1, <1>2, DataConstants
  <1>5. Pulled(q) \in Seq(Data) /\ Len(Pulled(q)) = k
    <2>1. Pulled(q) \in Seq(Data)
      BY <1>3, <1>4, SeqDef
    <2> QED BY <1>3, <1>4, <2>1
  <1>6. ASSUME NEW i \in 1..k
        PROVE  Pulled(q)[i] = r + i - 1 /\ Pulled(q)[i] \in Users(q)
    <2>1. i - 1 \in 0..k-1 /\ i - 1 \in 0..q.count-1 /\ r + (i - 1) = r + i - 1
      BY <1>1, <1>2, <1>4
    <2>2. Pulled(q)[i] = UserAt(q, i - 1) /\ UserAt(q, i - 1) # NoUser
      BY <1>2, <2>1
    <2> QED BY <2>1, <2>2 DEF Holds, Users, SetIndices
  <1>7. t.begin = SeqOf(r + k)
    <2>1. CASE k = 0
      BY <1>1, <1>2, <2>1 DEF Holds
    <2>2. CASE k > 0
      <3>1. PICK b \in RawSeq : t.begin = SeqAdd(b, 1)
        BY <1>2, <2>2
      <3>2. SeqAdd(b, 1) = SeqCast(SeqCast(b) + SeqCast(1))
        BY DataConstants DEF SeqAdd, SeqCast
      <3>3. SeqCast(b) + SeqCast(1) \in RawSeq
        <4>1. 1 \in RawSeq
          BY DataConstants DEF RawSeq
        <4> QED BY <4>1, CastRaw, DataConstants DEF RawSeq
      <3>4. t.begin \in 0..SeqMod-1
        BY <3>1, <3>2, <3>3, CastRaw
      <3>5. SeqCast(t.begin) = t.begin
        BY <3>4, DataConstants, CastRaw DEF RawSeq
      <3>6. SeqCast(t.begin) = SeqOf(r + k)
        BY <1>1, <1>2, <1>4 DEF SeqAt
      <3> QED BY <3>5, <3>6
    <2> QED BY <1>4, <2>1, <2>2
  <1>8. ASSUME NEW i \in 0..t.count-1, UserAt(t, i) # NoUser
        PROVE  /\ UserAt(t, i) = (r + k) + i /\ (r + k) + i < s
               /\ UserAt(t, i) \in Users(q)
    <2>1. k + i \in 0..q.count-1 /\ r + (k + i) = (r + k) + i
      BY <1>1, <1>2, <1>4
    <2>2. UserAt(t, i) = UserAt(q, k + i)
      BY <1>2
    <2> QED BY <1>8, <2>1, <2>2 DEF Holds, Users, SetIndices
  <1>9. Holds(t, r + k, s)
    BY <1>3, <1>7, <1>8 DEF Holds
  <1>10. ASSUME k > 0 PROVE SeqCast(SeqAt(q, k - 1)) = SeqOf(r + k - 1)
    <2>1. k - 1 \in 0..SeqMod-1 /\ r + (k - 1) = r + k - 1
      BY <1>1, <1>4, <1>10, DataConstants
    <2> QED BY <1>1, <2>1
  <1>11. ASSUME HeadIsGap(q) PROVE k = 0
    <2>1. SUFFICES ASSUME k > 0 PROVE FALSE
      BY <1>4
    <2>2. 0 \in 0..k-1 /\ q.count > 0
      BY <1>1, <1>2, <1>4, <2>1
    <2> QED BY <1>2, <1>11, <2>2 DEF HeadIsGap
  <1>12. Users(t) \subseteq Users(q)
    BY <1>8 DEF Users, SetIndices
  <1> QED BY <1>3, <1>4, <1>5, <1>6, <1>9, <1>10, <1>11, <1>12 DEF k, t

-----------------------------------------------------------------------------
(* The inductive invariant                                                 *)

Handshaking == pc \in {"send init", "init ack", "send cookie", "cookie ack", "second"}
Looping == pc \in {"loop", "crashed"}

\* the attempts of the handshake
PlaceInv ==
  /\ Handshaking \/ Looping \/ pc = "ended"
  /\ tries \in 0..MaxTries
  /\ Handshaking => tries < MaxTries

UpInv == up \subseteq {"init", "cookie"}
DownInv == down \subseteq {"init ack", "cookie ack"}

\* the console and the network
CountInv ==
  /\ sent \in 0..MaxData /\ net \subseteq 0..sent-1
  /\ avSent \in 0..MaxAV /\ av \subseteq 0..avSent-1

StoppedInv == stopped \in BOOLEAN

\* what was received is the beginning of what was sent, the data queue waits
\* for the datum after it, and what is acknowledged was received
ChannelInv ==
  /\ received \in Seq(Data) /\ Len(received) <= sent
  /\ \A i \in 1..Len(received) : received[i] = i - 1
  /\ acks \subseteq {SeqOf(n) : n \in 0..Len(received)-1}
  /\ acked \in 0..Len(received)
  /\ Handshaking => received = <<>>
  /\ Looping => Holds(queue, Len(received), sent) /\ HeadIsGap(queue)
  /\ queue \in QueueOver(Data) /\ queue.begin \in 0..SeqMod-1

\* with the key in use, what is in the queue came with a MAC that was checked
KeyInv ==
  /\ crypt \in {"none", "set", "available"}
  /\ verified \subseteq Data
  /\ Connected /\ crypt = "available" => Users(queue) \subseteq verified

\* what is left of the audio and video packets: without a key the first ones,
\* as many as there is space for
Kept == avHandled \o postponed
Gone == Len(avArrived) - Len(Kept)
AVInv ==
  /\ postponed \in Seq(0..MaxAV-1) /\ avArrived \in Seq(0..MaxAV-1)
  /\ avHandled \in Seq(0..MaxAV-1)
  /\ Len(postponed) <= PostponeSize
  /\ crypt = "none" => avHandled = <<>>
  /\ crypt = "none" => Gone = 0 \/ Len(postponed) = PostponeSize
  /\ Gone >= 0
  /\ Gone = 0 \/ PostponeSize <= Len(Kept)
  /\ \A i \in 1..Len(Kept) : Kept[i] = avArrived[IF i <= PostponeSize THEN i ELSE i + Gone]

IInv == PlaceInv /\ UpInv /\ DownInv /\ CountInv /\ StoppedInv /\ ChannelInv /\ KeyInv /\ AVInv

\* It holds when the thread starts.
LEMMA InitOK == Init => IInv
PROOF
  <1> SUFFICES ASSUME Init PROVE IInv
    OBVIOUS
  <1>1. PlaceInv
    <2>1. pc = "send init" /\ tries = 0
      BY DEF Init
    <2>2. MaxTries \in Nat /\ MaxTries > 0
      BY DataConstants
    <2>3. tries \in 0..MaxTries /\ tries < MaxTries
      <3>1. tries = 0
        BY <2>1
      <3> QED BY <2>2, <3>1
    <2> QED BY <2>1, <2>3 DEF PlaceInv, Handshaking
  <1>2. UpInv /\ DownInv
    BY DEF Init, UpInv, DownInv
  <1>3. CountInv
    <2>1. sent = 0 /\ avSent = 0 /\ net = {} /\ av = {}
      BY DEF Init
    <2> QED BY <2>1, DataConstants DEF CountInv
  <1>4. StoppedInv
    BY Zenon DEF Init, StoppedInv
  <1>5. ChannelInv
    <2>1. pc = "send init" /\ queue = EmptyQueue(0) /\ received = <<>> /\ acks = {}
          /\ acked = 0 /\ sent = 0
      BY DEF Init
    <2>2. queue \in QueueOver(Data) /\ queue.begin \in 0..SeqMod-1
      <3>1. queue = [begin |-> 0, count |-> 0, slot |-> [i \in 0..QueueSize-1 |-> NoUser]]
        BY <2>1 DEF EmptyQueue
      <3>2. 0 \in RawSeq /\ 0 \in 0..QueueSize /\ 0 \in 0..SeqMod-1
        BY DataConstants DEF RawSeq
      <3> QED BY <3>1, <3>2 DEF QueueOver
    <2>3. received \in Seq(Data) /\ Len(received) = 0
      <3>1. received = <<>>
        BY <2>1
      <3> QED BY <3>1, EmptySeq
    <2>4. /\ Len(received) <= sent /\ \A i \in 1..Len(received) : received[i] = i - 1
          /\ acked \in 0..Len(received)
      <3>1. sent = 0 /\ acked = 0 /\ Len(received) = 0
        BY <2>1, <2>3
      <3> QED BY <3>1
    <2>5. ~Looping /\ received = <<>> /\ acks = {}
      BY <2>1 DEF Looping
    <2> QED BY <2>2, <2>3, <2>4, <2>5 DEF ChannelInv
  <1>6. KeyInv
    <2>1. crypt = "none" /\ verified = {}
      BY DEF Init
    <2> QED BY <2>1 DEF KeyInv
  <1>7. AVInv
    <2>1. postponed = <<>> /\ avArrived = <<>> /\ avHandled = <<>>
      BY DEF Init
    <2>2. Kept = <<>> /\ Len(Kept) = 0 /\ Gone = 0
      BY <2>1 DEF Kept, Gone
    <2>3. postponed \in Seq(0..MaxAV-1) /\ Len(postponed) = 0
      BY <2>1
    <2> QED BY <2>1, <2>2, <2>3, DataConstants DEF AVInv
  <1> QED BY <1>1, <1>2, <1>3, <1>4, <1>5, <1>6, <1>7 DEF IInv

\* One more attempt, while there are some left.
LEMMA NextTry ==
  ASSUME NEW m \in Nat, NEW t \in 0..m, t < m
  PROVE  t + 1 \in 0..m
OBVIOUS

\* The handshake moves on, gives up or becomes the loop.
LEMMA PlaceStep == PlaceInv /\ [Next]_vars => PlaceInv'
PROOF
  <1> SUFFICES ASSUME PlaceInv, [Next]_vars PROVE PlaceInv'
    OBVIOUS
  <1>1. /\ Handshaking \/ Looping \/ pc = "ended"
        /\ tries \in 0..MaxTries
        /\ Handshaking => tries < MaxTries
    BY DEF PlaceInv
  <1>2. CASE UNCHANGED <<pc, tries>>
    BY <1>2 DEF PlaceInv, Handshaking, Looping
  <1>3. CASE SendInit \/ SendCookie
    <2>1. /\ Handshaking /\ tries' = tries
          /\ pc' \in {"init ack", "cookie ack", "ended"}
      BY <1>3 DEF SendInit, SendCookie, Transmit, Handshaking
    <2> QED BY <1>1, <2>1 DEF PlaceInv, Handshaking, Looping
  <1>4. ASSUME NEW again \in {"send init", "send cookie"}, Handshaking, Retry(again)
        PROVE  PlaceInv'
    <2>1. MaxTries \in Nat /\ tries \in 0..MaxTries /\ tries < MaxTries
      BY <1>1, <1>4, DataConstants
    <2>2. tries' \in 0..MaxTries
      <3>1. tries' = tries + 1
        BY <1>4 DEF Retry
      <3> QED BY <2>1, <3>1, NextTry
    <2>3. CASE tries' < MaxTries
      <3>1. pc' = again
        BY <1>4, <2>3 DEF Retry
      <3> QED BY <2>2, <2>3, <3>1 DEF PlaceInv, Handshaking, Looping
    <2>4. CASE ~(tries' < MaxTries)
      <3>1. pc' = "ended"
        BY <1>4, <2>4 DEF Retry
      <3> QED BY <2>2, <3>1 DEF PlaceInv, Handshaking, Looping
    <2> QED BY <2>3, <2>4
  <1>5. CASE ReceiveFails
    BY <1>4, <1>5 DEF ReceiveFails, Handshaking
  <1>6. ASSUME NEW next, tries' = 0, pc' = next, next \in {"send cookie", "loop"}
        PROVE  PlaceInv'
    <2>1. 0 \in 0..MaxTries /\ 0 < MaxTries
      BY DataConstants
    <2>2. tries' \in 0..MaxTries /\ tries' < MaxTries
      BY <1>6, <2>1
    <2> QED BY <1>6, <2>2 DEF PlaceInv, Handshaking, Looping
  <1>7. ASSUME UNCHANGED tries, Handshaking, pc' \in {"ended", "second"}
        PROVE  PlaceInv'
    BY <1>1, <1>7 DEF PlaceInv, Handshaking, Looping
  <1>8. ASSUME NEW n, DataTooEarly(n) PROVE PlaceInv'
    BY <1>4, <1>8 DEF DataTooEarly, Handshaking
  <1>9. CASE Recheck \/ LeaveLoop
    <2>1. UNCHANGED tries /\ (UNCHANGED pc \/ pc' \in {"crashed", "ended"})
      BY <1>9 DEF Recheck, LeaveLoop
    <2> QED BY <1>1, <2>1 DEF PlaceInv, Handshaking, Looping
  <1>10. ASSUME NEW m, HandshakeMessage(m) PROVE PlaceInv'
    <2>1. CASE InitAck(m)
      BY <1>4, <1>6, <1>7, <2>1 DEF InitAck, Handshaking
    <2>2. CASE CookieAck(m)
      BY <1>4, <1>6, <1>7, <2>2 DEF CookieAck, Handshaking
    <2> QED BY <1>2, <1>10, <2>1, <2>2 DEF HandshakeMessage
  <1>11. \/ UNCHANGED <<pc, tries>> \/ SendInit \/ SendCookie \/ ReceiveFails
         \/ \E m \in down : HandshakeMessage(m)
         \/ \E n \in net \union av : DataTooEarly(n)
         \/ Recheck \/ LeaveLoop
    BY DEF Next, Handshake, Loop, Console, FlushPostponed, HandleData, HandleAV, Close, Answer,
       SendData, SendAgain, SendAV, GetAck, Lose, vars, connVars
  <1> QED BY <1>2, <1>3, <1>5, <1>8, <1>9, <1>10, <1>11

\* INIT and COOKIE go up, their answers come down.
LEMMA WireStep == UpInv /\ DownInv /\ [Next]_vars => UpInv' /\ DownInv'
PROOF
  <1> SUFFICES ASSUME UpInv, DownInv, [Next]_vars PROVE UpInv' /\ DownInv'
    OBVIOUS
  <1>1. UNCHANGED up \/ SendInit \/ SendCookie
    BY DEF Next, Handshake, Loop, Console, ReceiveFails, HandshakeMessage,
       DataTooEarly, Recheck, FlushPostponed, LeaveLoop, HandleData, HandleAV, Close, Answer,
       SendData, SendAgain, SendAV, GetAck, Lose, vars
  <1>2. UpInv'
    BY <1>1 DEF UpInv, SendInit, SendCookie, Transmit
  <1>3. UNCHANGED down \/ Answer \/ Lose \/ \E m \in down : HandshakeMessage(m)
    BY DEF Next, Handshake, Loop, Console, SendInit, SendCookie, ReceiveFails,
       DataTooEarly, Recheck, FlushPostponed, LeaveLoop, HandleData, HandleAV, Close,
       SendData, SendAgain, SendAV, GetAck, vars
  <1>4. DownInv'
    <2>1. CASE UNCHANGED down
      BY <2>1 DEF DownInv
    <2>2. CASE Answer
      BY <2>2 DEF DownInv, Answer
    <2>3. CASE Lose
      BY <2>3 DEF DownInv, Lose
    <2>4. ASSUME NEW m \in down, HandshakeMessage(m) PROVE DownInv'
      BY <2>4 DEF DownInv, HandshakeMessage
    <2> QED BY <1>3, <2>1, <2>2, <2>3, <2>4
  <1> QED BY <1>2, <1>4

\* What is in flight was sent, and no more is sent than the bounds.
LEMMA CountStep == CountInv /\ [Next]_vars => CountInv'
PROOF
  <1> SUFFICES ASSUME CountInv, [Next]_vars PROVE CountInv'
    OBVIOUS
  <1> USE DEF CountInv
  <1>1. sent \in Nat /\ avSent \in Nat /\ MaxData \in Nat /\ MaxAV \in Nat
    BY DataConstants
  <1>2. CASE UNCHANGED <<sent, avSent>> /\ net' \subseteq net /\ av' \subseteq av
    BY <1>2
  <1>3. CASE SendData
    BY <1>1, <1>3 DEF SendData
  <1>4. CASE SendAV
    BY <1>1, <1>4 DEF SendAV
  <1>5. ASSUME NEW n \in 0..sent-1, SendAgain(n) PROVE CountInv'
    BY <1>5 DEF SendAgain, consoleVars
  <1> HIDE DEF CountInv
  <1>6. ASSUME NEW n, HandleData(n) PROVE net' \subseteq net /\ UNCHANGED <<av, sent, avSent>>
    BY <1>6 DEF HandleData, consoleVars
  <1>7. ASSUME NEW n, DataTooEarly(n)
        PROVE  net' \subseteq net /\ av' \subseteq av /\ UNCHANGED <<sent, avSent>>
    BY <1>7 DEF DataTooEarly, consoleVars
  <1>8. ASSUME NEW n, HandleAV(n) PROVE av' \subseteq av /\ UNCHANGED <<net, sent, avSent>>
    BY <1>8 DEF HandleAV, consoleVars
  <1>9. CASE Lose
    <2>1. net' \subseteq net /\ av' \subseteq av /\ UNCHANGED <<sent, avSent>>
      BY <1>9 DEF Lose, consoleVars
    <2> QED BY <1>2, <2>1
  <1>10. \/ UNCHANGED <<net, av, sent, avSent>> \/ SendData \/ SendAV \/ Lose
         \/ \E n \in 0..sent-1 : SendAgain(n)
         \/ \E n \in net : HandleData(n)
         \/ \E n \in net \union av : DataTooEarly(n)
         \/ \E n \in av : HandleAV(n)
    BY DEF Next, Handshake, Loop, Console, SendInit, SendCookie, ReceiveFails, HandshakeMessage,
       Recheck, FlushPostponed, LeaveLoop, Close, Answer, GetAck, vars, consoleVars
  <1> QED BY <1>2, <1>3, <1>4, <1>5, <1>6, <1>7, <1>8, <1>9, <1>10

\* Only Close writes the flag.
LEMMA StoppedStep == StoppedInv /\ [Next]_vars => StoppedInv'
PROOF
  <1> SUFFICES ASSUME StoppedInv, [Next]_vars PROVE StoppedInv'
    OBVIOUS
  <1> USE DEF StoppedInv, connVars, dataVars, avVars, consoleVars
  <1>1. CASE UNCHANGED stopped
    BY <1>1, Zenon
  <1>2. CASE Close
    BY <1>2, Zenon DEF Close
  <1>3. UNCHANGED stopped \/ Close
    BY DEF Next, Handshake, Loop, Console, SendInit, SendCookie, ReceiveFails, HandshakeMessage,
       DataTooEarly, Recheck, FlushPostponed, LeaveLoop, HandleData, HandleAV, Answer, SendData,
       SendAgain, SendAV, GetAck, Lose, vars
  <1> QED BY <1>1, <1>2, <1>3

\* What handling a datum does: it is refused, or the queue takes it or drops
\* it and what is in order from there on is received.
LEMMA HandleDataDoes ==
  ASSUME CountInv, ChannelInv, NEW n \in net, HandleData(n)
  PROVE  \/ UNCHANGED <<queue, received, acks, crypt, verified>>
         \/ \E k \in Nat, out \in Seq(Data) :
              /\ Len(out) = k /\ Len(received) + k <= sent
              /\ received' = received \o out
              /\ \A i \in 1..k : out[i] = Len(received) + i - 1
              /\ \A i \in 1..k : out[i] \in Users(queue) \union {n}
              /\ Holds(queue', Len(received) + k, sent)
              /\ HeadIsGap(queue')
              /\ Users(queue') \subseteq Users(queue) \union {n}
              /\ acks' = IF k = 0 THEN acks
                         ELSE acks \union {SeqOf(Len(received) + k - 1)}
              /\ verified' = IF crypt = "available" THEN verified \union {n} ELSE verified
              /\ crypt' \in {crypt, "set"}
              /\ crypt # "none" => crypt' = crypt
PROOF
  <1>1. CASE crypt = "available" /\ n <= BangAt
    BY <1>1 DEF HandleData, dataVars
  <1>2. CASE ~(crypt = "available" /\ n <= BangAt)
    <2> DEFINE r == Len(received)
               p == Push(queue, SeqOf(n), n)
               q == p.queue
               k == PullCount(q)
               out == Pulled(q)
    <2>1. /\ FlushDataQueue(q)
          /\ verified' = IF crypt = "available" THEN verified \union {n} ELSE verified
      BY <1>2 DEF HandleData
    <2>2. /\ queue' = AfterPulls(q)
          /\ received' = received \o out
          /\ acks' = IF out = <<>> THEN acks
                     ELSE acks \union {SeqCast(SeqAt(q, Len(out) - 1))}
          /\ crypt' = IF crypt = "none" /\ BangAt \in Range(out) THEN "set" ELSE crypt
      BY <2>1 DEF FlushDataQueue
    <2>3. /\ sent \in 0..MaxData /\ r \in 0..sent /\ n \in 0..sent-1
          /\ Holds(queue, r, sent)
      <3>1. sent \in 0..MaxData /\ n \in 0..sent-1
        BY DEF CountInv
      <3>2. pc = "loop"
        BY DEF HandleData, Receiving, Connected
      <3>3. received \in Seq(Data) /\ Len(received) <= sent /\ Holds(queue, Len(received), sent)
        BY <3>2 DEF ChannelInv, Looping
      <3> QED BY <3>1, <3>3, DataConstants
    <2>4. Holds(q, r, sent) /\ Users(q) \subseteq Users(queue) \union {n}
      BY <2>3, PushHolds
    <2> HIDE DEF r, p
    <2>5. /\ k \in Nat /\ r + k <= sent
          /\ Holds(AfterPulls(q), r + k, sent)
          /\ HeadIsGap(AfterPulls(q))
          /\ out \in Seq(Data) /\ Len(out) = k
          /\ \A i \in 1..k : out[i] = r + i - 1 /\ out[i] \in Users(q)
          /\ k > 0 => SeqCast(SeqAt(q, k - 1)) = SeqOf(r + k - 1)
          /\ Users(AfterPulls(q)) \subseteq Users(q)
      <3> HIDE DEF q
      <3> QED BY <2>3, <2>4, PullHolds
    <2> HIDE DEF q, k, out
    <2>6. out = <<>> <=> k = 0
      BY <2>5
    <2>7. acks' = IF k = 0 THEN acks ELSE acks \union {SeqOf(r + k - 1)}
      <3>1. Len(out) = k /\ k \in Nat
        BY <2>5
      <3>2. CASE k = 0
        BY <2>2, <2>6, <3>2
      <3>3. CASE k > 0
        <4>1. acks' = acks \union {SeqCast(SeqAt(q, k - 1))}
          BY <2>2, <2>6, <3>1, <3>3
        <4> QED BY <2>5, <3>3, <4>1
      <3> QED BY <3>1, <3>2, <3>3
    <2>8. crypt' \in {crypt, "set"} /\ (crypt # "none" => crypt' = crypt)
      BY <2>2
    <2> QED BY <2>1, <2>2, <2>4, <2>5, <2>7, <2>8 DEF r
  <1> QED BY <1>1, <1>2

\* Growing what was sent does not disturb the queue.
LEMMA HoldsMore ==
  ASSUME NEW s \in 0..MaxData, NEW r \in 0..s, NEW q, Holds(q, r, s)
  PROVE  Holds(q, r, s + 1)
PROOF
  <1>1. ASSUME NEW i \in 0..q.count-1, r + i < s PROVE r + i < s + 1
    <2>1. q.count \in Nat /\ r \in Nat /\ s \in Nat
      BY HoldsPlaces, DataConstants
    <2> QED BY <1>1, <2>1
  <1> QED BY <1>1 DEF Holds

\* The queue of a new connection waits for datum 0.
LEMMA NewQueueHolds ==
  ASSUME NEW b \in 0..SeqMod-1
  PROVE  LET q == EmptyQueue(b)
         IN  /\ q \in QueueOver(Data) /\ q.begin = b /\ LastIsSet(q) /\ HeadIsGap(q)
             /\ Users(q) = {}
             /\ \A s \in Nat : b = Tag => Holds(q, 0, s)
PROOF
  <1> DEFINE q == EmptyQueue(b)
  <1>1. q = [begin |-> b, count |-> 0, slot |-> [i \in 0..QueueSize-1 |-> NoUser]]
    BY DEF EmptyQueue
  <1>2. q.begin = b /\ q.count = 0
    BY <1>1
  <1>3. b \in RawSeq /\ 0 \in 0..QueueSize
    BY DataConstants DEF RawSeq
  <1>4. q \in QueueOver(Data)
    BY <1>1, <1>3 DEF QueueOver
  <1> HIDE DEF q
  <1>5. LastIsSet(q) /\ HeadIsGap(q) /\ Users(q) = {}
    BY <1>2 DEF LastIsSet, HeadIsGap, Users, SetIndices
  <1>6. SeqOf(0) = Tag
    BY DataConstants DEF SeqOf
  <1>7. \A s : b = Tag => Holds(q, 0, s)
    BY <1>2, <1>4, <1>5, <1>6 DEF Holds
  <1> QED BY <1>2, <1>4, <1>5, <1>7 DEF q

\* The steps that touch neither the data nor the key.
DataKept ==
  /\ UNCHANGED <<queue, received, crypt, verified, acked, sent>>
  /\ acks' \subseteq acks
  /\ Handshaking' => Handshaking
  /\ Looping' => Looping
  /\ Connected' => Connected

\* a COOKIE_ACK arrives
Connects == Handshaking /\ CookieAck("cookie ack") /\
            UNCHANGED <<received, crypt, verified, acked, sent, acks>>

\* Which steps change which of the variables.
LEMMA Moves ==
  ASSUME [Next]_vars
  PROVE  \/ DataKept \/ Connects \/ Recheck \/ LeaveLoop \/ SendData
         \/ \E n \in net : HandleData(n)
         \/ \E a \in acks : GetAck(a)
PROOF
  <1> USE DEF connVars, dataVars, avVars, consoleVars
  <1>1. CASE SendInit \/ SendCookie
    BY <1>1 DEF SendInit, SendCookie, Transmit, DataKept, Handshaking, Looping, Connected
  <1>2. CASE ReceiveFails
    BY <1>2 DEF ReceiveFails, Retry, DataKept, Handshaking, Looping, Connected
  <1>3. ASSUME NEW m \in down, HandshakeMessage(m) PROVE DataKept \/ Connects
    <2>1. UNCHANGED <<received, crypt, verified, acked, sent, acks>>
      BY <1>3 DEF HandshakeMessage
    <2>2. CASE InitAck(m) /\ UNCHANGED queue
      BY <2>1, <2>2 DEF InitAck, Retry, DataKept, Handshaking, Looping, Connected
    <2>3. CASE CookieAck(m) /\ m = "cookie ack"
      BY <2>1, <2>3 DEF CookieAck, Connects, Handshaking
    <2>4. CASE CookieAck(m) /\ m # "cookie ack"
      BY <2>1, <2>4 DEF CookieAck, Retry, DataKept, Handshaking, Looping, Connected
    <2>5. CASE Connected /\ UNCHANGED <<pc, tries, queue>>
      BY <2>1, <2>5 DEF DataKept, Handshaking, Looping, Connected
    <2> QED BY <1>3, <2>2, <2>3, <2>4, <2>5 DEF HandshakeMessage
  <1>4. ASSUME NEW n, DataTooEarly(n) PROVE DataKept
    BY <1>4 DEF DataTooEarly, Retry, DataKept, Handshaking, Looping, Connected
  <1>5. CASE FlushPostponed \/ Close \/ Answer \/ SendAV
    BY <1>5 DEF FlushPostponed, Close, Answer, SendAV, DataKept, Handshaking, Looping, Connected
  <1>6. ASSUME NEW n, HandleAV(n) \/ SendAgain(n) PROVE DataKept
    BY <1>6 DEF HandleAV, SendAgain, DataKept, Handshaking, Looping, Connected
  <1>7. CASE Lose
    BY <1>7 DEF Lose, DataKept, Handshaking, Looping, Connected
  <1>8. CASE UNCHANGED vars
    BY <1>8 DEF vars, DataKept, Handshaking, Looping, Connected
  <1> QED
    BY <1>1, <1>2, <1>3, <1>4, <1>5, <1>6, <1>7, <1>8 DEF Next, Handshake, Loop, Console

\* A copy of an acknowledgement names one datum: what the console takes for
\* received was received.
LEMMA AckStep ==
  ASSUME CountInv, ChannelInv, NEW a \in acks, GetAck(a)
  PROVE  /\ acked' \in 0..Len(received)
         /\ acked' # acked => acked' \in acked+1..Len(received)
PROOF
  <1> DEFINE new == {n \in acked..sent-1 : SeqOf(n) = a}
             r == Len(received)
  <1>1. acked' = IF new = {} THEN acked ELSE 1 + CHOOSE n \in new : TRUE
    BY DEF GetAck
  <1>2. /\ acked \in 0..r /\ r \in Nat /\ r <= sent /\ sent \in 0..MaxData
        /\ a \in {SeqOf(n) : n \in 0..r-1}
    BY DEF ChannelInv, CountInv
  <1>3. CASE new = {}
    BY <1>1, <1>2, <1>3
  <1>4. CASE new # {}
    <2>1. PICK n \in new : acked' = 1 + n
      BY <1>1, <1>4
    <2>2. PICK m \in 0..r-1 : a = SeqOf(m)
      BY <1>2
    <2>3. /\ n \in acked..sent-1 /\ n \in Nat /\ m \in Nat /\ SeqOf(n) = SeqOf(m)
          /\ n - m < SeqMod /\ m - n < SeqMod
      BY <1>2, <2>1, <2>2, DataConstants
    <2>4. n = m
      BY <2>3, SeqOfApart
    <2> HIDE DEF new, r
    <2> QED BY <1>2, <2>1, <2>2, <2>3, <2>4 DEF r
  <1> QED BY <1>3, <1>4

\* The data received stay the beginning of the data sent.
LEMMA ChannelStep == CountInv /\ ChannelInv /\ [Next]_vars => ChannelInv'
PROOF
  <1> SUFFICES ASSUME CountInv, ChannelInv, [Next]_vars PROVE ChannelInv'
    OBVIOUS
  <1> DEFINE r == Len(received)
  <1>1. /\ received \in Seq(Data) /\ r \in Nat /\ r <= sent
        /\ \A i \in 1..r : received[i] = i - 1
        /\ acks \subseteq {SeqOf(n) : n \in 0..r-1}
        /\ acked \in 0..r
        /\ Handshaking => received = <<>>
        /\ Looping => Holds(queue, r, sent) /\ HeadIsGap(queue)
        /\ queue \in QueueOver(Data) /\ queue.begin \in 0..SeqMod-1
    BY DEF ChannelInv
  <1>2. sent \in 0..MaxData /\ sent \in Nat
    BY DataConstants DEF CountInv
  <1>3. CASE DataKept
    <2> USE DEF ChannelInv, DataKept, Holds, HeadIsGap, LastIsSet, UserAt, SeqAt
    <2> QED BY <1>3
  <1>4. CASE Connects
    <2>1. /\ queue' = EmptyQueue(Tag) /\ Handshaking /\ pc' = "loop"
          /\ UNCHANGED <<received, acked, sent, acks>>
      BY <1>4 DEF Connects, CookieAck
    <2>2. received = <<>> /\ r = 0 /\ Tag \in 0..SeqMod-1
      BY <1>1, <2>1, DataConstants
    <2>3. /\ queue' \in QueueOver(Data) /\ queue'.begin \in 0..SeqMod-1
          /\ HeadIsGap(queue') /\ Holds(queue', 0, sent)
      BY <1>2, <2>1, <2>2, NewQueueHolds
    <2>4. ~Handshaking'
      BY <2>1 DEF Handshaking
    <2> HIDE DEF r
    <2>5. r = Len(received)
      BY DEF r
    <2> QED BY <1>1, <2>1, <2>2, <2>3, <2>4, <2>5 DEF ChannelInv
  <1>5. CASE Recheck
    <2>1. UNCHANGED <<received, acked, sent, acks, queue>> /\ Looping /\ ~Handshaking'
      BY <1>5 DEF Recheck, Looping, Handshaking, Connected, consoleVars
    <2> QED BY <1>1, <2>1 DEF ChannelInv
  <1>6. CASE LeaveLoop
    <2>1. /\ UNCHANGED <<received, acked, sent, acks>> /\ pc' = "ended"
          /\ queue' = EmptyQueue(queue.begin)
      BY <1>6 DEF LeaveLoop, consoleVars
    <2>2. queue' \in QueueOver(Data) /\ queue'.begin \in 0..SeqMod-1
      BY <1>1, <2>1, NewQueueHolds
    <2>3. ~Handshaking' /\ ~Looping'
      BY <2>1 DEF Handshaking, Looping
    <2> QED BY <1>1, <2>1, <2>2, <2>3 DEF ChannelInv
  <1>7. CASE SendData
    <2>1. /\ UNCHANGED <<received, acked, acks, queue, pc>> /\ sent' = sent + 1
      BY <1>7 DEF SendData, connVars, dataVars
    <2>2. Looping => Holds(queue, r, sent + 1)
      BY <1>1, <1>2, HoldsMore
    <2>3. r <= sent'
      BY <1>1, <1>2, <2>1
    <2> QED BY <1>1, <2>1, <2>2, <2>3 DEF ChannelInv, Handshaking, Looping
  <1>8. ASSUME NEW a \in acks, GetAck(a) PROVE ChannelInv'
    <2>1. /\ UNCHANGED <<received, queue, pc, sent>> /\ acks' \subseteq acks
      BY <1>8 DEF GetAck, connVars, dataVars
    <2>2. acked' \in 0..r
      BY <1>8, AckStep
    <2> QED BY <1>1, <2>1, <2>2 DEF ChannelInv, Handshaking, Looping
  <1>9. ASSUME NEW n \in net, HandleData(n) PROVE ChannelInv'
    <2>1. UNCHANGED <<pc, sent, acked>> /\ pc = "loop"
      BY <1>9 DEF HandleData, connVars, consoleVars, Receiving, Connected
    <2>2. ~Handshaking' /\ Looping' /\ Looping
      BY <2>1 DEF Handshaking, Looping
    <2>3. CASE UNCHANGED <<queue, received, acks, crypt, verified>>
      BY <1>1, <2>1, <2>2, <2>3 DEF ChannelInv
    <2>4. ASSUME NEW k \in Nat, NEW out \in Seq(Data),
                 /\ Len(out) = k /\ r + k <= sent
                 /\ received' = received \o out
                 /\ \A i \in 1..k : out[i] = r + i - 1
                 /\ Holds(queue', r + k, sent)
                 /\ HeadIsGap(queue')
                 /\ acks' = IF k = 0 THEN acks ELSE acks \union {SeqOf(r + k - 1)}
          PROVE  ChannelInv'
      <3>1. /\ received' \in Seq(Data) /\ Len(received') = r + k
            /\ \A i \in 1..r+k : received'[i] = IF i <= r THEN received[i] ELSE out[i - r]
        <4>1. received \in Seq(Data) /\ out \in Seq(Data) /\ Len(received) = r /\ Len(out) = k
          BY <1>1, <2>4
        <4> HIDE DEF r
        <4>2. /\ received \o out \in Seq(Data)
              /\ Len(received \o out) = Len(received) + Len(out)
              /\ \A i \in 1..Len(received)+Len(out) :
                   (received \o out)[i] = IF i <= Len(received) THEN received[i]
                                          ELSE out[i - Len(received)]
          BY <4>1, ConcatProperties
        <4> QED BY <2>4, <4>1, <4>2
      <3>2. \A i \in 1..Len(received') : received'[i] = i - 1
        BY <1>1, <2>4, <3>1
      <3>3. acks' \subseteq {SeqOf(m) : m \in 0..Len(received')-1}
        <4>1. Len(received') = r + k /\ r \in Nat /\ r <= r + k
          BY <1>1, <3>1
        <4> HIDE DEF r
        <4>2. ASSUME NEW m \in 0..r-1 PROVE SeqOf(m) \in {SeqOf(j) : j \in 0..Len(received')-1}
          <5>1. m \in 0..Len(received')-1
            BY <4>1
          <5> QED BY <5>1
        <4>3. ASSUME k > 0 PROVE SeqOf(r + k - 1) \in {SeqOf(j) : j \in 0..Len(received')-1}
          <5>1. r + k - 1 \in 0..Len(received')-1
            BY <4>1, <4>3
          <5> QED BY <5>1
        <4>4. \A a \in acks : \E m \in 0..r-1 : a = SeqOf(m)
          BY <1>1
        <4>5. k = 0 \/ k > 0
          OBVIOUS
        <4> QED BY <2>4, <4>2, <4>3, <4>4, <4>5
      <3>4. acked' \in 0..Len(received') /\ Len(received') <= sent'
        BY <1>1, <2>1, <2>4, <3>1
      <3>5. queue' \in QueueOver(Data) /\ queue'.begin \in 0..SeqMod-1
        <4>1. r + k \in Nat
          BY <1>1
        <4> QED BY <2>4, <4>1, SeqOfPlace DEF Holds
      <3> HIDE DEF r
      <3> QED BY <2>1, <2>2, <2>4, <3>1, <3>2, <3>3, <3>4, <3>5 DEF ChannelInv
    <2> QED BY <1>9, <2>3, <2>4, HandleDataDoes
  <1> QED
    BY <1>3, <1>4, <1>5, <1>6, <1>7, <1>8, <1>9, Moves

\* With the key in use, what the queue holds was checked when it came in: it
\* was empty when the key came into use.
LEMMA KeyStep == CountInv /\ ChannelInv /\ KeyInv /\ [Next]_vars => KeyInv'
PROOF
  <1> SUFFICES ASSUME CountInv, ChannelInv, KeyInv, [Next]_vars PROVE KeyInv'
    OBVIOUS
  <1>1. /\ crypt \in {"none", "set", "available"}
        /\ verified \subseteq Data
        /\ Connected /\ crypt = "available" => Users(queue) \subseteq verified
    BY DEF KeyInv
  <1>2. CASE DataKept
    BY <1>1, <1>2 DEF KeyInv, DataKept, Users, SetIndices, UserAt, SeqAt
  <1>3. CASE Connects
    <2>1. /\ queue' = EmptyQueue(Tag) /\ UNCHANGED <<crypt, verified>>
      BY <1>3 DEF Connects, CookieAck
    <2>2. Users(queue') = {}
      BY <2>1, NewQueueHolds, DataConstants
    <2> QED BY <1>1, <2>1, <2>2 DEF KeyInv
  <1>4. CASE Recheck
    <2>1. UNCHANGED <<queue, verified>> /\ Connected
      BY <1>4 DEF Recheck
    <2>2. CASE SetIndices(queue) = {}
      <3>1. crypt' = "available"
        BY <1>4, <2>2 DEF Recheck
      <3>2. Users(queue') = {}
        BY <2>1, <2>2 DEF Users, SetIndices, UserAt, SeqAt
      <3> QED BY <1>1, <2>1, <3>1, <3>2 DEF KeyInv
    <2>3. CASE SetIndices(queue) # {}
      <3>1. crypt' = crypt /\ pc' = "crashed"
        BY <1>4, <2>3 DEF Recheck
      <3> QED BY <1>1, <2>1, <3>1 DEF KeyInv, Connected
    <2> QED BY <2>2, <2>3
  <1>5. CASE LeaveLoop
    BY <1>1, <1>5 DEF LeaveLoop, KeyInv, Connected
  <1>6. CASE SendData
    BY <1>1, <1>6 DEF SendData, connVars, dataVars, KeyInv, Connected, Users, SetIndices, UserAt, SeqAt
  <1>7. ASSUME NEW a \in acks, GetAck(a) PROVE KeyInv'
    BY <1>1, <1>7 DEF GetAck, connVars, dataVars, KeyInv, Connected, Users, SetIndices, UserAt, SeqAt
  <1>8. ASSUME NEW n \in net, HandleData(n) PROVE KeyInv'
    <2>1. Connected /\ n \in Data
      <3>1. n \in 0..sent-1 /\ sent \in 0..MaxData
        BY DEF CountInv
      <3> QED BY <1>8, <3>1, DataConstants DEF HandleData, Receiving, Data
    <2>2. CASE UNCHANGED <<queue, received, acks, crypt, verified>>
      BY <1>1, <2>1, <2>2 DEF KeyInv, Connected, Users, SetIndices, UserAt, SeqAt
    <2>3. ASSUME /\ Users(queue') \subseteq Users(queue) \union {n}
                 /\ verified' = IF crypt = "available" THEN verified \union {n} ELSE verified
                 /\ crypt' \in {crypt, "set"}
          PROVE  KeyInv'
      BY <1>1, <2>1, <2>3 DEF KeyInv
    <2> QED BY <1>8, <2>2, <2>3, HandleDataDoes
  <1> QED
    BY <1>2, <1>3, <1>4, <1>5, <1>6, <1>7, <1>8, Moves

-----------------------------------------------------------------------------
(* Sequences                                                               *)

\* A suffix of a sequence.
LEMMA SuffixOf ==
  ASSUME NEW S, NEW s \in Seq(S), NEW m \in 1..Len(s)+1
  PROVE  LET t == SubSeq(s, m, Len(s))
         IN  /\ t \in Seq(S) /\ Len(t) = Len(s) - m + 1
             /\ \A i \in 1..Len(t) : t[i] = s[m + i - 1]
PROOF
  <1>1. Len(s) \in Nat /\ m \in Int /\ Len(s) \in Int /\ m >= 1 /\ m <= Len(s) + 1
    BY LenProperties
  <1>2. \A i \in m..Len(s) : s[i] \in S
    BY <1>1, ElementOfSeq
  <1>3. /\ SubSeq(s, m, Len(s)) \in Seq(S)
        /\ Len(SubSeq(s, m, Len(s))) = IF m <= Len(s) THEN Len(s)-m+1 ELSE 0
        /\ \A i \in 1..Len(s)-m+1 : SubSeq(s, m, Len(s))[i] = s[m+i-1]
    BY <1>1, <1>2, SubSeqProperties
  <1> QED BY <1>1, <1>3

-----------------------------------------------------------------------------
(* Audio and video packets                                                 *)

\* The steps that concern them.
LEMMA AVMoves ==
  ASSUME [Next]_vars
  PROVE  \/ UNCHANGED avVars /\ (crypt' = "none" => crypt = "none")
         \/ FlushPostponed
         \/ \E n \in av : HandleAV(n)
PROOF
  <1> USE DEF dataVars, avVars
  <1>1. ASSUME NEW n, HandleData(n) PROVE UNCHANGED avVars /\ (crypt' = "none" => crypt = "none")
    <2>1. UNCHANGED crypt \/ \E p : FlushDataQueue(p)
      BY <1>1 DEF HandleData
    <2>2. ASSUME NEW p, FlushDataQueue(p) PROVE crypt' = "none" => crypt = "none"
      BY <2>2 DEF FlushDataQueue
    <2> QED BY <1>1, <2>1, <2>2 DEF HandleData
  <1>2. CASE Recheck
    BY <1>2 DEF Recheck
  <1>3. CASE Handshake
    BY <1>3 DEF Handshake, SendInit, SendCookie, ReceiveFails, HandshakeMessage, DataTooEarly
  <1>4. CASE LeaveLoop \/ Close \/ Lose \/ UNCHANGED vars
    BY <1>4 DEF LeaveLoop, Close, Lose, vars
  <1>5. CASE Console
    BY <1>5 DEF Console, Answer, SendData, SendAgain, SendAV, GetAck
  <1> QED BY <1>1, <1>2, <1>3, <1>4, <1>5 DEF Next, Loop

\* Appending to the end, where the two sequences are told apart by length.
LEMMA AppendAt ==
  ASSUME NEW S, NEW q \in Seq(S), NEW e \in S
  PROVE  /\ Append(q, e) \in Seq(S)
         /\ Len(Append(q, e)) = Len(q) + 1
         /\ Append(q, e)[Len(q) + 1] = e
         /\ \A i \in 1..Len(q) : Append(q, e)[i] = q[i]
BY AppendProperties

\* Of the audio and video packets the first ones that came before the key are
\* kept, and all that came after.
LEMMA AVStep == CountInv /\ KeyInv /\ AVInv /\ [Next]_vars => AVInv'
PROOF
  <1> SUFFICES ASSUME CountInv, KeyInv, AVInv, [Next]_vars PROVE AVInv'
    OBVIOUS
  <1> DEFINE T == 0..MaxAV-1
  <1>1. /\ postponed \in Seq(T) /\ avArrived \in Seq(T) /\ avHandled \in Seq(T)
        /\ Len(postponed) <= PostponeSize
        /\ crypt = "none" => avHandled = <<>>
        /\ crypt = "none" => Gone = 0 \/ Len(postponed) = PostponeSize
        /\ Gone >= 0
        /\ Gone = 0 \/ PostponeSize <= Len(Kept)
        /\ \A i \in 1..Len(Kept) : Kept[i] = avArrived[IF i <= PostponeSize THEN i ELSE i + Gone]
    BY DEF AVInv
  <1>2. Kept \in Seq(T) /\ Len(Kept) \in Nat /\ Len(avArrived) \in Nat /\ Gone = Len(avArrived) - Len(Kept)
        /\ PostponeSize \in Nat /\ Len(postponed) \in Nat
    <2>1. Kept \in Seq(T)
      <3> HIDE DEF T
      <3> QED BY <1>1, ConcatProperties DEF Kept
    <2>2. Len(Kept) \in Nat /\ Len(avArrived) \in Nat /\ Len(postponed) \in Nat
      <3> HIDE DEF T
      <3> QED BY <1>1, <2>1, LenProperties
    <2> QED BY <2>1, <2>2, DataConstants DEF Gone
  <1>3. CASE UNCHANGED avVars /\ (crypt' = "none" => crypt = "none")
    <2>1. UNCHANGED <<postponed, avArrived, avHandled>> /\ Kept' = Kept /\ Gone' = Gone
      BY <1>3 DEF avVars, Kept, Gone
    <2> QED BY <1>1, <1>3, <2>1 DEF AVInv
  <1>4. CASE FlushPostponed
    <2>1. /\ avHandled' = Kept /\ postponed' = <<>> /\ UNCHANGED avArrived /\ crypt' # "none"
      BY <1>4 DEF FlushPostponed, Kept, dataVars
    <2>2. Kept' = Kept
      BY <1>2, <2>1, ConcatEmptySeq DEF Kept
    <2>3. Gone' = Gone
      BY <2>1, <2>2 DEF Gone
    <2>4. postponed' \in Seq(T) /\ Len(postponed') <= PostponeSize
      BY <1>2, <2>1
    <2> QED BY <1>1, <1>2, <2>1, <2>2, <2>3, <2>4 DEF AVInv
  <1>5. ASSUME NEW n \in av, HandleAV(n) PROVE AVInv'
    <2>1. /\ n \in T /\ avArrived' = Append(avArrived, n) /\ UNCHANGED crypt /\ Receiving
          /\ \/ crypt = "none" /\ Postpone(n) /\ UNCHANGED avHandled
             \/ crypt # "none" /\ avHandled' = Append(avHandled, n) /\ UNCHANGED postponed
      <3>1. n \in 0..avSent-1 /\ avSent \in 0..MaxAV
        BY DEF CountInv
      <3>2. n \in T
        BY <3>1, DataConstants
      <3> QED BY <1>5, <3>2 DEF HandleAV, dataVars
    <2>2. /\ avArrived' \in Seq(T) /\ Len(avArrived') = Len(avArrived) + 1
          /\ avArrived'[Len(avArrived) + 1] = n
          /\ \A i \in 1..Len(avArrived) : avArrived'[i] = avArrived[i]
      BY <1>1, <2>1, AppendAt
    <2>3. ASSUME NEW s \in Seq(T)
          PROVE  /\ Append(s, n) \in Seq(T) /\ Len(Append(s, n)) = Len(s) + 1
                 /\ Append(s, n)[Len(s) + 1] = n
                 /\ \A i \in 1..Len(s) : Append(s, n)[i] = s[i]
      BY <2>1, AppendAt
    <2>4. CASE crypt = "none" /\ Len(postponed) = PostponeSize
      <3>1. UNCHANGED <<postponed, avHandled>> /\ Kept' = Kept /\ Kept = postponed
        <4>1. UNCHANGED <<postponed, avHandled>> /\ avHandled = <<>>
          BY <1>1, <2>1, <2>4 DEF Postpone
        <4> QED BY <1>1, <4>1, ConcatEmptySeq DEF Kept
      <3>2. Gone' = Gone + 1
        BY <1>2, <2>2, <3>1 DEF Gone
      <3>3. Len(Kept) = PostponeSize
        BY <2>4, <3>1
      <3>4. \A i \in 1..Len(Kept) : i <= PostponeSize /\ i \in 1..Len(avArrived)
        BY <1>1, <1>2, <3>3
      <3>5. \A i \in 1..Len(Kept') : Kept'[i] = avArrived'[IF i <= PostponeSize THEN i ELSE i + Gone']
        BY <1>1, <2>2, <3>1, <3>4
      <3> QED BY <1>1, <1>2, <2>1, <2>2, <2>4, <3>1, <3>2, <3>3, <3>5 DEF AVInv
    <2>5. CASE crypt = "none" /\ Len(postponed) # PostponeSize
      <3>1. postponed' = Append(postponed, n) /\ avHandled' = <<>> /\ avHandled = <<>>
        BY <1>1, <2>1, <2>5 DEF Postpone
      <3>2. Kept = postponed /\ Kept' = Append(Kept, n)
        <4>1. postponed' \in Seq(T)
          BY <1>1, <2>3, <3>1
        <4> QED BY <1>1, <3>1, <4>1, ConcatEmptySeq DEF Kept
      <3>3. /\ postponed' \in Seq(T) /\ Len(Kept') = Len(Kept) + 1 /\ Kept'[Len(Kept) + 1] = n
            /\ \A i \in 1..Len(Kept) : Kept'[i] = Kept[i]
        BY <1>1, <1>2, <2>3, <3>1, <3>2
      <3>4. Gone = 0 /\ Gone' = 0 /\ Len(Kept) = Len(avArrived)
        BY <1>1, <1>2, <2>2, <2>5, <3>3 DEF Gone
      <3>5. Len(postponed') <= PostponeSize /\ Len(Kept') <= PostponeSize
        BY <1>1, <1>2, <2>3, <2>5, <3>1, <3>2
      <3>6. ASSUME NEW i \in 1..Len(Kept')
            PROVE  Kept'[i] = avArrived'[IF i <= PostponeSize THEN i ELSE i + Gone']
        <4>1. i <= PostponeSize
          BY <1>2, <3>3, <3>5
        <4>2. CASE i \in 1..Len(Kept)
          BY <1>1, <2>2, <3>3, <3>4, <4>1, <4>2
        <4>3. CASE i = Len(Kept) + 1
          BY <2>2, <3>3, <3>4, <4>1, <4>3
        <4> QED BY <1>2, <3>3, <4>2, <4>3
      <3>7. avHandled' \in Seq(T)
        BY <1>1, <3>1
      <3> QED BY <2>1, <2>2, <3>1, <3>3, <3>4, <3>5, <3>6, <3>7 DEF AVInv
    <2>6. CASE crypt # "none"
      <3>1. postponed = <<>> /\ postponed' = <<>> /\ avHandled' = Append(avHandled, n)
        BY <2>1, <2>6 DEF Receiving, KeyInv
      <3>2. Kept = avHandled /\ Kept' = Append(Kept, n) /\ avHandled' \in Seq(T)
        <4>1. avHandled' \in Seq(T)
          BY <1>1, <2>3, <3>1
        <4> QED BY <1>1, <3>1, <4>1, ConcatEmptySeq DEF Kept
      <3>3. /\ Len(Kept') = Len(Kept) + 1 /\ Kept'[Len(Kept) + 1] = n
            /\ \A i \in 1..Len(Kept) : Kept'[i] = Kept[i]
        BY <1>2, <2>3, <3>2
      <3>4. Gone' = Gone
        BY <1>2, <2>2, <3>3 DEF Gone
      <3>5. ASSUME NEW i \in 1..Len(Kept')
            PROVE  Kept'[i] = avArrived'[IF i <= PostponeSize THEN i ELSE i + Gone']
        <4>1. CASE i \in 1..Len(Kept)
          <5>1. (IF i <= PostponeSize THEN i ELSE i + Gone) \in 1..Len(avArrived)
            BY <1>1, <1>2, <4>1
          <5> QED BY <1>1, <2>2, <3>3, <3>4, <4>1, <5>1
        <4>2. CASE i = Len(Kept) + 1
          <5>1. (IF i <= PostponeSize THEN i ELSE i + Gone) = Len(avArrived) + 1
            BY <1>1, <1>2, <4>2
          <5> QED BY <2>2, <3>3, <3>4, <4>2, <5>1
        <4> QED BY <1>2, <3>3, <4>1, <4>2
      <3>6. Gone' = 0 \/ PostponeSize <= Len(Kept')
        BY <1>1, <1>2, <3>3, <3>4
      <3> QED BY <1>1, <2>1, <2>2, <2>6, <3>1, <3>2, <3>4, <3>5, <3>6 DEF AVInv
    <2> QED BY <2>4, <2>5, <2>6
  <1> QED BY <1>3, <1>4, <1>5, AVMoves

-----------------------------------------------------------------------------
(* The specification                                                       *)

\* Every step keeps the invariant.
LEMMA NextIInv == IInv /\ [Next]_vars => IInv'
BY PlaceStep, WireStep, CountStep, StoppedStep, ChannelStep, KeyStep, AVStep DEF IInv

\* It holds of every behaviour of the code.
LEMMA SpecIInv == Spec => []IInv
PROOF
  <1> QED BY InitOK, NextIInv, PTL DEF Spec

\* Every variable keeps its type: the queue its size, the entries of its ring
\* the data there are, the space for postponed packets its bound.
THEOREM DataTypes == Spec => []DataTypeOK
PROOF
  <1>1. IInv => DataTypeOK
    <2> SUFFICES ASSUME IInv PROVE DataTypeOK
      OBVIOUS
    <2>1. /\ pc \in {"send init", "init ack", "send cookie", "cookie ack", "second", "loop",
                     "ended", "crashed"}
          /\ tries \in 0..MaxTries
      BY DEF IInv, PlaceInv, Handshaking, Looping
    <2>2. stopped \in BOOLEAN
      BY DEF IInv, StoppedInv
    <2>3. queue \in [begin : 0..SeqMod-1, count : 0..QueueSize,
                     slot : [0..QueueSize-1 -> 0..MaxData-1 \union {NoUser}]]
      BY DEF IInv, ChannelInv, QueueOver, Data
    <2>4. /\ crypt \in {"none", "set", "available"}
          /\ verified \subseteq 0..MaxData-1
      BY DEF IInv, KeyInv, Data
    <2>5. received \in Seq(0..MaxData-1)
      BY DEF IInv, ChannelInv, Data
    <2>6. /\ Len(postponed) <= PostponeSize
          /\ {postponed, avArrived, avHandled} \subseteq Seq(0..MaxAV-1)
      BY DEF IInv, AVInv
    <2>7. up \subseteq {"init", "cookie"}
      BY DEF IInv, UpInv
    <2>8. down \subseteq {"init ack", "cookie ack"}
      BY DEF IInv, DownInv
    <2>9. net \subseteq 0..sent-1 /\ av \subseteq 0..avSent-1 /\ sent \in 0..MaxData /\ avSent \in 0..MaxAV
      BY DEF IInv, CountInv
    <2>10. acks \subseteq 0..SeqMod-1 /\ acked \in 0..sent
      <3>1. /\ Len(received) \in Nat /\ Len(received) <= sent /\ acked \in 0..Len(received)
            /\ sent \in Nat
            /\ \A a \in acks : \E n \in 0..Len(received)-1 : a = SeqOf(n)
        <4>1. /\ Len(received) <= sent /\ acked \in 0..Len(received)
              /\ \A a \in acks : \E n \in 0..Len(received)-1 : a = SeqOf(n)
          BY DEF IInv, ChannelInv
        <4>2. sent \in Nat
          BY <2>9, DataConstants
        <4> QED BY <2>5, <4>1, <4>2, LenProperties
      <3>2. \A a \in acks : a \in 0..SeqMod-1
        BY <3>1, SeqOfPlace
      <3> QED BY <3>1, <3>2
    <2> QED BY <2>1, <2>2, <2>3, <2>4, <2>5, <2>6, <2>7, <2>8, <2>9, <2>10 DEF DataTypeOK
  <1> QED BY <1>1, SpecIInv, PTL

\* Audio and video packets are passed on in the order they came, whether they
\* were postponed or not; those there was no space for are the last before
\* the key.
THEOREM AVOrderKept == Spec => []AVInArrivalOrder
PROOF
  <1>1. AVInv => AVInArrivalOrder
    <2> SUFFICES ASSUME AVInv PROVE AVInArrivalOrder
      OBVIOUS
    <2> DEFINE T == 0..MaxAV-1
               a == SubSeq(avArrived, 1, PostponeSize)
               b == SubSeq(avArrived, PostponeSize + Gone + 1, Len(avArrived))
    <2>1. /\ avArrived \in Seq(T) /\ Kept \in Seq(T)
          /\ Len(Kept) \in Nat /\ Len(avArrived) \in Nat /\ PostponeSize \in Nat
      <3>1. avArrived \in Seq(T) /\ avHandled \in Seq(T) /\ postponed \in Seq(T)
        BY DEF AVInv
      <3> HIDE DEF T
      <3>2. Kept \in Seq(T)
        BY <3>1, ConcatProperties DEF Kept
      <3> QED BY <3>1, <3>2, LenProperties, DataConstants
    <2>2. /\ Gone = Len(avArrived) - Len(Kept) /\ Gone >= 0
          /\ Gone = 0 \/ PostponeSize <= Len(Kept)
          /\ \A i \in 1..Len(Kept) : Kept[i] = avArrived[IF i <= PostponeSize THEN i ELSE i + Gone]
      BY DEF AVInv, Gone
    <2>3. CASE Gone = 0
      <3>1. Len(Kept) = Len(avArrived) /\ \A i \in 1..Len(Kept) : Kept[i] = avArrived[i]
        BY <2>1, <2>2, <2>3
      <3>2. Kept = avArrived
        <4> HIDE DEF T
        <4> QED BY <2>1, <3>1, SeqEqual
      <3> QED BY <3>2 DEF AVInArrivalOrder, Kept, AVInv
    <2>4. CASE Gone # 0
      <3>1. /\ PostponeSize <= Len(Kept) /\ Gone \in Nat /\ PostponeSize <= Len(avArrived)
            /\ PostponeSize + Gone + 1 <= Len(avArrived) + 1
        BY <2>1, <2>2, <2>4
      <3>2. /\ a \in Seq(T) /\ Len(a) = PostponeSize
            /\ \A i \in 1..PostponeSize : a[i] = avArrived[i]
        <4> HIDE DEF T
        <4> QED BY <2>1, <3>1, SubSeqProperties
      <3>3. /\ b \in Seq(T) /\ Len(b) = Len(avArrived) - (PostponeSize + Gone)
            /\ \A i \in 1..Len(b) : b[i] = avArrived[PostponeSize + Gone + i]
        <4> DEFINE m == PostponeSize + Gone + 1
        <4>1. m \in 1..Len(avArrived)+1 /\ m \in Nat
          BY <2>1, <3>1
        <4> HIDE DEF T, m
        <4>2. LET t == SubSeq(avArrived, m, Len(avArrived))
              IN  /\ t \in Seq(T) /\ Len(t) = Len(avArrived) - m + 1
                  /\ \A i \in 1..Len(t) : t[i] = avArrived[m + i - 1]
          BY <2>1, <4>1, SuffixOf
        <4>3. b = SubSeq(avArrived, m, Len(avArrived))
          BY DEF m
        <4> HIDE DEF b
        <4>4. Len(avArrived) - m + 1 = Len(avArrived) - (PostponeSize + Gone)
          BY <2>1, <3>1 DEF m
        <4>5. \A i \in Nat : m + i - 1 = PostponeSize + Gone + i
          BY <2>1, <3>1 DEF m
        <4>6. b \in Seq(T) /\ Len(b) = Len(avArrived) - (PostponeSize + Gone)
          BY <4>2, <4>3, <4>4
        <4>7. ASSUME NEW i \in 1..Len(b) PROVE b[i] = avArrived[PostponeSize + Gone + i]
          <5>1. Len(b) \in Nat
            BY <4>6, LenProperties
          <5>2. i \in Nat
            BY <5>1
          <5>3. b[i] = avArrived[m + i - 1]
            BY <4>2, <4>3
          <5> QED BY <4>5, <5>2, <5>3
        <4> QED BY <4>6, <4>7
      <3> HIDE DEF a, b, T
      <3>4. /\ a \o b \in Seq(T) /\ Len(a \o b) = Len(a) + Len(b)
            /\ \A i \in 1..Len(a)+Len(b) : (a \o b)[i] = IF i <= Len(a) THEN a[i] ELSE b[i - Len(a)]
        BY <3>2, <3>3, ConcatProperties
      <3>5. Len(a \o b) = Len(Kept)
        <4>1. Len(b) = Len(avArrived) - (PostponeSize + Gone) /\ Len(a) = PostponeSize
              /\ Len(a \o b) = Len(a) + Len(b) /\ Gone = Len(avArrived) - Len(Kept)
          BY <2>2, <3>2, <3>3, <3>4
        <4> QED BY <2>1, <4>1
      <3>6. ASSUME NEW i \in 1..Len(Kept) PROVE Kept[i] = (a \o b)[i]
        <4>1. CASE i <= PostponeSize
          <5>1. Kept[i] = avArrived[i] /\ i \in 1..PostponeSize
            BY <2>1, <2>2, <4>1
          <5>2. (a \o b)[i] = a[i]
            BY <2>1, <3>2, <3>4, <3>5, <5>1
          <5> QED BY <3>2, <5>1, <5>2
        <4>2. CASE ~(i <= PostponeSize)
          <5>1. i - PostponeSize \in 1..Len(b) /\ PostponeSize + Gone + (i - PostponeSize) = i + Gone
            <6>1. Gone = Len(avArrived) - Len(Kept) /\ Len(b) = Len(avArrived) - (PostponeSize + Gone)
                  /\ i \in 1..Len(Kept) /\ i > PostponeSize
              BY <2>1, <2>2, <3>3, <4>2
            <6> QED BY <2>1, <3>1, <6>1
          <5>2. b[i - PostponeSize] = avArrived[i + Gone]
            BY <3>3, <5>1
          <5>3. (a \o b)[i] = b[i - Len(a)] /\ Len(a) = PostponeSize
            BY <3>2, <3>4, <3>5, <4>2
          <5>4. Kept[i] = avArrived[i + Gone]
            BY <2>2, <4>2
          <5> QED BY <5>2, <5>3, <5>4
        <4> QED BY <4>1, <4>2
      <3>7. Kept = a \o b
        BY <2>1, <3>4, <3>5, <3>6, SeqEqual
      <3> QED BY <3>7 DEF AVInArrivalOrder, Kept, Gone, AVInv, a, b
    <2> QED BY <2>3, <2>4
  <1> QED BY <1>1, SpecIInv, PTL DEF IInv

\* After the BANG nothing reaches the callback but data whose MAC was checked:
\* what was in the queue before is looked at when the key comes into use.
THEOREM OnlyCheckedData == Spec => CheckedAfterBang
PROOF
  <1> DEFINE OK == NewData \subseteq verified' \/ crypt = "none"
  <1>1. IInv /\ [Next]_vars => [OK]_vars
    <2> SUFFICES ASSUME IInv, Next PROVE OK
      OBVIOUS
    <2>1. received \in Seq(Data) /\ Len(received) \in Nat
      BY DEF IInv, ChannelInv
    <2>2. CASE UNCHANGED received
      <3>1. NewData = {}
        <4> DEFINE m == Len(received)
        <4>1. SubSeq(received, m + 1, m) = <<>>
          BY <2>1, SubSeqEmpty
        <4>2. NewData = Range(<<>>)
          BY <2>2, <4>1 DEF NewData
        <4> QED BY <4>2 DEF Range
      <3> QED BY <3>1
    <2>3. ASSUME NEW n \in net, HandleData(n) PROVE OK
      <3>1. CASE UNCHANGED <<queue, received, acks, crypt, verified>>
        BY <2>2, <3>1
      <3>2. ASSUME NEW k \in Nat, NEW out \in Seq(Data),
                   /\ Len(out) = k
                   /\ received' = received \o out
                   /\ \A i \in 1..k : out[i] \in Users(queue) \union {n}
                   /\ verified' = IF crypt = "available" THEN verified \union {n} ELSE verified
            PROVE  OK
        <4>1. crypt # "none" => crypt = "available" /\ Connected
          BY <2>3 DEF IInv, KeyInv, HandleData, Receiving
        <4>2. crypt = "available" /\ Connected => Users(queue) \subseteq verified
          BY DEF IInv, KeyInv
        <4>3. NewData = Range(out)
          <5> DEFINE c == received \o out
                     m == Len(received)
          <5>1. c \in Seq(Data) /\ Len(c) = m + k
            BY <2>1, <3>2, ConcatProperties
          <5>2. SubSeq(c, m + 1, Len(c)) = out
            <6>1. \A i \in 1..k : c[m + i] = out[i]
              BY <2>1, <3>2, ConcatProperties
            <6>2. /\ SubSeq(c, m + 1, Len(c)) \in Seq(Data)
                  /\ Len(SubSeq(c, m + 1, Len(c))) = k
                  /\ \A i \in 1..k : SubSeq(c, m + 1, Len(c))[i] = c[m + i]
              <7> DEFINE j == m + 1
              <7>1. j \in 1..Len(c)+1 /\ Len(c) - j + 1 = k /\ j \in Nat /\ m \in Nat
                BY <2>1, <5>1
              <7>2. j = m + 1
                OBVIOUS
              <7> HIDE DEF c, m, j
              <7>3. LET t == SubSeq(c, j, Len(c))
                    IN  /\ t \in Seq(Data) /\ Len(t) = Len(c) - j + 1
                        /\ \A i \in 1..Len(t) : t[i] = c[j + i - 1]
                BY <5>1, <7>1, SuffixOf
              <7>4. \A i \in Nat : j + i - 1 = m + i
                BY <7>1, <7>2
              <7> QED BY <7>1, <7>2, <7>3, <7>4
            <6> HIDE DEF c
            <6> QED BY <3>2, <6>1, <6>2, SeqEqual
          <5> QED BY <3>2, <5>2 DEF NewData
        <4>4. Range(out) = {out[i] : i \in 1..k}
          BY <3>2, RangeEquality
        <4> QED BY <3>2, <4>1, <4>2, <4>3, <4>4
      <3>3. CountInv /\ ChannelInv
        BY DEF IInv
      <3>4. \/ UNCHANGED <<queue, received, acks, crypt, verified>>
            \/ \E k \in Nat, out \in Seq(Data) :
                 /\ Len(out) = k
                 /\ received' = received \o out
                 /\ \A i \in 1..k : out[i] \in Users(queue) \union {n}
                 /\ verified' = IF crypt = "available" THEN verified \union {n} ELSE verified
        BY <2>3, <3>3, HandleDataDoes
      <3> HIDE DEF OK
      <3> QED BY <3>1, <3>2, <3>4
    <2>4. UNCHANGED received \/ \E n \in net : HandleData(n)
      BY DEF Next, Handshake, Loop, Console, SendInit, SendCookie, ReceiveFails, HandshakeMessage,
         DataTooEarly, Recheck, FlushPostponed, LeaveLoop, HandleAV, Close, Answer, SendData,
         SendAgain, SendAV, GetAck, Lose, dataVars
    <2> QED BY <2>2, <2>3, <2>4
  <1> QED BY <1>1, SpecIInv, PTL DEF Spec, CheckedAfterBang

\* The data channel implements OrderedChannel: the callback gets what the
\* console sent, in order, without a gap and once, and the console takes
\* nothing for received that was not.
THEOREM ChannelImplemented == Spec => ImplementsChannel
PROOF
  <1>1. Init => Channel!Init
    BY DEF Init, Channel!Init
  <1>2. IInv /\ IInv' /\ [Next]_vars => [Channel!Next]_(Channel!vars)
    <2> SUFFICES ASSUME IInv, IInv', [Next]_vars PROVE [Channel!Next]_(Channel!vars)
      OBVIOUS
    <2> USE DEF Channel!Next, Channel!vars
    <2>1. CASE UNCHANGED <<received, acked, sent>>
      BY <2>1
    <2>2. CASE SendData
      BY <2>2 DEF SendData, dataVars, Channel!Send
    <2>3. ASSUME NEW a \in acks, GetAck(a) PROVE [Channel!Next]_(Channel!vars)
      <3>1. acked' # acked => acked' \in acked+1..Len(received)
        BY <2>3, AckStep DEF IInv
      <3>2. UNCHANGED <<received, sent>>
        BY <2>3 DEF GetAck, dataVars
      <3> QED BY <3>1, <3>2 DEF Channel!Acknowledge
    <2>4. ASSUME NEW n \in net, HandleData(n) PROVE [Channel!Next]_(Channel!vars)
      <3>1. UNCHANGED <<acked, sent>>
        BY <2>4 DEF HandleData, consoleVars
      <3>2. CASE UNCHANGED <<queue, received, acks, crypt, verified>>
        BY <2>1, <3>1, <3>2
      <3>3. ASSUME NEW k \in Nat, NEW out \in Seq(Data), Len(out) = k,
                   received' = received \o out
            PROVE  [Channel!Next]_(Channel!vars)
        <4>1. received \in Seq(Data) /\ Len(received) \in Nat /\ sent \in Nat
          BY DataConstants DEF IInv, ChannelInv, CountInv
        <4>2. Len(received') = Len(received) + k
          BY <3>3, <4>1, ConcatProperties
        <4>3. Len(received') <= sent /\ \A i \in 1..Len(received') : received'[i] = i - 1
          BY <3>1 DEF IInv, ChannelInv
        <4>4. CASE k = 0
          <5>1. out = <<>>
            BY <3>3, <4>4
          <5>2. received' = received
            BY <3>3, <4>1, <5>1, ConcatEmptySeq
          <5> QED BY <2>1, <3>1, <5>2
        <4>5. CASE k > 0
          <5>1. Len(received') \in Len(received)+1..sent
            BY <4>1, <4>2, <4>3, <4>5
          <5>2. Channel!Receive
            BY <3>1, <4>3, <5>1 DEF Channel!Receive
          <5> QED BY <5>2
        <4> QED BY <4>4, <4>5
      <3> QED BY <2>4, <3>2, <3>3, HandleDataDoes DEF IInv
    <2>5. \/ UNCHANGED <<received, acked, sent>> \/ SendData
          \/ \E n \in net : HandleData(n)
          \/ \E a \in acks : GetAck(a)
      <3>1. CASE DataKept
        BY <3>1 DEF DataKept
      <3>2. CASE Connects \/ Recheck \/ LeaveLoop
        BY <3>2 DEF Connects, Recheck, LeaveLoop, consoleVars
      <3> QED BY <3>1, <3>2, Moves
    <2> QED BY <2>1, <2>2, <2>3, <2>4, <2>5
  <1> QED BY <1>1, <1>2, SpecIInv, PTL DEF Spec, ImplementsChannel, Channel!Spec
=============================================================================
