--------------------------- MODULE AnswerProofs ----------------------------
(***************************************************************************)
(* Another property of Parts, for every value of the constants: answers    *)
(* that are late, lost or repeated do not decide what they do not answer   *)
(* (AnswersDecide).                                                        *)
(* The variables of Parts are those of the part's module, in the order of  *)
(* its INSTANCE:                                                           *)
(*   senkusha   s1 phase, s2 finished, s3 id, s4 asked, s5 net, s6 low,    *)
(*              s7 high, s8 attempt, s9 pongs, s10 mtuIn, s11 mtuOut,      *)
(*              s12 result, s13 path, s14 unlucky;                         *)
(*   rudp       s1 counter, s2 first, s3 sender, s4 packets, s5 resender,  *)
(*              s6 net, s7 got, s8 acks, s9 dropped, s10 refused,          *)
(*              s11 raced;                                                 *)
(*   handshake  s1 call, s2 try, s3 at, s4 socket, s5 faults;              *)
(*   regist     s1 at, s2 psn, s3 stop, s4 ignored, s5 sockets,            *)
(*              s6 missing, s7 found, s8 outcome, s9 events, s10 joined;   *)
(*   candidates s1 pc, s2 guessing, s3 count, s4 open, s5 derived,         *)
(*              s6 tries, s7 received, s8 connecting, s9 responded,        *)
(*              s10 asked, s11 out, s12 result, s13 messages, s14 paired;  *)
(*   punch      s1 pc, s2 port, s3 state, s4 reqId, s5 result, s6 used,    *)
(*              s7 queue, s8 stop, s9 wsStop, s10 kept, s11 ws, s12 hand,  *)
(*              s13 coming, s14 copies, s15 acked;                         *)
(*   ports      s1 step, s2 next, s3 answers, s4 since, s5 odd, s6 phase,  *)
(*              s7 found, s8 offer.                                        *)
(***************************************************************************)
EXTENDS Parts, FiniteSetTheorems, SequenceTheorems, FunctionTheorems, TLAPS

-----------------------------------------------------------------------------
(* Least elements                                                          *)

\* A nonempty set of natural numbers has a least one.
LEMMA LeastOf ==
  ASSUME NEW S, S \subseteq Nat, S # {}
  PROVE  \E n \in S : \A m \in S : n <= m
PROOF
  <1> DEFINE R == {p \in Nat \X Nat : p[1] < p[2]}
  <1>1. OpToRel(<, Nat) = R
    BY Zenon DEF OpToRel
  <1>2. IsWellFoundedOn(R, Nat)
    BY <1>1, NatLessThanWellFounded
  <1>3. PICK n \in S : \A m \in S : ~(<<m, n>> \in R)
    <2> HIDE DEF R
    <2> QED BY <1>2, WFMin
  <1>4. ASSUME NEW m \in S PROVE n <= m
    <2>1. ~(m < n)
      <3>1. <<m, n>> \in Nat \X Nat /\ <<m, n>>[1] = m /\ <<m, n>>[2] = n
        OBVIOUS
      <3> QED BY <1>3, <3>1
    <2> QED BY <2>1
  <1> QED BY <1>4

-----------------------------------------------------------------------------
(* The packet sizes before a stream: senkusha.c                            *)

\* The sizes that are searched.
MtuRange == MeasureMin..MeasureMax

\* The constants of the measurement.
LEMMA MeasureSizes ==
  MeasureMin \in Nat \ {0} /\ MeasureMax \in Nat /\ MeasureMin < MeasureMax
  /\ MeasurePaths \subseteq MtuRange
BY PartsAssumption DEF Measure!SenkushaConstantsOK, MtuRange

\* What a state of the measurement is made of.
MeasureTypes ==
  /\ s13[1] \in MtuRange /\ s13[2] \in MtuRange /\ s14 \in BOOLEAN
  /\ s3 \in Nat /\ s9 \in Nat /\ s10 \in {0} \union MtuRange

\* The invariant says so.
LEMMA MeasureHas == Measure!SenkushaInv => MeasureTypes
BY DEF Measure!SenkushaInv, MeasureTypes, MtuRange, Measure!Unknown

\* After a request the only answer to it is one of a size that gets through.
LEMMA Requested ==
  ASSUME NEW ph, NEW size, Measure!Request(ph, size), Measure!SenkushaInv
  PROVE  /\ s1' = ph /\ s2' = FALSE /\ s3' = s3 + 1 /\ s3' \in Nat /\ s4' = size
         /\ s12' = s12 /\ s13' = s13
         /\ \A a \in s5' : a.id \in 0..s3'
         /\ (\E a \in s5' : a.id = s3') => Measure!Fits(ph, size)
PROOF
  <1>1. s3 \in Nat /\ \A a \in s5 : a.id \in 0..s3
    BY DEF Measure!SenkushaInv
  <1>2. /\ s1' = ph /\ s2' = FALSE /\ s3' = s3 + 1 /\ s4' = size
        /\ s12' = s12 /\ s13' = s13
    BY DEF Measure!Request
  <1> DEFINE late == {a \in s5 : a.id = s3}
             new == [kind |-> Measure!Expected[ph], id |-> s3 + 1]
  <1>3. \/ s5' = late
        \/ Measure!Fits(ph, size) /\ s5' = late \union {new}
    BY DEF Measure!Request
  <1>4. \A a \in late : a.id = s3
    OBVIOUS
  <1>5. new.id = s3 + 1
    OBVIOUS
  <1> HIDE DEF late, new
  <1>6. \A a \in s5' : a.id = s3 \/ a.id = s3 + 1
    BY <1>3, <1>4, <1>5
  <1>7. s3 \in 0..s3 + 1 /\ s3 + 1 \in 0..s3 + 1 /\ s3 + 1 \in Nat /\ s3 # s3 + 1
    BY <1>1
  <1>8. \A a \in s5' : a.id \in 0..s3'
    BY <1>2, <1>6, <1>7
  <1>9. ASSUME NEW a \in s5', a.id = s3' PROVE Measure!Fits(ph, size)
    BY <1>2, <1>3, <1>4, <1>7, <1>9
  <1> QED BY <1>2, <1>7, <1>8, <1>9

\* The parts of the invariant that the sizes found have.
SizesRight(in, out) ==
  /\ in # 0 => in <= s13[1] /\ (s14 \/ in = s13[1])
  /\ out # 0 =>
       /\ out <= s13[2]
       /\ \/ s14 \/ out = s13[2]
          \/ in < MeasureMax /\ out = MeasureMax - 1 /\ s13[2] = MeasureMax

\* They are its MtuIsOfThePath.
LEMMA SizesAre ==
  ASSUME MeasureTypes
  PROVE  Measure!MtuIsOfThePath <=> SizesRight(s10, s11)
BY DEF Measure!MtuIsOfThePath, SizesRight, Measure!Unknown, MeasureTypes

\* A step that asks for no size, and leaves the sizes found as they are.
LEMMA MeasureAsks ==
  ASSUME Measure!SenkushaInv, NEW ph, Measure!Request(ph, 0),
         ph \in {"version", "bang", "echoOn", "ping", "echoOff"},
         s1 \in DOMAIN Measure!Expected, s1 \notin {"final", "disconnect", "close", "ended"},
         s9' \in Nat, UNCHANGED <<s10, s11, s14>>
  PROVE  Measure!SenkushaInv'
PROOF
  <1>1. /\ s1' = ph /\ s2' = FALSE /\ s3' \in Nat /\ s12' = s12 /\ s13' = s13
        /\ \A a \in s5' : a.id \in 0..s3'
    BY Requested
  <1>2. s12' = "none" /\ s11' = 0
    BY <1>1 DEF Measure!SenkushaInv, Measure!Unknown
  <1>3. ph \in DOMAIN Measure!Expected
    BY DEF Measure!Expected
  <1>4. Measure!MtuIsOfThePath'
    BY <1>1 DEF Measure!SenkushaInv, Measure!MtuIsOfThePath
  <1>5. Measure!SuccessHasAll'
    BY <1>2 DEF Measure!SuccessHasAll
  <1>6. /\ s13' \in (MeasureMin..MeasureMax) \X (MeasureMin..MeasureMax)
        /\ s14' \in BOOLEAN /\ s10' \in {Measure!Unknown} \union MeasureMin..MeasureMax
    BY <1>1 DEF Measure!SenkushaInv
  <1>7. s1' \notin {"mtuIn", "mtuOut", "clientMtu", "final"}
    BY <1>1
  <1> QED BY <1>1, <1>2, <1>3, <1>4, <1>5, <1>6, <1>7 DEF Measure!SenkushaInv, Measure!Unknown

\* The phases before the end.
MeasureUnfinished == {"connect", "version", "bang", "echoOn", "ping", "echoOff", "mtuIn",
                      "clientMtu", "mtuOut", "final"}

\* The run ends; with success only if all is there.
LEMMA MeasureQuits ==
  ASSUME Measure!SenkushaInv, NEW ph, NEW res, Measure!Quit(ph, res),
         ph \in {"disconnect", "close"}, res \in {"error", "success"},
         res = "success" => s1 = "final" /\ s9' = s9,
         s1 \in MeasureUnfinished, s9' \in Nat, UNCHANGED <<s10, s11, s14>>
  PROVE  Measure!SenkushaInv'
PROOF
  <1>1. s1' = ph /\ s2' = FALSE /\ s12' = res /\ UNCHANGED <<s3, s4, s5, s13>>
    BY DEF Measure!Quit
  <1>2. ph \notin DOMAIN Measure!Expected /\ s1 \in DOMAIN Measure!Expected
    BY DEF Measure!Expected, MeasureUnfinished
  <1>3. Measure!MtuIsOfThePath'
    BY <1>1 DEF Measure!SenkushaInv, Measure!MtuIsOfThePath
  <1>4. Measure!SuccessHasAll'
    BY <1>1, <1>2 DEF Measure!SenkushaInv, Measure!SuccessHasAll
  <1>5. /\ s13' \in (MeasureMin..MeasureMax) \X (MeasureMin..MeasureMax)
        /\ s14' \in BOOLEAN /\ s10' \in {Measure!Unknown} \union MeasureMin..MeasureMax
        /\ s3' \in Nat /\ s9' \in Nat /\ \A a \in s5' : a.id \in 0..s3'
    BY <1>1 DEF Measure!SenkushaInv
  <1>6. s1' \notin {"mtuIn", "mtuOut", "clientMtu", "final"}
    BY <1>1
  <1> QED BY <1>1, <1>2, <1>3, <1>4, <1>5, <1>6 DEF Measure!SenkushaInv

\* An attempt at a size has ended: the size is found, or the next one is half
\* way between those that are left.
LEMMA Narrowed ==
  ASSUME MeasureTypes, NEW p \in MtuRange, NEW slack \in BOOLEAN,
         Measure!SearchLeaves(p, slack), Measure!Narrow,
         Measure!Fits(s1, s4) <=> s4 <= p, s2 => s4 <= p
  PROVE  /\ s6' \in MtuRange /\ s7' \in MtuRange /\ s6' <= p /\ s14' \in BOOLEAN /\ (s14 => s14')
         /\ Measure!Found => \/ s14' \/ s6' = p
                             \/ slack /\ s6' = MeasureMax - 1 /\ p = MeasureMax
         /\ ~Measure!Found =>
              /\ s6' < s7' /\ s6' + (s7' - s6') \div 2 \in s6'..s7'
              /\ s14' \/ p < s7' \/ (s7' = MeasureMax /\ slack)
PROOF
  <1> DEFINE lo == s6'
             hi == s7'
  <1>1. /\ s6 \in MtuRange /\ s7 \in MtuRange /\ s6 < s7 /\ s4 \in s6..s7 /\ s6 <= p
        /\ s14 \/ p < s7 \/ (s7 = MeasureMax /\ (s4 = MeasureMax \/ slack))
    BY DEF Measure!SearchLeaves, MtuRange
  <1>2. /\ s6' = IF s2 THEN s4 ELSE s6
        /\ s7' = IF s2 THEN s7 ELSE s4
        /\ s14' = (s14 \/ (~s2 /\ Measure!Fits(s1, s4)))
    BY DEF Measure!Narrow
  <1>3. s14' \in BOOLEAN /\ (s14 => s14') /\ (~s2 /\ s4 <= p => s14')
    BY <1>2
  <1>4. MeasureMin \in Nat /\ MeasureMax \in Nat /\ MtuRange = MeasureMin..MeasureMax
    BY MeasureSizes DEF MtuRange
  <1>5. s4 \in MeasureMin..MeasureMax /\ s4 \in Nat /\ s6 \in Nat /\ s7 \in Nat /\ p \in Nat
        /\ p <= MeasureMax
    BY <1>1, <1>4
  <1>6. /\ lo \in MtuRange /\ hi \in MtuRange /\ lo <= p /\ lo <= hi
        /\ s14' \/ p < hi \/ (hi = MeasureMax /\ (lo = MeasureMax \/ slack))
    <2>1. CASE s2
      <3>1. lo = s4 /\ hi = s7 /\ s4 <= p
        BY <1>2, <2>1
      <3> HIDE DEF lo, hi
      <3> QED BY <1>1, <1>3, <1>4, <1>5, <3>1
    <2>2. CASE ~s2
      <3>1. lo = s6 /\ hi = s4
        BY <1>2, <2>2
      <3>2. s14' \/ p < s4
        BY <1>3, <1>5, <2>2
      <3> HIDE DEF lo, hi
      <3> QED BY <1>1, <1>4, <1>5, <3>1, <3>2
    <2> QED BY <2>1, <2>2
  <1>7. Measure!Found <=> hi - lo <= 1
    BY DEF Measure!Found
  <1>8. lo \in Nat /\ hi \in Nat
    <2> HIDE DEF lo, hi
    <2> QED BY <1>4, <1>6
  <1>9. Measure!Found => \/ s14' \/ lo = p \/ (slack /\ lo = MeasureMax - 1 /\ p = MeasureMax)
    <2> HIDE DEF lo, hi
    <2> QED BY <1>4, <1>5, <1>6, <1>7, <1>8
  <1>10. ~Measure!Found =>
           /\ lo < hi /\ lo + (hi - lo) \div 2 \in lo..hi
           /\ s14' \/ p < hi \/ (hi = MeasureMax /\ slack)
    <2> HIDE DEF lo, hi
    <2>1. SUFFICES ASSUME hi - lo > 1
                   PROVE  /\ lo < hi /\ lo + (hi - lo) \div 2 \in lo..hi
                          /\ s14' \/ p < hi \/ (hi = MeasureMax /\ slack)
      BY <1>7, <1>8
    <2> DEFINE d == hi - lo
               e == d \div 2
    <2>2. d \in Nat /\ lo + d = hi
      BY <1>8, <2>1
    <2>3. e \in 0..d
      <3> HIDE DEF d
      <3> QED BY <2>2
    <2>4. lo + e \in lo..hi
      <3> HIDE DEF d, e
      <3> QED BY <1>8, <2>2, <2>3
    <2>5. lo # MeasureMax
      BY <1>4, <1>6, <1>8, <2>1
    <2> QED BY <1>6, <1>8, <2>1, <2>4, <2>5
  <1> QED BY <1>3, <1>6, <1>9, <1>10

\* An answer is noted if it is to the last request, and so of a size that fits.
LEMMA MeasureDelivers ==
  ASSUME Measure!SenkushaInv, Measure!Deliver
  PROVE  Measure!SenkushaInv'
PROOF
  <1>1. s2' = TRUE /\ UNCHANGED <<s1, s3, s4, s5, s6, s7, s9, s10, s11, s12, s13, s14>>
    BY DEF Measure!Deliver, Measure!searchVars
  <1>2. PICK a \in s5 : Measure!Answers(a)
    BY DEF Measure!Deliver
  <1>3. ASSUME s1 \in {"mtuIn", "mtuOut"} PROVE Measure!Fits(s1, s4)
    <2>1. a.kind \in {"mtu", "pong"}
      BY <1>2, <1>3 DEF Measure!Answers, Measure!Expected
    <2>2. a.id = s3
      BY <1>2, <2>1 DEF Measure!Answers, Measure!ById
    <2> QED BY <1>3, <2>2 DEF Measure!SenkushaInv
  <1>4. s1' \in {"mtuIn", "mtuOut"} => Measure!Fits(s1, s4)'
    BY <1>1, <1>3 DEF Measure!Fits
  <1>5. Measure!MtuIsOfThePath'
    BY <1>1 DEF Measure!SenkushaInv, Measure!MtuIsOfThePath
  <1>6. Measure!SuccessHasAll'
    BY <1>1 DEF Measure!SenkushaInv, Measure!SuccessHasAll
  <1>7. /\ s1' = "mtuIn" => Measure!SearchLeaves(s13[1], FALSE)'
        /\ s1' = "mtuOut" => Measure!SearchLeaves(s13[2], s10 < MeasureMax)'
    BY <1>1 DEF Measure!SenkushaInv, Measure!SearchLeaves
  <1> QED BY <1>1, <1>4, <1>5, <1>6, <1>7 DEF Measure!SenkushaInv

\* A step that asks for a size in one of the two searches.
LEMMA MeasureSearches ==
  ASSUME Measure!SenkushaInv, NEW ph, NEW size, Measure!Request(ph, size),
         ph \in {"mtuIn", "mtuOut"},
         s1 \in MeasureUnfinished \ {"final"},
         s11' = s11, s9' = s9, s9 > 0,
         s10' \in {0} \union MtuRange, s14' \in BOOLEAN, SizesRight(s10, 0)',
         ph = "mtuIn" => Measure!SearchLeaves(s13[1], FALSE)',
         ph = "mtuOut" => Measure!SearchLeaves(s13[2], s10 < MeasureMax)' /\ s10' # 0
  PROVE  Measure!SenkushaInv'
PROOF
  <1>1. /\ s1' = ph /\ s2' = FALSE /\ s3' \in Nat /\ s4' = size /\ s12' = s12 /\ s13' = s13
        /\ \A a \in s5' : a.id \in 0..s3'
        /\ (\E a \in s5' : a.id = s3') => Measure!Fits(ph, size)
    <2>1. /\ s1' = ph /\ s2' = FALSE /\ s3' \in Nat /\ s4' = size /\ s12' = s12 /\ s13' = s13
      BY Requested
    <2>2. \A a \in s5' : a.id \in 0..s3'
      BY Requested
    <2>3. (\E a \in s5' : a.id = s3') => Measure!Fits(ph, size)
      BY Requested
    <2> QED BY <2>1, <2>2, <2>3
  <1>2. s1 \in DOMAIN Measure!Expected /\ s1' \in DOMAIN Measure!Expected
    BY <1>1 DEF MeasureUnfinished, Measure!Expected
  <1>3. s12' = "none" /\ s11' = 0 /\ s9' \in Nat /\ s9' > 0
    BY <1>1, <1>2 DEF Measure!SenkushaInv, Measure!Unknown
  <1>4. Measure!MtuIsOfThePath'
    <2>1. s11' = 0 /\ (s10' # 0 => s10' <= s13'[1] /\ (s14' \/ s10' = s13'[1]))
      BY <1>3 DEF SizesRight
    <2> QED BY <2>1 DEF Measure!MtuIsOfThePath, Measure!Unknown
  <1>5. Measure!SuccessHasAll'
    BY <1>3 DEF Measure!SuccessHasAll
  <1>6. (\E a \in s5' : a.id = s3') => Measure!Fits(s1, s4)'
    <2>1. Measure!Fits(ph, size) => Measure!Fits(s1, s4)'
      BY <1>1 DEF Measure!Fits
    <2> QED BY <1>1, <2>1
  <1>7. /\ s13' \in (MeasureMin..MeasureMax) \X (MeasureMin..MeasureMax)
        /\ s10' \in {Measure!Unknown} \union MeasureMin..MeasureMax
    BY <1>1 DEF Measure!SenkushaInv, MtuRange, Measure!Unknown
  <1>8. s1' # "clientMtu" /\ s1' # "final" /\ s1' = ph
    BY <1>1
  <1> QED BY <1>1, <1>2, <1>3, <1>4, <1>5, <1>6, <1>7, <1>8 DEF Measure!SenkushaInv, Measure!Unknown

\* A step from a search, whose size is found, to the next request.
LEMMA MeasureFinds ==
  ASSUME Measure!SenkushaInv, NEW ph \in {"clientMtu", "final"}, Measure!Request(ph, 0),
         s1 \in {"mtuIn", "mtuOut"}, s9' = s9,
         s10' \in MtuRange, s14' \in BOOLEAN,
         ph = "clientMtu" => s11' = 0, ph = "final" => s11' # 0, SizesRight(s10, s11)'
  PROVE  Measure!SenkushaInv'
PROOF
  <1>1. /\ s1' = ph /\ s2' = FALSE /\ s3' \in Nat /\ s12' = s12 /\ s13' = s13
        /\ \A a \in s5' : a.id \in 0..s3'
    BY Requested
  <1>2. s1 \in DOMAIN Measure!Expected /\ s1' \in DOMAIN Measure!Expected
    BY <1>1 DEF Measure!Expected
  <1>3. s12' = "none" /\ s9' \in Nat /\ s9' > 0
    BY <1>1, <1>2 DEF Measure!SenkushaInv
  <1>4. Measure!MtuIsOfThePath'
    BY DEF SizesRight, Measure!MtuIsOfThePath, Measure!Unknown
  <1>5. Measure!SuccessHasAll'
    BY <1>3 DEF Measure!SuccessHasAll
  <1>6. s10' # 0
    BY MeasureSizes DEF MtuRange
  <1>7. /\ s13' \in (MeasureMin..MeasureMax) \X (MeasureMin..MeasureMax)
        /\ s10' \in {Measure!Unknown} \union MeasureMin..MeasureMax
    BY <1>1 DEF Measure!SenkushaInv, MtuRange
  <1>8. s1' # "mtuIn" /\ s1' # "mtuOut"
    BY <1>1
  <1>9. s11' # 0 <=> s1' = "final"
    BY <1>1
  <1> QED BY <1>1, <1>2, <1>3, <1>4, <1>5, <1>6, <1>7, <1>8, <1>9 DEF Measure!SenkushaInv, Measure!Unknown

\* The search inwards.
LEMMA MeasureMtuIn ==
  ASSUME Measure!SenkushaInv, Measure!MtuIn
  PROVE  Measure!SenkushaInv'
PROOF
  <1>1. s1 = "mtuIn" /\ s9' = s9 /\ s11' = s11 /\ s9 \in Nat /\ s9 > 0 /\ s11 = 0
    <2>1. s1 \in DOMAIN Measure!Expected /\ s1 # "final"
      BY DEF Measure!MtuIn, Measure!Expected
    <2> QED BY <2>1 DEF Measure!MtuIn, Measure!SenkushaInv, Measure!Unknown
  <1>2. MeasureTypes
    BY MeasureHas
  <1> DEFINE p == s13[1]
  <1>3. Measure!SearchLeaves(p, FALSE) /\ (Measure!Fits(s1, s4) <=> s4 <= p) /\ (s2 => s4 <= p)
        /\ p \in MtuRange
    <2>1. Measure!Fits(s1, s4) <=> s4 <= p
      BY <1>1 DEF Measure!Fits
    <2>2. s2 => Measure!Fits(s1, s4)
      BY <1>1 DEF Measure!SenkushaInv
    <2> QED BY <1>1, <1>2, <2>1, <2>2 DEF Measure!SenkushaInv, MeasureTypes
  <1>4. SizesRight(s10, s11)
    BY <1>2, SizesAre DEF Measure!SenkushaInv
  <1>5. s1 \in MeasureUnfinished \ {"final"}
    BY <1>1 DEF MeasureUnfinished
  <1>6. CASE Measure!Again /\ s10' = s10
    <2>1. Measure!Request(s1, s4) /\ UNCHANGED <<s6, s7, s14>>
      BY <1>6 DEF Measure!Again
    <2>2. s1' = s1 /\ s4' = s4 /\ s13' = s13
      BY <2>1, Requested
    <2>3. Measure!SearchLeaves(s13[1], FALSE)'
      BY <1>3, <2>1, <2>2 DEF Measure!SearchLeaves
    <2>4. SizesRight(s10, 0)' /\ s10' \in {0} \union MtuRange /\ s14' \in BOOLEAN
      BY <1>2, <1>4, <1>6, <2>1, <2>2 DEF SizesRight, MeasureTypes
    <2>5. Measure!Request("mtuIn", s4)
      BY <1>1, <2>1
    <2> QED BY <1>1, <1>5, <2>3, <2>4, <2>5, MeasureSearches
  <1>7. ASSUME Measure!Narrow
        PROVE  /\ s6' \in MtuRange /\ s7' \in MtuRange /\ s6' <= p /\ s14' \in BOOLEAN /\ (s14 => s14')
               /\ Measure!Found => s14' \/ s6' = p
               /\ ~Measure!Found =>
                    /\ s6' < s7' /\ s6' + (s7' - s6') \div 2 \in s6'..s7'
                    /\ s14' \/ p < s7'
    <2> HIDE DEF p
    <2> QED BY <1>2, <1>3, <1>7, Narrowed
  <1>8. CASE Measure!Narrow /\ Measure!Found /\ Measure!Request("clientMtu", Measure!Unknown) /\ s10' = s6'
    <2>1. s1' = "clientMtu" /\ s13' = s13
      BY <1>8, Requested
    <2>2. SizesRight(s10, s11)'
      BY <1>1, <1>7, <1>8, <2>1 DEF SizesRight
    <2>3. Measure!Request("clientMtu", 0)
      BY <1>8 DEF Measure!Unknown
    <2> QED BY <1>1, <1>7, <1>8, <2>1, <2>2, <2>3, MeasureFinds
  <1>9. CASE Measure!Narrow /\ ~Measure!Found
             /\ Measure!Request("mtuIn", s6' + (s7' - s6') \div 2) /\ s10' = s10
    <2> PICK z : z = s6' + (s7' - s6') \div 2
      OBVIOUS
    <2>4. Measure!Request("mtuIn", z)
      BY <1>9
    <2>1. s13' = s13 /\ s4' = s6' + (s7' - s6') \div 2
      BY <2>4, Requested
    <2>2. Measure!SearchLeaves(s13[1], FALSE)'
      BY <1>7, <1>9, <2>1 DEF Measure!SearchLeaves, MtuRange
    <2>3. SizesRight(s10, 0)' /\ s10' \in {0} \union MtuRange
      BY <1>2, <1>4, <1>7, <1>9, <2>1 DEF SizesRight, MeasureTypes
    <2> QED BY <1>1, <1>5, <1>7, <1>9, <2>1, <2>2, <2>3, <2>4, MeasureSearches
  <1> QED BY <1>6, <1>8, <1>9 DEF Measure!MtuIn

\* The search outwards.
LEMMA MeasureMtuOut ==
  ASSUME Measure!SenkushaInv, Measure!MtuOut
  PROVE  Measure!SenkushaInv'
PROOF
  <1>1. s1 = "mtuOut" /\ s9' = s9 /\ s10' = s10 /\ s9 \in Nat /\ s9 > 0 /\ s11 = 0 /\ s10 \in MtuRange
    <2>1. s1 \in DOMAIN Measure!Expected /\ s1 # "final"
      BY DEF Measure!MtuOut, Measure!Expected
    <2> QED BY <2>1 DEF Measure!MtuOut, Measure!SenkushaInv, Measure!Unknown, MtuRange
  <1>2. MeasureTypes
    BY MeasureHas
  <1> DEFINE p == s13[2]
             slack == s10 < MeasureMax
  <1>3. Measure!SearchLeaves(p, slack) /\ (Measure!Fits(s1, s4) <=> s4 <= p) /\ (s2 => s4 <= p)
        /\ p \in MtuRange
    <2>1. Measure!Fits(s1, s4) <=> s4 <= p
      BY <1>1 DEF Measure!Fits
    <2>2. s2 => Measure!Fits(s1, s4)
      BY <1>1 DEF Measure!SenkushaInv
    <2> QED BY <1>1, <1>2, <2>1, <2>2 DEF Measure!SenkushaInv, MeasureTypes
  <1>4. SizesRight(s10, s11)
    BY <1>2, SizesAre DEF Measure!SenkushaInv
  <1>5. s1 \in MeasureUnfinished \ {"final"}
    BY <1>1 DEF MeasureUnfinished
  <1>6. s10' # 0 /\ s10' \in {0} \union MtuRange /\ s10' \in MtuRange
    BY <1>1, MeasureSizes DEF MtuRange
  <1>7. CASE Measure!Again /\ s11' = s11
    <2>1. Measure!Request(s1, s4) /\ UNCHANGED <<s6, s7, s14>>
      BY <1>7 DEF Measure!Again
    <2>2. s1' = s1 /\ s4' = s4 /\ s13' = s13
      BY <2>1, Requested
    <2>3. Measure!SearchLeaves(s13[2], s10 < MeasureMax)'
      BY <1>1, <1>3, <2>1, <2>2 DEF Measure!SearchLeaves
    <2>4. SizesRight(s10, 0)' /\ s14' \in BOOLEAN
      BY <1>1, <1>2, <1>4, <2>1, <2>2 DEF SizesRight, MeasureTypes
    <2>5. Measure!Request("mtuOut", s4)
      BY <1>1, <2>1
    <2> QED BY <1>1, <1>5, <1>6, <1>7, <2>3, <2>4, <2>5, MeasureSearches
  <1>8. ASSUME Measure!Narrow
        PROVE  /\ s6' \in MtuRange /\ s7' \in MtuRange /\ s6' <= p /\ s14' \in BOOLEAN /\ (s14 => s14')
               /\ Measure!Found => \/ s14' \/ s6' = p
                                   \/ slack /\ s6' = MeasureMax - 1 /\ p = MeasureMax
               /\ ~Measure!Found =>
                    /\ s6' < s7' /\ s6' + (s7' - s6') \div 2 \in s6'..s7'
                    /\ s14' \/ p < s7' \/ (s7' = MeasureMax /\ slack)
    <2>1. slack \in BOOLEAN
      OBVIOUS
    <2> HIDE DEF p, slack
    <2> QED BY <1>2, <1>3, <1>8, <2>1, Narrowed
  <1>9. CASE Measure!Narrow /\ Measure!Found /\ Measure!Request("final", Measure!Unknown) /\ s11' = s6'
    <2>1. s1' = "final" /\ s13' = s13
      BY <1>9, Requested
    <2>2. s10 # 0 => s10 <= s13[1] /\ (s14 \/ s10 = s13[1])
      BY <1>4 DEF SizesRight
    <2>3. SizesRight(s10, s11)'
      BY <1>1, <1>8, <1>9, <2>1, <2>2 DEF SizesRight
    <2>4. s11' # 0
      BY <1>8, <1>9, MeasureSizes DEF MtuRange
    <2>5. Measure!Request("final", 0)
      BY <1>9 DEF Measure!Unknown
    <2> QED BY <1>1, <1>6, <1>8, <1>9, <2>1, <2>3, <2>4, <2>5, MeasureFinds
  <1>10. CASE Measure!Narrow /\ ~Measure!Found
             /\ Measure!Request("mtuOut", s6' + (s7' - s6') \div 2) /\ s11' = s11
    <2> PICK z : z = s6' + (s7' - s6') \div 2
      OBVIOUS
    <2>4. Measure!Request("mtuOut", z)
      BY <1>10
    <2>1. s13' = s13 /\ s4' = s6' + (s7' - s6') \div 2
      BY <2>4, Requested
    <2>2. Measure!SearchLeaves(s13[2], s10 < MeasureMax)'
      BY <1>1, <1>8, <1>10, <2>1 DEF Measure!SearchLeaves, MtuRange
    <2>3. SizesRight(s10, 0)'
      BY <1>1, <1>4, <1>8, <1>10, <2>1 DEF SizesRight
    <2> QED BY <1>1, <1>5, <1>6, <1>8, <1>10, <2>1, <2>2, <2>3, <2>4, MeasureSearches
  <1> QED BY <1>7, <1>9, <1>10 DEF Measure!MtuOut

\* The steps before the search, and the command to the client.
LEMMA MeasureBefore ==
  ASSUME Measure!SenkushaInv, Measure!Handshake \/ Measure!Echo \/ Measure!Ping
  PROVE  Measure!SenkushaInv'
PROOF
  <1>1. s9 \in Nat
    BY MeasureHas DEF MeasureTypes
  <1>2. CASE Measure!Handshake
    <2>1. s1 \in {"connect", "version", "bang"} /\ UNCHANGED <<s9, s10, s11, s14>> /\ s9' \in Nat
      BY <1>1, <1>2 DEF Measure!Handshake
    <2>2. /\ s1 \in DOMAIN Measure!Expected /\ s1 \in MeasureUnfinished
          /\ s1 \notin {"final", "disconnect", "close", "ended"}
      BY <2>1 DEF Measure!Expected, MeasureUnfinished
    <2>3. \/ Measure!Request(CASE s1 = "connect" -> "version" [] s1 = "version" -> "bang"
                               [] s1 = "bang" -> "echoOn", 0)
          \/ Measure!Quit("close", "error")
      BY <1>2 DEF Measure!Handshake, Measure!Unknown
    <2>4. CASE Measure!Quit("close", "error")
      <3>1. "close" \in {"disconnect", "close"} /\ "error" \in {"error", "success"}
            /\ "error" # "success"
        OBVIOUS
      <3> QED BY <2>1, <2>2, <2>4, <3>1, MeasureQuits
    <2>5. ASSUME NEW ph, Measure!Request(ph, 0), ph \in {"version", "bang", "echoOn"}
          PROVE  Measure!SenkushaInv'
      BY <2>1, <2>2, <2>5, MeasureAsks
    <2> PICK ph : ph = CASE s1 = "connect" -> "version" [] s1 = "version" -> "bang"
                         [] s1 = "bang" -> "echoOn"
      OBVIOUS
    <2>6. ph \in {"version", "bang", "echoOn"}
      BY <2>1
    <2> QED BY <2>3, <2>4, <2>5, <2>6
  <1>3. CASE Measure!Echo
    <2>1. s1 = "echoOn" /\ s9' = 0 /\ UNCHANGED <<s10, s11, s14>>
          /\ (Measure!Request("ping", 0) \/ Measure!Quit("disconnect", "error"))
      BY <1>3 DEF Measure!Echo, Measure!Unknown
    <2>2. /\ s1 \in DOMAIN Measure!Expected /\ s1 \in MeasureUnfinished
          /\ s1 \notin {"final", "disconnect", "close", "ended"}
      BY <2>1 DEF Measure!Expected, MeasureUnfinished
    <2>3. CASE Measure!Request("ping", 0)
      BY <2>1, <2>2, <2>3, MeasureAsks
    <2>4. CASE Measure!Quit("disconnect", "error")
      <3>1. "disconnect" \in {"disconnect", "close"} /\ "error" \in {"error", "success"}
            /\ "error" # "success"
        OBVIOUS
      <3> QED BY <2>1, <2>2, <2>4, <3>1, MeasureQuits
    <2> QED BY <2>1, <2>3, <2>4
  <1>4. CASE Measure!Ping
    <2>1. s1 = "ping" /\ s9' \in Nat /\ UNCHANGED <<s10, s11, s14>>
      BY <1>1, <1>4 DEF Measure!Ping
    <2>2. /\ s1 \in DOMAIN Measure!Expected /\ s1 \in MeasureUnfinished
          /\ s1 \notin {"final", "disconnect", "close", "ended"}
      BY <2>1 DEF Measure!Expected, MeasureUnfinished
    <2>3. Measure!Request(IF s8 + 1 < MeasurePings THEN "ping" ELSE "echoOff", 0)
      BY <1>4 DEF Measure!Ping, Measure!Unknown
    <2> PICK ph : ph = IF s8 + 1 < MeasurePings THEN "ping" ELSE "echoOff"
      OBVIOUS
    <2>4. ph \in {"ping", "echoOff"} /\ Measure!Request(ph, 0)
      BY <2>3
    <2> QED BY <2>1, <2>2, <2>4, MeasureAsks
  <1> QED BY <1>2, <1>3, <1>4

\* The searches begin.
LEMMA MeasureBegins ==
  ASSUME Measure!SenkushaInv, Measure!EchoOff \/ Measure!ClientMtu
  PROVE  Measure!SenkushaInv'
PROOF
  <1>1. MeasureTypes
    BY MeasureHas
  <1>2. /\ UNCHANGED <<s9, s10, s11, s14>> /\ s1 \in {"echoOff", "clientMtu"}
        /\ s9' \in Nat /\ s14' \in BOOLEAN /\ s10' \in {0} \union MtuRange
    BY <1>1 DEF Measure!EchoOff, Measure!ClientMtu, MeasureTypes
  <1>3. /\ s1 \in DOMAIN Measure!Expected /\ s1 \in MeasureUnfinished
        /\ s1 \in MeasureUnfinished \ {"final"}
    BY <1>2 DEF Measure!Expected, MeasureUnfinished
  <1>4. CASE Measure!Quit("disconnect", "error")
    BY <1>2, <1>3, <1>4, MeasureQuits
  <1>5. SizesRight(s10, s11) /\ SizesRight(s10, 0)
    <2>1. SizesRight(s10, s11)
      BY <1>1, SizesAre DEF Measure!SenkushaInv
    <2> QED BY <2>1 DEF SizesRight
  <1>6. MeasureMin \in MtuRange /\ MeasureMax \in MtuRange /\ MeasureMin < MeasureMax
        /\ MeasureMin \in Nat /\ MeasureMax \in Nat
    BY MeasureSizes DEF MtuRange
  <1>7. CASE Measure!Request("mtuIn", MeasureMax) /\ s6' = MeasureMin /\ s7' = MeasureMax
             /\ Measure!EchoOff /\ s9 > 0
    <2>1. s13' = s13 /\ s4' = MeasureMax
      BY <1>7, Requested
    <2>2. SizesRight(s10, 0)'
      BY <1>2, <1>5, <2>1 DEF SizesRight
    <2>3. MeasureMin <= s13'[1]
      BY <1>1, <1>6, <2>1 DEF MeasureTypes, MtuRange
    <2>4. Measure!SearchLeaves(s13[1], FALSE)'
      BY <1>6, <1>7, <2>1, <2>3 DEF Measure!SearchLeaves, MtuRange
    <2> QED BY <1>2, <1>3, <1>7, <2>2, <2>4, MeasureSearches
  <1>8. CASE Measure!Request("mtuOut", s10) /\ s6' = MeasureMin /\ s7' = MeasureMax
             /\ Measure!ClientMtu
    <2>1. s13' = s13 /\ s4' = s10
      BY <1>8, Requested
    <2>2. SizesRight(s10, 0)'
      BY <1>2, <1>5, <2>1 DEF SizesRight
    <2>3. MeasureMin <= s13'[2]
      BY <1>1, <1>6, <2>1 DEF MeasureTypes, MtuRange
    <2>4. s1 = "clientMtu"
      BY <1>8 DEF Measure!ClientMtu
    <2>5. s10 # 0 /\ s9 > 0
      BY <2>4 DEF Measure!SenkushaInv, Measure!Unknown
    <2>6. s10 \in MeasureMin..MeasureMax /\ s10 \in Nat
      BY <1>1, <1>6, <2>5 DEF MeasureTypes, MtuRange
    <2>7. Measure!SearchLeaves(s13[2], s10 < MeasureMax)'
      <3>1. s4' = MeasureMax \/ s10' < MeasureMax
        BY <1>2, <1>6, <2>1, <2>6
      <3> QED BY <1>6, <1>8, <2>1, <2>3, <2>6, <3>1 DEF Measure!SearchLeaves, MtuRange
    <2> QED BY <1>2, <1>3, <1>8, <2>2, <2>5, <2>7, MeasureSearches
  <1>9. \/ Measure!Quit("disconnect", "error")
        \/ Measure!Request("mtuIn", MeasureMax) /\ s6' = MeasureMin /\ s7' = MeasureMax
             /\ Measure!EchoOff /\ s9 > 0
        \/ Measure!Request("mtuOut", s10) /\ s6' = MeasureMin /\ s7' = MeasureMax
             /\ Measure!ClientMtu
    BY DEF Measure!EchoOff, Measure!ClientMtu
  <1> QED BY <1>4, <1>7, <1>8, <1>9

\* The measurement ends.
LEMMA MeasureEnds ==
  ASSUME Measure!SenkushaInv, Measure!Final \/ Measure!SendFails \/ Measure!Leave
  PROVE  Measure!SenkushaInv'
PROOF
  <1>0. s9 \in Nat
    BY MeasureHas DEF MeasureTypes
  <1>1. CASE Measure!Final
    <2>1. s1 = "final" /\ UNCHANGED <<s9, s10, s11, s14>> /\ s1 \in MeasureUnfinished /\ s9' \in Nat
      BY <1>0, <1>1 DEF Measure!Final, MeasureUnfinished
    <2>2. Measure!Quit("disconnect", "success") \/ Measure!Quit("disconnect", "error")
      BY <1>1 DEF Measure!Final
    <2> QED BY <2>1, <2>2, MeasureQuits
  <1>2. CASE Measure!SendFails
    <2>1. /\ UNCHANGED <<s9, s10, s11, s14>> /\ s1 \in MeasureUnfinished /\ s9' \in Nat
          /\ Measure!Quit("disconnect", "error")
      BY <1>0, <1>2 DEF Measure!SendFails, MeasureUnfinished
    <2>2. "disconnect" \in {"disconnect", "close"} /\ "error" \in {"error", "success"}
          /\ "error" # "success"
      OBVIOUS
    <2> QED BY <2>1, <2>2, MeasureQuits
  <1>3. CASE Measure!Leave
    <2>1. /\ s1 \in {"disconnect", "close"} /\ s1' \in {"close", "ended"}
          /\ UNCHANGED <<s2, s3, s4, s5, s9, s10, s11, s12, s13, s14>>
      BY <1>3 DEF Measure!Leave, Measure!searchVars
    <2>2. s1' \notin DOMAIN Measure!Expected /\ s1' \notin {"mtuIn", "mtuOut", "clientMtu", "final"}
      BY <2>1 DEF Measure!Expected
    <2>3. Measure!MtuIsOfThePath' /\ Measure!SuccessHasAll'
      BY <2>1 DEF Measure!SenkushaInv, Measure!MtuIsOfThePath, Measure!SuccessHasAll
    <2> QED BY <2>1, <2>2, <2>3 DEF Measure!SenkushaInv
  <1> QED BY <1>1, <1>2, <1>3

\* Every step of the measurement leaves its invariant.
LEMMA MeasureNext ==
  ASSUME Measure!SenkushaInv, Measure!Next
  PROVE  Measure!SenkushaInv'
BY MeasureDelivers, MeasureBefore, MeasureBegins, MeasureMtuIn, MeasureMtuOut, MeasureEnds
   DEF Measure!Next, Measure!Run

\* A measurement begins without answers and sizes.
LEMMA MeasureInit == Measure!Init => Measure!SenkushaInv
PROOF
  <1> SUFFICES ASSUME Measure!Init PROVE Measure!SenkushaInv
    OBVIOUS
  <1>1. /\ s1 = "connect" /\ s2 = FALSE /\ s3 = 0 /\ s5 = {[kind |-> "connected", id |-> 0]}
        /\ s9 = 0 /\ s10 = 0 /\ s11 = 0 /\ s12 = "none" /\ s13 \in MeasurePaths \X MeasurePaths
        /\ s14 = FALSE
    BY DEF Measure!Init, Measure!Unknown
  <1>2. s1 \in DOMAIN Measure!Expected
    BY <1>1 DEF Measure!Expected
  <1>3. s13 \in (MeasureMin..MeasureMax) \X (MeasureMin..MeasureMax)
    BY <1>1, MeasureSizes DEF MtuRange
  <1>4. \A a \in s5 : a.id \in 0..s3
    BY <1>1
  <1>5. s1 \notin {"mtuIn", "mtuOut", "clientMtu", "final"}
    BY <1>1
  <1> QED BY <1>1, <1>2, <1>3, <1>4, <1>5
          DEF Measure!SenkushaInv, Measure!MtuIsOfThePath, Measure!SuccessHasAll, Measure!Unknown

-----------------------------------------------------------------------------
(* Messages over RUDP: rudp.c and rudpsendbuffer.c                         *)

\* The constants of the messages: no number wraps.
LEMMA RudpConstants ==
  /\ RudpMod \in Nat /\ RudpMod % 2 = 0 /\ RudpCount \in Nat
  /\ \A s \in RudpStarts : s \in Nat /\ 0 < s /\ s + RudpCount < RudpMod \div 2
BY PartsAssumption DEF Reliable!RudpConstantsOK, Reliable!SeqHalf

\* Numbers in the lower half compare as numbers do.
LEMMA LtSmall ==
  ASSUME NEW x \in Nat, NEW y \in Nat, x < RudpMod \div 2, y < RudpMod \div 2
  PROVE  Reliable!SeqLt(x, y) <=> x < y
PROOF
  <1> DEFINE h == RudpMod \div 2
  <1>1. RudpMod \in Nat /\ RudpMod % 2 = 0
    BY RudpConstants
  <1>2. h \in Nat /\ RudpMod = 2 * h /\ h > 0
    BY <1>1
  <1>3. x % RudpMod = x /\ y % RudpMod = y
    <2>1. x < RudpMod /\ y < RudpMod /\ RudpMod > 0
      <3> HIDE DEF h
      <3>1. x < h /\ y < h
        BY DEF h
      <3> QED BY <1>2, <3>1
    <2> QED BY <1>1, <2>1
  <1>4. /\ Reliable!SeqCast(x) = x /\ Reliable!SeqCast(y) = y /\ Reliable!SeqHalf = h
    BY <1>3 DEF Reliable!SeqCast, Reliable!SeqHalf
  <1>5. x < h /\ y < h
    OBVIOUS
  <1> HIDE DEF h
  <1> QED BY <1>2, <1>4, <1>5 DEF Reliable!SeqLt

\* Those that stay keep their order, and none of them is lost.
LEMMA WithoutIs ==
  ASSUME NEW S, s4 \in Seq(S), NEW seq, NEW p, p \in Reliable!Without(seq)
  PROVE  /\ p \in Seq(S)
         /\ \A i \in DOMAIN p : \E j \in Reliable!Kept(seq) : p[i] = s4[j]
         /\ \A j \in Reliable!Kept(seq) : \E i \in DOMAIN p : p[i] = s4[j]
PROOF
  <1> DEFINE K == Reliable!Kept(seq)
             n == Cardinality(K)
  <1>1. K \subseteq 1..Len(s4) /\ Len(s4) \in Nat
    BY DEF Reliable!Kept
  <1>2. IsFiniteSet(K) /\ n \in Nat
    <2>1. IsFiniteSet(1..Len(s4))
      BY <1>1, FS_Interval
    <2> HIDE DEF K
    <2> QED BY <1>1, <2>1, FS_Subset, FS_CardinalityType
  <1>3. Reliable!Cardinality(K) = n
    BY DEF Cardinality, IsFiniteSet, Reliable!Cardinality, Reliable!IsFiniteSet
  <1>4. PICK order \in Reliable!InOrder(K) : p = [i \in DOMAIN order |-> s4[order[i]]]
    BY DEF Reliable!Without
  <1>5. order \in [1..n -> K] /\ \A i, j \in DOMAIN order : i < j => order[i] < order[j]
    BY <1>3 DEF Reliable!InOrder
  <1> HIDE DEF K, n
  <1>6. DOMAIN order = 1..n /\ \A i \in 1..n : order[i] \in K
    BY <1>5
  <1>7. \A i \in 1..n : order[i] \in 1..Len(s4) /\ order[i] \in Int
    <2>1. \A k \in K : k \in 1..Len(s4) /\ k \in Int
      BY <1>1
    <2> QED BY <1>6, <2>1
  <1>8. DOMAIN p = 1..n /\ \A i \in 1..n : p[i] = s4[order[i]]
    BY <1>4, <1>6
  <1>9. p \in Seq(S)
    <2>1. \A i \in 1..n : p[i] \in S
      BY <1>7, <1>8
    <2>2. p \in [1..n -> S]
      BY <1>4, <1>6, <1>8, <2>1
    <2> QED BY <1>2, <2>2
  <1>10. order \in Surjection(1..n, K)
    <2>1. \A i, j \in 1..n : order[i] = order[j] => i = j
      <3>1. SUFFICES ASSUME NEW i \in 1..n, NEW j \in 1..n, order[i] = order[j] PROVE i = j
        OBVIOUS
      <3>2. ~(i < j) /\ ~(j < i)
        BY <1>5, <1>6, <1>7, <3>1
      <3> QED BY <1>2, <3>2
    <2>2. order \in Injection(1..n, K)
      BY <1>5, <2>1, Fun_IsInj
    <2>3. Cardinality(1..n) = Cardinality(K)
      <3>1. 1 \in Int /\ n \in Int /\ (IF 1 > n THEN 0 ELSE n - 1 + 1) = n
        BY <1>2
      <3>2. Cardinality(1..n) = n
        BY <3>1, FS_Interval
      <3> QED BY <3>2 DEF n
    <2> QED BY <1>2, <2>2, <2>3, FS_Injection
  <1>11. \A j \in K : \E i \in 1..n : order[i] = j
    BY <1>10 DEF Surjection
  <1>12. \A i \in DOMAIN p : \E j \in K : p[i] = s4[j]
    BY <1>6, <1>8
  <1>13. \A j \in K : \E i \in DOMAIN p : p[i] = s4[j]
    BY <1>8, <1>11
  <1> QED BY <1>9, <1>12, <1>13 DEF K

\* What is no more kept or was given up was received.
LEMMA RudpForgets ==
  ASSUME Reliable!RudpInv, NEW seq, s4' \in Reliable!Without(seq),
         UNCHANGED <<s1, s2, s3, s6, s7, s8, s10, s11>>, s9 \subseteq s9',
         \A i \in DOMAIN s4 : i \in Reliable!Kept(seq) \/ s4[i].msg \in s7 \union s9'
                              \/ s4[i].msg \in Reliable!Messages(s4')
  PROVE  Reliable!RudpInv'
PROOF
  <1> DEFINE K == Reliable!Kept(seq)
  <1>1. /\ Reliable!NumbersInv /\ Reliable!SendersInv /\ Reliable!PacketsInv
        /\ (~s11 => Reliable!InTurn) /\ Reliable!NothingForgotten
    BY DEF Reliable!RudpInv
  <1>2. s4 \in Seq(Reliable!Packet)
    BY <1>1 DEF Reliable!NumbersInv
  <1>3. /\ s4' \in Seq(Reliable!Packet)
        /\ \A i \in DOMAIN s4' : \E j \in K : s4'[i] = s4[j]
        /\ \A j \in K : \E i \in DOMAIN s4' : s4'[i] = s4[j]
    BY <1>2, WithoutIs
  <1>4. K \subseteq DOMAIN s4
    BY DEF Reliable!Kept
  <1> HIDE DEF K
  <1>5. \A i \in DOMAIN s4' : \E j \in DOMAIN s4 : s4'[i] = s4[j]
    BY <1>3, <1>4
  <1>6. Reliable!NumbersInv'
    <2>1. Reliable!Packet' = Reliable!Packet
      BY DEF Reliable!Packet
    <2> QED BY <1>1, <1>3, <2>1 DEF Reliable!NumbersInv
  <1>7. Reliable!SendersInv'
    BY <1>1 DEF Reliable!SendersInv, Reliable!Active
  <1>8. Reliable!PacketsInv'
    <2>1. SUFFICES ASSUME NEW i \in DOMAIN s4'
                   PROVE  /\ s4'[i].msg \in s2..(s1 - 1) /\ s4'[i].seq \in (s4'[i].msg + 1)..s1
                          /\ \A s \in RudpSenders : s3[s].at # "idle" => s4'[i].msg # s3[s].msg
      BY DEF Reliable!PacketsInv, Reliable!Active
    <2>2. PICK j \in DOMAIN s4 : s4'[i] = s4[j]
      BY <1>5
    <2> QED BY <1>1, <2>2 DEF Reliable!PacketsInv, Reliable!Active
  <1>9. ~s11' => Reliable!InTurn'
    <2>1. SUFFICES ASSUME ~s11 PROVE Reliable!InTurn'
      OBVIOUS
    <2>2. \A i \in DOMAIN s4' : s4'[i].seq = s4'[i].msg + 1
      BY <1>1, <1>5, <2>1 DEF Reliable!InTurn
    <2> QED BY <1>1, <2>1, <2>2 DEF Reliable!InTurn
  <1>10. Reliable!NothingForgotten'
    <2>1. SUFFICES ASSUME NEW n \in s6
                   PROVE  \/ n \in s7 \union Reliable!Messages(s4') \union s9' \union s10
                          \/ \E s \in RudpSenders : s3[s].msg = n
      BY <1>1 DEF Reliable!NothingForgotten, Reliable!Messages
    <2>2. \/ n \in s7 \union s9 \union s10 \/ \E s \in RudpSenders : s3[s].msg = n
          \/ \E i \in DOMAIN s4 : s4[i].msg = n
      BY <1>1 DEF Reliable!NothingForgotten, Reliable!Messages
    <2>3. ASSUME NEW i \in DOMAIN s4, s4[i].msg = n
          PROVE  n \in s7 \union Reliable!Messages(s4') \union s9'
      <3>1. CASE i \in K
        <4>1. PICK k \in DOMAIN s4' : s4'[k] = s4[i]
          BY <1>3, <3>1
        <4> QED BY <2>3, <4>1 DEF Reliable!Messages
      <3> QED BY <2>3, <3>1 DEF K
    <2> QED BY <2>2, <2>3
  <1> QED BY <1>6, <1>7, <1>8, <1>9, <1>10 DEF Reliable!RudpInv

\* The parts of the invariant that a step is to preserve.
LEMMA RudpParts ==
  ASSUME Reliable!RudpInv
  PROVE  /\ Reliable!NumbersInv /\ Reliable!SendersInv /\ Reliable!PacketsInv
         /\ (~s11 => Reliable!InTurn) /\ Reliable!NothingForgotten
         /\ s2 \in Nat /\ s2 > 0 /\ s1 \in Nat /\ s2 <= s1 /\ s1 <= s2 + RudpCount
         /\ s2 + RudpCount < RudpMod \div 2 /\ RudpCount \in Nat
PROOF
  <1>1. /\ Reliable!NumbersInv /\ Reliable!SendersInv /\ Reliable!PacketsInv
        /\ (~s11 => Reliable!InTurn) /\ Reliable!NothingForgotten
    BY DEF Reliable!RudpInv
  <1>2. s2 \in RudpStarts /\ s1 \in s2..(s2 + RudpCount)
    BY <1>1 DEF Reliable!NumbersInv
  <1>3. s2 \in Nat /\ 0 < s2 /\ s2 + RudpCount < RudpMod \div 2 /\ RudpCount \in Nat
    BY <1>2, RudpConstants
  <1> QED BY <1>1, <1>2, <1>3

\* get_then_increase_counter
LEMMA RudpCounts ==
  ASSUME Reliable!RudpInv, NEW s \in RudpSenders, Reliable!Count(s)
  PROVE  Reliable!RudpInv'
PROOF
  <1>1. /\ Reliable!NumbersInv /\ Reliable!SendersInv /\ Reliable!PacketsInv
        /\ (~s11 => Reliable!InTurn) /\ Reliable!NothingForgotten
        /\ s2 \in Nat /\ s2 > 0 /\ s1 \in Nat /\ s2 <= s1 /\ s1 <= s2 + RudpCount
        /\ s2 + RudpCount < RudpMod \div 2 /\ RudpCount \in Nat
    BY RudpParts
  <1>2. /\ s3[s].at = "idle" /\ s1 < s2 + RudpCount
        /\ s3' = [s3 EXCEPT ![s] = [at |-> "counted", msg |-> s1, seq |-> 0]]
        /\ s1' = IF s1 >= RudpMod - 1 THEN 0 ELSE s1 + 1
        /\ s11' = (s11 \/ \E t \in RudpSenders : s3[t].at = "counted")
        /\ UNCHANGED <<s2, s4, s5, s6, s7, s8, s9, s10>>
    BY DEF Reliable!Count
  <1>3. s1' = s1 + 1
    <2>1. RudpMod \in Nat /\ RudpMod % 2 = 0
      BY RudpConstants
    <2>2. ~(s1 >= RudpMod - 1)
      BY <1>1, <1>2, <2>1
    <2> QED BY <1>2, <2>2
  <1>4. /\ s3 \in [RudpSenders -> [at : {"idle", "counted", "sent"}, msg : Nat, seq : Nat]]
        /\ s6 \subseteq s2..(s1 - 1) /\ s7 \subseteq s6
    BY <1>1 DEF Reliable!NumbersInv
  <1>5. /\ s3' \in [RudpSenders -> [at : {"idle", "counted", "sent"}, msg : Nat, seq : Nat]]
        /\ s3'[s].at = "counted" /\ s3'[s].msg = s1
        /\ \A t \in RudpSenders : t # s => s3'[t] = s3[t]
    BY <1>1, <1>2, <1>4
  <1>6. Reliable!NumbersInv'
    <2>1. Reliable!Packet' = Reliable!Packet
      BY DEF Reliable!Packet
    <2>2. s1' \in s2'..(s2' + RudpCount)
      BY <1>1, <1>2, <1>3
    <2>3. s6' \subseteq s2'..(s1' - 1)
      <3>1. SUFFICES ASSUME NEW n \in s6 PROVE n \in s2..s1
        BY <1>1, <1>2, <1>3
      <3>2. n \in s2..(s1 - 1)
        BY <1>4
      <3> QED BY <1>1, <3>2
    <2>4. s11' \in BOOLEAN
      BY <1>1, <1>2 DEF Reliable!NumbersInv
    <2> QED BY <1>1, <1>2, <1>5, <2>1, <2>2, <2>3, <2>4 DEF Reliable!NumbersInv
  <1>7. Reliable!SendersInv'
    <2>1. \A t \in RudpSenders : IF s3'[t].at # "idle" THEN s3'[t].msg \in s2..s1 ELSE s3'[t].msg = 0
      <3>1. SUFFICES ASSUME NEW t \in RudpSenders, t # s
                     PROVE  IF s3[t].at # "idle" THEN s3[t].msg \in s2..s1 ELSE s3[t].msg = 0
        BY <1>1, <1>5
      <3>2. IF s3[t].at # "idle" THEN s3[t].msg \in s2..(s1 - 1) ELSE s3[t].msg = 0
        BY <1>1 DEF Reliable!SendersInv, Reliable!Active
      <3> QED BY <1>1, <3>2
    <2>2. \A t \in RudpSenders : s3'[t].at = "counted" => s3'[t].msg \notin s6
      <3>1. s1 \notin s6
        BY <1>1, <1>4
      <3> QED BY <1>1, <1>5, <3>1 DEF Reliable!SendersInv
    <2>3. \A t \in RudpSenders : s3'[t].at = "sent" => s3'[t].seq \in (s3'[t].msg + 1)..(s1 + 1)
      <3>1. SUFFICES ASSUME NEW t \in RudpSenders, t # s, s3[t].at = "sent"
                     PROVE  s3[t].seq \in (s3[t].msg + 1)..(s1 + 1)
        BY <1>5
      <3>2. s3[t].seq \in (s3[t].msg + 1)..s1 /\ s3[t].msg \in Nat
        BY <1>1, <1>4, <3>1 DEF Reliable!SendersInv
      <3> QED BY <1>1, <3>2
    <2>4. \A t, u \in RudpSenders :
             s3'[t].at # "idle" /\ s3'[u].at # "idle" /\ s3'[t].msg = s3'[u].msg => t = u
      <3>1. \A t \in RudpSenders : t # s /\ s3[t].at # "idle" => s3[t].msg # s1
        <4>1. SUFFICES ASSUME NEW t \in RudpSenders, s3[t].at # "idle" PROVE s3[t].msg # s1
          OBVIOUS
        <4>2. s3[t].msg \in s2..(s1 - 1)
          BY <1>1, <4>1 DEF Reliable!SendersInv, Reliable!Active
        <4> QED BY <1>1, <4>2
      <3>2. \A t, u \in RudpSenders :
               s3[t].at # "idle" /\ s3[u].at # "idle" /\ s3[t].msg = s3[u].msg => t = u
        BY <1>1 DEF Reliable!SendersInv, Reliable!Active
      <3> QED BY <1>5, <3>1, <3>2
    <2>5. s1' - 1 = s1
      BY <1>1, <1>3
    <2> QED BY <1>2, <1>3, <2>1, <2>2, <2>3, <2>4, <2>5 DEF Reliable!SendersInv, Reliable!Active
  <1>8. Reliable!PacketsInv'
    <2>1. SUFFICES ASSUME NEW i \in DOMAIN s4
                   PROVE  /\ s4[i].msg \in s2..s1 /\ s4[i].seq \in (s4[i].msg + 1)..(s1 + 1)
                          /\ \A t \in RudpSenders : s3'[t].at # "idle" => s4[i].msg # s3'[t].msg
      <3>1. s1' - 1 = s1
        BY <1>1, <1>3
      <3> QED BY <1>2, <1>3, <2>1, <3>1 DEF Reliable!PacketsInv, Reliable!Active
    <2>2. /\ s4[i].msg \in s2..(s1 - 1) /\ s4[i].seq \in (s4[i].msg + 1)..s1
          /\ \A t \in RudpSenders : s3[t].at # "idle" => s4[i].msg # s3[t].msg
      BY <1>1 DEF Reliable!PacketsInv, Reliable!Active
    <2>3. s4[i].msg \in s2..s1 /\ s4[i].seq \in (s4[i].msg + 1)..(s1 + 1) /\ s4[i].msg # s1
      BY <1>1, <2>2
    <2> QED BY <1>5, <2>2, <2>3
  <1>9. ~s11' => Reliable!InTurn'
    <2>1. SUFFICES ASSUME ~s11' PROVE Reliable!InTurn'
      OBVIOUS
    <2>2. Reliable!InTurn /\ \A t \in RudpSenders : s3[t].at # "counted"
      BY <1>1, <1>2, <2>1
    <2> QED BY <1>2, <1>3, <1>5, <2>2 DEF Reliable!InTurn
  <1>10. Reliable!NothingForgotten'
    <2>1. SUFFICES ASSUME NEW n \in s6
                   PROVE  \/ n \in s7 \union Reliable!Messages(s4) \union s9 \union s10
                          \/ \E t \in RudpSenders : s3'[t].msg = n
      <3>1. s10' # {} => s11'
        BY <1>1, <1>2, Zenon DEF Reliable!NothingForgotten
      <3>2. \A n \in s6 : \/ n \in s7 \union Reliable!Messages(s4) \union s9 \union s10
                          \/ \E t \in RudpSenders : s3'[t].msg = n
        BY <2>1
      <3> QED BY <1>2, <3>1, <3>2 DEF Reliable!NothingForgotten, Reliable!Messages
    <2>2. \/ n \in s7 \union Reliable!Messages(s4) \union s9 \union s10
          \/ \E t \in RudpSenders : s3[t].msg = n
      BY <1>1 DEF Reliable!NothingForgotten, Reliable!Messages
    <2>3. s3[s].msg = 0 /\ n # 0
      BY <1>1, <1>2, <1>4 DEF Reliable!SendersInv, Reliable!Active
    <2> QED BY <1>5, <2>2, <2>3
  <1> QED BY <1>6, <1>7, <1>8, <1>9, <1>10 DEF Reliable!RudpInv

\* A message is sent, or that fails.
LEMMA RudpTransmits ==
  ASSUME Reliable!RudpInv, NEW s \in RudpSenders, Reliable!Transmit(s)
  PROVE  Reliable!RudpInv'
PROOF
  <1>1. /\ Reliable!NumbersInv /\ Reliable!SendersInv /\ Reliable!PacketsInv
        /\ (~s11 => Reliable!InTurn) /\ Reliable!NothingForgotten
        /\ s2 \in Nat /\ s2 > 0 /\ s1 \in Nat /\ s2 <= s1 /\ s1 <= s2 + RudpCount
    BY RudpParts
  <1>2. /\ s3[s].at = "counted"
        /\ UNCHANGED <<s1, s2, s4, s5, s7, s8, s9, s10, s11>>
        /\ \/ /\ s3' = [s3 EXCEPT ![s].at = "sent", ![s].seq = s1]
              /\ s6' = s6 \union {s3[s].msg}
           \/ s3' = [s3 EXCEPT ![s] = Reliable!Idle] /\ s6' = s6
    BY DEF Reliable!Transmit, Reliable!KeepNumber
  <1>3. /\ s3 \in [RudpSenders -> [at : {"idle", "counted", "sent"}, msg : Nat, seq : Nat]]
        /\ s6 \subseteq s2..(s1 - 1) /\ s7 \subseteq s6
    BY <1>1 DEF Reliable!NumbersInv
  <1>4. s3[s].msg \in s2..(s1 - 1) /\ s3[s].msg \in Nat /\ s3[s].msg \notin s6
    BY <1>1, <1>2, <1>3 DEF Reliable!SendersInv, Reliable!Active
  <1>5. /\ s3' \in [RudpSenders -> [at : {"idle", "counted", "sent"}, msg : Nat, seq : Nat]]
        /\ \A t \in RudpSenders : t # s => s3'[t] = s3[t]
        /\ \/ s3'[s].at = "sent" /\ s3'[s].msg = s3[s].msg /\ s3'[s].seq = s1 /\ s6' = s6 \union {s3[s].msg}
           \/ s3'[s].at = "idle" /\ s3'[s].msg = 0 /\ s6' = s6
    BY <1>1, <1>2, <1>3 DEF Reliable!Idle
  <1>6. Reliable!NumbersInv'
    <2>1. Reliable!Packet' = Reliable!Packet
      BY DEF Reliable!Packet
    <2>2. s6' \subseteq s2..(s1 - 1) /\ s7 \subseteq s6'
      BY <1>2, <1>3, <1>4
    <2> QED BY <1>1, <1>2, <1>5, <2>1, <2>2 DEF Reliable!NumbersInv
  <1>7. Reliable!SendersInv'
    <2>1. \A t \in RudpSenders : IF s3'[t].at # "idle" THEN s3'[t].msg \in s2..(s1 - 1) ELSE s3'[t].msg = 0
      BY <1>1, <1>2, <1>4, <1>5 DEF Reliable!SendersInv, Reliable!Active
    <2>2. \A t, u \in RudpSenders :
             s3[t].at # "idle" /\ s3[u].at # "idle" /\ s3[t].msg = s3[u].msg => t = u
      BY <1>1 DEF Reliable!SendersInv, Reliable!Active
    <2>3. \A t \in RudpSenders : s3'[t].at = "counted" => s3'[t].msg \notin s6'
      <3>1. SUFFICES ASSUME NEW t \in RudpSenders, t # s, s3[t].at = "counted" PROVE s3[t].msg \notin s6'
        BY <1>5
      <3>2. s3[t].msg \notin s6 /\ s3[t].msg # s3[s].msg
        BY <1>1, <1>2, <2>2, <3>1 DEF Reliable!SendersInv
      <3> QED BY <1>5, <3>2
    <2>4. \A t \in RudpSenders : s3'[t].at = "sent" => s3'[t].seq \in (s3'[t].msg + 1)..s1
      <3>1. s1 \in (s3[s].msg + 1)..s1
        BY <1>1, <1>4
      <3> QED BY <1>1, <1>5, <3>1 DEF Reliable!SendersInv
    <2>5. \A t, u \in RudpSenders :
             s3'[t].at # "idle" /\ s3'[u].at # "idle" /\ s3'[t].msg = s3'[u].msg => t = u
      <3>1. \A t \in RudpSenders : s3'[t].at # "idle" => s3[t].at # "idle" /\ s3'[t].msg = s3[t].msg
        BY <1>2, <1>5
      <3> QED BY <2>2, <3>1
    <2> QED BY <1>2, <2>1, <2>3, <2>4, <2>5 DEF Reliable!SendersInv, Reliable!Active
  <1>8. Reliable!PacketsInv'
    <2>1. \A t \in RudpSenders : s3'[t].at # "idle" => s3[t].at # "idle" /\ s3'[t].msg = s3[t].msg
      BY <1>2, <1>5
    <2> QED BY <1>1, <1>2, <2>1 DEF Reliable!PacketsInv, Reliable!Active
  <1>9. ~s11' => Reliable!InTurn'
    <2>1. SUFFICES ASSUME ~s11 PROVE Reliable!InTurn'
      BY <1>2
    <2>2. Reliable!InTurn
      BY <1>1, <2>1
    <2>3. s3[s].msg + 1 = s1
      BY <1>2, <2>2 DEF Reliable!InTurn
    <2>4. \A t \in RudpSenders : s3'[t].at = "counted" => s3'[t].msg + 1 = s1
      BY <1>5, <2>2 DEF Reliable!InTurn
    <2>5. \A t \in RudpSenders : s3'[t].at = "sent" => s3'[t].seq = s3'[t].msg + 1
      BY <1>5, <2>2, <2>3 DEF Reliable!InTurn
    <2> QED BY <1>2, <2>2, <2>4, <2>5 DEF Reliable!InTurn
  <1>10. Reliable!NothingForgotten'
    <2>1. SUFFICES ASSUME NEW n \in s6'
                   PROVE  \/ n \in s7 \union Reliable!Messages(s4) \union s9 \union s10
                          \/ \E t \in RudpSenders : s3'[t].msg = n
      BY <1>1, <1>2 DEF Reliable!NothingForgotten, Reliable!Messages
    <2>2. CASE n \in s6
      <3>1. \/ n \in s7 \union Reliable!Messages(s4) \union s9 \union s10
            \/ \E t \in RudpSenders : s3[t].msg = n
        BY <1>1, <2>2 DEF Reliable!NothingForgotten, Reliable!Messages
      <3>2. s3[s].msg # n
        BY <1>4, <2>2
      <3> QED BY <1>5, <3>1, <3>2
    <2>3. CASE n \notin s6
      BY <1>5, <2>1, <2>3
    <2> QED BY <2>2, <2>3
  <1> QED BY <1>6, <1>7, <1>8, <1>9, <1>10 DEF Reliable!RudpInv

\* chiaki_rudp_send_buffer_push: full, taken or appended
LEMMA RudpPushes ==
  ASSUME Reliable!RudpInv, NEW s \in RudpSenders, Reliable!Push(s)
  PROVE  Reliable!RudpInv'
PROOF
  <1> DEFINE m == s3[s]
             p == [seq |-> m.seq, msg |-> m.msg, tries |-> 0]
  <1>1. /\ Reliable!NumbersInv /\ Reliable!SendersInv /\ Reliable!PacketsInv
        /\ (~s11 => Reliable!InTurn) /\ Reliable!NothingForgotten
        /\ s2 \in Nat /\ s2 > 0 /\ s1 \in Nat /\ s2 <= s1 /\ s1 <= s2 + RudpCount
    BY RudpParts
  <1>2. /\ m.at = "sent"
        /\ s3' = [s3 EXCEPT ![s] = Reliable!Idle]
        /\ UNCHANGED <<s1, s2, s5, s6, s7, s8, s11>>
        /\ \/ s9' = s9 \union {m.msg} /\ s4' = s4 /\ s10' = s10
           \/ /\ \E i \in DOMAIN s4 : s4[i].seq = m.seq
              /\ s10' = s10 \union {m.msg} /\ s4' = s4 /\ s9' = s9
           \/ s4' = Append(s4, p) /\ s9' = s9 /\ s10' = s10
    BY DEF Reliable!Push
  <1>3. /\ s3 \in [RudpSenders -> [at : {"idle", "counted", "sent"}, msg : Nat, seq : Nat]]
        /\ s4 \in Seq(Reliable!Packet)
    BY <1>1 DEF Reliable!NumbersInv
  <1>4. /\ m.msg \in s2..(s1 - 1) /\ m.msg \in Nat /\ m.seq \in (m.msg + 1)..s1 /\ m.seq \in Nat
        /\ \A t \in RudpSenders : t # s /\ s3[t].at # "idle" => s3[t].msg # m.msg
    BY <1>1, <1>2, <1>3 DEF Reliable!SendersInv, Reliable!Active
  <1>5. /\ s3' \in [RudpSenders -> [at : {"idle", "counted", "sent"}, msg : Nat, seq : Nat]]
        /\ s3'[s].at = "idle" /\ s3'[s].msg = 0
        /\ \A t \in RudpSenders : t # s => s3'[t] = s3[t]
    BY <1>1, <1>2, <1>3 DEF Reliable!Idle
  <1>6. p \in Reliable!Packet /\ p.seq = m.seq /\ p.msg = m.msg
    BY <1>4 DEF Reliable!Packet
  <1>7. /\ s4' \in Seq(Reliable!Packet)
        /\ \A i \in DOMAIN s4' : (i \in DOMAIN s4 /\ s4'[i] = s4[i]) \/ s4'[i] = p
        /\ \A i \in DOMAIN s4 : i \in DOMAIN s4' /\ s4'[i] = s4[i]
        /\ s4' # s4 => \E i \in DOMAIN s4' : s4'[i] = p
    <2>1. CASE s4' = s4
      BY <1>3, <2>1
    <2>2. CASE s4' = Append(s4, p)
      <3> HIDE DEF p
      <3>1. s4' \in Seq(Reliable!Packet) /\ Len(s4') = Len(s4) + 1 /\ Len(s4) \in Nat
        BY <1>3, <1>6, <2>2
      <3>2. \A i \in 1..Len(s4) : s4'[i] = s4[i]
        BY <1>3, <1>6, <2>2
      <3>3. s4'[Len(s4) + 1] = p
        BY <1>3, <1>6, <2>2
      <3>4. DOMAIN s4 = 1..Len(s4) /\ DOMAIN s4' = 1..(Len(s4) + 1)
        BY <1>3, <3>1
      <3> QED BY <3>1, <3>2, <3>3, <3>4
    <2> QED BY <1>2, <2>1, <2>2
  <1> HIDE DEF m, p
  <1>8. Reliable!NumbersInv'
    <2>1. Reliable!Packet' = Reliable!Packet
      BY DEF Reliable!Packet
    <2> QED BY <1>1, <1>2, <1>5, <1>7, <2>1 DEF Reliable!NumbersInv
  <1>9. Reliable!SendersInv'
    BY <1>1, <1>2, <1>5 DEF Reliable!SendersInv, Reliable!Active
  <1>10. Reliable!PacketsInv'
    <2>1. SUFFICES ASSUME NEW i \in DOMAIN s4'
                   PROVE  /\ s4'[i].msg \in s2..(s1 - 1) /\ s4'[i].seq \in (s4'[i].msg + 1)..s1
                          /\ \A t \in RudpSenders : s3'[t].at # "idle" => s4'[i].msg # s3'[t].msg
      BY <1>2 DEF Reliable!PacketsInv, Reliable!Active
    <2>2. CASE i \in DOMAIN s4 /\ s4'[i] = s4[i]
      BY <1>1, <1>5, <2>2 DEF Reliable!PacketsInv, Reliable!Active
    <2>3. CASE s4'[i] = p
      BY <1>4, <1>5, <1>6, <2>3
    <2> QED BY <1>7, <2>2, <2>3
  <1>11. ~s11' => Reliable!InTurn'
    <2>1. SUFFICES ASSUME ~s11 PROVE Reliable!InTurn'
      BY <1>2
    <2>2. Reliable!InTurn
      BY <1>1, <2>1
    <2>3. m.seq = m.msg + 1
      BY <1>2, <2>2 DEF Reliable!InTurn, m
    <2>4. \A i \in DOMAIN s4' : s4'[i].seq = s4'[i].msg + 1
      BY <1>6, <1>7, <2>2, <2>3 DEF Reliable!InTurn
    <2> QED BY <1>2, <1>5, <2>2, <2>4 DEF Reliable!InTurn
  <1>12. Reliable!NothingForgotten'
    <2>1. \A n \in s6 : \/ n \in s7 \union Reliable!Messages(s4') \union s9' \union s10'
                        \/ \E t \in RudpSenders : s3'[t].msg = n
      <3>1. SUFFICES ASSUME NEW n \in s6
                     PROVE  \/ n \in s7 \union Reliable!Messages(s4') \union s9' \union s10'
                            \/ \E t \in RudpSenders : s3'[t].msg = n
        OBVIOUS
      <3>2. Reliable!Messages(s4) \subseteq Reliable!Messages(s4')
        <4>1. SUFFICES ASSUME NEW i \in DOMAIN s4 PROVE \E j \in DOMAIN s4' : s4'[j].msg = s4[i].msg
          BY DEF Reliable!Messages
        <4> QED BY <1>7
      <3>3. m.msg \in Reliable!Messages(s4') \union s9' \union s10'
        <4>1. CASE s4' # s4
          BY <1>6, <1>7, <4>1 DEF Reliable!Messages
        <4>2. CASE s4' = Append(s4, p)
          <5>1. s4' # s4
            <6>1. Len(s4') = Len(s4) + 1 /\ Len(s4) \in Nat
              BY <1>3, <1>6, <4>2
            <6> QED BY <6>1
          <5> QED BY <4>1, <5>1
        <4> QED BY <1>2, <4>2
      <3>4. \/ n \in s7 \union Reliable!Messages(s4) \union s9 \union s10
            \/ \E t \in RudpSenders : s3[t].msg = n
        BY <1>1 DEF Reliable!NothingForgotten
      <3>5. CASE \E t \in RudpSenders : s3[t].msg = n
        BY <1>5, <3>3, <3>5 DEF m
      <3> QED BY <1>2, <3>2, <3>4, <3>5
    <2>2. s10' # {} => s11'
      <3>1. CASE s10' = s10
        BY <1>1, <1>2, <3>1 DEF Reliable!NothingForgotten
      <3>2. CASE \E i \in DOMAIN s4 : s4[i].seq = m.seq
        <4>1. SUFFICES ASSUME ~s11 PROVE FALSE
          BY <1>2
        <4>2. Reliable!InTurn
          BY <1>1, <4>1
        <4>3. m.seq = m.msg + 1
          BY <1>2, <4>2 DEF Reliable!InTurn, m
        <4>4. PICK i \in DOMAIN s4 : s4[i].seq = m.seq
          BY <3>2
        <4>5. s4[i].seq = s4[i].msg + 1 /\ s4[i].msg \in s2..(s1 - 1) /\ s4[i].msg # m.msg
          BY <1>1, <1>2, <4>2 DEF Reliable!InTurn, Reliable!PacketsInv, Reliable!Active, m
        <4>6. s4[i].msg \in Int /\ m.msg \in Int
          BY <1>1, <1>4, <4>5
        <4> QED BY <4>3, <4>4, <4>5, <4>6
      <3> QED BY <1>2, <3>1, <3>2
    <2> QED BY <1>2, <2>1, <2>2 DEF Reliable!NothingForgotten, Reliable!Messages
  <1> QED BY <1>8, <1>9, <1>10, <1>11, <1>12 DEF Reliable!RudpInv

\* A packet is sent again.
LEMMA RudpResends ==
  ASSUME Reliable!RudpInv, Reliable!Resend
  PROVE  Reliable!RudpInv'
PROOF
  <1>1. /\ Reliable!NumbersInv /\ Reliable!SendersInv /\ Reliable!PacketsInv
        /\ (~s11 => Reliable!InTurn) /\ Reliable!NothingForgotten
        /\ s2 \in Nat /\ s2 > 0 /\ s1 \in Nat /\ s2 <= s1 /\ s1 <= s2 + RudpCount
    BY RudpParts
  <1>2. PICK k \in DOMAIN s4 : /\ s4' = [s4 EXCEPT ![k].tries = @ + 1]
                               /\ s6' = s6 \union {s4[k].msg}
    BY DEF Reliable!Resend
  <1>3. UNCHANGED <<s1, s2, s3, s5, s7, s8, s9, s10, s11>>
    BY DEF Reliable!Resend
  <1>4. s4 \in Seq(Reliable!Packet) /\ s6 \subseteq s2..(s1 - 1) /\ s7 \subseteq s6
    BY <1>1 DEF Reliable!NumbersInv
  <1>5. s4[k].msg \in s2..(s1 - 1)
    BY <1>1 DEF Reliable!PacketsInv
  <1>6. /\ s4' \in Seq(Reliable!Packet) /\ DOMAIN s4' = DOMAIN s4
        /\ \A i \in DOMAIN s4 : s4'[i].msg = s4[i].msg /\ s4'[i].seq = s4[i].seq
    <2> DEFINE q == [s4[k] EXCEPT !.tries = @ + 1]
    <2>1. s4' = [s4 EXCEPT ![k] = q]
      BY <1>2
    <2>2. s4[k] \in Reliable!Packet
      BY <1>4
    <2>3. q \in Reliable!Packet /\ q.msg = s4[k].msg /\ q.seq = s4[k].seq
      BY <2>2 DEF Reliable!Packet
    <2> HIDE DEF q
    <2>4. s4' \in Seq(Reliable!Packet) /\ DOMAIN s4' = DOMAIN s4
      BY <1>4, <2>1, <2>3
    <2>5. \A i \in DOMAIN s4 : s4'[i] = IF i = k THEN q ELSE s4[i]
      BY <1>4, <2>1
    <2> QED BY <2>3, <2>4, <2>5
  <1>7. Reliable!Messages(s4') = Reliable!Messages(s4)
    BY <1>6 DEF Reliable!Messages
  <1>8. Reliable!NumbersInv'
    <2>1. Reliable!Packet' = Reliable!Packet
      BY DEF Reliable!Packet
    <2>2. s6' \subseteq s2..(s1 - 1) /\ s7 \subseteq s6'
      BY <1>2, <1>4, <1>5
    <2> QED BY <1>1, <1>3, <1>6, <2>1, <2>2 DEF Reliable!NumbersInv
  <1>9. Reliable!SendersInv'
    <2>1. \A t \in RudpSenders : s3[t].at = "counted" => s3[t].msg \notin s6'
      <3>1. SUFFICES ASSUME NEW t \in RudpSenders, s3[t].at = "counted" PROVE s3[t].msg \notin s6'
        OBVIOUS
      <3>2. s4[k].msg # s3[t].msg
        BY <1>1, <3>1 DEF Reliable!PacketsInv, Reliable!Active
      <3> QED BY <1>1, <1>2, <3>1, <3>2 DEF Reliable!SendersInv
    <2> QED BY <1>1, <1>3, <2>1 DEF Reliable!SendersInv, Reliable!Active
  <1>10. Reliable!PacketsInv'
    BY <1>1, <1>3, <1>6 DEF Reliable!PacketsInv, Reliable!Active
  <1>11. ~s11' => Reliable!InTurn'
    BY <1>1, <1>3, <1>6 DEF Reliable!InTurn
  <1>12. Reliable!NothingForgotten'
    <2>1. s4[k].msg \in Reliable!Messages(s4)
      BY DEF Reliable!Messages
    <2>2. \A n \in s6' : \/ n \in s7 \union Reliable!Messages(s4) \union s9 \union s10
                         \/ \E t \in RudpSenders : s3[t].msg = n
      BY <1>1, <1>2, <2>1 DEF Reliable!NothingForgotten
    <2>3. s10 # {} => s11
      BY <1>1 DEF Reliable!NothingForgotten
    <2>4. s10' = s10 /\ s11' = s11 /\ s7' = s7 /\ s9' = s9 /\ s3' = s3
      BY <1>3
    <2> QED BY <1>7, <2>2, <2>3, <2>4 DEF Reliable!NothingForgotten, Reliable!Messages
  <1> QED BY <1>8, <1>9, <1>10, <1>11, <1>12 DEF Reliable!RudpInv

\* An acknowledgement removes only what was received.
LEMMA RudpAcked ==
  ASSUME Reliable!RudpInv, Reliable!Acked
  PROVE  Reliable!RudpInv'
PROOF
  <1>1. /\ Reliable!NumbersInv /\ Reliable!PacketsInv
        /\ s2 \in Nat /\ s2 > 0 /\ s1 \in Nat /\ s2 <= s1 /\ s1 <= s2 + RudpCount
        /\ s2 + RudpCount < RudpMod \div 2 /\ RudpCount \in Nat
    BY RudpParts
  <1>2. PICK a \in s8 : s4' \in Reliable!Without(a)
    BY DEF Reliable!Acked
  <1>3. UNCHANGED <<s1, s2, s3, s6, s7, s8, s9, s10, s11>>
    BY DEF Reliable!Acked
  <1>4. a \in s2..(s2 + RudpCount) /\ s2..(a - 1) \subseteq s7
    BY <1>1 DEF Reliable!NumbersInv
  <1>5. ASSUME NEW i \in DOMAIN s4, i \notin Reliable!Kept(a)
        PROVE  s4[i].msg \in s7
    <2>1. s4[i].msg \in s2..(s1 - 1) /\ s4[i].seq \in (s4[i].msg + 1)..s1
      BY <1>1 DEF Reliable!PacketsInv
    <2>2. s4[i].seq = a \/ Reliable!SeqLt(s4[i].seq, a)
      BY <1>5 DEF Reliable!Kept
    <2>3. /\ s4[i].seq \in Nat /\ s4[i].msg \in Nat /\ a \in Nat
          /\ s4[i].seq < RudpMod \div 2 /\ a < RudpMod \div 2
      <3> DEFINE h == RudpMod \div 2
      <3>1. h \in Int
        BY RudpConstants
      <3>2. s2 + RudpCount < h
        BY <1>1
      <3> HIDE DEF h
      <3>3. s4[i].seq \in Nat /\ s4[i].msg \in Nat /\ a \in Nat /\ s4[i].seq < h /\ a < h
        BY <1>1, <1>4, <2>1, <3>1, <3>2
      <3> QED BY <3>3 DEF h
    <2>4. s4[i].seq <= a
      BY <2>2, <2>3, LtSmall
    <2>5. s4[i].msg \in s2..(a - 1)
      BY <1>1, <2>1, <2>3, <2>4
    <2> QED BY <1>4, <2>5
  <1> QED BY <1>2, <1>3, <1>5, RudpForgets

\* A message of an unknown kind removes nothing.
LEMMA RudpUnknown ==
  ASSUME Reliable!RudpInv, Reliable!Unknown
  PROVE  Reliable!RudpInv'
PROOF
  <1>1. /\ Reliable!PacketsInv
        /\ s2 \in Nat /\ s2 > 0 /\ s1 \in Nat /\ s2 <= s1 /\ s1 <= s2 + RudpCount
        /\ s2 + RudpCount < RudpMod \div 2 /\ RudpCount \in Nat
    BY RudpParts
  <1>2. s4' \in Reliable!Without(0)
    BY DEF Reliable!Unknown
  <1>3. UNCHANGED <<s1, s2, s3, s6, s7, s8, s9, s10, s11>>
    BY DEF Reliable!Unknown
  <1>4. ASSUME NEW i \in DOMAIN s4 PROVE i \in Reliable!Kept(0)
    <2>1. s4[i].msg \in s2..(s1 - 1) /\ s4[i].seq \in (s4[i].msg + 1)..s1
      BY <1>1 DEF Reliable!PacketsInv
    <2>2. /\ s4[i].seq \in Nat /\ 0 \in Nat /\ s4[i].seq > 0
          /\ s4[i].seq < RudpMod \div 2 /\ 0 < RudpMod \div 2
      <3> DEFINE h == RudpMod \div 2
      <3>1. h \in Int
        BY RudpConstants
      <3>2. s2 + RudpCount < h
        BY <1>1
      <3> HIDE DEF h
      <3>3. s4[i].seq \in Nat /\ s4[i].seq > 0 /\ s4[i].seq < h /\ 0 < h
        BY <1>1, <2>1, <3>1, <3>2
      <3> QED BY <3>3 DEF h
    <2>3. ~Reliable!SeqLt(s4[i].seq, 0)
      BY <2>2, LtSmall
    <2> QED BY <2>2, <2>3 DEF Reliable!Kept
  <1> QED BY <1>2, <1>3, <1>4, RudpForgets

\* What is given up is so with all before it.
LEMMA RudpGivesUp ==
  ASSUME Reliable!RudpInv, Reliable!GivenUp
  PROVE  Reliable!RudpInv'
PROOF
  <1>1. PICK seq : /\ s4' \in Reliable!Without(seq)
                   /\ s9' = s9 \union (Reliable!Messages(s4) \ Reliable!Messages(s4'))
    BY DEF Reliable!GivenUp
  <1>2. UNCHANGED <<s1, s2, s3, s6, s7, s8, s10, s11>>
    BY DEF Reliable!GivenUp
  <1>3. \A i \in DOMAIN s4 : s4[i].msg \in s9' \/ s4[i].msg \in Reliable!Messages(s4')
    BY <1>1 DEF Reliable!Messages
  <1> QED BY <1>1, <1>2, <1>3, RudpForgets

\* The console acknowledges what it has without a gap.
LEMMA RudpReceives ==
  ASSUME Reliable!RudpInv, Reliable!Receive
  PROVE  Reliable!RudpInv'
PROOF
  <1> DEFINE Missing == {k \in s2..(s2 + RudpCount) : k \notin s7'}
             a == Reliable!Least(Missing)
  <1>1. /\ Reliable!NumbersInv /\ Reliable!SendersInv /\ Reliable!PacketsInv
        /\ (~s11 => Reliable!InTurn) /\ Reliable!NothingForgotten
        /\ s2 \in Nat /\ s2 > 0 /\ s1 \in Nat /\ s2 <= s1 /\ s1 <= s2 + RudpCount /\ RudpCount \in Nat
    BY RudpParts
  <1>2. PICK n \in s6 : s7' = s7 \union {n} /\ s8' = s8 \union {a}
    BY DEF Reliable!Receive
  <1>3. UNCHANGED <<s1, s2, s3, s4, s5, s6, s9, s10, s11>>
    BY DEF Reliable!Receive
  <1>4. s6 \subseteq s2..(s1 - 1) /\ s7' \subseteq s6 /\ s7 \subseteq s7'
    BY <1>1, <1>2 DEF Reliable!NumbersInv
  <1>5. Missing \subseteq Nat /\ Missing # {}
    <2>1. s2 + RudpCount \notin s6 /\ s2 + RudpCount \in s2..(s2 + RudpCount)
      BY <1>1, <1>4
    <2>2. s2 + RudpCount \in Missing
      BY <1>4, <2>1
    <2> QED BY <1>1, <2>2
  <1>6. a \in Missing /\ \A k \in Missing : a <= k
    <2>1. \E k \in Missing : \A j \in Missing : k <= j
      <3> HIDE DEF Missing
      <3> QED BY <1>5, LeastOf
    <2> HIDE DEF Missing
    <2> QED BY <2>1 DEF Reliable!Least
  <1>7. a \in s2..(s2 + RudpCount)
    BY <1>6
  <1>8. s2..(a - 1) \subseteq s7'
    <2>1. SUFFICES ASSUME NEW k \in s2..(a - 1), k \notin s7' PROVE FALSE
      OBVIOUS
    <2> HIDE DEF a
    <2>2. k \in s2..(s2 + RudpCount) /\ k < a
      BY <1>1, <1>7
    <2>3. k \in Missing
      BY <2>1, <2>2
    <2>4. a <= k
      BY <1>6, <2>3
    <2>5. k \in Int /\ a \in Int
      BY <1>1, <1>7
    <2> QED BY <2>2, <2>4, <2>5
  <1> HIDE DEF Missing, a
  <1>9. Reliable!NumbersInv'
    <2>1. Reliable!Packet' = Reliable!Packet
      BY DEF Reliable!Packet
    <2>2. \A b \in s8' : b \in s2..(s2 + RudpCount) /\ s2..(b - 1) \subseteq s7'
      BY <1>1, <1>2, <1>4, <1>7, <1>8 DEF Reliable!NumbersInv
    <2> QED BY <1>1, <1>3, <1>4, <2>1, <2>2 DEF Reliable!NumbersInv
  <1>10. Reliable!SendersInv'
    BY <1>1, <1>3 DEF Reliable!SendersInv, Reliable!Active
  <1>11. Reliable!PacketsInv'
    BY <1>1, <1>3 DEF Reliable!PacketsInv, Reliable!Active
  <1>12. ~s11' => Reliable!InTurn'
    BY <1>1, <1>3 DEF Reliable!InTurn
  <1>13. Reliable!NothingForgotten'
    BY <1>1, <1>3, <1>4 DEF Reliable!NothingForgotten, Reliable!Messages
  <1> QED BY <1>9, <1>10, <1>11, <1>12, <1>13 DEF Reliable!RudpInv

\* Messages over RUDP: every step keeps the invariant.
LEMMA RudpNext ==
  ASSUME Reliable!RudpInv, Reliable!Next
  PROVE  Reliable!RudpInv'
PROOF
  <1>1. CASE Reliable!GiveUp
    <2>1. UNCHANGED <<s1, s2, s3, s4, s6, s7, s8, s9, s10, s11>>
      BY <1>1 DEF Reliable!GiveUp
    <2> QED
      BY <2>1 DEF Reliable!RudpInv, Reliable!NumbersInv, Reliable!SendersInv, Reliable!PacketsInv,
         Reliable!InTurn, Reliable!NothingForgotten, Reliable!Packet, Reliable!Active, Reliable!Messages
  <1> QED
    BY <1>1, RudpCounts, RudpTransmits, RudpPushes, RudpResends, RudpGivesUp, RudpAcked,
       RudpUnknown, RudpReceives DEF Reliable!Next

\* A new connection has nothing to forget.
LEMMA RudpInit ==
  ASSUME Reliable!Init
  PROVE  Reliable!RudpInv
PROOF
  <1>1. /\ s2 \in RudpStarts /\ s1 = s2
        /\ s3 = [s \in RudpSenders |-> Reliable!Idle]
        /\ s4 = <<>> /\ s6 = {} /\ s7 = {} /\ s8 = {} /\ s9 = {} /\ s10 = {} /\ s11 = FALSE
    BY DEF Reliable!Init
  <1>2. s2 \in Nat /\ RudpCount \in Nat
    BY <1>1, RudpConstants
  <1>3. s1 \in s2..(s2 + RudpCount)
    BY <1>1, <1>2
  <1>4. s4 \in Seq(Reliable!Packet) /\ DOMAIN s4 = {}
    BY <1>1
  <1>5. \A s \in RudpSenders : s3[s].at = "idle" /\ s3[s].msg = 0
    BY <1>1 DEF Reliable!Idle
  <1>6. s3 \in [RudpSenders -> [at : {"idle", "counted", "sent"}, msg : Nat, seq : Nat]]
    BY <1>1 DEF Reliable!Idle
  <1>7. Reliable!NumbersInv
    BY <1>1, <1>3, <1>4, <1>6 DEF Reliable!NumbersInv
  <1>8. Reliable!SendersInv
    BY <1>5 DEF Reliable!SendersInv, Reliable!Active
  <1>9. Reliable!PacketsInv /\ Reliable!InTurn
    BY <1>4, <1>5 DEF Reliable!PacketsInv, Reliable!InTurn
  <1>10. Reliable!NothingForgotten
    BY <1>1 DEF Reliable!NothingForgotten
  <1> QED BY <1>7, <1>8, <1>9, <1>10 DEF Reliable!RudpInv

-----------------------------------------------------------------------------
(* The first messages over RUDP: chiaki_rudp_send_recv                     *)

\* The places of what is not a.
Others(s, a) == {i \in DOMAIN s : s[i] # a}

\* They are no more than there are places.
LEMMA OthersBound ==
  ASSUME NEW S, NEW s \in Seq(S), NEW a
  PROVE  Cardinality(Others(s, a)) \in 0..Len(s)
PROOF
  <1>1. /\ IsFiniteSet(1..Len(s)) /\ Cardinality(1..Len(s)) = Len(s) /\ Len(s) \in Nat
    <2>1. Len(s) \in Nat
      OBVIOUS
    <2>2. Cardinality(1..Len(s)) = IF 1 > Len(s) THEN 0 ELSE Len(s) - 1 + 1
      BY <2>1, FS_Interval
    <2>3. IsFiniteSet(1..Len(s))
      BY <2>1, FS_Interval
    <2> QED BY <2>1, <2>2, <2>3
  <1>2. Others(s, a) \subseteq 1..Len(s)
    BY DEF Others
  <1>3. Cardinality(Others(s, a)) <= Cardinality(1..Len(s)) /\ IsFiniteSet(Others(s, a))
    BY <1>1, <1>2, FS_Subset
  <1>4. Cardinality(Others(s, a)) \in Nat
    BY <1>3, FS_CardinalityType
  <1> QED BY <1>1, <1>3, <1>4

\* A sequence without its i-th element.
LEMMA WithoutOne ==
  ASSUME NEW S, NEW s \in Seq(S), NEW i \in DOMAIN s, NEW t,
         t = [j \in 1..Len(s)-1 |-> s[IF j < i THEN j ELSE j + 1]]
  PROVE  /\ t \in Seq(S) /\ Len(t) = Len(s) - 1
         /\ \A j \in 1..Len(s)-1 : t[j] = IF j < i THEN s[j] ELSE s[j + 1]
PROOF
  <1>1. Len(s) \in Nat /\ i \in 1..Len(s) /\ Len(s) - 1 \in Nat
    OBVIOUS
  <1>2. \A j \in 1..Len(s)-1 : t[j] = IF j < i THEN s[j] ELSE s[j + 1]
    OBVIOUS
  <1>3. \A j \in 1..Len(s)-1 : t[j] \in S
    BY <1>1, <1>2
  <1>4. t \in [1..Len(s)-1 -> S]
    BY <1>3
  <1>5. t \in Seq(S)
    BY <1>1, <1>4
  <1>6. Len(t) = Len(s) - 1
    BY <1>1, <1>4, <1>5
  <1> QED BY <1>2, <1>5, <1>6

\* One that is taken out leaves the others as they were.
LEMMA TakenOut ==
  ASSUME NEW S, NEW s \in Seq(S), NEW i \in DOMAIN s, NEW a
  PROVE  LET t == Handshake!Without(s, i)
         IN  /\ t \in Seq(S) /\ Len(t) = Len(s) - 1
             /\ Cardinality(Others(t, a)) = Cardinality(Others(s, a) \ {i})
PROOF
  <1> DEFINE t == Handshake!Without(s, i)
             n == Len(s)
             F == [j \in Others(s, a) \ {i} |-> IF j < i THEN j ELSE j - 1]
  <1>1. n \in Nat /\ i \in 1..n /\ i \in Nat /\ DOMAIN s = 1..n
    OBVIOUS
  <1>2. t = [j \in 1..Len(s)-1 |-> s[IF j < i THEN j ELSE j + 1]]
    BY DEF Handshake!Without
  <1> HIDE DEF t
  <1>3. /\ t \in Seq(S) /\ Len(t) = Len(s) - 1
        /\ \A j \in 1..Len(s)-1 : t[j] = IF j < i THEN s[j] ELSE s[j + 1]
    BY <1>2, WithoutOne
  <1> HIDE DEF n
  <1>5. t \in Seq(S) /\ Len(t) = n - 1
    BY <1>3 DEF n
  <1>6. \A j \in 1..n-1 : t[j] = IF j < i THEN s[j] ELSE s[j + 1]
    BY <1>3 DEF n
  <1>7. DOMAIN t = 1..n-1
    BY <1>5
  <1>8. F \in Bijection(Others(s, a) \ {i}, Others(t, a))
    <2> DEFINE A == Others(s, a) \ {i}
    <2>1. \A j \in A : j \in 1..n /\ j # i /\ s[j] # a
      BY <1>1 DEF Others
    <2>2. \A j \in A : F[j] \in Others(t, a)
      <3>1. SUFFICES ASSUME NEW j \in A PROVE F[j] \in Others(t, a)
        OBVIOUS
      <3>2. CASE j < i
        <4>1. j \in 1..n-1
          BY <1>1, <2>1, <3>2
        <4> QED BY <1>6, <1>7, <2>1, <3>2, <4>1 DEF Others
      <3>3. CASE ~(j < i)
        <4>1. j - 1 \in 1..n-1 /\ ~(j - 1 < i) /\ (j - 1) + 1 = j
          BY <1>1, <2>1, <3>3
        <4>2. t[j - 1] = s[j]
          BY <1>6, <4>1
        <4> QED BY <1>7, <2>1, <3>3, <4>1, <4>2 DEF Others
      <3> QED BY <3>2, <3>3
    <2>3. \A j, k \in A : F[j] = F[k] => j = k
      <3>1. \A j \in A : j \in Int /\ j # i /\ F[j] = IF j < i THEN j ELSE j - 1
        BY <1>1, <2>1
      <3> HIDE DEF A, F
      <3> QED BY <1>1, <3>1
    <2>4. \A k \in Others(t, a) : \E j \in A : F[j] = k
      <3>1. SUFFICES ASSUME NEW k \in Others(t, a) PROVE \E j \in A : F[j] = k
        OBVIOUS
      <3>2. k \in 1..n-1 /\ t[k] # a /\ k \in Int
        BY <1>1, <1>7 DEF Others
      <3>3. CASE k < i
        <4>1. k \in 1..n /\ k # i /\ s[k] # a
          BY <1>1, <1>6, <3>2, <3>3
        <4>2. k \in A
          BY <1>1, <4>1 DEF Others
        <4> QED BY <3>3, <4>2
      <3>4. CASE ~(k < i)
        <4>1. k + 1 \in 1..n /\ k + 1 # i /\ ~(k + 1 < i) /\ (k + 1) - 1 = k
          BY <1>1, <3>2, <3>4
        <4>2. s[k + 1] # a
          BY <1>6, <3>2, <3>4
        <4>3. k + 1 \in A
          BY <1>1, <4>1, <4>2 DEF Others
        <4> QED BY <4>1, <4>3
      <3> QED BY <3>3, <3>4
    <2>5. F \in [A -> Others(t, a)]
      BY <2>2
    <2> HIDE DEF A, F
    <2>6. \A j, k \in A : F[j] = F[k] => j = k
      BY <2>3
    <2>7. F \in Bijection(A, Others(t, a))
      BY <2>4, <2>5, <2>6, Fun_IsBij
    <2> QED BY <2>7 DEF A
  <1>9. IsFiniteSet(Others(s, a) \ {i})
    <2>1. Others(s, a) \ {i} \subseteq 1..n
      BY <1>1 DEF Others
    <2>2. IsFiniteSet(1..n)
      BY <1>1, FS_Interval
    <2> QED BY <2>1, <2>2, FS_Subset
  <1>10. Cardinality(Others(t, a)) = Cardinality(Others(s, a) \ {i})
    <2>1. ExistsBijection(Others(s, a) \ {i}, Others(t, a))
      BY <1>8 DEF ExistsBijection
    <2> QED BY <1>9, <2>1, FS_Bijection
  <1> QED BY <1>5, <1>10 DEF t, n

\* The places of the answers that are not the one expected, counted as here.
WrongIn(sock, c) == Others(sock, HandshakeCalls[c].answer)

\* They are those of the model.
LEMMA WrongIs ==
  /\ Handshake!Wrong = WrongIn(s4, s1)
  /\ Handshake!Cardinality(Handshake!Wrong) = Cardinality(WrongIn(s4, s1))
  /\ Handshake!Cardinality(Handshake!Wrong)' = Cardinality(WrongIn(s4', s1'))
PROOF
  <1>1. \A S : Handshake!Cardinality(S) = Cardinality(S)
    BY DEF Cardinality, IsFiniteSet, Handshake!Cardinality, Handshake!IsFiniteSet
  <1>2. Handshake!Wrong = WrongIn(s4, s1) /\ Handshake!Wrong' = WrongIn(s4', s1')
    BY DEF Handshake!Wrong, WrongIn, Others
  <1> QED BY <1>1, <1>2

\* What the calls, the tries and the socket are.
ShakeTypes ==
  /\ HandshakeTries \in Nat \ {0}
  /\ s1 \in DOMAIN HandshakeCalls /\ s2 \in 0..HandshakeTries - 1 /\ s5 \in Nat /\ s4 \in Seq(STRING)
  /\ Len(s4) \in Nat /\ Cardinality(WrongIn(s4, s1)) \in 0..Len(s4)

\* The invariant says so.
LEMMA ShakeHas == Handshake!HandshakeInv => ShakeTypes
PROOF
  <1>1. HandshakeTries \in Nat \ {0}
    BY PartsAssumption DEF Handshake!RudpHandshakeConstantsOK
  <1> SUFFICES ASSUME Handshake!HandshakeInv PROVE ShakeTypes
    OBVIOUS
  <1>2. s1 \in DOMAIN HandshakeCalls /\ s2 \in 0..HandshakeTries - 1 /\ s5 \in Nat /\ s4 \in Seq(STRING)
    BY DEF Handshake!HandshakeInv
  <1>3. Cardinality(WrongIn(s4, s1)) \in 0..Len(s4)
    BY <1>2, OthersBound DEF WrongIn
  <1>4. Len(s4) \in Nat
    BY <1>2
  <1> QED BY <1>1, <1>2, <1>3, <1>4 DEF ShakeTypes

\* The next call begins, or the session is connected: what is left in the
\* socket are answers that were late.
LEMMA ShakeSucceeds ==
  ASSUME ShakeTypes, Handshake!Succeed, s4' \in Seq(STRING), s5' \in Nat, Len(s4') <= s5'
  PROVE  Handshake!HandshakeInv'
PROOF
  <1>1. s2' = 0 /\ s1' \in DOMAIN HandshakeCalls /\ s3' \in {"send", "connected"}
    <2>1. s2' = 0
      BY DEF Handshake!Succeed
    <2>2. HandshakeCalls \in Seq([answer : STRING, must : BOOLEAN])
      BY PartsAssumption DEF Handshake!RudpHandshakeConstantsOK
    <2>3. s1 \in 1..Len(HandshakeCalls) /\ Len(HandshakeCalls) \in Nat
      BY <2>2 DEF ShakeTypes
    <2>4. CASE s1 < Len(HandshakeCalls)
      <3>1. s1' = s1 + 1 /\ s3' = "send"
        BY <2>4 DEF Handshake!Succeed
      <3>2. s1 + 1 \in 1..Len(HandshakeCalls)
        BY <2>3, <2>4
      <3> QED BY <2>1, <2>2, <3>1, <3>2
    <2>5. CASE ~(s1 < Len(HandshakeCalls))
      BY <2>1, <2>5 DEF Handshake!Succeed, ShakeTypes
    <2> QED BY <2>4, <2>5
  <1> DEFINE w == Cardinality(WrongIn(s4', s1'))
  <1>2. w \in 0..Len(s4')
    BY OthersBound DEF WrongIn
  <1>3. Len(s4') \in Nat
    OBVIOUS
  <1>4. Handshake!Cardinality(Handshake!Wrong)' = w
    BY WrongIs
  <1>5. s2' \in 0..HandshakeTries - 1 /\ s2' + w <= s5'
    <2> HIDE DEF w
    <2> QED BY <1>1, <1>2, <1>3 DEF ShakeTypes
  <1> HIDE DEF w
  <1> QED BY <1>1, <1>4, <1>5 DEF Handshake!HandshakeInv, Handshake!FaultsSurvived

\* The call is tried again, or it was the last time.
LEMMA ShakeTries ==
  ASSUME ShakeTypes, Handshake!TryAgain, s4' \in Seq(STRING), s5' \in Nat, Len(s4') <= s5',
         NEW w \in Nat, w = Cardinality(WrongIn(s4', s1)), s2 + 1 + w <= s5'
  PROVE  Handshake!HandshakeInv'
PROOF
  <1>1. CASE ~Handshake!LastTry
    <2>1. s2' = s2 + 1 /\ s3' = "send" /\ s1' = s1
      BY <1>1 DEF Handshake!TryAgain
    <2>2. s2 + 1 \in 0..HandshakeTries - 1 /\ s2 + 1 + w <= s5'
      BY <1>1 DEF Handshake!LastTry, ShakeTypes
    <2>3. Handshake!Cardinality(Handshake!Wrong)' = w
      BY <2>1, WrongIs
    <2>4. s1' \in DOMAIN HandshakeCalls
      BY <2>1 DEF ShakeTypes
    <2> QED BY <2>1, <2>2, <2>3, <2>4 DEF Handshake!HandshakeInv, Handshake!FaultsSurvived
  <1>2. CASE Handshake!LastTry /\ HandshakeCalls[s1].must
    <2>1. s2' = s2 /\ s3' = "failed" /\ s1' = s1
      BY <1>2 DEF Handshake!TryAgain
    <2>2. s2 \in 0..HandshakeTries - 1 /\ s5' >= HandshakeTries
      BY <1>2 DEF Handshake!LastTry, ShakeTypes
    <2>3. s1' \in DOMAIN HandshakeCalls
      BY <2>1 DEF ShakeTypes
    <2> QED BY <2>1, <2>2, <2>3 DEF Handshake!HandshakeInv, Handshake!FaultsSurvived
  <1>3. CASE Handshake!LastTry /\ ~HandshakeCalls[s1].must
    <2>1. Handshake!Succeed
      BY <1>3 DEF Handshake!TryAgain
    <2> QED BY <2>1, ShakeSucceeds
  <1> QED BY <1>1, <1>2, <1>3

\* A request is sent, and is answered or not.
LEMMA ShakeSend ==
  ASSUME Handshake!HandshakeInv, Handshake!Send
  PROVE  Handshake!HandshakeInv'
PROOF
  <1> DEFINE w == Cardinality(WrongIn(s4, s1))
             a == HandshakeCalls[s1].answer
  <1>1. ShakeTypes
    BY ShakeHas
  <1>2. s3 = "send" /\ s3' = "select" /\ s1' = s1 /\ s2' = s2
    BY DEF Handshake!Send
  <1>3. w \in Nat /\ s2 \in Nat /\ s5 \in Nat /\ Len(s4) \in Nat
    BY <1>1 DEF ShakeTypes
  <1>4. Len(s4) <= s5 /\ s2 + w <= s5
    BY <1>2, WrongIs DEF Handshake!HandshakeInv
  <1>5. /\ s1' \in DOMAIN HandshakeCalls /\ s2' \in 0..HandshakeTries - 1
    BY <1>1, <1>2 DEF ShakeTypes
  <1>6. CASE s4' = Append(s4, a) /\ s5' = s5
    <2>1. a \in STRING /\ s4 \in Seq(STRING)
      <3>1. HandshakeCalls \in Seq([answer : STRING, must : BOOLEAN])
        BY PartsAssumption DEF Handshake!RudpHandshakeConstantsOK
      <3>2. HandshakeCalls[s1] \in [answer : STRING, must : BOOLEAN]
        <4>1. s1 \in DOMAIN HandshakeCalls
          BY <1>1 DEF ShakeTypes
        <4> HIDE DEF a
        <4>2. s1 \in 1..Len(HandshakeCalls)
          BY <3>1, <4>1
        <4> QED BY <3>1, <4>2, ElementOfSeq
      <3>3. a \in STRING
        BY <3>2
      <3> QED BY <1>1, <3>3 DEF ShakeTypes
    <2> HIDE DEF a
    <2>2. /\ s4' \in Seq(STRING) /\ Len(s4') = Len(s4) + 1 /\ s4' # <<>>
          /\ \A i \in 1..Len(s4) : s4'[i] = s4[i]
          /\ s4'[Len(s4) + 1] = a
      <3> DEFINE S == STRING
      <3>1. s4 \in Seq(S) /\ a \in S
        BY <2>1
      <3>2. /\ Append(s4, a) \in Seq(S) /\ Append(s4, a) # <<>>
            /\ Len(Append(s4, a)) = Len(s4) + 1
            /\ \A i \in 1..Len(s4) : Append(s4, a)[i] = s4[i]
            /\ Append(s4, a)[Len(s4) + 1] = a
        <4> HIDE DEF w, S
        <4> QED BY <3>1, AppendProperties
      <3> QED BY <1>6, <3>2 DEF S
    <2>3. WrongIn(s4', s1') = WrongIn(s4, s1)
      <3>1. DOMAIN s4 = 1..Len(s4) /\ DOMAIN s4' = 1..Len(s4) + 1
        BY <2>1, <2>2
      <3>2. \A i : i \in 1..Len(s4) + 1 <=> i \in 1..Len(s4) \/ i = Len(s4) + 1
        BY <1>3
      <3>3. WrongIn(s4', s1') = {i \in DOMAIN s4' : s4'[i] # a} /\ WrongIn(s4, s1) = {i \in DOMAIN s4 : s4[i] # a}
        BY <1>2 DEF WrongIn, Others, a
      <3>4. \A i : i \in WrongIn(s4', s1') <=> i \in WrongIn(s4, s1)
        BY <2>2, <3>1, <3>2, <3>3
      <3> QED BY <3>4
    <2>4. Handshake!Cardinality(Handshake!Wrong)' = w
      BY <2>3, WrongIs
    <2>5. Len(s4') <= s5' + 1 /\ s2' + w <= s5' /\ s5' \in Nat
      <3> HIDE DEF w
      <3> QED BY <1>2, <1>3, <1>4, <1>6, <2>2
    <2> HIDE DEF w
    <2> QED BY <1>2, <1>5, <2>2, <2>4, <2>5 DEF Handshake!HandshakeInv, Handshake!FaultsSurvived
  <1>7. CASE s5' = s5 + 1 /\ s4' = s4
    <2>1. Handshake!Cardinality(Handshake!Wrong)' = w
      BY <1>2, <1>7, WrongIs
    <2>2. Len(s4') < s5' /\ s2' + w < s5' /\ s5' \in Nat
      <3> HIDE DEF w
      <3> QED BY <1>2, <1>3, <1>4, <1>7
    <2>3. s4' \in Seq(STRING)
      BY <1>1, <1>7 DEF ShakeTypes
    <2> HIDE DEF w
    <2> QED BY <1>2, <1>5, <2>1, <2>2, <2>3 DEF Handshake!HandshakeInv, Handshake!FaultsSurvived
  <1> QED BY <1>6, <1>7 DEF Handshake!Send

\* An answer comes, to this call or another one.
LEMMA ShakeReceive ==
  ASSUME Handshake!HandshakeInv, Handshake!Receive
  PROVE  Handshake!HandshakeInv'
PROOF
  <1> DEFINE W == WrongIn(s4, s1)
             w == Cardinality(W)
             a == HandshakeCalls[s1].answer
  <1>1. ShakeTypes
    BY ShakeHas
  <1>2. s3 = "select" /\ s5' = s5
    BY DEF Handshake!Receive
  <1>3. PICK i \in DOMAIN s4 : /\ s4' = Handshake!Without(s4, i)
                               /\ IF s4[i] = a THEN Handshake!Succeed ELSE Handshake!TryAgain
    BY DEF Handshake!Receive
  <1>4. s4 \in Seq(STRING) /\ w \in Nat /\ s2 \in Nat /\ s5 \in Nat /\ Len(s4) \in Nat
    BY <1>1 DEF ShakeTypes
  <1>5. Len(s4) <= s5 + 1 /\ s2 + w <= s5
    <2>1. \/ Len(s4) <= s5 + 1 /\ s2 + w <= s5
          \/ Len(s4) < s5 /\ s2 + w < s5
      BY <1>2, WrongIs DEF Handshake!HandshakeInv
    <2> HIDE DEF w
    <2> QED BY <1>4, <2>1
  <1>6. /\ s4' \in Seq(STRING) /\ Len(s4') = Len(s4) - 1
        /\ Cardinality(Others(s4', a)) = Cardinality(W \ {i})
    <2>1. W = Others(s4, a)
      BY DEF WrongIn
    <2>2. LET t == Handshake!Without(s4, i)
          IN  /\ t \in Seq(STRING) /\ Len(t) = Len(s4) - 1
              /\ Cardinality(Others(t, a)) = Cardinality(Others(s4, a) \ {i})
      <3> HIDE DEF W, w, a
      <3> QED BY <1>4, TakenOut
    <2> HIDE DEF W, w, a
    <2> QED BY <1>3, <2>1, <2>2
  <1>7. Len(s4') <= s5' /\ s5' \in Nat
    BY <1>2, <1>4, <1>5, <1>6
  <1>8. CASE s4[i] = a
    BY <1>1, <1>3, <1>6, <1>7, <1>8, ShakeSucceeds
  <1>9. CASE s4[i] # a
    <2>1. i \in W /\ IsFiniteSet(W)
      <3>1. i \in W
        BY <1>9 DEF WrongIn, Others
      <3>2. W \subseteq 1..Len(s4)
        BY <1>4 DEF WrongIn, Others
      <3>3. IsFiniteSet(1..Len(s4))
        BY <1>4, FS_Interval
      <3> HIDE DEF W
      <3> QED BY <3>1, <3>2, <3>3, FS_Subset
    <2> DEFINE v == Cardinality(W \ {i})
    <2>2. v = w - 1 /\ v \in Nat
      <3>1. IsFiniteSet(W \ {i}) /\ Cardinality(W \ {i}) = IF i \in W THEN w - 1 ELSE w
        <4> HIDE DEF W
        <4> QED BY <2>1, FS_RemoveElement
      <3>2. v \in Nat
        BY <3>1, FS_CardinalityType
      <3> QED BY <2>1, <3>1, <3>2
    <2>3. v = Cardinality(WrongIn(s4', s1))
      BY <1>6 DEF WrongIn
    <2>4. s2 + 1 + v <= s5'
      <3> HIDE DEF v, w
      <3> QED BY <1>2, <1>4, <1>5, <2>2
    <2> HIDE DEF v
    <2> QED BY <1>1, <1>3, <1>6, <1>7, <1>9, <2>2, <2>3, <2>4, ShakeTries
  <1> QED BY <1>8, <1>9

\* Nothing comes in time.
LEMMA ShakeTimeout ==
  ASSUME Handshake!HandshakeInv, Handshake!Timeout
  PROVE  Handshake!HandshakeInv'
PROOF
  <1> DEFINE w == Cardinality(WrongIn(s4, s1))
  <1>1. ShakeTypes
    BY ShakeHas
  <1>2. s3 = "select" /\ s4' = s4 /\ Handshake!TryAgain
    BY DEF Handshake!Timeout
  <1>3. s4 \in Seq(STRING) /\ w \in Nat /\ s2 \in Nat /\ s5 \in Nat /\ Len(s4) \in Nat
    BY <1>1 DEF ShakeTypes
  <1>4. \/ s4 # <<>> /\ Len(s4) <= s5 + 1 /\ s2 + w <= s5
        \/ Len(s4) < s5 /\ s2 + w < s5
    BY <1>2, WrongIs DEF Handshake!HandshakeInv
  <1>5. (s4 = <<>> /\ s5' = s5) \/ s5' = s5 + 1
    BY DEF Handshake!Timeout
  <1>6. s5' \in Nat /\ Len(s4) <= s5' /\ s2 + 1 + w <= s5'
    <2> HIDE DEF w
    <2>1. CASE s4 = <<>> /\ s5' = s5
      BY <1>3, <1>4, <2>1
    <2>2. CASE s5' = s5 + 1
      BY <1>3, <1>4, <2>2
    <2> QED BY <1>5, <2>1, <2>2
  <1>7. w = Cardinality(WrongIn(s4', s1)) /\ s4' \in Seq(STRING) /\ Len(s4') <= s5'
    BY <1>2, <1>3, <1>6
  <1> HIDE DEF w
  <1> QED BY <1>1, <1>2, <1>3, <1>6, <1>7, ShakeTries

\* Every step of the first messages leaves their invariant.
LEMMA ShakeNext ==
  ASSUME Handshake!HandshakeInv, Handshake!Next
  PROVE  Handshake!HandshakeInv'
BY ShakeSend, ShakeReceive, ShakeTimeout DEF Handshake!Next

\* A connection begins without answers and faults.
LEMMA ShakeInit == Handshake!Init => Handshake!HandshakeInv
PROOF
  <1> SUFFICES ASSUME Handshake!Init PROVE Handshake!HandshakeInv
    OBVIOUS
  <1>1. s1 = 1 /\ s2 = 0 /\ s3 = "send" /\ s4 = <<>> /\ s5 = 0
    BY DEF Handshake!Init
  <1>2. HandshakeTries \in Nat \ {0} /\ 1 \in DOMAIN HandshakeCalls
    <2>1. /\ HandshakeTries \in Nat \ {0} /\ HandshakeCalls # <<>>
          /\ HandshakeCalls \in Seq([answer : STRING, must : BOOLEAN])
      BY PartsAssumption DEF Handshake!RudpHandshakeConstantsOK
    <2> QED BY <2>1
  <1>3. WrongIn(s4, s1) = {}
    BY <1>1 DEF WrongIn, Others
  <1>4. Handshake!Cardinality(Handshake!Wrong) = 0
    BY <1>3, WrongIs, FS_EmptySet
  <1>5. s4 \in Seq(STRING) /\ Len(s4) = 0
    BY <1>1
  <1> QED BY <1>1, <1>2, <1>4, <1>5 DEF Handshake!HandshakeInv, Handshake!FaultsSurvived

-----------------------------------------------------------------------------
(* Registration: regist.c                                                  *)

\* A step of the thread leaves the invariant of the registration.
LEMMA RegistThreadKeeps ==
  ASSUME Regist!RegistInv, Regist!Thread
  PROVE  Regist!RegistInv'
PROOF
  <1>1. UNCHANGED <<s2, s3, s4, s11>> /\ (s10 => s10')
    BY DEF Regist!Thread, Regist!Report, Regist!Sleep
  <1> USE DEF Regist!RegistInv, Regist!OneVerdict
  <1>2. CASE Regist!Report
    <2>1. s1 = "report" /\ s1' = "ended" /\ s8' = s8 /\ s5' = s5 /\ s7' = s7
          /\ s9' = Append(s9, s8)
      BY <1>2 DEF Regist!Report
    <2>2. s9' = <<s8>>
      BY <2>1
    <2> QED BY <1>1, <2>1, <2>2
  <1>3. ASSUME NEW res, Regist!Fail(res), s9' = s9, s1 \notin {"report", "ended"},
               res = "failed" \/ (res = "canceled" /\ (s3 \/ s10'))
        PROVE  Regist!RegistInv'
    BY <1>1, <1>3 DEF Regist!Fail
  <1>4. ASSUME NEW step, NEW open, Regist!Go(step, open), s9' = s9,
               s1 \notin {"report", "ended"}, step \notin {"report", "ended"},
               step = "rudp" => s2, step = "parse" => ~s3 \/ s2
        PROVE  Regist!RegistInv'
    BY <1>1, <1>4 DEF Regist!Go
  <1>5. CASE Regist!Interrupted /\ s9' = s9
    BY <1>3, <1>5 DEF Regist!Interrupted, Regist!Waits
  <1>6. CASE Regist!Format /\ s9' = s9
    BY <1>3, <1>4, <1>6 DEF Regist!Format
  <1>7. CASE (Regist!Search \/ Regist!Sleep) /\ s9' = s9
    <2>1. CASE Regist!Search
      BY <1>4, <1>7, <2>1 DEF Regist!Search
    <2>2. CASE Regist!Sleep
      BY <1>3, <1>4, <1>7, <2>2 DEF Regist!Sleep
    <2> QED BY <1>7, <2>1, <2>2
  <1>8. CASE Regist!Request /\ s9' = s9
    BY <1>4, <1>8 DEF Regist!Request
  <1>9. CASE Regist!Content /\ s9' = s9
    BY <1>1, <1>9 DEF Regist!Content
  <1>10. CASE Regist!Rudp /\ s9' = s9
    BY <1>3, <1>4, <1>10 DEF Regist!Rudp
  <1>11. CASE Regist!Parse /\ s9' = s9
    BY <1>1, <1>11 DEF Regist!Parse, Regist!Complete
  <1> QED BY <1>2, <1>5, <1>6, <1>7, <1>8, <1>9, <1>10, <1>11 DEF Regist!Thread

\* So does every step of the registration.
LEMMA RegistNext ==
  ASSUME Regist!RegistInv, Regist!Next
  PROVE  Regist!RegistInv'
PROOF
  <1>1. CASE Regist!Thread
    BY <1>1, RegistThreadKeeps
  <1>2. CASE Regist!Stop
    BY <1>2 DEF Regist!Stop, Regist!RegistInv, Regist!OneVerdict
  <1>3. CASE Regist!Fini
    BY <1>3 DEF Regist!Fini, Regist!RegistInv, Regist!OneVerdict
  <1> QED BY <1>1, <1>2, <1>3 DEF Regist!Next

\* And it holds at first.
LEMMA RegistInit == Regist!Init => Regist!RegistInv
BY DEF Regist!Init, Regist!RegistInv, Regist!OneVerdict

-----------------------------------------------------------------------------
(* The candidates: check_candidates of holepunch.c                         *)

\* No socket has the number of none.
LEMMA SocketsAre == SearchSlots \in Nat /\ \A s \in Search!Sockets : s # Search!None
BY PartsAssumption DEF Search!CandidatesConstantsOK, Search!Sockets, Search!None

\* An end without a socket: all that are polled are closed.
LEMMA SearchFails ==
  ASSUME Search!SearchInv, NEW err, Search!Fail(err), s3' = s3, s11' = s11,
         s1 \in {"open", "request", "wait"}
  PROVE  Search!SearchInv'
PROOF
  <1>1. s4' = s4 \ Search!Polled /\ s12' = err /\ s1' = "done"
    BY DEF Search!Fail
  <1>2. s11' = Search!None
    BY DEF Search!SearchInv
  <1>3. Search!Polled' = {}
    BY <1>1 DEF Search!Polled, Search!Sock4, Search!Sock6
  <1> QED BY <1>1, <1>2, <1>3
          DEF Search!SearchInv, Search!PairedBothWays, Search!OnlyTheChosenStaysOpen

\* A step that leaves the search where nothing is chosen.
LEMMA SearchGoesOn ==
  ASSUME Search!SearchInv, s11' = s11, s12' = s12,
         s1 \in {"open", "request", "wait"}, s1' \in {"open", "request", "wait"}
  PROVE  Search!SearchInv'
PROOF
  <1>1. s11' = Search!None /\ s12' = "none"
    BY DEF Search!SearchInv
  <1> QED BY <1>1 DEF Search!SearchInv, Search!PairedBothWays, Search!OnlyTheChosenStaysOpen

\* What the thread itself does up to the choice.
LEMMA SearchOpens ==
  ASSUME Search!SearchInv, Search!OpenSockets \/ Search!SendRequests \/ Search!Timeout
                           \/ Search!SelectFails
  PROVE  Search!SearchInv'
PROOF
  <1>1. CASE Search!OpenSockets
    BY <1>1, SearchGoesOn DEF Search!OpenSockets
  <1>2. CASE Search!SendRequests
    <2>1. s1 = "request" /\ s3' = s3 /\ s11' = s11
          /\ (Search!Fail("network") \/ (s1' = "wait" /\ s12' = s12))
      BY <1>2 DEF Search!SendRequests
    <2> QED BY <2>1, SearchFails, SearchGoesOn
  <1>3. CASE Search!Timeout
    <2>1. s1 = "wait" /\ s3' = s3 /\ s11' = s11
          /\ (Search!Fail("unreachable") \/ (s1' = s1 /\ s12' = s12))
      BY <1>3 DEF Search!Timeout
    <2> QED BY <2>1, SearchFails, SearchGoesOn
  <1>4. CASE Search!SelectFails
    <2>1. s1 = "wait" /\ s3' = s3 /\ s11' = s11 /\ Search!Fail("network")
      BY <1>4 DEF Search!SelectFails
    <2> QED BY <2>1, SearchFails
  <1> QED BY <1>1, <1>2, <1>3, <1>4

\* A message comes in: only an answer to our request chooses the socket.
LEMMA SearchHears ==
  ASSUME Search!SearchInv, Search!Arrives
  PROVE  Search!SearchInv'
PROOF
  <1>1. PICK s \in Search!Sockets, a \in SearchListed \cup SearchOthers :
          Search!Request(s, a) \/ Search!Odd(s, a) \/ \E mine \in BOOLEAN : Search!Answer(s, a, mine)
    BY DEF Search!Arrives
  <1>2. s1 = "wait" /\ s3' = s3 /\ s \in Search!Polled
    BY <1>1 DEF Search!Request, Search!Odd, Search!Answer, Search!Message
  <1>3. CASE Search!Request(s, a)
    <2>1. s11' = s11 /\ \/ Search!Fail("network") \/ Search!Fail("success")
                        \/ s1' = s1 /\ s12' = s12
      BY <1>3 DEF Search!Request
    <2> QED BY <1>2, <2>1, SearchFails, SearchGoesOn
  <1>4. CASE Search!Odd(s, a)
    <2>1. s11' = s11 /\ (Search!Fail("unknown") \/ (s1' = s1 /\ s12' = s12))
      BY <1>4 DEF Search!Odd
    <2> QED BY <1>2, <2>1, SearchFails, SearchGoesOn
  <1>5. ASSUME NEW mine \in BOOLEAN, Search!Answer(s, a, mine)
        PROVE  Search!SearchInv'
    <2>1. CASE ~mine
      <3>1. s11' = s11 /\ s1' = s1 /\ s12' = s12
        BY <1>5, <2>1 DEF Search!Answer, Search!Selects
      <3> QED BY <1>2, <3>1, SearchGoesOn
    <2>2. CASE mine /\ Search!Fail("network") /\ s11' = s11
      BY <1>2, <2>2, SearchFails
    <2>3. CASE mine /\ s11' = s /\ s1' = "confirm" /\ s4' = s4 \ (Search!Polled \ {s}) /\ s12' = s12
      <3>1. s \in s10 /\ s14' = s14 \cup {s} /\ s10' = s10
        BY <1>5, <2>3 DEF Search!Answer
      <3>2. Search!Polled' = {s}
        BY <1>2, <2>3 DEF Search!Polled, Search!Sock4, Search!Sock6
      <3>3. s12' = "none"
        BY <1>2, <2>3 DEF Search!SearchInv
      <3>4. s11' \in Search!Sockets \cap s10' \cap s14'
        BY <2>3, <3>1
      <3>5. Search!Sockets' = Search!Sockets
        BY DEF Search!Sockets
      <3> QED BY <2>3, <3>2, <3>3, <3>4, <3>5
              DEF Search!SearchInv, Search!PairedBothWays, Search!OnlyTheChosenStaysOpen
    <2> QED BY <1>5, <2>1, <2>2, <2>3 DEF Search!Answer, Search!Selects
  <1> QED BY <1>1, <1>3, <1>4, <1>5

\* The console's own requests are answered until it is quiet.
LEMMA SearchConfirms ==
  ASSUME Search!SearchInv, Search!Confirm
  PROVE  Search!SearchInv'
PROOF
  <1>1. /\ s1 = "confirm" /\ s1' = "done" /\ UNCHANGED <<s3, s10, s11, s14>>
        /\ s11 \in Search!Sockets \cap s10 \cap s14 /\ Search!Polled = {s11}
    BY DEF Search!Confirm, Search!SearchInv, Search!Succeed
  <1>2. PICK answered \in BOOLEAN :
          /\ s9' = (s9 \/ answered)
          /\ \/ Search!QuietEnough(answered) /\ s12' = "success" /\ s4' = s4
             \/ s4' = s4 \ {s11} /\ s12' \in {"timeout", "network", "unknown", "canceled"}
    BY DEF Search!Confirm, Search!Succeed
  <1>3. CASE Search!QuietEnough(answered) /\ s12' = "success" /\ s4' = s4
    <2>1. s9'
      BY <1>2, <1>3 DEF Search!QuietEnough
    <2>2. Search!Polled' = {s11}
      BY <1>1, <1>3 DEF Search!Polled, Search!Sock4, Search!Sock6
    <2>3. s11' # Search!None
      BY <1>1, SocketsAre
    <2>4. (Search!None)' = Search!None
      BY DEF Search!None
    <2> QED BY <1>1, <1>3, <2>1, <2>2, <2>3, <2>4
            DEF Search!SearchInv, Search!PairedBothWays, Search!OnlyTheChosenStaysOpen
  <1>4. CASE s4' = s4 \ {s11} /\ s12' \in {"timeout", "network", "unknown", "canceled"}
    <2>1. Search!Polled' = {}
      BY <1>1, <1>4 DEF Search!Polled, Search!Sock4, Search!Sock6
    <2>2. s12' # "success"
      BY <1>4
    <2> QED BY <1>1, <1>4, <2>1, <2>2
            DEF Search!SearchInv, Search!PairedBothWays, Search!OnlyTheChosenStaysOpen
  <1> QED BY <1>2, <1>3, <1>4

\* Every step of the search leaves its invariant.
LEMMA SearchNext ==
  ASSUME Search!SearchInv, Search!Next
  PROVE  Search!SearchInv'
BY SearchOpens, SearchHears, SearchConfirms DEF Search!Next, Search!Search

\* A search begins without a result.
LEMMA SearchInit == Search!Init => Search!SearchInv
BY DEF Search!Init, Search!SearchInv, Search!PairedBothWays, Search!OnlyTheChosenStaysOpen

-----------------------------------------------------------------------------
(* Punching the hole: the messages of holepunch.c                          *)

-----------------------------------------------------------------------------
(* The connection over PSN: holepunch.c                                    *)

\* A notification joins the line at its end.
LEMMA OrderMore ==
  ASSUME NEW line \in Seq(Punch!Notification), NEW e \in Punch!Notification, Punch!InOrder(line),
         Punch!Offer(e, "ctrl") => \A n \in Punch!Members(line) : ~Punch!Result(n),
         (Punch!Accept(e) /\ e.port = "ctrl") =>
            \A n \in Punch!Members(line) : ~Punch!Offer(n, "data")
  PROVE  /\ Punch!InOrder(Append(line, e))
         /\ \A n \in Punch!Members(Append(line, e)) : n \in Punch!Members(line) \/ n = e
PROOF
  <1> DEFINE t == Append(line, e)
             k == Len(line)
  <1>1. t \in Seq(Punch!Notification) /\ k \in Nat /\ DOMAIN line = 1..k /\ DOMAIN t = 1..(k + 1)
    OBVIOUS
  <1>2. (\A i \in 1..k : t[i] = line[i]) /\ t[k + 1] = e
    OBVIOUS
  <1> HIDE DEF t, k
  <1>3. \A i \in 1..(k + 1) : i \in 1..k \/ i = k + 1
    BY <1>1
  <1>4. \A n \in Punch!Members(t) : n \in Punch!Members(line) \/ n = e
    BY <1>1, <1>2, <1>3 DEF Punch!Members
  <1>5. \A i \in 1..k : line[i] \in Punch!Members(line)
    BY <1>1 DEF Punch!Members
  <1>6. Punch!InOrder(t)
    <2>1. SUFFICES ASSUME NEW i \in 1..(k + 1), NEW j \in 1..(k + 1), i < j
                   PROVE  /\ ~(Punch!Result(t[i]) /\ Punch!Offer(t[j], "ctrl"))
                          /\ ~(Punch!Offer(t[i], "data") /\ Punch!Accept(t[j]) /\ t[j].port = "ctrl")
      BY <1>1 DEF Punch!InOrder
    <2>2. i \in 1..k
      BY <1>1, <2>1
    <2>3. CASE j \in 1..k
      BY <1>1, <1>2, <2>1, <2>2, <2>3 DEF Punch!InOrder
    <2>4. CASE j = k + 1
      BY <1>2, <1>5, <2>2, <2>4
    <2> QED BY <1>3, <2>3, <2>4
  <1> QED BY <1>4, <1>6 DEF t

\* One that leaves it changes nothing else.
LEMMA OrderLess ==
  ASSUME NEW q \in Seq(Punch!Notification), NEW r \in Seq(Punch!Notification), NEW i \in DOMAIN q, NEW w,
         w = [j \in 1..Len(q)-1 |-> q[IF j < i THEN j ELSE j + 1]],
         Punch!InOrder(q \o r)
  PROVE  /\ w \in Seq(Punch!Notification) /\ Punch!InOrder(w \o r)
         /\ Punch!Members(w \o r) \subseteq Punch!Members(q \o r)
PROOF
  <1> DEFINE k == Len(q)
             l == Len(r)
             a == q \o r
             b == w \o r
             at(j) == IF j < i THEN j ELSE j + 1
  <1>1. k \in Nat /\ l \in Nat /\ i \in 1..k /\ i \in Nat
    OBVIOUS
  <1>2. /\ w \in Seq(Punch!Notification) /\ Len(w) = k - 1
        /\ \A j \in 1..k-1 : w[j] = IF j < i THEN q[j] ELSE q[j + 1]
    BY WithoutOne
  <1>3. /\ a \in Seq(Punch!Notification) /\ Len(a) = k + l
        /\ \A j \in 1..(k + l) : a[j] = IF j <= k THEN q[j] ELSE r[j - k]
    BY ConcatProperties
  <1>4. /\ b \in Seq(Punch!Notification) /\ Len(b) = (k - 1) + l
        /\ \A j \in 1..((k - 1) + l) : b[j] = IF j <= k - 1 THEN w[j] ELSE r[j - (k - 1)]
    BY <1>2, ConcatProperties
  <1>5. DOMAIN a = 1..(k + l) /\ DOMAIN b = 1..((k - 1) + l)
    BY <1>3, <1>4
  <1> HIDE DEF k, l, a, b
  <1>6. \A j \in 1..((k - 1) + l) : at(j) \in 1..(k + l) /\ b[j] = a[at(j)]
    <2>1. SUFFICES ASSUME NEW j \in 1..((k - 1) + l)
                   PROVE  at(j) \in 1..(k + l) /\ b[j] = a[at(j)]
      OBVIOUS
    <2>2. j \in Nat /\ at(j) \in 1..(k + l)
      BY <1>1
    <2>3. CASE j <= k - 1
      <3>1. j \in 1..(k - 1) /\ at(j) <= k
        BY <1>1, <2>2, <2>3
      <3>2. b[j] = w[j] /\ w[j] = IF j < i THEN q[j] ELSE q[j + 1]
        BY <1>2, <1>4, <2>3, <3>1
      <3>3. a[at(j)] = q[at(j)]
        BY <1>3, <2>2, <3>1
      <3> QED BY <2>2, <3>2, <3>3
    <2>4. CASE j > k - 1
      <3>1. at(j) = j + 1 /\ ~(j + 1 <= k) /\ (j + 1) - k = j - (k - 1) /\ ~(j <= k - 1)
        BY <1>1, <2>2, <2>4
      <3>2. b[j] = r[j - (k - 1)]
        BY <1>4, <3>1
      <3>3. a[j + 1] = r[(j + 1) - k]
        BY <1>3, <2>2, <3>1
      <3>4. b[j] = a[j + 1]
        BY <3>1, <3>2, <3>3
      <3> QED BY <2>2, <3>1, <3>4
    <2> QED BY <1>1, <2>2, <2>3, <2>4
  <1>7. \A x, y \in 1..((k - 1) + l) : x < y => at(x) < at(y)
    BY <1>1
  <1> HIDE DEF at
  <1>8. Punch!Members(b) \subseteq Punch!Members(a)
    BY <1>5, <1>6 DEF Punch!Members
  <1>9. Punch!InOrder(b)
    <2>1. SUFFICES ASSUME NEW x \in 1..((k - 1) + l), NEW y \in 1..((k - 1) + l), x < y
                   PROVE  /\ ~(Punch!Result(b[x]) /\ Punch!Offer(b[y], "ctrl"))
                          /\ ~(Punch!Offer(b[x], "data") /\ Punch!Accept(b[y]) /\ b[y].port = "ctrl")
      BY <1>5 DEF Punch!InOrder
    <2>2. at(x) \in 1..(k + l) /\ at(y) \in 1..(k + l) /\ at(x) < at(y)
      BY <1>6, <1>7, <2>1
    <2>3. /\ ~(Punch!Result(a[at(x)]) /\ Punch!Offer(a[at(y)], "ctrl"))
          /\ ~(Punch!Offer(a[at(x)], "data") /\ Punch!Accept(a[at(y)]) /\ a[at(y)].port = "ctrl")
      <3>1. Punch!InOrder(a)
        BY DEF a
      <3> QED BY <1>5, <2>2, <3>1 DEF Punch!InOrder
    <2> QED BY <1>6, <2>3
  <1> QED BY <1>2, <1>8, <1>9 DEF a, b

\* The moves of the main thread that no notification's place depends on.
QuietMove(x, y) ==
  \/ y = x
  \/ x # "punch" /\ y \in Punch!Ending
  \/ x = "create" /\ y = "created"
  \/ x = "created" /\ y = "opening"
  \/ x = "opening" /\ y = "opened"
  \/ x = "opened" /\ y = "creating_first"
  \/ x = "creating_first" /\ y = "creating"
  \/ x = "creating" /\ y = "start"
  \/ x = "start" /\ y = "starting_first"
  \/ x = "starting_first" /\ y = "starting"
  \/ x = "starting" /\ y = "punch"
  \/ x = "candidates" /\ y = "accept"
  \/ x = "accept_ack" /\ y = "establishing"
  \/ x = "establishing" /\ y = "established"

\* Such a step does not go back before an answer or out of the end.
LEMMA QuietMoveKeeps ==
  ASSUME NEW x, NEW y, QuietMove(x, y)
  PROVE  /\ x \in Punch!Ending => y \in Punch!Ending
         /\ y \in Punch!Acknowledged => x \in Punch!Acknowledged
         /\ y \in Punch!Agreed => x \in Punch!Agreed
         /\ x \in Punch!Opened => y \in Punch!Opened \cup Punch!Ending
         /\ x \in {"punch", "offer"} => y \in {"punch", "offer"} \cup Punch!Ending
         /\ y = "offer_ack" => x = "offer_ack"
         /\ y # "punch" => x # "punch"
         /\ y = x \/ y \in Punch!Ending \/ (x \notin {"accept_sent", "ack"} /\ y \notin {"accept_sent", "ack"})
BY DEF QuietMove, Punch!Ending, Punch!Acknowledged, Punch!Agreed, Punch!Opened

\* The invariant, with its line spelled out.
LEMMA PunchParts ==
  ASSUME Punch!PunchInv
  PROVE  LET line == s7 \o s12 \o s13 IN
         /\ s2 \in {"ctrl", "data"} /\ s4 \in Nat /\ s6 \in Seq(Punch!Notification)
         /\ s7 \in Seq(Punch!Notification) /\ s12 \in Seq(Punch!Notification)
         /\ s13 \in Seq(Punch!Notification) /\ line \in Seq(Punch!Notification)
         /\ (s1 \in Punch!Acknowledged \/ s2 = "data" => "ctrl" \in s15)
         /\ (s1 = "offer_ack" => s6 # <<>>)
         /\ Punch!InOrder(line)
         /\ \A n \in Punch!Members(line) : Punch!Heard(n) /\ Punch!OffersInv(n) /\ Punch!AnswersInv(n)
         /\ (s1 # "punch" => \A i \in DOMAIN s6 : s6[i].port = s2)
PROOF
  <1> DEFINE N == Punch!Notification
  <1>1. s7 \in Seq(N) /\ s12 \in Seq(N) /\ s13 \in Seq(N)
    BY DEF Punch!PunchInv
  <1> HIDE DEF N
  <1>2. s7 \o s12 \o s13 \in Seq(N)
    BY <1>1, ConcatProperties
  <1> QED BY <1>1, <1>2 DEF Punch!PunchInv, Punch!Line, Punch!Ports, Punch!RightMessages, N

\* A step that keeps the invariant of each notification keeps it all.
LEMMA PunchWhole ==
  ASSUME s2' \in {"ctrl", "data"}, s4' \in Nat, s6' \in Seq(Punch!Notification),
         s7' \in Seq(Punch!Notification), s12' \in Seq(Punch!Notification),
         s13' \in Seq(Punch!Notification),
         s1' \in Punch!Acknowledged \/ s2' = "data" => "ctrl" \in s15',
         s1' = "offer_ack" => s6' # <<>>,
         Punch!InOrder(s7' \o s12' \o s13'),
         \A n \in Punch!Members(s7' \o s12' \o s13') :
            Punch!Heard(n) /\ Punch!OffersInv(n)' /\ Punch!AnswersInv(n)',
         s1' # "punch" => \A i \in DOMAIN s6' : s6'[i].port = s2'
  PROVE  Punch!PunchInv'
PROOF
  <1> PICK z : z = s7' \o s12' \o s13'
    OBVIOUS
  <1>1. Punch!InOrder(Punch!Line)'
    BY DEF Punch!InOrder, Punch!Line, Punch!Result, Punch!Offer, Punch!Accept
  <1>2. \A n \in Punch!Members(Punch!Line)' : Punch!Heard(n)' /\ Punch!OffersInv(n)' /\ Punch!AnswersInv(n)'
    <2>1. \A n \in Punch!Members(z) : Punch!Heard(n) /\ Punch!OffersInv(n)' /\ Punch!AnswersInv(n)'
      OBVIOUS
    <2>2. \A n : Punch!Heard(n)' <=> Punch!Heard(n)
      BY DEF Punch!Heard
    <2>3. Punch!Members(Punch!Line)' = Punch!Members(z)
      BY DEF Punch!Members, Punch!Line
    <2> QED BY <2>1, <2>2, <2>3
  <1>3. Punch!RightMessages'
    BY DEF Punch!RightMessages
  <1>4. Punch!Notification' = Punch!Notification /\ Punch!Ports' = {"ctrl", "data"}
        /\ Punch!Acknowledged' = Punch!Acknowledged
    BY DEF Punch!Notification, Punch!Notices, Punch!Ports, Punch!Acknowledged, Punch!Agreed
  <1> QED BY <1>1, <1>2, <1>3, <1>4 DEF Punch!PunchInv

\* A quiet move, with a line of which no more is left than some of before and
\* what is neither an OFFER, nor a RESULT, nor an ACCEPT.
LEMMA PunchQuiet ==
  ASSUME Punch!PunchInv, QuietMove(s1, s1'), UNCHANGED <<s2, s4, s6>>, s15 \subseteq s15',
         s7' \in Seq(Punch!Notification), s12' \in Seq(Punch!Notification),
         s13' \in Seq(Punch!Notification),
         Punch!InOrder(s7' \o s12' \o s13'),
         \A n \in Punch!Members(s7' \o s12' \o s13') :
            \/ n \in Punch!Members(s7 \o s12 \o s13)
            \/ n.action \notin {"OFFER", "RESULT", "ACCEPT"} /\ Punch!Heard(n)
  PROVE  Punch!PunchInv'
PROOF
  <1> DEFINE old == Punch!Members(s7 \o s12 \o s13)
             new == Punch!Members(s7' \o s12' \o s13')
  <1>1. /\ s2 \in {"ctrl", "data"} /\ s4 \in Nat /\ s6 \in Seq(Punch!Notification)
        /\ (s1 \in Punch!Acknowledged \/ s2 = "data" => "ctrl" \in s15)
        /\ (s1 = "offer_ack" => s6 # <<>>)
        /\ \A n \in old : Punch!Heard(n) /\ Punch!OffersInv(n) /\ Punch!AnswersInv(n)
        /\ (s1 # "punch" => \A i \in DOMAIN s6 : s6[i].port = s2)
    BY PunchParts
  <1>2. /\ s1 \in Punch!Ending => s1' \in Punch!Ending
        /\ s1' \in Punch!Acknowledged => s1 \in Punch!Acknowledged
        /\ s1' \in Punch!Agreed => s1 \in Punch!Agreed
        /\ s1 \in Punch!Opened => s1' \in Punch!Opened \cup Punch!Ending
        /\ s1 \in {"punch", "offer"} => s1' \in {"punch", "offer"} \cup Punch!Ending
        /\ s1' = "offer_ack" => s1 = "offer_ack"
        /\ s1' # "punch" => s1 # "punch"
        /\ \/ s1' = s1 \/ s1' \in Punch!Ending
           \/ s1 \notin {"accept_sent", "ack"} /\ s1' \notin {"accept_sent", "ack"}
    <2> PICK y : y = s1'
      OBVIOUS
    <2>1. QuietMove(s1, y)
      OBVIOUS
    <2> QED BY <2>1, QuietMoveKeeps
  <1> HIDE DEF old, new
  <1>3. ASSUME NEW n \in new
        PROVE  Punch!Heard(n) /\ Punch!OffersInv(n)' /\ Punch!AnswersInv(n)'
    <2>1. CASE n \in old
      <3>1. Punch!Heard(n) /\ Punch!OffersInv(n) /\ Punch!AnswersInv(n)
        BY <1>1, <2>1
      <3>2. Punch!OffersInv(n)'
        BY <1>2, <3>1 DEF Punch!OffersInv, Punch!Offer, Punch!Agreed, Punch!Opened, Punch!Ending
      <3>3. Punch!AnswersInv(n)'
        <4>1. Punch!Result(n) /\ s1' \notin Punch!Ending =>
                 n.req < CASE s1' = "accept_sent" -> s4 + 1
                           [] s1' = "ack" /\ n.port # s2 -> s4 - 1
                           [] OTHER -> s4
          <5>1. SUFFICES ASSUME Punch!Result(n), s1' \notin Punch!Ending
                         PROVE  n.req < CASE s1' = "accept_sent" -> s4 + 1
                                          [] s1' = "ack" /\ n.port # s2 -> s4 - 1
                                          [] OTHER -> s4
            OBVIOUS
          <5>2. s1 \notin Punch!Ending
            BY <1>2, <5>1
          <5>3. n.req < CASE s1 = "accept_sent" -> s4 + 1
                          [] s1 = "ack" /\ n.port # s2 -> s4 - 1
                          [] OTHER -> s4
            BY <3>1, <5>1, <5>2 DEF Punch!AnswersInv
          <5>4. CASE s1' = s1
            BY <5>3, <5>4
          <5>5. CASE s1 \notin {"accept_sent", "ack"} /\ s1' \notin {"accept_sent", "ack"}
            <6>1. n.req < s4
              BY <5>3, <5>5
            <6> QED BY <5>5, <6>1
          <5> QED BY <1>2, <5>1, <5>4, <5>5
        <4>2. /\ Punch!Result(n) => "ctrl" \in s15'
              /\ Punch!Result(n) \/ Punch!Accept(n) => s2 \in {n.port, "data"}
              /\ Punch!Accept(n) /\ n.port = "ctrl" /\ s2 = "data" =>
                    s1' \in {"punch", "offer"} \cup Punch!Ending
          BY <1>2, <3>1 DEF Punch!AnswersInv
        <4>3. Punch!Ending' = Punch!Ending
          BY DEF Punch!Ending
        <4> QED BY <4>1, <4>2, <4>3 DEF Punch!AnswersInv, Punch!Result, Punch!Accept
      <3> QED BY <3>1, <3>2, <3>3
    <2>2. CASE n.action \notin {"OFFER", "RESULT", "ACCEPT"} /\ Punch!Heard(n)
      BY <2>2 DEF Punch!OffersInv, Punch!AnswersInv, Punch!Offer, Punch!Result, Punch!Accept
    <2> QED BY <1>3, <2>1, <2>2 DEF old, new
  <1>4. s1' \in Punch!Acknowledged \/ s2' = "data" => "ctrl" \in s15'
    BY <1>1, <1>2
  <1>5. s1' = "offer_ack" => s6' # <<>>
    BY <1>1, <1>2
  <1>6. s1' # "punch" => \A i \in DOMAIN s6' : s6'[i].port = s2'
    BY <1>1, <1>2
  <1>7. s2' \in {"ctrl", "data"} /\ s4' \in Nat /\ s6' \in Seq(Punch!Notification)
    BY <1>1
  <1> QED BY <1>3, <1>4, <1>5, <1>6, <1>7, PunchWhole DEF new

\* The line with another notification on its way.
LEMMA LineMore ==
  ASSUME NEW q \in Seq(Punch!Notification), NEW h \in Seq(Punch!Notification),
         NEW c \in Seq(Punch!Notification), NEW e \in Punch!Notification
  PROVE  /\ Append(c, e) \in Seq(Punch!Notification) /\ q \o h \o c \in Seq(Punch!Notification)
         /\ q \o h \o Append(c, e) = Append(q \o h \o c, e)
PROOF
  <1>1. q \o h \in Seq(Punch!Notification) /\ <<e>> \in Seq(Punch!Notification)
    BY ConcatProperties
  <1>2. Append(c, e) \in Seq(Punch!Notification) /\ Append(c, e) = c \o <<e>>
    BY AppendIsConcat
  <1>3. (q \o h) \o c \in Seq(Punch!Notification)
    BY <1>1, ConcatProperties
  <1>4. Append((q \o h) \o c, e) = ((q \o h) \o c) \o <<e>>
    BY <1>3, AppendIsConcat
  <1>5. ((q \o h) \o c) \o <<e>> = (q \o h) \o (c \o <<e>>)
    <2> DEFINE S == Punch!Notification
               a == q \o h
               b == <<e>>
    <2>1. a \in Seq(S) /\ b \in Seq(S) /\ c \in Seq(S)
      BY <1>1
    <2> HIDE DEF S, a, b
    <2>2. (a \o c) \o b = a \o (c \o b)
      BY <2>1, ConcatAssociative
    <2> QED BY <2>2 DEF a, b
  <1> QED BY <1>2, <1>3, <1>4, <1>5

\* A quiet move that leaves the line alone.
LEMMA PunchQuietSame ==
  ASSUME Punch!PunchInv, QuietMove(s1, s1'), UNCHANGED <<s2, s4, s6, s7, s12, s13>>, s15 \subseteq s15'
  PROVE  Punch!PunchInv'
PROOF
  <1>1. /\ s7 \in Seq(Punch!Notification) /\ s12 \in Seq(Punch!Notification)
        /\ s13 \in Seq(Punch!Notification) /\ Punch!InOrder(s7 \o s12 \o s13)
    BY PunchParts
  <1> QED BY <1>1, PunchQuiet

\* A quiet move that takes a notification off the queue.
LEMMA PunchQuietLess ==
  ASSUME Punch!PunchInv, QuietMove(s1, s1'), UNCHANGED <<s2, s4, s6, s12, s13>>, s15 \subseteq s15',
         NEW i \in DOMAIN s7, s7' = Punch!Without(i)
  PROVE  Punch!PunchInv'
PROOF
  <1> DEFINE w == Punch!Without(i)
             r == s12 \o s13
  <1>1. /\ s7 \in Seq(Punch!Notification) /\ s12 \in Seq(Punch!Notification)
        /\ s13 \in Seq(Punch!Notification) /\ Punch!InOrder(s7 \o s12 \o s13)
    BY PunchParts
  <1>2. w = [j \in 1..Len(s7)-1 |-> s7[IF j < i THEN j ELSE j + 1]]
    BY DEF Punch!Without
  <1> HIDE DEF w
  <1>3. r \in Seq(Punch!Notification) /\ s7 \o s12 \o s13 = s7 \o r
    BY <1>1, ConcatProperties, ConcatAssociative
  <1>4. \A v \in Seq(Punch!Notification) : v \o s12 \o s13 = v \o r
    BY <1>1, ConcatAssociative
  <1> HIDE DEF r
  <1>5. Punch!InOrder(s7 \o r)
    BY <1>1, <1>3
  <1>6. w \in Seq(Punch!Notification)
    BY <1>1, <1>2, WithoutOne
  <1>7. /\ Punch!InOrder(w \o r)
        /\ Punch!Members(w \o r) \subseteq Punch!Members(s7 \o r)
    BY <1>1, <1>2, <1>3, <1>5, OrderLess
  <1>8. w \o s12 \o s13 = w \o r
    BY <1>4, <1>6
  <1>9. s7' = w /\ s12' = s12 /\ s13' = s13
    BY DEF w
  <1> QED BY <1>1, <1>3, <1>6, <1>7, <1>8, <1>9, PunchQuiet

\* Another notification on its way.
LEMMA PunchLineMore ==
  ASSUME Punch!PunchInv, UNCHANGED <<s7, s12>>,
         NEW e \in Punch!Notification, s13' = Append(s13, e),
         Punch!Offer(e, "ctrl") => \A n \in Punch!Members(s7 \o s12 \o s13) : ~Punch!Result(n),
         (Punch!Accept(e) /\ e.port = "ctrl") =>
            \A n \in Punch!Members(s7 \o s12 \o s13) : ~Punch!Offer(n, "data")
  PROVE  /\ s7' \in Seq(Punch!Notification) /\ s12' \in Seq(Punch!Notification)
         /\ s13' \in Seq(Punch!Notification) /\ Punch!InOrder(s7' \o s12' \o s13')
         /\ \A n \in Punch!Members(s7' \o s12' \o s13') :
               n \in Punch!Members(s7 \o s12 \o s13) \/ n = e
PROOF
  <1> DEFINE line == s7 \o s12 \o s13
  <1>1. s7 \in Seq(Punch!Notification) /\ s12 \in Seq(Punch!Notification)
        /\ s13 \in Seq(Punch!Notification) /\ Punch!InOrder(line)
    BY PunchParts
  <1>2. /\ Append(s13, e) \in Seq(Punch!Notification) /\ line \in Seq(Punch!Notification)
        /\ s7 \o s12 \o Append(s13, e) = Append(line, e)
    BY <1>1, LineMore
  <1>3. /\ Punch!Offer(e, "ctrl") => \A n \in Punch!Members(line) : ~Punch!Result(n)
        /\ (Punch!Accept(e) /\ e.port = "ctrl") => \A n \in Punch!Members(line) : ~Punch!Offer(n, "data")
    OBVIOUS
  <1> HIDE DEF line
  <1>4. /\ Punch!InOrder(Append(line, e))
        /\ \A n \in Punch!Members(Append(line, e)) : n \in Punch!Members(line) \/ n = e
    BY <1>1, <1>2, <1>3, OrderMore
  <1>5. s7' = s7 /\ s12' = s12 /\ s13' = Append(s13, e)
    OBVIOUS
  <1> QED BY <1>1, <1>2, <1>4, <1>5 DEF line

\* Or two, of which none is an OFFER.
LEMMA PunchLineTwo ==
  ASSUME Punch!PunchInv, UNCHANGED <<s7, s12>>,
         NEW a \in Punch!Notification, NEW b \in Punch!Notification,
         s13' = Append(Append(s13, a), b), a.action # "OFFER", b.action # "OFFER",
         \A e \in {a, b} : (Punch!Accept(e) /\ e.port = "ctrl") =>
            \A n \in Punch!Members(s7 \o s12 \o s13) : ~Punch!Offer(n, "data")
  PROVE  /\ s7' \in Seq(Punch!Notification) /\ s12' \in Seq(Punch!Notification)
         /\ s13' \in Seq(Punch!Notification) /\ Punch!InOrder(s7' \o s12' \o s13')
         /\ \A n \in Punch!Members(s7' \o s12' \o s13') :
               n \in Punch!Members(s7 \o s12 \o s13) \cup {a, b}
PROOF
  <1> DEFINE line == s7 \o s12 \o s13
             c == Append(s13, a)
             t == Append(line, a)
  <1>1. s7 \in Seq(Punch!Notification) /\ s12 \in Seq(Punch!Notification)
        /\ s13 \in Seq(Punch!Notification) /\ Punch!InOrder(line)
    BY PunchParts
  <1>2. c \in Seq(Punch!Notification) /\ line \in Seq(Punch!Notification) /\ s7 \o s12 \o c = t
    BY <1>1, LineMore
  <1>3. s13' = Append(c, b) /\ s7' = s7 /\ s12' = s12
    OBVIOUS
  <1> HIDE DEF c
  <1>4. /\ Append(c, b) \in Seq(Punch!Notification)
        /\ s7 \o s12 \o Append(c, b) = Append(s7 \o s12 \o c, b)
    <2>1. /\ s7 \in Seq(Punch!Notification) /\ s12 \in Seq(Punch!Notification)
          /\ c \in Seq(Punch!Notification) /\ b \in Punch!Notification
      BY <1>1, <1>2
    <2>2. \A x \in Seq(Punch!Notification) : \A y \in Punch!Notification :
             /\ Append(x, y) \in Seq(Punch!Notification)
             /\ s7 \o s12 \o Append(x, y) = Append(s7 \o s12 \o x, y)
      BY <2>1, LineMore
    <2> QED BY <2>1, <2>2
  <1>5. /\ ~Punch!Offer(a, "ctrl") /\ ~Punch!Offer(b, "ctrl") /\ ~Punch!Offer(a, "data")
        /\ \A e \in {a, b} : (Punch!Accept(e) /\ e.port = "ctrl") =>
              \A n \in Punch!Members(line) : ~Punch!Offer(n, "data")
    BY DEF Punch!Offer
  <1> HIDE DEF line
  <1>6. /\ t \in Seq(Punch!Notification) /\ Punch!InOrder(t)
        /\ \A n \in Punch!Members(t) : n \in Punch!Members(line) \/ n = a
    BY <1>1, <1>2, <1>5, OrderMore
  <1> HIDE DEF t
  <1>7. /\ Punch!InOrder(Append(t, b))
        /\ \A n \in Punch!Members(Append(t, b)) : n \in Punch!Members(t) \/ n = b
    <2>1. (Punch!Accept(b) /\ b.port = "ctrl") => \A n \in Punch!Members(t) : ~Punch!Offer(n, "data")
      BY <1>5, <1>6
    <2> QED BY <1>5, <1>6, <2>1, OrderMore
  <1>8. s7' \o s12' \o s13' = Append(t, b)
    BY <1>2, <1>3, <1>4
  <1>9. \A n \in Punch!Members(s7' \o s12' \o s13') : n \in Punch!Members(s7 \o s12 \o s13) \cup {a, b}
    BY <1>6, <1>7, <1>8 DEF line
  <1>10. Punch!InOrder(s7' \o s12' \o s13')
    BY <1>7, <1>8
  <1>11. s7' \in Seq(Punch!Notification) /\ s12' \in Seq(Punch!Notification)
         /\ s13' \in Seq(Punch!Notification)
    BY <1>1, <1>3, <1>4
  <1> QED BY <1>9, <1>10, <1>11

\* A quiet move that sends for a notice.
LEMMA PunchQuietMore ==
  ASSUME Punch!PunchInv, QuietMove(s1, s1'), UNCHANGED <<s2, s4, s6, s7, s12>>, s15 \subseteq s15',
         NEW e \in Punch!Notification, s13' = Append(s13, e),
         e.action \notin {"OFFER", "RESULT", "ACCEPT"}, Punch!Heard(e)
  PROVE  Punch!PunchInv'
PROOF
  <1>1. ~Punch!Offer(e, "ctrl") /\ ~Punch!Accept(e)
    BY DEF Punch!Offer, Punch!Accept
  <1>2. /\ s7' \in Seq(Punch!Notification) /\ s12' \in Seq(Punch!Notification)
        /\ s13' \in Seq(Punch!Notification) /\ Punch!InOrder(s7' \o s12' \o s13')
        /\ \A n \in Punch!Members(s7' \o s12' \o s13') :
              n \in Punch!Members(s7 \o s12 \o s13) \/ n = e
    BY <1>1, PunchLineMore
  <1> QED BY <1>2, PunchQuiet

\* Or for two.
LEMMA PunchQuietTwo ==
  ASSUME Punch!PunchInv, QuietMove(s1, s1'), UNCHANGED <<s2, s4, s6, s7, s12>>, s15 \subseteq s15',
         NEW a \in Punch!Notification, NEW b \in Punch!Notification,
         s13' = Append(Append(s13, a), b),
         a.action \notin {"OFFER", "RESULT", "ACCEPT"}, Punch!Heard(a),
         b.action \notin {"OFFER", "RESULT", "ACCEPT"}, Punch!Heard(b)
  PROVE  Punch!PunchInv'
PROOF
  <1>1. a.action # "OFFER" /\ b.action # "OFFER" /\ \A e \in {a, b} : ~Punch!Accept(e)
    BY DEF Punch!Accept
  <1>2. /\ s7' \in Seq(Punch!Notification) /\ s12' \in Seq(Punch!Notification)
        /\ s13' \in Seq(Punch!Notification) /\ Punch!InOrder(s7' \o s12' \o s13')
        /\ \A n \in Punch!Members(s7' \o s12' \o s13') :
              n \in Punch!Members(s7 \o s12 \o s13) \cup {a, b}
    BY <1>1, PunchLineTwo
  <1> QED BY <1>2, PunchQuiet

\* The first of the notifications waited for, and no message before it on the line.
LEMMA PunchFirst ==
  ASSUME Punch!PunchInv, Punch!Found
  PROVE  LET f == Punch!First
             line == s7 \o s12 \o s13
         IN /\ f \in DOMAIN s7 /\ f \in DOMAIN line /\ line[f] = s7[f] /\ s7[f] \in Punch!Members(line)
            /\ s7[f] \in Punch!Notification
            /\ (s1 \in {"offer", "ack", "accepting"} =>
                  \A j \in DOMAIN line : line[j].type = "message" => f <= j)
PROOF
  <1> DEFINE f == Punch!First
             k == Len(s7)
             r == s12 \o s13
             line == s7 \o r
             M == Punch!Matching
  <1>1. s7 \in Seq(Punch!Notification) /\ s12 \in Seq(Punch!Notification) /\ s13 \in Seq(Punch!Notification)
    BY PunchParts
  <1>2. M \subseteq 1..k /\ M # {} /\ k \in Nat /\ DOMAIN s7 = 1..k
    BY <1>1 DEF Punch!Found, Punch!Matching
  <1>3. r \in Seq(Punch!Notification) /\ (s7 \o s12) \o s13 = line
    BY <1>1, ConcatProperties, ConcatAssociative
  <1> HIDE DEF r, M
  <1>4. /\ line \in Seq(Punch!Notification) /\ Len(line) = k + Len(r) /\ Len(r) \in Nat
        /\ \A j \in 1..(k + Len(r)) : line[j] = IF j <= k THEN s7[j] ELSE r[j - k]
    BY <1>1, <1>3, ConcatProperties
  <1>5. DOMAIN line = 1..(k + Len(r))
    BY <1>4
  <1>6. f \in M /\ \A j \in M : f <= j
    <2>1. \E x \in M : \A j \in M : x <= j
      <3>1. M \subseteq Nat
        BY <1>2
      <3> QED BY <1>2, <3>1, LeastOf
    <2> QED BY <2>1 DEF Punch!First, M
  <1> HIDE DEF k, f, line
  <1>7. f \in 1..k /\ f \in 1..(k + Len(r)) /\ f <= k /\ f \in Nat
    BY <1>2, <1>4, <1>6
  <1>8. line[f] = s7[f]
    BY <1>4, <1>7
  <1>9. s7[f] \in Punch!Members(line)
    BY <1>5, <1>7, <1>8 DEF Punch!Members
  <1>10. ASSUME s1 \in {"offer", "ack", "accepting"}, NEW j \in DOMAIN line, line[j].type = "message"
         PROVE  f <= j
    <2>1. j \in 1..(k + Len(r))
      BY <1>5
    <2>2. CASE j <= k
      <3>1. j \in 1..k /\ line[j] = s7[j]
        BY <1>2, <1>4, <2>1, <2>2
      <3>2. Punch!Types = {"message"}
        BY <1>10 DEF Punch!Types
      <3>3. j \in M
        BY <1>2, <1>10, <3>1, <3>2 DEF M, Punch!Matching, Punch!Matches
      <3> QED BY <1>6, <3>3
    <2>3. CASE ~(j <= k)
      BY <1>2, <1>4, <1>7, <2>1, <2>3
    <2> QED BY <2>2, <2>3
  <1>11. f \in DOMAIN s7 /\ f \in DOMAIN line
    BY <1>2, <1>5, <1>7
  <1>12. s7[f] \in Punch!Notification
    BY <1>1, <1>2, <1>7
  <1> QED BY <1>3, <1>8, <1>9, <1>10, <1>11, <1>12 DEF f

\* Where the main thread waits for a message, and for which one.
LEMMA PunchWaiting ==
  /\ Punch!ForMessage <=> s1 \in {"offer", "ack", "accepting"}
  /\ s1 = "offer" => Punch!WaitingFor[s1] = "OFFER"
  /\ s1 = "ack" => Punch!WaitingFor[s1] = "RESULT"
  /\ s1 = "accepting" => Punch!WaitingFor[s1] = "ACCEPT"
BY DEF Punch!ForMessage, Punch!WaitingFor

\* The calls of the main thread that leave the line alone, and the end of the
\* WebSocket thread.
LEMMA PunchCallsQuiet ==
  ASSUME Punch!PunchInv,
         \/ Punch!CheckStop \/ Punch!CallFails \/ Punch!StartWebsocket
         \/ Punch!GoOn("create", "created") \/ Punch!GoOn("opening", "opened")
         \/ Punch!GoOn("creating_first", "creating") \/ Punch!GoOn("starting_first", "starting")
         \/ Punch!GoOn("candidates", "accept") \/ Punch!GoOn("accept_ack", "establishing")
         \/ Punch!Establish \/ Punch!Join
  PROVE  Punch!PunchInv'
PROOF
  <1>1. UNCHANGED <<s2, s4, s6, s7, s12, s13, s15>>
    BY DEF Punch!CheckStop, Punch!CallFails, Punch!StartWebsocket, Punch!GoOn, Punch!Establish,
       Punch!Join, Punch!mainRest, Punch!outside
  <1>2. QuietMove(s1, s1')
    BY DEF Punch!CheckStop, Punch!CallFails, Punch!StartWebsocket, Punch!GoOn, Punch!Establish,
       Punch!Join, Punch!At, Punch!Return, Punch!Checked, QuietMove, Punch!Ending
  <1> QED BY <1>1, <1>2, PunchQuietSame

\* The waits that end without what they wait for.
LEMMA PunchWaitsQuiet ==
  ASSUME Punch!PunchInv, Punch!WaitTimeout \/ Punch!WaitCanceled
  PROVE  Punch!PunchInv'
PROOF
  <1>1. UNCHANGED <<s2, s4, s6, s7, s12, s13, s15>>
    BY DEF Punch!WaitTimeout, Punch!WaitCanceled, Punch!mainRest, Punch!outside
  <1>2. s1 \in {"offer", "ack", "accepting", "creating", "starting", "deleting"}
    BY PunchWaiting DEF Punch!WaitTimeout, Punch!WaitCanceled, Punch!Waiting
  <1>3. s1' \in Punch!Ending
    BY DEF Punch!WaitTimeout, Punch!WaitCanceled, Punch!Return, Punch!Ending
  <1>4. QuietMove(s1, s1')
    BY <1>2, <1>3 DEF QuietMove
  <1> QED BY <1>1, <1>4, PunchQuietSame

\* What the other two threads do to their own state.
LEMMA PunchOthersQuiet ==
  ASSUME Punch!PunchInv,
         Punch!WsConnect \/ Punch!WsLeave \/ \E b \in BOOLEAN : Punch!MainThreadCancel(b)
  PROVE  Punch!PunchInv'
PROOF
  <1>1. UNCHANGED <<s1, s2, s4, s6, s7, s12, s13, s15>>
    BY DEF Punch!WsConnect, Punch!WsLeave, Punch!MainThreadCancel, Punch!wsRest
  <1>2. QuietMove(s1, s1')
    BY <1>1 DEF QuietMove
  <1> QED BY <1>1, <1>2, PunchQuietSame

\* Notices are sent for and taken off the queue, and messages nobody wants too.
LEMMA PunchNoticesQuiet ==
  ASSUME Punch!PunchInv,
         \/ Punch!CallAnswered("opened", "creating_first", Punch!Notice("SESSION_CREATED"),
                               Punch!Notice("MEMBER_CREATED"))
         \/ Punch!CallAnswered("start", "starting_first", Punch!Notice("CUSTOM_DATA1_UPDATED"),
                               Punch!Notice("MEMBER_CREATED"))
         \/ Punch!Fini
  PROVE  Punch!PunchInv'
PROOF
  <1>1. ASSUME NEW type \in Punch!Notices
        PROVE  /\ Punch!Notice(type) \in Punch!Notification
               /\ Punch!Notice(type).action \notin {"OFFER", "RESULT", "ACCEPT"}
               /\ Punch!Heard(Punch!Notice(type))
    <2>1. Punch!Notice(type).action = "none"
      BY DEF Punch!Notice
    <2>2. Punch!Notice(type) \in Punch!Notification
      BY DEF Punch!Notice, Punch!Notification, Punch!Ports
    <2> QED BY <2>1, <2>2 DEF Punch!Heard
  <1>2. ASSUME NEW p, NEW n, NEW t \in Punch!Notices, NEW u \in Punch!Notices,
               Punch!CallAnswered(p, n, Punch!Notice(t), Punch!Notice(u)), QuietMove(p, n)
        PROVE  Punch!PunchInv'
    <2>1. UNCHANGED <<s2, s4, s6, s7, s12, s15>> /\ QuietMove(s1, s1')
      BY <1>2 DEF Punch!CallAnswered, Punch!mainRest, Punch!outside, Punch!At
    <2>2. \/ s13' = Append(Append(s13, Punch!Notice(t)), Punch!Notice(u))
          \/ s13' = Append(Append(s13, Punch!Notice(u)), Punch!Notice(t))
      BY <1>2 DEF Punch!CallAnswered
    <2>3. \A a, b \in Punch!Notification :
             /\ s13' = Append(Append(s13, a), b)
             /\ a.action \notin {"OFFER", "RESULT", "ACCEPT"} /\ Punch!Heard(a)
             /\ b.action \notin {"OFFER", "RESULT", "ACCEPT"} /\ Punch!Heard(b)
             => Punch!PunchInv'
      BY <2>1, PunchQuietTwo
    <2> QED BY <1>1, <2>2, <2>3
  <1>3. CASE Punch!Fini
    <2>1. UNCHANGED <<s2, s4, s6, s7, s12, s15>> /\ QuietMove(s1, s1')
      BY <1>3 DEF Punch!Fini, Punch!mainRest, Punch!outside, QuietMove, Punch!Ending
    <2>2. \/ s13' = s13
          \/ \E type \in Punch!Notices : s13' = Append(s13, Punch!Notice(type))
      <3>1. s13' = s13 \/ \E type \in {"MEMBER_DELETED", "SESSION_DELETED"} : s13' = Append(s13, Punch!Notice(type))
        BY <1>3 DEF Punch!Fini
      <3>2. "MEMBER_DELETED" \in Punch!Notices /\ "SESSION_DELETED" \in Punch!Notices
        BY DEF Punch!Notices
      <3> QED BY <3>1, <3>2
    <2>3. CASE s13' = s13
      BY <2>1, <2>3, PunchQuietSame
    <2>4. ASSUME NEW type \in Punch!Notices, s13' = Append(s13, Punch!Notice(type)) PROVE Punch!PunchInv'
      BY <1>1, <2>1, <2>4, PunchQuietMore
    <2> QED BY <2>2, <2>3, <2>4
  <1>4. QuietMove("opened", "creating_first") /\ QuietMove("start", "starting_first")
    BY DEF QuietMove
  <1>5. /\ "SESSION_CREATED" \in Punch!Notices /\ "MEMBER_CREATED" \in Punch!Notices
        /\ "CUSTOM_DATA1_UPDATED" \in Punch!Notices
    BY DEF Punch!Notices
  <1> QED BY <1>2, <1>3, <1>4, <1>5

\* What is taken out of the queue, or looked at, and is none of the three messages.
LEMMA PunchTakesQuiet ==
  ASSUME Punch!PunchInv, Punch!TakeNotification \/ Punch!Malformed \/ Punch!DropMessage \/ Punch!Deleted
  PROVE  Punch!PunchInv'
PROOF
  <1>1. UNCHANGED <<s2, s4, s6, s12, s13, s15>>
    BY DEF Punch!TakeNotification, Punch!Malformed, Punch!DropMessage, Punch!Deleted, Punch!outside
  <1>2. QuietMove(s1, s1')
    <2>1. CASE Punch!TakeNotification
      BY <2>1 DEF Punch!TakeNotification, Punch!Return, QuietMove, Punch!Ending
    <2>2. CASE Punch!DropMessage
      BY <2>2, PunchWaiting DEF Punch!DropMessage, Punch!Return, QuietMove, Punch!Ending
    <2>3. CASE Punch!Deleted
      BY <2>3 DEF Punch!Deleted, QuietMove, Punch!Ending
    <2>4. CASE Punch!Malformed
      BY <2>4 DEF Punch!Malformed, Punch!Return, QuietMove, Punch!Ending
    <2> QED BY <2>1, <2>2, <2>3, <2>4
  <1>3. s7' = s7 \/ (Punch!Found /\ s7' = Punch!Without(Punch!First))
    BY DEF Punch!TakeNotification, Punch!Malformed, Punch!DropMessage, Punch!Deleted
  <1>4. CASE s7' = s7
    BY <1>1, <1>2, <1>4, PunchQuietSame
  <1>5. CASE Punch!Found /\ s7' = Punch!Without(Punch!First)
    <2>1. Punch!First \in DOMAIN s7
      BY <1>5, PunchFirst
    <2> QED BY <1>1, <1>2, <1>5, <2>1, PunchQuietLess
  <1> QED BY <1>3, <1>4, <1>5

\* Between the hands of the WebSocket thread the line stays as it is.
LEMMA PunchLineMoves ==
  ASSUME Punch!PunchInv, Punch!WsReceive \/ Punch!WsEnqueue
  PROVE  Punch!PunchInv'
PROOF
  <1>1. /\ s7 \in Seq(Punch!Notification) /\ s12 \in Seq(Punch!Notification)
        /\ s13 \in Seq(Punch!Notification) /\ Punch!InOrder(s7 \o s12 \o s13)
    BY PunchParts
  <1>2. UNCHANGED <<s1, s2, s4, s6>> /\ s15 \subseteq s15' /\ QuietMove(s1, s1')
    BY DEF Punch!WsReceive, Punch!WsEnqueue, Punch!wsRest, QuietMove
  <1>3. /\ s7' \in Seq(Punch!Notification) /\ s12' \in Seq(Punch!Notification)
        /\ s13' \in Seq(Punch!Notification) /\ s7' \o s12' \o s13' = s7 \o s12 \o s13
    <2>1. CASE Punch!WsReceive
      <3>1. /\ s12 = <<>> /\ s13 # <<>> /\ s12' = <<Head(s13)>> /\ s13' = Tail(s13) /\ s7' = s7
        BY <2>1 DEF Punch!WsReceive
      <3> DEFINE h == Head(s13)
                 t == Tail(s13)
      <3>2. h \in Punch!Notification /\ t \in Seq(Punch!Notification)
        BY <1>1, <3>1, HeadTailProperties
      <3>3. <<h>> \in Seq(Punch!Notification) /\ <<h>> \o t = s13
        <4>1. Len(s13) \in Nat \ {0} /\ Len(t) = Len(s13) - 1 /\ h = s13[1]
              /\ \A i \in 1..Len(t) : t[i] = s13[i + 1]
          BY <1>1, <3>1, HeadTailProperties, EmptySeq
        <4>2. <<h>> \in Seq(Punch!Notification) /\ Len(<<h>>) = 1 /\ <<h>>[1] = h
          BY <3>2
        <4> HIDE DEF h, t
        <4>3. /\ <<h>> \o t \in Seq(Punch!Notification) /\ Len(<<h>> \o t) = 1 + Len(t)
              /\ \A i \in 1..1 + Len(t) : (<<h>> \o t)[i] = IF i <= 1 THEN <<h>>[i] ELSE t[i - 1]
          BY <3>2, <4>2, ConcatProperties
        <4>4. Len(<<h>> \o t) = Len(s13)
          BY <4>1, <4>3
        <4>5. \A i \in 1..Len(<<h>> \o t) : (<<h>> \o t)[i] = s13[i]
          <5>1. SUFFICES ASSUME NEW i \in 1..Len(s13) PROVE (<<h>> \o t)[i] = s13[i]
            BY <4>4
          <5>2. CASE i = 1
            BY <4>1, <4>2, <4>3, <5>2
          <5>3. CASE i # 1
            <6>1. i - 1 \in 1..Len(t) /\ (i - 1) + 1 = i /\ i \in 1..1 + Len(t) /\ ~(i <= 1)
              BY <4>1, <5>3
            <6> QED BY <4>1, <4>3, <6>1
          <5> QED BY <5>2, <5>3
        <4> QED BY <1>1, <4>2, <4>3, <4>4, <4>5, SeqEqual
      <3>4. s7 \o s12 = s7
        BY <1>1, <3>1, ConcatEmptySeq
      <3> HIDE DEF h, t
      <3>5. (s7 \o <<h>>) \o t = s7 \o (<<h>> \o t)
        BY <1>1, <3>2, <3>3, ConcatAssociative
      <3>6. s7' = s7 /\ s12' = <<h>> /\ s13' = t
        BY <3>1 DEF h, t
      <3> QED BY <1>1, <3>2, <3>3, <3>4, <3>5, <3>6
    <2>2. CASE Punch!WsEnqueue
      <3>1. s7' = s7 \o s12 /\ s12' = <<>> /\ s13' = s13
        BY <2>2 DEF Punch!WsEnqueue
      <3>2. s7 \o s12 \in Seq(Punch!Notification) /\ <<>> \in Seq(Punch!Notification)
        BY <1>1, ConcatProperties, EmptySeq
      <3>3. (s7 \o s12) \o <<>> = s7 \o s12
        BY <3>2, ConcatEmptySeq
      <3> QED BY <1>1, <3>1, <3>2, <3>3
    <2> QED BY <2>1, <2>2
  <1> QED BY <1>1, <1>2, <1>3, PunchQuiet

\* punch_hole begins, with nothing gone by yet.
LEMMA PunchBegins ==
  ASSUME Punch!PunchInv, Punch!Punch
  PROVE  Punch!PunchInv'
PROOF
  <1> DEFINE M == Punch!Members(s7 \o s12 \o s13)
  <1>1. /\ s2 \in {"ctrl", "data"} /\ s4 \in Nat
        /\ s7 \in Seq(Punch!Notification) /\ s12 \in Seq(Punch!Notification)
        /\ s13 \in Seq(Punch!Notification)
        /\ (s2 = "data" => "ctrl" \in s15)
        /\ Punch!InOrder(s7 \o s12 \o s13)
        /\ \A n \in M : Punch!Heard(n) /\ Punch!OffersInv(n) /\ Punch!AnswersInv(n)
    BY PunchParts
  <1>2. /\ s1 = "punch" /\ s1' \in {"offer", "fini"} /\ s6' = <<>>
        /\ UNCHANGED <<s2, s4, s7, s12, s13, s15>>
    BY DEF Punch!Punch, Punch!mainRest, Punch!outside, Punch!Return
  <1> HIDE DEF M
  <1>3. ASSUME NEW n \in M
        PROVE  Punch!Heard(n) /\ Punch!OffersInv(n)' /\ Punch!AnswersInv(n)'
    <2>1. Punch!Heard(n) /\ Punch!OffersInv(n) /\ Punch!AnswersInv(n)
      BY <1>1
    <2>2. Punch!OffersInv(n)'
      BY <1>2, <2>1 DEF Punch!OffersInv, Punch!Offer, Punch!Agreed, Punch!Opened, Punch!Ending
    <2>3. s1 \notin Punch!Ending /\ s1' \in {"punch", "offer"} \cup Punch!Ending
      BY <1>2 DEF Punch!Ending
    <2>4. Punch!Result(n) => n.req < s4
      BY <1>2, <2>1, <2>3 DEF Punch!AnswersInv
    <2>5. Punch!AnswersInv(n)'
      <3>1. s1' # "accept_sent" /\ s1' # "ack"
        BY <1>2
      <3>2. Punch!Ending' = Punch!Ending
        BY DEF Punch!Ending
      <3> QED BY <1>2, <2>1, <2>3, <2>4, <3>1, <3>2 DEF Punch!AnswersInv, Punch!Result, Punch!Accept
    <2> QED BY <2>1, <2>2, <2>5
  <1>4. s1' \notin Punch!Acknowledged /\ s1' # "offer_ack"
    BY <1>2 DEF Punch!Acknowledged, Punch!Agreed
  <1>5. s6' \in Seq(Punch!Notification) /\ DOMAIN s6' = {}
    BY <1>2
  <1> QED BY <1>1, <1>2, <1>3, <1>4, <1>5, PunchWhole DEF M

\* Which message is used, and what it means for the others on the line.
LEMMA PunchTakes ==
  ASSUME Punch!PunchInv, Punch!TakeMessage
  PROVE  Punch!PunchInv'
PROOF
  <1> DEFINE line == s7 \o s12 \o s13
             M == Punch!Members(line)
             f == Punch!First
             n == s7[f]
  <1>1. /\ s2 \in {"ctrl", "data"} /\ s4 \in Nat /\ s6 \in Seq(Punch!Notification)
        /\ s7 \in Seq(Punch!Notification) /\ s12 \in Seq(Punch!Notification)
        /\ s13 \in Seq(Punch!Notification) /\ line \in Seq(Punch!Notification)
        /\ (s1 \in Punch!Acknowledged \/ s2 = "data" => "ctrl" \in s15)
        /\ Punch!InOrder(line)
        /\ \A m \in M : Punch!Heard(m) /\ Punch!OffersInv(m) /\ Punch!AnswersInv(m)
        /\ (s1 # "punch" => \A i \in DOMAIN s6 : s6[i].port = s2)
    BY PunchParts
  <1>2. /\ Punch!ForMessage /\ Punch!Found
        /\ n.action = Punch!WaitingFor[s1]
        /\ s1 = "ack" => n.req = s4 - 1
        /\ s6' = Append(s6, n)
        /\ s1' = CASE s1 = "offer" -> "offer_ack" [] s1 = "ack" -> "candidates" [] OTHER -> "accept_ack"
        /\ UNCHANGED <<s2, s4, s7, s12, s13, s15>>
    BY DEF Punch!TakeMessage, Punch!mainRest, Punch!outside
  <1>3. s1 \in {"offer", "ack", "accepting"}
    BY <1>2, PunchWaiting
  <1>4. /\ f \in DOMAIN line /\ line[f] = n /\ n \in M /\ n \in Punch!Notification
        /\ \A j \in DOMAIN line : line[j].type = "message" => f <= j
    BY <1>2, <1>3, PunchFirst
  <1> HIDE DEF f, n, line
  <1>5. \A m \in M : m.action # "none" => m = n \/ \E j \in DOMAIN line : m = line[j] /\ f < j
    <2>1. SUFFICES ASSUME NEW m \in M, m.action # "none", m # n
                   PROVE  \E j \in DOMAIN line : m = line[j] /\ f < j
      OBVIOUS
    <2>2. PICK j \in DOMAIN line : m = line[j]
      BY DEF Punch!Members
    <2>3. line[j].type = "message"
      BY <1>1, <2>1, <2>2 DEF Punch!Heard
    <2>4. f <= j /\ j # f
      BY <1>4, <2>1, <2>2, <2>3
    <2>5. f \in Int /\ j \in Int
      BY <1>1, <1>4
    <2> QED BY <2>2, <2>4, <2>5
  <1>6. Punch!Heard(n) /\ Punch!OffersInv(n) /\ Punch!AnswersInv(n)
    BY <1>1, <1>4
  <1>7. s6' \in Seq(Punch!Notification) /\ s6' # <<>>
    <2>1. s6 \in Seq(Punch!Notification) /\ n \in Punch!Notification /\ s6' = Append(s6, n)
      BY <1>1, <1>2, <1>4
    <2> DEFINE S == Punch!Notification
    <2>2. s6 \in Seq(S) /\ n \in S
      BY <2>1
    <2> HIDE DEF S
    <2>3. Append(s6, n) \in Seq(S)
      BY <2>2
    <2>4. Len(Append(s6, n)) = Len(s6) + 1 /\ Len(s6) \in Nat
      BY <2>2
    <2>5. Append(s6, n) # <<>>
      BY <2>4
    <2> QED BY <2>1, <2>3, <2>5 DEF S
  <1>8. n.port = s2 => \A i \in DOMAIN s6' : s6'[i].port = s2'
    <2>1. SUFFICES ASSUME n.port = s2, NEW i \in DOMAIN s6' PROVE s6'[i].port = s2
      BY <1>2
    <2>2. Len(s6) \in Nat /\ DOMAIN s6 = 1..Len(s6) /\ DOMAIN s6' = 1..(Len(s6) + 1)
      BY <1>1, <1>2, <1>4
    <2>3. (\A k \in 1..Len(s6) : s6'[k] = s6[k]) /\ s6'[Len(s6) + 1] = n
      BY <1>1, <1>2, <1>4
    <2>4. i \in 1..Len(s6) \/ i = Len(s6) + 1
      BY <2>2
    <2>5. \A k \in DOMAIN s6 : s6[k].port = s2
      BY <1>1, <1>3
    <2> QED BY <2>1, <2>2, <2>3, <2>4, <2>5
  <1>9. Punch!Ending' = Punch!Ending /\ s1 \notin Punch!Ending
    BY <1>3 DEF Punch!Ending
  <1> HIDE DEF M
  <1>10. CASE s1 = "offer"
    <2>1. Punch!Offer(n, n.port) /\ ~Punch!Accept(n) /\ n.port \in {"ctrl", "data"} /\ s1' = "offer_ack"
      BY <1>2, <1>6, <1>10, PunchWaiting DEF Punch!Offer, Punch!Accept, Punch!Heard, Punch!Ports
    <2>2. n.port = s2
      BY <1>1, <1>6, <1>10, <2>1 DEF Punch!OffersInv, Punch!Opened, Punch!Ending
    <2>3. ASSUME NEW m \in M
          PROVE  Punch!Heard(m) /\ Punch!OffersInv(m)' /\ Punch!AnswersInv(m)'
      <3>1. Punch!Heard(m) /\ Punch!OffersInv(m) /\ Punch!AnswersInv(m)
        BY <1>1
      <3>2. Punch!OffersInv(m)'
        BY <1>2, <1>10, <2>1, <3>1 DEF Punch!OffersInv, Punch!Offer, Punch!Agreed, Punch!Opened, Punch!Ending
      <3>3. ~(Punch!Accept(m) /\ m.port = "ctrl" /\ s2 = "data")
        <4>1. SUFFICES ASSUME Punch!Accept(m), m.port = "ctrl", s2 = "data" PROVE FALSE
          OBVIOUS
        <4>2. m.action # "none" /\ m # n
          BY <2>1, <4>1 DEF Punch!Accept
        <4>3. PICK j \in DOMAIN line : m = line[j] /\ f < j
          BY <1>5, <4>2
        <4> QED BY <1>1, <1>4, <2>1, <2>2, <4>1, <4>3 DEF Punch!InOrder
      <3>4. Punch!Result(m) => m.req < s4
        BY <1>9, <1>10, <3>1 DEF Punch!AnswersInv
      <3>5. Punch!AnswersInv(m)'
        BY <1>2, <1>9, <2>1, <3>1, <3>3, <3>4 DEF Punch!AnswersInv, Punch!Result, Punch!Accept
      <3> QED BY <3>1, <3>2, <3>5
    <2>4. s1' \notin Punch!Acknowledged
      BY <2>1 DEF Punch!Acknowledged, Punch!Agreed
    <2> QED BY <1>1, <1>2, <1>7, <1>8, <2>2, <2>3, <2>4, PunchWhole DEF M, line
  <1>11. CASE s1 = "ack"
    <2>1. Punch!Result(n) /\ n.action # "OFFER" /\ n.port \in {"ctrl", "data"} /\ s1' = "candidates"
      BY <1>2, <1>6, <1>11, PunchWaiting DEF Punch!Result, Punch!Heard, Punch!Ports
    <2>2. n.port = s2
      <3>1. SUFFICES ASSUME n.port # s2 PROVE FALSE
        OBVIOUS
      <3>2. n.req < s4 - 1
        BY <1>6, <1>9, <1>11, <2>1, <3>1 DEF Punch!AnswersInv
      <3> QED BY <1>1, <1>2, <1>11, <3>2
    <2>3. ASSUME NEW m \in M
          PROVE  Punch!Heard(m) /\ Punch!OffersInv(m)' /\ Punch!AnswersInv(m)'
      <3>1. Punch!Heard(m) /\ Punch!OffersInv(m) /\ Punch!AnswersInv(m)
        BY <1>1
      <3>2. ~Punch!Offer(m, "ctrl")
        <4>1. SUFFICES ASSUME Punch!Offer(m, "ctrl") PROVE FALSE
          OBVIOUS
        <4>2. m.action # "none" /\ m # n
          BY <2>1, <4>1 DEF Punch!Offer
        <4>3. PICK j \in DOMAIN line : m = line[j] /\ f < j
          BY <1>5, <4>2
        <4> QED BY <1>1, <1>4, <2>1, <4>1, <4>3 DEF Punch!InOrder
      <3>3. Punch!OffersInv(m)'
        BY <1>2, <1>11, <2>1, <3>1, <3>2 DEF Punch!OffersInv, Punch!Offer, Punch!Opened, Punch!Ending
      <3>4. Punch!Result(m) => m.req < s4
        <4>1. SUFFICES ASSUME Punch!Result(m) PROVE m.req < s4
          OBVIOUS
        <4>2. m.req < IF m.port # s2 THEN s4 - 1 ELSE s4
          BY <1>9, <1>11, <3>1, <4>1 DEF Punch!AnswersInv
        <4>3. CASE m.port = s2
          BY <4>2, <4>3
        <4>4. CASE m.port # s2
          <5>1. m.req < s4 - 1
            BY <4>2, <4>4
          <5>2. m.req \in Int
            <6>1. m \in Punch!Notification
              BY <1>1 DEF M, Punch!Members
            <6> QED BY <6>1 DEF Punch!Notification
          <5> QED BY <1>1, <5>1, <5>2
        <4> QED BY <4>3, <4>4
      <3>5. ~(Punch!Accept(m) /\ m.port = "ctrl" /\ s2 = "data")
        BY <1>9, <1>11, <3>1 DEF Punch!AnswersInv
      <3>6. Punch!AnswersInv(m)'
        BY <1>2, <1>9, <2>1, <3>1, <3>4, <3>5 DEF Punch!AnswersInv, Punch!Result, Punch!Accept
      <3> QED BY <3>1, <3>3, <3>6
    <2>4. "ctrl" \in s15'
      BY <1>1, <1>2, <1>11 DEF Punch!Acknowledged
    <2>5. s1' # "offer_ack"
      BY <2>1
    <2> QED BY <1>1, <1>2, <1>7, <1>8, <2>2, <2>3, <2>4, <2>5, PunchWhole DEF M, line
  <1>12. CASE s1 = "accepting"
    <2>1. Punch!Accept(n) /\ n.port \in {"ctrl", "data"} /\ s1' = "accept_ack"
      BY <1>2, <1>6, <1>12, PunchWaiting DEF Punch!Accept, Punch!Heard, Punch!Ports
    <2>2. n.port = s2
      <3>1. s2 \in {n.port, "data"} /\ ~(n.port = "ctrl" /\ s2 = "data")
        BY <1>6, <1>9, <1>12, <2>1 DEF Punch!AnswersInv
      <3> QED BY <2>1, <3>1
    <2>3. ASSUME NEW m \in M
          PROVE  Punch!Heard(m) /\ Punch!OffersInv(m)' /\ Punch!AnswersInv(m)'
      <3>1. Punch!Heard(m) /\ Punch!OffersInv(m) /\ Punch!AnswersInv(m)
        BY <1>1
      <3>2. Punch!OffersInv(m)'
        BY <1>2, <1>12, <2>1, <3>1 DEF Punch!OffersInv, Punch!Offer, Punch!Agreed, Punch!Opened, Punch!Ending
      <3>3. Punch!Result(m) => m.req < s4
        BY <1>9, <1>12, <3>1 DEF Punch!AnswersInv
      <3>4. ~(Punch!Accept(m) /\ m.port = "ctrl" /\ s2 = "data")
        BY <1>9, <1>12, <3>1 DEF Punch!AnswersInv
      <3>5. Punch!AnswersInv(m)'
        BY <1>2, <1>9, <2>1, <3>1, <3>3, <3>4 DEF Punch!AnswersInv, Punch!Result, Punch!Accept
      <3> QED BY <3>1, <3>2, <3>5
    <2>4. "ctrl" \in s15'
      BY <1>1, <1>2, <1>12 DEF Punch!Acknowledged, Punch!Agreed
    <2>5. s1' # "offer_ack"
      BY <2>1
    <2> QED BY <1>1, <1>2, <1>7, <1>8, <2>2, <2>3, <2>4, <2>5, PunchWhole DEF M, line
  <1> QED BY <1>3, <1>10, <1>11, <1>12

\* The OFFER that is used is acknowledged.
LEMMA PunchAcks ==
  ASSUME Punch!PunchInv, Punch!AckOffer
  PROVE  Punch!PunchInv'
PROOF
  <1> DEFINE M == Punch!Members(s7 \o s12 \o s13)
  <1>1. /\ s2 \in {"ctrl", "data"} /\ s4 \in Nat /\ s6 \in Seq(Punch!Notification)
        /\ s7 \in Seq(Punch!Notification) /\ s12 \in Seq(Punch!Notification)
        /\ s13 \in Seq(Punch!Notification)
        /\ (s2 = "data" => "ctrl" \in s15)
        /\ (s1 = "offer_ack" => s6 # <<>>)
        /\ Punch!InOrder(s7 \o s12 \o s13)
        /\ \A n \in M : Punch!Heard(n) /\ Punch!OffersInv(n) /\ Punch!AnswersInv(n)
        /\ (s1 # "punch" => \A i \in DOMAIN s6 : s6[i].port = s2)
    BY PunchParts
  <1>2. /\ s1 = "offer_ack" /\ s1' = "own_offer" /\ s15' = s15 \cup {s6[1].port}
        /\ UNCHANGED <<s2, s4, s6, s7, s12, s13>>
    BY DEF Punch!AckOffer, Punch!mainRest, Punch!outside, Punch!At
  <1> HIDE DEF M
  <1>3. "ctrl" \in s15'
    <2>1. 1 \in DOMAIN s6
      BY <1>1, <1>2
    <2> QED BY <1>1, <1>2, <2>1
  <1>4. ASSUME NEW n \in M
        PROVE  Punch!Heard(n) /\ Punch!OffersInv(n)' /\ Punch!AnswersInv(n)'
    <2>1. Punch!Heard(n) /\ Punch!OffersInv(n) /\ Punch!AnswersInv(n)
      BY <1>1
    <2>2. Punch!OffersInv(n)'
      BY <1>2, <2>1 DEF Punch!OffersInv, Punch!Offer, Punch!Agreed, Punch!Opened, Punch!Ending
    <2>3. s1 \notin Punch!Ending /\ Punch!Ending' = Punch!Ending
      BY <1>2 DEF Punch!Ending
    <2>4. Punch!Result(n) => n.req < s4
      BY <1>2, <2>1, <2>3 DEF Punch!AnswersInv
    <2>5. ~(Punch!Accept(n) /\ n.port = "ctrl" /\ s2 = "data")
      BY <1>2, <2>1, <2>3 DEF Punch!AnswersInv
    <2>6. Punch!AnswersInv(n)'
      BY <1>2, <1>3, <2>1, <2>3, <2>4, <2>5 DEF Punch!AnswersInv, Punch!Result, Punch!Accept
    <2> QED BY <2>1, <2>2, <2>6
  <1>5. s1' # "offer_ack" /\ s1' # "punch"
    BY <1>2
  <1> QED BY <1>1, <1>2, <1>3, <1>4, <1>5, PunchWhole DEF M

\* Our own OFFER: its RESULT has the number that is waited for, as no other has.
LEMMA PunchOffers ==
  ASSUME Punch!PunchInv, Punch!OwnOffer
  PROVE  Punch!PunchInv'
PROOF
  <1> DEFINE M == Punch!Members(s7 \o s12 \o s13)
             e == Punch!Message("RESULT", s2, s4)
  <1>1. /\ s2 \in {"ctrl", "data"} /\ s4 \in Nat /\ s6 \in Seq(Punch!Notification)
        /\ s7 \in Seq(Punch!Notification) /\ s12 \in Seq(Punch!Notification)
        /\ s13 \in Seq(Punch!Notification) /\ s7 \o s12 \o s13 \in Seq(Punch!Notification)
        /\ (s1 \in Punch!Acknowledged \/ s2 = "data" => "ctrl" \in s15)
        /\ \A n \in M : Punch!Heard(n) /\ Punch!OffersInv(n) /\ Punch!AnswersInv(n)
        /\ (s1 # "punch" => \A i \in DOMAIN s6 : s6[i].port = s2)
    BY PunchParts
  <1>2. /\ s1 = "own_offer" /\ s1' = "ack" /\ s4' = s4 + 1 /\ s13' = Append(s13, e)
        /\ UNCHANGED <<s2, s6, s7, s12, s15>>
    BY DEF Punch!OwnOffer, Punch!mainRest, Punch!outside, Punch!At
  <1>3. /\ e \in Punch!Notification /\ e.type = "message" /\ e.action = "RESULT"
        /\ e.port = s2 /\ e.req = s4
    BY <1>1 DEF Punch!Message, Punch!Notification, Punch!Ports
  <1> HIDE DEF e
  <1>4. ~Punch!Offer(e, "ctrl") /\ ~Punch!Accept(e)
    BY <1>3 DEF Punch!Offer, Punch!Accept
  <1>5. /\ s7' \in Seq(Punch!Notification) /\ s12' \in Seq(Punch!Notification)
        /\ s13' \in Seq(Punch!Notification) /\ Punch!InOrder(s7' \o s12' \o s13')
        /\ \A n \in Punch!Members(s7' \o s12' \o s13') : n \in M \/ n = e
    BY <1>2, <1>3, <1>4, PunchLineMore
  <1>6. \A n \in M : n.req \in Int
    <2>1. \A n \in M : n \in Punch!Notification
      BY <1>1 DEF Punch!Members
    <2> QED BY <2>1 DEF Punch!Notification
  <1> HIDE DEF M
  <1>7. "ctrl" \in s15'
    BY <1>1, <1>2 DEF Punch!Acknowledged
  <1>8. s1 \notin Punch!Ending /\ s1' \notin Punch!Ending /\ Punch!Ending' = Punch!Ending
    BY <1>2 DEF Punch!Ending
  <1>9. ASSUME NEW n, n \in M \/ n = e
        PROVE  Punch!Heard(n) /\ Punch!OffersInv(n)' /\ Punch!AnswersInv(n)'
    <2>1. CASE n \in M
      <3>1. Punch!Heard(n) /\ Punch!OffersInv(n) /\ Punch!AnswersInv(n)
        BY <1>1, <2>1
      <3>2. Punch!OffersInv(n)'
        BY <1>2, <3>1 DEF Punch!OffersInv, Punch!Offer, Punch!Agreed, Punch!Opened, Punch!Ending
      <3>3. Punch!Result(n) => n.req < s4
        BY <1>2, <1>8, <3>1 DEF Punch!AnswersInv
      <3>4. Punch!Result(n) => n.req < s4' - 1 /\ n.req < s4'
        BY <1>1, <1>2, <1>6, <2>1, <3>3
      <3>5. ~(Punch!Accept(n) /\ n.port = "ctrl" /\ s2 = "data")
        BY <1>2, <1>8, <3>1 DEF Punch!AnswersInv
      <3>6. Punch!AnswersInv(n)'
        BY <1>2, <1>7, <1>8, <3>1, <3>4, <3>5 DEF Punch!AnswersInv, Punch!Result, Punch!Accept
      <3> QED BY <3>1, <3>2, <3>6
    <2>2. CASE n = e
      <3>1. Punch!Heard(n)
        BY <1>1, <1>3, <2>2 DEF Punch!Heard, Punch!Ports
      <3>2. Punch!OffersInv(n)'
        BY <1>3, <2>2 DEF Punch!OffersInv, Punch!Offer
      <3>3. n.req < s4' /\ n.port = s2'
        BY <1>1, <1>2, <1>3, <2>2
      <3>4. Punch!AnswersInv(n)'
        BY <1>2, <1>3, <1>4, <1>7, <1>8, <2>2, <3>3 DEF Punch!AnswersInv, Punch!Result, Punch!Accept
      <3> QED BY <3>1, <3>2, <3>4
    <2> QED BY <1>9, <2>1, <2>2
  <1>10. \A n \in Punch!Members(s7' \o s12' \o s13') :
            Punch!Heard(n) /\ Punch!OffersInv(n)' /\ Punch!AnswersInv(n)'
    BY <1>5, <1>9
  <1>11. s4' \in Nat /\ s1' # "offer_ack" /\ s1' # "punch" /\ s1 # "punch"
    BY <1>1, <1>2
  <1>12. s6' \in Seq(Punch!Notification) /\ s2' \in {"ctrl", "data"}
         /\ \A i \in DOMAIN s6' : s6'[i].port = s2'
    BY <1>1, <1>2, <1>11
  <1> QED BY <1>5, <1>7, <1>10, <1>11, <1>12, PunchWhole

\* The number of the ACCEPT is counted.
LEMMA PunchAccepts ==
  ASSUME Punch!PunchInv, Punch!AcceptSent
  PROVE  Punch!PunchInv'
PROOF
  <1> DEFINE M == Punch!Members(s7 \o s12 \o s13)
  <1>1. /\ s2 \in {"ctrl", "data"} /\ s4 \in Nat /\ s6 \in Seq(Punch!Notification)
        /\ s7 \in Seq(Punch!Notification) /\ s12 \in Seq(Punch!Notification)
        /\ s13 \in Seq(Punch!Notification)
        /\ (s1 \in Punch!Acknowledged \/ s2 = "data" => "ctrl" \in s15)
        /\ Punch!InOrder(s7 \o s12 \o s13)
        /\ \A n \in M : Punch!Heard(n) /\ Punch!OffersInv(n) /\ Punch!AnswersInv(n)
        /\ (s1 # "punch" => \A i \in DOMAIN s6 : s6[i].port = s2)
    BY PunchParts
  <1>2. /\ s1 = "accept_sent" /\ s1' = "accepting" /\ s4' = s4 + 1
        /\ UNCHANGED <<s2, s6, s7, s12, s13, s15>>
    BY DEF Punch!AcceptSent, Punch!mainRest, Punch!outside, Punch!At
  <1> HIDE DEF M
  <1>3. s1 \notin Punch!Ending /\ s1' \notin Punch!Ending /\ Punch!Ending' = Punch!Ending
    BY <1>2 DEF Punch!Ending
  <1>4. "ctrl" \in s15'
    BY <1>1, <1>2 DEF Punch!Acknowledged, Punch!Agreed
  <1>5. ASSUME NEW n \in M
        PROVE  Punch!Heard(n) /\ Punch!OffersInv(n)' /\ Punch!AnswersInv(n)'
    <2>1. Punch!Heard(n) /\ Punch!OffersInv(n) /\ Punch!AnswersInv(n)
      BY <1>1
    <2>2. Punch!OffersInv(n)'
      BY <1>2, <2>1 DEF Punch!OffersInv, Punch!Offer, Punch!Agreed, Punch!Opened, Punch!Ending
    <2>3. Punch!Result(n) => n.req < s4'
      BY <1>2, <1>3, <2>1 DEF Punch!AnswersInv
    <2>4. ~(Punch!Accept(n) /\ n.port = "ctrl" /\ s2 = "data")
      BY <1>2, <1>3, <2>1 DEF Punch!AnswersInv
    <2>5. Punch!AnswersInv(n)'
      BY <1>2, <1>3, <1>4, <2>1, <2>3, <2>4 DEF Punch!AnswersInv, Punch!Result, Punch!Accept
    <2> QED BY <2>1, <2>2, <2>5
  <1>6. s4' \in Nat /\ s1' # "offer_ack" /\ s1' # "punch" /\ s1 # "punch"
    BY <1>1, <1>2
  <1> QED BY <1>1, <1>2, <1>4, <1>5, <1>6, PunchWhole DEF M

\* The console answers the ACCEPT and sends its own.
LEMMA PunchAccepted ==
  ASSUME Punch!PunchInv,
         Punch!CallAnswered("accept", "accept_sent", Punch!Message("RESULT", s2, s4),
                            Punch!Message("ACCEPT", s2, 20))
  PROVE  Punch!PunchInv'
PROOF
  <1> DEFINE M == Punch!Members(s7 \o s12 \o s13)
             r == Punch!Message("RESULT", s2, s4)
             t == Punch!Message("ACCEPT", s2, 20)
  <1>1. /\ s2 \in {"ctrl", "data"} /\ s4 \in Nat /\ s6 \in Seq(Punch!Notification)
        /\ s7 \in Seq(Punch!Notification) /\ s12 \in Seq(Punch!Notification)
        /\ s13 \in Seq(Punch!Notification) /\ s7 \o s12 \o s13 \in Seq(Punch!Notification)
        /\ (s1 \in Punch!Acknowledged \/ s2 = "data" => "ctrl" \in s15)
        /\ \A n \in M : Punch!Heard(n) /\ Punch!OffersInv(n) /\ Punch!AnswersInv(n)
        /\ (s1 # "punch" => \A i \in DOMAIN s6 : s6[i].port = s2)
    BY PunchParts
  <1>2. /\ s1 = "accept" /\ s1' = "accept_sent"
        /\ s13' = Append(Append(s13, r), t) \/ s13' = Append(Append(s13, t), r)
        /\ UNCHANGED <<s2, s4, s6, s7, s12, s15>>
    BY DEF Punch!CallAnswered, Punch!mainRest, Punch!outside, Punch!At
  <1>3. /\ r \in Punch!Notification /\ r.type = "message" /\ r.action = "RESULT"
        /\ r.port = s2 /\ r.req = s4
        /\ t \in Punch!Notification /\ t.type = "message" /\ t.action = "ACCEPT" /\ t.port = s2
    BY <1>1 DEF Punch!Message, Punch!Notification, Punch!Ports
  <1> HIDE DEF r, t
  <1>4. s1 \notin Punch!Ending /\ s1 \notin Punch!Opened /\ s1' \notin Punch!Ending
        /\ Punch!Ending' = Punch!Ending
    BY <1>2 DEF Punch!Ending, Punch!Opened
  <1>5. s2 = "ctrl" => \A n \in M : ~Punch!Offer(n, "data")
    BY <1>1, <1>4 DEF Punch!OffersInv
  <1>6. \A n \in M : n.req \in Int
    <2>1. \A n \in M : n \in Punch!Notification
      BY <1>1 DEF Punch!Members
    <2> QED BY <2>1 DEF Punch!Notification
  <1>7. \A a, b \in {r, t} : s13' = Append(Append(s13, a), b) =>
          /\ s7' \in Seq(Punch!Notification) /\ s12' \in Seq(Punch!Notification)
          /\ s13' \in Seq(Punch!Notification) /\ Punch!InOrder(s7' \o s12' \o s13')
          /\ \A n \in Punch!Members(s7' \o s12' \o s13') : n \in M \cup {r, t}
    <2>1. SUFFICES ASSUME NEW a \in {r, t}, NEW b \in {r, t}, s13' = Append(Append(s13, a), b)
          PROVE  /\ s7' \in Seq(Punch!Notification) /\ s12' \in Seq(Punch!Notification)
                 /\ s13' \in Seq(Punch!Notification) /\ Punch!InOrder(s7' \o s12' \o s13')
                 /\ \A n \in Punch!Members(s7' \o s12' \o s13') : n \in M \cup {r, t}
      OBVIOUS
    <2>2. /\ a \in Punch!Notification /\ b \in Punch!Notification
          /\ a.action # "OFFER" /\ b.action # "OFFER"
          /\ a.port = s2 /\ b.port = s2
      BY <1>3
    <2>3. \A e \in {a, b} : (Punch!Accept(e) /\ e.port = "ctrl") => \A n \in M : ~Punch!Offer(n, "data")
      BY <1>5, <2>2
    <2>4. /\ s7' \in Seq(Punch!Notification) /\ s12' \in Seq(Punch!Notification)
          /\ s13' \in Seq(Punch!Notification) /\ Punch!InOrder(s7' \o s12' \o s13')
          /\ \A n \in Punch!Members(s7' \o s12' \o s13') : n \in M \cup {a, b}
      BY <1>2, <2>1, <2>2, <2>3, PunchLineTwo
    <2> QED BY <2>4
  <1> HIDE DEF M
  <1>8. /\ s7' \in Seq(Punch!Notification) /\ s12' \in Seq(Punch!Notification)
        /\ s13' \in Seq(Punch!Notification) /\ Punch!InOrder(s7' \o s12' \o s13')
        /\ \A n \in Punch!Members(s7' \o s12' \o s13') : n \in M \cup {r, t}
    BY <1>2, <1>7
  <1>9. "ctrl" \in s15'
    BY <1>1, <1>2 DEF Punch!Acknowledged, Punch!Agreed
  <1>10. ASSUME NEW n \in M \cup {r, t}
         PROVE  Punch!Heard(n) /\ Punch!OffersInv(n)' /\ Punch!AnswersInv(n)'
    <2>1. CASE n \in M
      <3>1. Punch!Heard(n) /\ Punch!OffersInv(n) /\ Punch!AnswersInv(n)
        BY <1>1, <2>1
      <3>2. Punch!OffersInv(n)'
        BY <1>2, <3>1 DEF Punch!OffersInv, Punch!Offer, Punch!Agreed, Punch!Opened, Punch!Ending
      <3>3. Punch!Result(n) => n.req < s4
        BY <1>2, <1>4, <3>1 DEF Punch!AnswersInv
      <3>4. Punch!Result(n) => n.req < s4 + 1
        BY <1>1, <1>6, <2>1, <3>3
      <3>5. ~(Punch!Accept(n) /\ n.port = "ctrl" /\ s2 = "data")
        BY <1>2, <1>4, <3>1 DEF Punch!AnswersInv
      <3>6. Punch!AnswersInv(n)'
        BY <1>2, <1>4, <1>9, <3>1, <3>4, <3>5 DEF Punch!AnswersInv, Punch!Result, Punch!Accept
      <3> QED BY <3>1, <3>2, <3>6
    <2>2. CASE n \in {r, t}
      <3>1. Punch!Heard(n)
        BY <1>1, <1>3, <2>2 DEF Punch!Heard, Punch!Ports
      <3>2. Punch!OffersInv(n)'
        BY <1>3, <2>2 DEF Punch!OffersInv, Punch!Offer
      <3>3. Punch!Result(n) => n.req < s4 + 1
        <4>1. Punch!Result(n) => n = r
          BY <1>3, <2>2 DEF Punch!Result
        <4>2. r.req < s4 + 1
          BY <1>1, <1>3
        <4> QED BY <4>1, <4>2
      <3>4. n.port = s2 /\ ~(n.port = "ctrl" /\ s2 = "data")
        BY <1>3, <2>2
      <3>5. Punch!AnswersInv(n)'
        BY <1>2, <1>4, <1>9, <3>3, <3>4 DEF Punch!AnswersInv, Punch!Result, Punch!Accept
      <3> QED BY <3>1, <3>2, <3>5
    <2> QED BY <2>1, <2>2
  <1>11. s1' # "offer_ack" /\ s1' # "punch" /\ s1 # "punch"
    BY <1>2
  <1>12. /\ s6' \in Seq(Punch!Notification) /\ s2' \in {"ctrl", "data"} /\ s4' \in Nat
         /\ \A i \in DOMAIN s6' : s6'[i].port = s2'
    BY <1>1, <1>2, <1>11
  <1>13. \A n \in Punch!Members(s7' \o s12' \o s13') :
            Punch!Heard(n) /\ Punch!OffersInv(n)' /\ Punch!AnswersInv(n)'
    BY <1>8, <1>10
  <1> QED BY <1>8, <1>9, <1>11, <1>12, <1>13, PunchWhole

\* After the control port comes the data port, or the end.
LEMMA PunchEnds ==
  ASSUME Punch!PunchInv, Punch!Punched
  PROVE  Punch!PunchInv'
PROOF
  <1> DEFINE M == Punch!Members(s7 \o s12 \o s13)
  <1>1. /\ s2 \in {"ctrl", "data"} /\ s4 \in Nat /\ s6 \in Seq(Punch!Notification)
        /\ s7 \in Seq(Punch!Notification) /\ s12 \in Seq(Punch!Notification)
        /\ s13 \in Seq(Punch!Notification)
        /\ (s1 \in Punch!Acknowledged \/ s2 = "data" => "ctrl" \in s15)
        /\ Punch!InOrder(s7 \o s12 \o s13)
        /\ \A n \in M : Punch!Heard(n) /\ Punch!OffersInv(n) /\ Punch!AnswersInv(n)
        /\ (s1 # "punch" => \A i \in DOMAIN s6 : s6[i].port = s2)
    BY PunchParts
  <1>2. /\ s1 = "established"
        /\ \/ s1' = "fini" /\ s2' = s2
           \/ s1' = "punch" /\ s2' = "data"
        /\ UNCHANGED <<s4, s6, s7, s12, s13, s15>>
    BY DEF Punch!Punched, Punch!outside, Punch!At, Punch!Return
  <1> HIDE DEF M
  <1>3. CASE s1' = "fini" /\ s2' = s2
    <2>1. QuietMove(s1, s1')
      BY <1>2, <1>3 DEF QuietMove, Punch!Ending
    <2> QED BY <1>2, <1>3, <2>1, PunchQuietSame
  <1>4. CASE s1' = "punch" /\ s2' = "data"
    <2>1. s1 \notin Punch!Ending /\ Punch!Ending' = Punch!Ending /\ s1 \in Punch!Agreed
      BY <1>2 DEF Punch!Ending, Punch!Agreed
    <2>2. "ctrl" \in s15'
      BY <1>1, <1>2, <2>1 DEF Punch!Acknowledged
    <2>3. ASSUME NEW n \in M
          PROVE  Punch!Heard(n) /\ Punch!OffersInv(n)' /\ Punch!AnswersInv(n)'
      <3>1. Punch!Heard(n) /\ Punch!OffersInv(n) /\ Punch!AnswersInv(n)
        BY <1>1
      <3>2. Punch!OffersInv(n)'
        BY <1>4, <2>1, <3>1 DEF Punch!OffersInv, Punch!Offer
      <3>3. Punch!Result(n) => n.req < s4
        BY <1>2, <2>1, <3>1 DEF Punch!AnswersInv
      <3>4. Punch!AnswersInv(n)'
        BY <1>2, <1>4, <2>1, <2>2, <3>1, <3>3 DEF Punch!AnswersInv, Punch!Result, Punch!Accept
      <3> QED BY <3>1, <3>2, <3>4
    <2>4. s1' # "offer_ack" /\ s2' \in {"ctrl", "data"}
      BY <1>4
    <2> QED BY <1>1, <1>2, <1>4, <2>2, <2>3, <2>4, PunchWhole DEF M
  <1> QED BY <1>2, <1>3, <1>4

\* The console repeats an OFFER that was not acknowledged, or ends all.
LEMMA PunchConsole ==
  ASSUME Punch!PunchInv, Punch!ConsoleSends
  PROVE  Punch!PunchInv'
PROOF
  <1> DEFINE M == Punch!Members(s7 \o s12 \o s13)
  <1>1. /\ s2 \in {"ctrl", "data"} /\ s4 \in Nat /\ s6 \in Seq(Punch!Notification)
        /\ s7 \in Seq(Punch!Notification) /\ s12 \in Seq(Punch!Notification)
        /\ s13 \in Seq(Punch!Notification)
        /\ (s1 \in Punch!Acknowledged \/ s2 = "data" => "ctrl" \in s15)
        /\ (s1 = "offer_ack" => s6 # <<>>)
        /\ \A n \in M : Punch!Heard(n) /\ Punch!OffersInv(n) /\ Punch!AnswersInv(n)
        /\ (s1 # "punch" => \A i \in DOMAIN s6 : s6[i].port = s2)
    BY PunchParts
  <1>2. UNCHANGED <<s1, s2, s4, s6, s7, s12, s15>>
    BY DEF Punch!ConsoleSends
  <1>3. \/ \E p \in Punch!Offering \ s15 : s13' = Append(s13, Punch!Message("OFFER", p, 10))
        \/ s13' = Append(s13, Punch!Message("TERMINATE", "none", 0))
    BY DEF Punch!ConsoleSends
  <1>4. ASSUME NEW p \in Punch!Offering \ s15, s13' = Append(s13, Punch!Message("OFFER", p, 10))
        PROVE  Punch!PunchInv'
    <2> DEFINE e == Punch!Message("OFFER", p, 10)
    <2>1. /\ p \in {"ctrl", "data"} /\ p \notin s15
          /\ p = "data" => s2 = "data" \/ s1 \in Punch!Opened
      BY <1>4 DEF Punch!Offering, Punch!Opened
    <2>2. e \in Punch!Notification /\ e.type = "message" /\ e.action = "OFFER" /\ e.port = p
      BY <2>1 DEF Punch!Message, Punch!Notification, Punch!Ports
    <2>3. s13' = Append(s13, e)
      BY <1>4
    <2> HIDE DEF e
    <2>4. p = "ctrl" => \A n \in M : ~Punch!Result(n)
      BY <1>1, <2>1 DEF Punch!AnswersInv
    <2>5. ~Punch!Accept(e) /\ ~Punch!Result(e) /\ (Punch!Offer(e, "ctrl") => p = "ctrl")
      BY <2>2 DEF Punch!Accept, Punch!Offer, Punch!Result
    <2>6. /\ s7' \in Seq(Punch!Notification) /\ s12' \in Seq(Punch!Notification)
          /\ s13' \in Seq(Punch!Notification) /\ Punch!InOrder(s7' \o s12' \o s13')
          /\ \A n \in Punch!Members(s7' \o s12' \o s13') : n \in M \/ n = e
      BY <1>2, <2>2, <2>3, <2>4, <2>5, PunchLineMore
    <2> HIDE DEF M
    <2>7. ASSUME NEW n, n \in M \/ n = e
          PROVE  Punch!Heard(n) /\ Punch!OffersInv(n)' /\ Punch!AnswersInv(n)'
      <3>1. CASE n \in M
        <4>1. Punch!Heard(n) /\ Punch!OffersInv(n) /\ Punch!AnswersInv(n)
          BY <1>1, <3>1
        <4>2. Punch!Ending' = Punch!Ending /\ Punch!Agreed' = Punch!Agreed /\ Punch!Opened' = Punch!Opened
          BY DEF Punch!Ending, Punch!Agreed, Punch!Opened
        <4>3. Punch!OffersInv(n)' /\ Punch!AnswersInv(n)'
          BY <1>2, <4>1, <4>2 DEF Punch!OffersInv, Punch!AnswersInv, Punch!Offer, Punch!Result, Punch!Accept
        <4> QED BY <4>1, <4>3
      <3>2. CASE n = e
        <4>1. Punch!Heard(n)
          BY <2>1, <2>2, <3>2 DEF Punch!Heard, Punch!Ports
        <4>2. p = "ctrl" => s1 \notin Punch!Agreed /\ s2 = "ctrl"
          BY <1>1, <2>1 DEF Punch!Acknowledged
        <4>3. Punch!Ending' = Punch!Ending /\ Punch!Agreed' = Punch!Agreed /\ Punch!Opened' = Punch!Opened
          BY DEF Punch!Ending, Punch!Agreed, Punch!Opened
        <4>4. Punch!OffersInv(n)'
          BY <1>2, <2>1, <2>2, <3>2, <4>2, <4>3 DEF Punch!OffersInv, Punch!Offer
        <4>5. Punch!AnswersInv(n)'
          BY <2>5, <3>2 DEF Punch!AnswersInv, Punch!Result, Punch!Accept
        <4> QED BY <4>1, <4>4, <4>5
      <3> QED BY <2>7, <3>1, <3>2
    <2>8. \A n \in Punch!Members(s7' \o s12' \o s13') :
             Punch!Heard(n) /\ Punch!OffersInv(n)' /\ Punch!AnswersInv(n)'
      BY <2>6, <2>7
    <2> QED BY <1>1, <1>2, <2>6, <2>8, PunchWhole
  <1>5. CASE s13' = Append(s13, Punch!Message("TERMINATE", "none", 0))
    <2> DEFINE e == Punch!Message("TERMINATE", "none", 0)
    <2>1. e \in Punch!Notification /\ e.type = "message" /\ e.action = "TERMINATE"
      BY DEF Punch!Message, Punch!Notification
    <2>2. s13' = Append(s13, e)
      BY <1>5
    <2> HIDE DEF e
    <2>3. Punch!Heard(e) /\ e.action \notin {"OFFER", "RESULT", "ACCEPT"}
      BY <2>1 DEF Punch!Heard
    <2>4. QuietMove(s1, s1')
      BY <1>2 DEF QuietMove
    <2> QED BY <1>2, <2>1, <2>2, <2>3, <2>4, PunchQuietMore
  <1> QED BY <1>3, <1>4, <1>5

\* The connection over PSN: every step keeps the invariant.
LEMMA PunchNext ==
  ASSUME Punch!PunchInv, Punch!Next
  PROVE  Punch!PunchInv'
PROOF
  <1>1. CASE Punch!Main
    <2>1. CASE Punch!Calls
      BY <2>1, PunchCallsQuiet, PunchNoticesQuiet, PunchAccepted DEF Punch!Calls
    <2> QED
      BY <1>1, <2>1, PunchCallsQuiet, PunchWaitsQuiet, PunchNoticesQuiet, PunchTakesQuiet, PunchBegins,
         PunchTakes, PunchAcks, PunchOffers, PunchAccepts, PunchEnds DEF Punch!Main
  <1>2. CASE Punch!Websocket
    BY <1>2, PunchOthersQuiet, PunchLineMoves DEF Punch!Websocket
  <1> QED BY <1>1, <1>2, PunchOthersQuiet, PunchConsole DEF Punch!Next

\* A new session has an empty line.
LEMMA PunchInit ==
  ASSUME Punch!Init
  PROVE  Punch!PunchInv
PROOF
  <1>1. /\ s1 = "create" /\ s2 = "ctrl" /\ s4 = 1 /\ s6 = <<>> /\ s7 = <<>> /\ s12 = <<>> /\ s13 = <<>>
    BY DEF Punch!Init
  <1>2. s1 \notin Punch!Acknowledged /\ s1 # "offer_ack" /\ s2 \in Punch!Ports /\ s4 \in Nat
    BY <1>1 DEF Punch!Acknowledged, Punch!Agreed, Punch!Ports
  <1>3. <<>> \in Seq(Punch!Notification) /\ DOMAIN s6 = {}
    BY <1>1
  <1>4. Punch!Line = <<>>
    <2>1. (<<>> \o <<>>) \o <<>> = <<>>
      BY <1>3, ConcatEmptySeq
    <2> QED BY <1>1, <2>1 DEF Punch!Line
  <1>5. DOMAIN Punch!Line = {}
    BY <1>4
  <1>6. Punch!InOrder(Punch!Line) /\ Punch!Members(Punch!Line) = {}
    BY <1>5 DEF Punch!InOrder, Punch!Members
  <1> QED BY <1>1, <1>2, <1>3, <1>6 DEF Punch!PunchInv, Punch!RightMessages

-----------------------------------------------------------------------------
(* The ports that are offered: stun.h and holepunch.c                      *)

\* The ports a NAT gives, and how many.
NatPorts == PortsKnown + 1..PortsMax
Turn == PortsMax - PortsKnown

\* The constants of the ports.
LEMMA PortsConstants ==
  /\ PortsMax \in Nat /\ PortsKnown \in Nat /\ PortsDynamic \in Nat
  /\ 0 < PortsKnown /\ PortsKnown < PortsDynamic /\ PortsDynamic < PortsMax
  /\ PortsAhead \in Nat /\ PortsGuesses \in Nat /\ PortsUnseen \in Nat
  /\ PortsGuesses <= PortsMax - PortsDynamic
  /\ PortsStarts \subseteq NatPorts /\ PortsJumps \subseteq NatPorts
  /\ Turn \in Nat
  /\ \A s \in PortsSteps : s \in Int /\ s # PortsMax /\ -s < Turn /\ s < Turn
  /\ \A s \in PortsSteps : \A u \in 1..PortsUnseen + 1 : u * s < Turn
PROOF
  <1>1. /\ PortsMax \in Nat /\ PortsKnown \in Nat /\ PortsDynamic \in Nat
        /\ 0 < PortsKnown /\ PortsKnown < PortsDynamic /\ PortsDynamic < PortsMax
        /\ PortsAhead \in Nat /\ PortsGuesses \in Nat /\ PortsUnseen \in Nat
        /\ PortsGuesses <= PortsMax - PortsDynamic
        /\ PortsSteps \subseteq Int \ {PortsMax}
        /\ PortsStarts \subseteq NatPorts /\ PortsJumps \subseteq NatPorts
        /\ \A s \in PortsSteps : -s < PortsMax - PortsKnown
        /\ \A s \in PortsSteps : \A u \in 1..PortsUnseen + 1 : u * s < PortsMax - PortsKnown
    BY PartsAssumption DEF Ports!PortProbeConstantsOK, NatPorts
  <1>2. Turn \in Nat
    BY <1>1 DEF Turn
  <1>3. ASSUME NEW s \in PortsSteps PROVE s \in Int /\ s # PortsMax /\ -s < Turn /\ s < Turn
    <2>1. 1 \in 1..PortsUnseen + 1 /\ s \in Int /\ s # PortsMax
      BY <1>1
    <2>2. 1 * s < PortsMax - PortsKnown /\ -s < PortsMax - PortsKnown
      BY <1>1, <2>1
    <2> QED BY <2>1, <2>2 DEF Turn
  <1> QED BY <1>1, <1>2, <1>3 DEF Turn

\* Within one turn a rising NAT gives the port that is so many steps on.
LEMMA TurnOn ==
  ASSUME NEW p \in NatPorts, NEW t \in Nat, NEW s \in Nat, t + s < Turn, NEW q,
         q = IF p + t > PortsMax THEN p + t - Turn ELSE p + t
  PROVE  /\ q \in NatPorts
         /\ (IF q + s > PortsMax THEN q + s - Turn ELSE q + s)
            = IF p + (t + s) > PortsMax THEN p + (t + s) - Turn ELSE p + (t + s)
BY PortsConstants DEF NatPorts, Turn

\* What check says of each port but the first.
LEMMA CheckIs ==
  /\ Ports!check[0] = s7.port
  /\ \A i \in 1..PortsAhead : Ports!check[i] = Ports!OneOn(Ports!check[i - 1])
PROOF
  <1> DEFINE Up(g, i) == IF i = 0 THEN s7.port ELSE Ports!OneOn(g[i - 1])
             Is(g, n) == g = [i \in 0..n |-> Up(g, i)]
             Not == {n \in Nat : ~\E g : Is(g, n)}
  <1>1. Not = {}
    <2>1. SUFFICES ASSUME Not # {} PROVE FALSE
      OBVIOUS
    <2>2. PICK m \in Not : \A n \in Not : m <= n
      <3>1. Not \subseteq Nat
        OBVIOUS
      <3> HIDE DEF Not
      <3> QED BY <2>1, <3>1, LeastOf
    <2>3. m \in Nat /\ ~\E g : Is(g, m)
      OBVIOUS
    <2>4. m # 0
      <3>1. Is([i \in 0..0 |-> s7.port], 0)
        <4>1. \A i \in 0..0 : i = 0
          OBVIOUS
        <4>2. [i \in 0..0 |-> s7.port] = [i \in 0..0 |-> Up([k \in 0..0 |-> s7.port], i)]
          BY <4>1
        <4> QED BY <4>2
      <3> HIDE DEF Is
      <3> QED BY <2>3, <3>1
    <2>5. m - 1 \in Nat /\ m - 1 \notin Not
      <3>1. m - 1 \in Nat
        BY <2>3, <2>4
      <3>2. ~(m <= m - 1)
        BY <2>3
      <3> HIDE DEF Not, Is
      <3> QED BY <2>2, <3>1, <3>2
    <2>6. PICK g : Is(g, m - 1)
      BY <2>5
    <2> DEFINE h == [i \in 0..m |-> IF i < m THEN g[i] ELSE Ports!OneOn(g[m - 1])]
    <2>7. Is(h, m)
      <3>1. \A i \in 0..m : h[i] = Up(h, i)
        <4>1. SUFFICES ASSUME NEW i \in 0..m PROVE h[i] = Up(h, i)
          OBVIOUS
        <4>2. i \in Nat /\ m \in Nat
          BY <2>3
        <4>3. CASE i = 0
          <5>1. h[0] = g[0] /\ 0 \in 0..m - 1
            BY <2>3, <2>4
          <5>2. g[0] = s7.port
            BY <2>6, <5>1
          <5> QED BY <4>3, <5>1, <5>2
        <4>4. CASE i # 0 /\ i < m
          <5>1. h[i] = g[i] /\ h[i - 1] = g[i - 1] /\ i \in 0..m - 1
            BY <4>2, <4>4
          <5>2. g[i] = Ports!OneOn(g[i - 1])
            BY <2>6, <4>4, <5>1
          <5> QED BY <4>4, <5>1, <5>2
        <4>5. CASE i = m
          <5>1. h[m] = Ports!OneOn(g[m - 1]) /\ h[m - 1] = g[m - 1]
            BY <2>3, <2>4
          <5> QED BY <2>4, <4>5, <5>1
        <4> QED BY <4>2, <4>3, <4>4, <4>5
      <3>2. h = [i \in 0..m |-> h[i]]
        OBVIOUS
      <3> HIDE DEF h
      <3> QED BY <3>1, <3>2
    <2> HIDE DEF Is, h
    <2> QED BY <2>3, <2>7
  <1>2. PortsAhead \in Nat
    BY PortsConstants
  <1>3. PICK g : Is(g, PortsAhead)
    BY <1>1, <1>2
  <1>4. Ports!check = [i \in 0..PortsAhead |-> Up(Ports!check, i)]
    BY <1>3 DEF Ports!check
  <1>5. ASSUME NEW i \in 1..PortsAhead PROVE Ports!check[i] = Ports!OneOn(Ports!check[i - 1])
    <2>1. i \in 0..PortsAhead /\ i # 0
      BY <1>2
    <2> QED BY <1>4, <2>1
  <1>6. Ports!check[0] = s7.port
    <2>1. 0 \in 0..PortsAhead
      BY <1>2
    <2> QED BY <1>4, <2>1
  <1> QED BY <1>5, <1>6

\* A step moves a port that was found to a port.
LEMMA OneOnTyped ==
  ASSUME NEW p \in 0..PortsMax, s7.increment \in Int,
         -Turn < s7.increment, s7.increment < Turn
  PROVE  Ports!OneOn(p) \in 1..PortsMax
PROOF
  <1> DEFINE d == s7.increment
             q == p + d
  <1>1. d \in Int /\ -Turn < d /\ d < Turn /\ p \in Int
    BY PortsConstants
  <1>2. Ports!OneOn(p) = IF q < PortsKnown /\ p > PortsKnown THEN PortsMax - (PortsKnown - q)
                         ELSE IF q < 1 THEN q + PortsMax
                         ELSE IF q > PortsMax THEN q - PortsMax + PortsKnown ELSE q
    BY DEF Ports!OneOn
  <1> HIDE DEF d
  <1> QED BY <1>1, <1>2, PortsConstants DEF Turn

\* All the ports that follow are ports.
LEMMA FollowingTyped ==
  ASSUME s7.port \in 0..PortsMax, s7.increment \in Int,
         -Turn < s7.increment, s7.increment < Turn
  PROVE  /\ Ports!Following \in Seq(0..PortsMax)
         /\ Ports!Range(Ports!Following) \subseteq 1..PortsMax
         /\ \A i \in 1..PortsAhead : Ports!check[i] \in 1..PortsMax
PROOF
  <1>1. PortsAhead \in Nat /\ PortsMax \in Nat
    BY PortsConstants
  <1> DEFINE Not == {i \in 1..PortsAhead : Ports!check[i] \notin 1..PortsMax}
  <1>2. Not = {}
    <2>1. SUFFICES ASSUME Not # {} PROVE FALSE
      OBVIOUS
    <2>2. PICK m \in Not : \A n \in Not : m <= n
      <3>1. Not \subseteq Nat
        BY <1>1
      <3> HIDE DEF Not
      <3> QED BY <2>1, <3>1, LeastOf
    <2>3. m \in 1..PortsAhead /\ m \in Nat /\ Ports!check[m] \notin 1..PortsMax
      BY <1>1
    <2>4. Ports!check[m - 1] \in 0..PortsMax
      <3>1. CASE m = 1
        BY <3>1, CheckIs
      <3>2. CASE m # 1
        <4>1. m - 1 \in 1..PortsAhead /\ ~(m <= m - 1)
          BY <1>1, <2>3, <3>2
        <4>2. Ports!check[m - 1] \in 1..PortsMax
          BY <2>2, <4>1
        <4> QED BY <1>1, <4>2
      <3> QED BY <3>1, <3>2
    <2>5. Ports!OneOn(Ports!check[m - 1]) \in 1..PortsMax
      BY <2>4, OneOnTyped
    <2>6. Ports!check[m] = Ports!OneOn(Ports!check[m - 1])
      BY <2>3, CheckIs
    <2> QED BY <2>3, <2>5, <2>6
  <1>3. \A i \in 1..PortsAhead : Ports!check[i] \in 1..PortsMax
    BY <1>2
  <1> HIDE DEF Not
  <1>4. \A i \in 1..PortsAhead : Ports!Following[i] \in 1..PortsMax
    <2>1. SUFFICES ASSUME NEW i \in 1..PortsAhead PROVE Ports!Following[i] \in 1..PortsMax
      OBVIOUS
    <2>2. Ports!Following[i] = Ports!check[i] % (PortsMax + 1)
      BY DEF Ports!Following, Ports!Word
    <2> DEFINE c == Ports!check[i]
    <2>3. c \in 1..PortsMax
      BY <1>3
    <2> HIDE DEF c
    <2>4. c % (PortsMax + 1) = c
      BY <1>1, <2>3
    <2> QED BY <2>2, <2>3, <2>4 DEF c
  <1>5. DOMAIN Ports!Following = 1..PortsAhead
    BY DEF Ports!Following
  <1>6. Ports!Following \in [1..PortsAhead -> 0..PortsMax]
    <2>1. \A i \in 1..PortsAhead : Ports!Following[i] \in 0..PortsMax
      BY <1>1, <1>4
    <2>2. Ports!Following = [i \in 1..PortsAhead |-> Ports!Following[i]]
      BY DEF Ports!Following
    <2> QED BY <2>1, <2>2
  <1>7. Ports!Following \in Seq(0..PortsMax)
    BY <1>1, <1>6
  <1> QED BY <1>3, <1>4, <1>5, <1>7 DEF Ports!Range

\* Those that follow what was found in steps of a rising NAT are the ports it
\* gives, as long as it does not come around.
LEMMA FollowingSteps ==
  ASSUME s7.port \in NatPorts, s7.increment \in Nat, NEW k \in 1..PortsAhead,
         k * s7.increment < Turn
  PROVE  \E i \in DOMAIN Ports!Following : Ports!Following[i]
           = IF s7.port + k * s7.increment > PortsMax THEN s7.port + k * s7.increment - Turn
             ELSE s7.port + k * s7.increment
PROOF
  <1> DEFINE p == s7.port
             d == s7.increment
             On(i) == IF p + i * d > PortsMax THEN p + i * d - Turn ELSE p + i * d
             Not == {i \in 0..k : Ports!check[i] # On(i)}
  <1>1. p \in NatPorts /\ d \in Nat /\ k \in Nat /\ k \in 1..PortsAhead /\ k * d < Turn
        /\ PortsMax \in Nat /\ PortsKnown \in Nat /\ p \in Nat /\ 0 < PortsKnown
        /\ PortsKnown < PortsMax /\ p > PortsKnown /\ p <= PortsMax /\ PortsAhead \in Nat
    BY PortsConstants DEF NatPorts
  <1>2. \A q \in NatPorts : Ports!OneOn(q) = IF q + d > PortsMax THEN q + d - Turn ELSE q + d
    <2>1. SUFFICES ASSUME NEW q \in NatPorts
                   PROVE Ports!OneOn(q) = IF q + d > PortsMax THEN q + d - Turn ELSE q + d
      OBVIOUS
    <2>2. Ports!OneOn(q) = IF q + d < PortsKnown /\ q > PortsKnown THEN PortsMax - (PortsKnown - (q + d))
                           ELSE IF q + d < 1 THEN (q + d) + PortsMax
                           ELSE IF q + d > PortsMax THEN (q + d) - PortsMax + PortsKnown ELSE q + d
      BY DEF Ports!OneOn
    <2>3. q \in Nat /\ q > PortsKnown
      BY <1>1 DEF NatPorts
    <2> HIDE DEF d, p
    <2> QED BY <1>1, <2>2, <2>3 DEF Turn
  <1>3. \A i \in 0..k : i * d \in Nat /\ i * d <= k * d
    <2> HIDE DEF d, p
    <2> QED BY <1>1
  <1>4. \A i \in 1..k : (i - 1) * d \in Nat /\ (i - 1) * d + d = i * d
    <2> HIDE DEF d, p
    <2> QED BY <1>1
  <1>5. Not = {}
    <2>1. SUFFICES ASSUME Not # {} PROVE FALSE
      OBVIOUS
    <2>2. PICK m \in Not : \A n \in Not : m <= n
      <3>1. Not \subseteq Nat
        BY <1>1
      <3> HIDE DEF Not
      <3> QED BY <2>1, <3>1, LeastOf
    <2>3. m \in 0..k /\ m \in Nat /\ Ports!check[m] # On(m)
      BY <1>1
    <2>4. m # 0
      <3>1. On(0) = p
        <4> HIDE DEF d, p
        <4> QED BY <1>1
      <3> QED BY <2>3, <3>1, CheckIs
    <2>5. m \in 1..k /\ m \in 1..PortsAhead /\ m - 1 \in 0..k /\ ~(m <= m - 1)
      BY <1>1, <2>3, <2>4
    <2>6. Ports!check[m - 1] = On(m - 1)
      BY <2>2, <2>5
    <2>7. Ports!check[m] = Ports!OneOn(On(m - 1))
      BY <2>5, <2>6, CheckIs
    <2>8. On(m - 1) \in NatPorts
          /\ (IF On(m - 1) + d > PortsMax THEN On(m - 1) + d - Turn ELSE On(m - 1) + d) = On(m)
      <3>1. (m - 1) * d \in Nat /\ (m - 1) * d + d = m * d /\ m * d <= k * d /\ m * d \in Nat
        BY <1>3, <1>4, <2>3, <2>5
      <3> DEFINE t == (m - 1) * d
                 u == m * d
                 v == k * d
                 w == On(m - 1)
      <3>2. w = (IF p + t > PortsMax THEN p + t - Turn ELSE p + t)
            /\ On(m) = IF p + u > PortsMax THEN p + u - Turn ELSE p + u
        OBVIOUS
      <3>3. t \in Nat /\ t + d = u /\ u <= v /\ v < Turn /\ u \in Nat
        BY <1>1, <3>1
      <3>4. v \in Nat
        BY <1>1, <1>3
      <3> HIDE DEF t, u, v, w, On, p, d, Not
      <3>5. w \in NatPorts /\ (IF w + d > PortsMax THEN w + d - Turn ELSE w + d)
              = IF p + u > PortsMax THEN p + u - Turn ELSE p + u
        BY <1>1, <3>2, <3>3, <3>4 DEF Turn, NatPorts
      <3> QED BY <3>2, <3>5 DEF w
    <2>9. Ports!OneOn(On(m - 1)) = On(m)
      <3> HIDE DEF On
      <3> QED BY <1>2, <2>8
    <2> QED BY <2>3, <2>7, <2>9
  <1>6. Ports!check[k] = On(k)
    <2>1. k \in 0..k
      BY <1>1
    <2> QED BY <1>5, <2>1
  <1>7. On(k) \in 0..PortsMax
    <2>1. k * d \in Nat
      BY <1>1, <1>3
    <2> DEFINE v == k * d
    <2>2. v \in Nat /\ v < Turn /\ On(k) = IF p + v > PortsMax THEN p + v - Turn ELSE p + v
      BY <1>1, <2>1
    <2> HIDE DEF v, On, p, d, Not
    <2> QED BY <1>1, <2>2 DEF Turn
  <1>8. Ports!Following[k] = On(k)
    <2>1. Ports!Following[k] = Ports!check[k] % (PortsMax + 1)
      BY DEF Ports!Following, Ports!Word
    <2> DEFINE c == On(k)
    <2>2. c \in 0..PortsMax
      BY <1>7
    <2>3. c % (PortsMax + 1) = c
      <3> HIDE DEF c
      <3> QED BY <1>1, <2>2
    <2> HIDE DEF On
    <2> QED BY <1>6, <2>1, <2>3
  <1>9. k \in DOMAIN Ports!Following
    BY <1>1 DEF Ports!Following
  <1> QED BY <1>8, <1>9

\* The guesses around the port that was found are ports, apart from each other.
LEMMA AroundTyped ==
  ASSUME s7.port \in 0..PortsMax
  PROVE  /\ Ports!Around \in Seq(0..PortsMax)
         /\ Ports!Range(Ports!Around) \subseteq 1..PortsMax
         /\ Ports!Cardinality(Ports!Range(Ports!Around)) = PortsGuesses
PROOF
  <1> DEFINE f == Ports!Around
             p == s7.port
             G == PortsGuesses
             M == PortsMax
             W == PortsKnown
             D == PortsDynamic
             By(i) == IF i % 2 = 0 THEN i \div 2 ELSE -(i \div 2)
             At(q) == IF q > M THEN D + (q - M - 1) ELSE IF q < W THEN M - (W - q) ELSE q
  <1>1. /\ p \in Nat /\ p <= M /\ G \in Nat /\ M \in Nat /\ W \in Nat /\ D \in Nat
        /\ 0 < W /\ W < D /\ D < M /\ G <= M - D
    BY PortsConstants
  <1>2. f = [i \in 1..G |-> At(p + By(i))]
    BY DEF Ports!Around
  <1>3. ASSUME NEW i \in 1..G
        PROVE  By(i) \in Int /\ 2 * By(i) <= G /\ -(2 * By(i)) <= G - 1
    <2>1. i \in Nat /\ 1 <= i /\ i <= G
      BY <1>1
    <2> DEFINE h == i \div 2
    <2>2. h \in Int /\ (i = 2 * h \/ i = 2 * h + 1) /\ i % 2 = i - 2 * h
      BY <2>1
    <2>3. By(i) = IF i % 2 = 0 THEN h ELSE -h
      OBVIOUS
    <2> DEFINE b == By(i)
    <2>4. b = IF i = 2 * h THEN h ELSE -h
      BY <2>1, <2>2, <2>3
    <2> HIDE DEF h, By, G, b
    <2>5. b \in Int /\ 2 * b <= G /\ -(2 * b) <= G - 1
      BY <1>1, <2>1, <2>2, <2>4
    <2> QED BY <2>5 DEF b
  <1>4. ASSUME NEW i \in 1..G, NEW j \in 1..G, By(i) = By(j)
        PROVE  i = j
    <2>1. i \in Nat /\ j \in Nat /\ 1 <= i /\ 1 <= j
      BY <1>1
    <2> DEFINE h == i \div 2
               k == j \div 2
    <2>2. h \in Int /\ (i = 2 * h \/ i = 2 * h + 1) /\ i % 2 = i - 2 * h
      BY <2>1
    <2>3. k \in Int /\ (j = 2 * k \/ j = 2 * k + 1) /\ j % 2 = j - 2 * k
      BY <2>1
    <2>4. (IF i % 2 = 0 THEN h ELSE -h) = (IF j % 2 = 0 THEN k ELSE -k)
      BY <1>4
    <2>5. (IF i = 2 * h THEN h ELSE -h) = (IF j = 2 * k THEN k ELSE -k)
      BY <2>1, <2>2, <2>3, <2>4
    <2> HIDE DEF h, k, By, G
    <2> QED BY <2>1, <2>2, <2>3, <2>5
  <1>5. \A x, y \in Int :
          2 * x <= G /\ -(2 * x) <= G - 1 /\ 2 * y <= G /\ -(2 * y) <= G - 1 /\ At(p + x) = At(p + y)
            => x = y
    <2>1. SUFFICES ASSUME NEW x \in Int, NEW y \in Int,
                          2 * x <= G, -(2 * x) <= G - 1, 2 * y <= G, -(2 * y) <= G - 1,
                          At(p + x) = At(p + y)
                   PROVE  x = y
      OBVIOUS
    <2>2. x - y <= G - 1 /\ y - x <= G - 1
      <3> HIDE DEF G, At
      <3> QED BY <1>1, <2>1
    <2> DEFINE q == p + x
               r == p + y
    <2>3. q \in Int /\ r \in Int /\ q - r = x - y
      BY <1>1
    <2>4. (IF q > M THEN D + (q - M - 1) ELSE IF q < W THEN M - (W - q) ELSE q)
          = (IF r > M THEN D + (r - M - 1) ELSE IF r < W THEN M - (W - r) ELSE r)
      BY <2>1
    <2> HIDE DEF q, r, At, G, M, W, D, p
    <2>5. q = r
      BY <1>1, <2>2, <2>3, <2>4
    <2> QED BY <2>3, <2>5
  <1>6. \A x \in Int : 2 * x <= G /\ -(2 * x) <= G - 1 => At(p + x) \in 1..M
    <2>1. SUFFICES ASSUME NEW x \in Int, 2 * x <= G, -(2 * x) <= G - 1
                   PROVE  At(p + x) \in 1..M
      OBVIOUS
    <2> DEFINE q == p + x
               a == At(q)
    <2>2. q \in Int /\ q <= M + x /\ q >= x
      BY <1>1
    <2>3. a = IF q > M THEN D + (q - M - 1) ELSE IF q < W THEN M - (W - q) ELSE q
      OBVIOUS
    <2> HIDE DEF q, a, At, G, M, W, D, p
    <2>4. a \in 1..M
      BY <1>1, <2>1, <2>2, <2>3
    <2> QED BY <2>4 DEF a, q
  <1>7. \A i \in 1..G : f[i] = At(p + By(i))
    BY <1>2
  <1>8. DOMAIN f = 1..G
    BY <1>2
  <1> HIDE DEF At, By, f
  <1>9. \A i \in 1..G : f[i] \in 1..M
    BY <1>3, <1>6, <1>7
  <1>10. \A i, j \in 1..G : f[i] = f[j] => i = j
    <2>1. SUFFICES ASSUME NEW i \in 1..G, NEW j \in 1..G, f[i] = f[j]
                   PROVE  i = j
      OBVIOUS
    <2>2. At(p + By(i)) = At(p + By(j))
      BY <1>7, <2>1
    <2>3. By(i) = By(j)
      BY <1>3, <1>5, <2>2
    <2> QED BY <1>4, <2>3
  <1>11. f \in [1..G -> 1..M]
    BY <1>2, <1>8, <1>9
  <1>12. f \in Seq(0..M)
    <2>1. \A i \in 1..G : f[i] \in 0..M
      BY <1>1, <1>9
    <2>2. f \in [1..G -> 0..M]
      BY <1>11, <2>1
    <2> QED BY <1>1, <2>2
  <1>13. Ports!Range(f) \subseteq 1..M
    BY <1>8, <1>9 DEF Ports!Range
  <1>14. Cardinality(Ports!Range(f)) = G
    <2> DEFINE R == Ports!Range(f)
    <2>1. \A x \in R : \E i \in 1..G : f[i] = x
      BY <1>8 DEF Ports!Range
    <2>2. \A i \in 1..G : f[i] \in R
      BY <1>8 DEF Ports!Range
    <2> HIDE DEF R
    <2>3. f \in [1..G -> R]
      BY <1>11, <2>2
    <2>4. f \in Bijection(1..G, R)
      BY <1>10, <2>1, <2>3, Fun_IsBij
    <2>5. IsFiniteSet(1..G) /\ Cardinality(1..G) = G
      <3>1. 1 \in Int /\ G \in Int
        BY <1>1
      <3>2. Cardinality(1..G) = IF 1 > G THEN 0 ELSE G - 1 + 1
        BY <3>1, FS_Interval
      <3>3. IsFiniteSet(1..G)
        BY <3>1, FS_Interval
      <3> QED BY <1>1, <3>2, <3>3
    <2>6. ExistsBijection(1..G, R)
      BY <2>4 DEF ExistsBijection
    <2>7. Cardinality(R) = Cardinality(1..G)
      BY <2>5, <2>6, FS_Bijection
    <2> QED BY <2>5, <2>7 DEF R
  <1>15. \A R : Ports!Cardinality(R) = Cardinality(R)
    BY DEF Ports!Cardinality, Cardinality
  <1> QED BY <1>12, <1>13, <1>14, <1>15 DEF f

\* A step that may be found, and the answers it is found from.
StepFound(f) ==
  f \in [inc : Int, random : BOOLEAN] /\ f.inc > -Turn /\ (f.random => f.inc # 0)
NatAnswers == Seq([addr : 1..PortsAddresses, port : NatPorts])

\* Such is what one way to compute it makes of less than a turn back.
LEMMA SureFound ==
  ASSUME NEW x \in Int, x > -Turn
  PROVE  StepFound(Ports!Sure(x))
PROOF
  <1>1. Ports!Sure(x) = [inc |-> x, random |-> FALSE]
    BY DEF Ports!Sure
  <1> QED BY <1>1 DEF StepFound

\* So is what two ways make of it.
LEMMA AgreeFound ==
  ASSUME NEW a \in Int, NEW b \in Int, a > -Turn, b > -Turn
  PROVE  StepFound(Ports!Agree(a, b))
PROOF
  <1>1. CASE a = b
    <2>1. Ports!Agree(a, b) = Ports!Sure(a)
      BY <1>1 DEF Ports!Agree
    <2> QED BY <2>1, SureFound
  <1>2. CASE a # b
    <2> DEFINE c == IF a = 0 THEN b ELSE a
    <2>1. c \in Int /\ c > -Turn /\ c # 0
      BY <1>2
    <2>2. Ports!Agree(a, b) = [inc |-> c, random |-> TRUE]
      BY <1>2 DEF Ports!Agree
    <2> HIDE DEF c
    <2> QED BY <2>1, <2>2 DEF StepFound
  <1> QED BY <1>1, <1>2

\* Division takes it nearer to zero.
LEMMA DivFound ==
  ASSUME NEW x \in Int, x > -Turn, NEW n \in {2, 4}
  PROVE  Ports!Div(x, n) \in Int /\ Ports!Div(x, n) > -Turn
PROOF
  <1>1. Turn \in Nat /\ Turn > 0
    BY PortsConstants DEF Turn
  <1>2. CASE x < 0
    <2>1. Ports!Div(x, n) = -((-x) \div n)
      BY <1>2 DEF Ports!Div
    <2> DEFINE d == (-x) \div n
    <2>2. d \in Int /\ d <= -x
      BY <1>2
    <2> HIDE DEF d
    <2>3. -d \in Int /\ -d > -Turn
      BY <1>1, <2>2
    <2> QED BY <2>1, <2>3 DEF d
  <1>3. CASE ~(x < 0)
    <2>1. Ports!Div(x, n) = x \div n
      BY <1>3 DEF Ports!Div
    <2> DEFINE d == x \div n
    <2>2. d \in Int /\ d >= 0
      BY <1>3
    <2> HIDE DEF d
    <2>3. d > -Turn
      BY <1>1, <2>2
    <2> QED BY <2>1, <2>2, <2>3 DEF d
  <1> QED BY <1>2, <1>3

\* The ports of the answers, and by how much they rise.
LEMMA RiseFound ==
  ASSUME s3 \in NatAnswers, NEW i \in DOMAIN s3, NEW j \in DOMAIN s3
  PROVE  /\ Ports!P(i) \in NatPorts /\ Ports!P(j) \in NatPorts
         /\ Ports!Rise(i, j) = Ports!P(j) - Ports!P(i)
         /\ Ports!Rise(i, j) \in Int /\ Ports!Rise(i, j) > -Turn /\ Ports!Rise(i, j) < Turn
PROOF
  <1>1. s3[i] \in [addr : 1..PortsAddresses, port : NatPorts]
        /\ s3[j] \in [addr : 1..PortsAddresses, port : NatPorts]
    <2> DEFINE S == [addr : 1..PortsAddresses, port : NatPorts]
    <2>1. s3 \in Seq(S)
      BY DEF NatAnswers
    <2> HIDE DEF S
    <2>2. s3[i] \in S /\ s3[j] \in S
      BY <2>1
    <2> QED BY <2>2 DEF S
  <1>2. Ports!P(i) \in NatPorts /\ Ports!P(j) \in NatPorts
    BY <1>1 DEF Ports!P
  <1>3. Ports!Rise(i, j) = Ports!P(j) - Ports!P(i)
    BY DEF Ports!Rise
  <1> DEFINE p == Ports!P(i)
             q == Ports!P(j)
  <1>4. p \in NatPorts /\ q \in NatPorts
    BY <1>2
  <1> HIDE DEF p, q
  <1>5. q - p \in Int /\ q - p > -Turn /\ q - p < Turn
    BY <1>4, PortsConstants DEF Turn, NatPorts
  <1> QED BY <1>2, <1>3, <1>5 DEF p, q

\* From four answers of one address no more than a whole turn is found.
LEMMA AllFound ==
  ASSUME s3 \in NatAnswers, Len(s3) = 4
  PROVE  StepFound(Ports!FoundAll)
PROOF
  <1> DEFINE W == PortsMax + 1
             i == [k \in 1..3 |-> Ports!Rise(k, k + 1) % W]
  <1>1. W \in Nat /\ W > 0 /\ Turn \in Nat /\ Turn > 0
    BY PortsConstants DEF Turn
  <1>2. DOMAIN s3 = 1..4
    BY DEF NatAnswers
  <1>3. \A k \in 1..3 : i[k] \in Nat
    <2>1. SUFFICES ASSUME NEW k \in 1..3 PROVE i[k] \in Nat
      OBVIOUS
    <2>2. k \in DOMAIN s3 /\ k + 1 \in DOMAIN s3
      BY <1>2
    <2> DEFINE r == Ports!Rise(k, k + 1)
    <2>3. r \in Int
      BY <2>2, RiseFound
    <2>4. i[k] = r % W
      OBVIOUS
    <2> HIDE DEF r, i, W
    <2> QED BY <1>1, <2>3, <2>4
  <1>4. i[1] \in Nat /\ i[2] \in Nat /\ i[3] \in Nat
    <2> HIDE DEF i
    <2> QED BY <1>3
  <1>5. Ports!FoundAll = IF i[1] \in {i[2], i[3]} THEN Ports!Sure(i[1])
                         ELSE IF i[2] = i[3] THEN Ports!Sure(i[2])
                         ELSE [inc |-> IF i[1] # 0 THEN i[1] ELSE i[2], random |-> TRUE]
    BY DEF Ports!FoundAll, Ports!Word
  <1> HIDE DEF i
  <1>6. \A x \in Nat : x > -Turn
    BY <1>1
  <1>7. CASE i[1] \in {i[2], i[3]}
    BY <1>4, <1>5, <1>6, <1>7, SureFound
  <1>8. CASE i[1] \notin {i[2], i[3]} /\ i[2] = i[3]
    BY <1>4, <1>5, <1>6, <1>8, SureFound
  <1>9. CASE i[1] \notin {i[2], i[3]} /\ i[2] # i[3]
    <2> DEFINE c == IF i[1] # 0 THEN i[1] ELSE i[2]
    <2>1. c \in Nat /\ c # 0
      BY <1>4, <1>9
    <2>2. Ports!FoundAll = [inc |-> c, random |-> TRUE]
      BY <1>5, <1>9
    <2>3. c > -Turn /\ c \in Int
      BY <1>6, <2>1
    <2> HIDE DEF c
    <2> QED BY <2>1, <2>2, <2>3 DEF StepFound
  <1> QED BY <1>7, <1>8, <1>9

\* However many answers there are.
LEMMA AnyFound ==
  ASSUME s3 \in NatAnswers
  PROVE  /\ Len(s3) = 1 => StepFound(Ports!Found1)
         /\ Len(s3) = 2 => StepFound(Ports!Found2)
         /\ Len(s3) = 3 => StepFound(Ports!Found3)
         /\ Len(s3) = 4 => StepFound(Ports!Found4)
PROOF
  <1> DEFINE R(i, j) == Ports!Rise(i, j)
             Back(x) == x \in Int /\ x > -Turn
  <1>1. Turn \in Nat /\ Turn > 0 /\ Back(0)
    BY PortsConstants DEF Turn
  <1>2. DOMAIN s3 = 1..Len(s3)
    BY DEF NatAnswers
  <1>3. \A i, j \in 1..Len(s3) : Back(R(i, j))
    BY <1>2, RiseFound
  <1>4. \A x : Back(x) => StepFound(Ports!Sure(x))
    BY SureFound
  <1>5. \A a, b : Back(a) /\ Back(b) => StepFound(Ports!Agree(a, b))
    BY AgreeFound
  <1>6. \A x : Back(x) => Back(Ports!Div(x, 2)) /\ Back(Ports!Div(x, 4))
    <2>1. 2 \in {2, 4} /\ 4 \in {2, 4}
      OBVIOUS
    <2> QED BY <2>1, DivFound
  <1> HIDE DEF Back
  <1>7. Len(s3) = 1 => StepFound(Ports!Found1)
    BY <1>1, <1>4 DEF Ports!Found1
  <1>8. Len(s3) = 2 => StepFound(Ports!Found2)
    <2>1. Len(s3) = 2 => Back(R(1, 2))
      BY <1>3
    <2> QED BY <1>1, <1>4, <2>1 DEF Ports!Found2
  <1>9. Len(s3) = 3 => StepFound(Ports!Found3)
    <2>1. Len(s3) = 3 => Back(R(1, 2)) /\ Back(R(2, 3)) /\ Back(R(1, 3))
      BY <1>3
    <2> QED BY <1>1, <1>4, <1>5, <1>6, <2>1 DEF Ports!Found3
  <1>10. Len(s3) = 4 => StepFound(Ports!Found4)
    <2>1. SUFFICES ASSUME Len(s3) = 4 PROVE StepFound(Ports!Found4)
      OBVIOUS
    <2>2. /\ Back(R(1, 2)) /\ Back(R(2, 3)) /\ Back(R(3, 4)) /\ Back(R(1, 3)) /\ Back(R(2, 4))
          /\ Back(R(1, 4)) /\ Back(R(4, 3))
      BY <1>3, <2>1
    <2>3. StepFound(Ports!FoundAll)
      BY <2>1, AllFound
    <2>4. StepFound(Ports!FoundFirst)
      <3>1. CASE Ports!Same(1, 4) /\ Ports!Same(1, 3)
        <4>1. Ports!FoundFirst = Ports!Agree(R(3, 4), Ports!Div(R(1, 3), 2))
          BY <3>1 DEF Ports!FoundFirst
        <4> QED BY <1>5, <1>6, <2>2, <4>1
      <3>2. CASE Ports!Same(1, 4) /\ ~Ports!Same(1, 3)
        <4>1. Ports!FoundFirst = Ports!Sure(Ports!Div(R(1, 4), 4))
          BY <3>2 DEF Ports!FoundFirst
        <4> QED BY <1>4, <1>6, <2>2, <4>1
      <3>3. CASE ~Ports!Same(1, 4)
        <4>1. Ports!FoundFirst = Ports!Sure(Ports!Div(R(1, 3), 2))
          BY <3>3 DEF Ports!FoundFirst
        <4> QED BY <1>4, <1>6, <2>2, <4>1
      <3> QED BY <3>1, <3>2, <3>3
    <2>5. StepFound(Ports!FoundSecond)
      <3>1. CASE Ports!Same(2, 4) /\ Ports!Same(2, 3)
        <4>1. Ports!FoundSecond = Ports!Agree(R(3, 4), R(2, 3))
          BY <3>1 DEF Ports!FoundSecond
        <4> QED BY <1>5, <2>2, <4>1
      <3>2. CASE Ports!Same(2, 4) /\ ~Ports!Same(2, 3)
        <4>1. Ports!FoundSecond = Ports!Sure(Ports!Div(R(1, 4), 4))
          BY <3>2 DEF Ports!FoundSecond
        <4> QED BY <1>4, <1>6, <2>2, <4>1
      <3>3. CASE ~Ports!Same(2, 4) /\ Ports!Same(2, 3)
        <4>1. Ports!FoundSecond = Ports!Sure(Ports!Div(R(1, 3), 2))
          BY <3>3 DEF Ports!FoundSecond
        <4> QED BY <1>4, <1>6, <2>2, <4>1
      <3>4. CASE ~Ports!Same(2, 4) /\ ~Ports!Same(2, 3)
        <4>1. Ports!FoundSecond = Ports!Sure(IF Ports!Same(3, 4) THEN R(4, 3) ELSE 0)
          BY <3>4 DEF Ports!FoundSecond
        <4> QED BY <1>1, <1>4, <2>2, <4>1
      <3> QED BY <3>1, <3>2, <3>3, <3>4
    <2> HIDE DEF R
    <2>6. Ports!Found4 =
            IF Ports!Same(1, 2)
            THEN IF ~Ports!Same(2, 3)
                 THEN IF Ports!Same(2, 4) THEN Ports!Agree(R(1, 2), Ports!Div(R(2, 4), 2))
                      ELSE Ports!Sure(R(1, 2))
                 ELSE IF Ports!Same(3, 4) THEN Ports!FoundAll ELSE Ports!Agree(R(1, 2), R(2, 3))
            ELSE IF Ports!Same(1, 3) \/ Ports!Same(1, 4) THEN Ports!FoundFirst ELSE Ports!FoundSecond
      BY DEF Ports!Found4, R
    <2> QED BY <1>4, <1>5, <1>6, <2>2, <2>3, <2>4, <2>5, <2>6
  <1> QED BY <1>7, <1>8, <1>9, <1>10

\* From answers that rise by the same, and tell it, that step is found.
LEMMA SteadyFound ==
  ASSUME s3 \in NatAnswers, NEW r \in Nat, r < Turn,
         \A i \in 1..Len(s3) - 1 : Ports!Rise(i, i + 1) = r, r = 0 \/ Ports!Telling
  PROVE  /\ Len(s3) = 1 => Ports!Found1 = Ports!Sure(r)
         /\ Len(s3) = 2 => Ports!Found2 = Ports!Sure(r)
         /\ Len(s3) = 3 => Ports!Found3 = Ports!Sure(r)
         /\ Len(s3) = 4 => Ports!Found4 = Ports!Sure(r)
PROOF
  <1> DEFINE R(i, j) == Ports!Rise(i, j)
  <1>1. DOMAIN s3 = 1..Len(s3)
    BY DEF NatAnswers
  <1>2. \A i, j, k \in 1..Len(s3) : R(i, k) = R(i, j) + R(j, k) /\ R(i, j) = -R(j, i)
    <2>1. SUFFICES ASSUME NEW i \in 1..Len(s3), NEW j \in 1..Len(s3), NEW k \in 1..Len(s3)
                   PROVE  R(i, k) = R(i, j) + R(j, k) /\ R(i, j) = -R(j, i)
      OBVIOUS
    <2> DEFINE a == Ports!P(i)
               b == Ports!P(j)
               c == Ports!P(k)
    <2>2. a \in Int /\ b \in Int /\ c \in Int
      <3>1. a \in NatPorts /\ b \in NatPorts /\ c \in NatPorts
        BY <1>1, RiseFound
      <3> HIDE DEF a, b, c
      <3> QED BY <3>1, PortsConstants DEF NatPorts
    <2>3. R(i, k) = c - a /\ R(i, j) = b - a /\ R(j, k) = c - b /\ R(j, i) = a - b
      BY DEF Ports!Rise
    <2> HIDE DEF a, b, c, R
    <2> QED BY <2>2, <2>3
  <1>3. Ports!Div(2 * r, 2) = r /\ Ports!Agree(r, r) = Ports!Sure(r)
    <2>1. Ports!Div(2 * r, 2) = r
      BY DEF Ports!Div
    <2> QED BY <2>1 DEF Ports!Agree
  <1>4. \A n \in {2, 4} : Ports!Div(0, n) = 0
    BY DEF Ports!Div
  <1>5. Len(s3) = 1 => Ports!Found1 = Ports!Sure(r)
    <2>1. Len(s3) = 1 => r = 0
      BY DEF Ports!Telling
    <2> QED BY <2>1 DEF Ports!Found1
  <1>6. Len(s3) = 2 => Ports!Found2 = Ports!Sure(r)
    <2>1. SUFFICES ASSUME Len(s3) = 2 PROVE Ports!Found2 = Ports!Sure(r)
      OBVIOUS
    <2>2. Ports!Rise(1, 2) = r
      BY <2>1
    <2>3. r = 0 \/ Ports!Same(1, 2)
      BY <2>1 DEF Ports!Telling
    <2> QED BY <2>2, <2>3 DEF Ports!Found2
  <1>7. Len(s3) = 3 => Ports!Found3 = Ports!Sure(r)
    <2>1. SUFFICES ASSUME Len(s3) = 3 PROVE Ports!Found3 = Ports!Sure(r)
      OBVIOUS
    <2>2. R(1, 2) = r /\ R(2, 3) = r
      BY <2>1
    <2>3. R(1, 3) = 2 * r
      <3>1. R(1, 3) = R(1, 2) + R(2, 3)
        BY <1>2, <2>1
      <3> HIDE DEF R
      <3> QED BY <2>2, <3>1
    <2>4. r = 0 \/ Ports!Same(1, 2) \/ Ports!Same(1, 3) \/ Ports!Same(2, 3)
      BY <2>1 DEF Ports!Telling
    <2>5. Ports!Found3 =
            IF Ports!Same(1, 2)
            THEN IF Ports!Same(1, 3) THEN Ports!Agree(R(1, 2), R(2, 3)) ELSE Ports!Sure(R(1, 2))
            ELSE IF Ports!Same(1, 3) THEN Ports!Sure(Ports!Div(R(1, 3), 2))
            ELSE IF Ports!Same(2, 3) THEN Ports!Sure(R(2, 3)) ELSE Ports!Sure(0)
      BY DEF Ports!Found3
    <2> HIDE DEF R
    <2> QED BY <1>3, <2>2, <2>3, <2>4, <2>5
  <1>8. Len(s3) = 4 => Ports!Found4 = Ports!Sure(r)
    <2>1. SUFFICES ASSUME Len(s3) = 4 PROVE Ports!Found4 = Ports!Sure(r)
      OBVIOUS
    <2>2. R(1, 2) = r /\ R(2, 3) = r /\ R(3, 4) = r
      BY <2>1
    <2>3. R(1, 3) = 2 * r /\ R(2, 4) = 2 * r /\ (r = 0 => R(1, 4) = 0 /\ R(4, 3) = 0)
      <3>1. /\ R(1, 3) = R(1, 2) + R(2, 3) /\ R(2, 4) = R(2, 3) + R(3, 4)
            /\ R(1, 4) = R(1, 3) + R(3, 4) /\ R(4, 3) = -R(3, 4)
        BY <1>2, <2>1
      <3> HIDE DEF R
      <3> QED BY <2>2, <3>1
    <2>4. r = 0 \/ Ports!Same(1, 2) \/ Ports!Same(1, 3) \/ (Ports!Same(2, 3) /\ ~Ports!Same(1, 4))
      BY <2>1 DEF Ports!Telling
    <2>5. Ports!FoundAll = Ports!Sure(r)
      <3> DEFINE i == [k \in 1..3 |-> R(k, k + 1) % (PortsMax + 1)]
      <3>1. r % (PortsMax + 1) = r
        BY PortsConstants DEF Turn
      <3>2. i[1] = r /\ i[2] = r
        <4>1. i[1] = R(1, 2) % (PortsMax + 1) /\ i[2] = R(2, 3) % (PortsMax + 1)
          OBVIOUS
        <4> HIDE DEF i, R
        <4> QED BY <2>2, <3>1, <4>1
      <3>3. Ports!FoundAll = IF i[1] \in {i[2], i[3]} THEN Ports!Sure(i[1])
                             ELSE IF i[2] = i[3] THEN Ports!Sure(i[2])
                             ELSE [inc |-> IF i[1] # 0 THEN i[1] ELSE i[2], random |-> TRUE]
        BY DEF Ports!FoundAll, Ports!Word
      <3> HIDE DEF i
      <3> QED BY <3>2, <3>3
    <2>6. Ports!Same(1, 3) \/ (Ports!Same(1, 4) /\ r = 0) => Ports!FoundFirst = Ports!Sure(r)
      <3>1. CASE Ports!Same(1, 4) /\ Ports!Same(1, 3)
        <4>1. Ports!FoundFirst = Ports!Agree(R(3, 4), Ports!Div(R(1, 3), 2))
          BY <3>1 DEF Ports!FoundFirst
        <4> HIDE DEF R
        <4> QED BY <1>3, <2>2, <2>3, <4>1
      <3>2. CASE Ports!Same(1, 4) /\ ~Ports!Same(1, 3) /\ r = 0
        <4>1. Ports!FoundFirst = Ports!Sure(Ports!Div(R(1, 4), 4))
          BY <3>2 DEF Ports!FoundFirst
        <4> HIDE DEF R
        <4> QED BY <1>4, <2>3, <3>2, <4>1
      <3>3. CASE ~Ports!Same(1, 4) /\ Ports!Same(1, 3)
        <4>1. Ports!FoundFirst = Ports!Sure(Ports!Div(R(1, 3), 2))
          BY <3>3 DEF Ports!FoundFirst
        <4> HIDE DEF R
        <4> QED BY <1>3, <2>3, <4>1
      <3> QED BY <3>1, <3>2, <3>3
    <2>7. Ports!Same(2, 3) \/ r = 0 => Ports!FoundSecond = Ports!Sure(r)
      <3>1. CASE Ports!Same(2, 4) /\ Ports!Same(2, 3)
        <4>1. Ports!FoundSecond = Ports!Agree(R(3, 4), R(2, 3))
          BY <3>1 DEF Ports!FoundSecond
        <4> HIDE DEF R
        <4> QED BY <1>3, <2>2, <4>1
      <3>2. CASE Ports!Same(2, 4) /\ ~Ports!Same(2, 3) /\ r = 0
        <4>1. Ports!FoundSecond = Ports!Sure(Ports!Div(R(1, 4), 4))
          BY <3>2 DEF Ports!FoundSecond
        <4> HIDE DEF R
        <4> QED BY <1>4, <2>3, <3>2, <4>1
      <3>3. CASE ~Ports!Same(2, 4) /\ Ports!Same(2, 3)
        <4>1. Ports!FoundSecond = Ports!Sure(Ports!Div(R(1, 3), 2))
          BY <3>3 DEF Ports!FoundSecond
        <4> HIDE DEF R
        <4> QED BY <1>3, <2>3, <4>1
      <3>4. CASE ~Ports!Same(2, 4) /\ ~Ports!Same(2, 3) /\ r = 0
        <4>1. Ports!FoundSecond = Ports!Sure(IF Ports!Same(3, 4) THEN R(4, 3) ELSE 0)
          BY <3>4 DEF Ports!FoundSecond
        <4> HIDE DEF R
        <4> QED BY <2>3, <3>4, <4>1
      <3> QED BY <3>1, <3>2, <3>3, <3>4
    <2>8. Ports!Found4 =
            IF Ports!Same(1, 2)
            THEN IF ~Ports!Same(2, 3)
                 THEN IF Ports!Same(2, 4) THEN Ports!Agree(R(1, 2), Ports!Div(R(2, 4), 2))
                      ELSE Ports!Sure(R(1, 2))
                 ELSE IF Ports!Same(3, 4) THEN Ports!FoundAll ELSE Ports!Agree(R(1, 2), R(2, 3))
            ELSE IF Ports!Same(1, 3) \/ Ports!Same(1, 4) THEN Ports!FoundFirst ELSE Ports!FoundSecond
      BY DEF Ports!Found4
    <2>9. CASE Ports!Same(1, 2)
      <3>1. Ports!Agree(R(1, 2), Ports!Div(R(2, 4), 2)) = Ports!Sure(r)
            /\ Ports!Agree(R(1, 2), R(2, 3)) = Ports!Sure(r) /\ Ports!Sure(R(1, 2)) = Ports!Sure(r)
        <4> HIDE DEF R
        <4> QED BY <1>3, <2>2, <2>3
      <3> HIDE DEF R
      <3> QED BY <2>5, <2>8, <2>9, <3>1
    <2>10. CASE ~Ports!Same(1, 2)
      <3>1. Ports!Found4 = IF Ports!Same(1, 3) \/ Ports!Same(1, 4) THEN Ports!FoundFirst ELSE Ports!FoundSecond
        <4> HIDE DEF R
        <4> QED BY <2>8, <2>10
      <3>2. CASE Ports!Same(1, 3)
        BY <2>6, <3>1, <3>2
      <3>3. CASE ~Ports!Same(1, 3) /\ Ports!Same(1, 4)
        <4>1. r = 0
          BY <2>4, <2>10, <3>3
        <4> QED BY <2>6, <3>1, <3>3, <4>1
      <3>4. CASE ~Ports!Same(1, 3) /\ ~Ports!Same(1, 4)
        BY <2>4, <2>7, <2>10, <3>1, <3>4
      <3> QED BY <3>2, <3>3, <3>4
    <2> QED BY <2>9, <2>10
  <1> QED BY <1>5, <1>6, <1>7, <1>8

\* From four answers of one address also when one of them does not.
LEMMA OneAddressFound ==
  ASSUME s3 \in NatAnswers, Len(s3) = 4, NEW r \in Nat, r < Turn, NEW j,
         \A i \in 1..3 : i # j => Ports!Rise(i, i + 1) = r, Ports!OneAddress
  PROVE  Ports!Found4 = Ports!Sure(r)
PROOF
  <1>1. DOMAIN s3 = 1..4
    BY DEF NatAnswers
  <1>2. Ports!Same(1, 2) /\ Ports!Same(2, 3) /\ Ports!Same(3, 4)
    <2>1. Ports!Same(1, 2) /\ Ports!Same(1, 3) /\ Ports!Same(1, 4)
      BY <1>1 DEF Ports!OneAddress
    <2> QED BY <2>1 DEF Ports!Same
  <1>3. Ports!Found4 = Ports!FoundAll
    BY <1>2 DEF Ports!Found4
  <1> DEFINE i == [k \in 1..3 |-> Ports!Rise(k, k + 1) % (PortsMax + 1)]
  <1>4. r % (PortsMax + 1) = r
    BY PortsConstants DEF Turn
  <1>5. \A k \in 1..3 : k # j => i[k] = r
    BY <1>4
  <1>6. Ports!FoundAll = IF i[1] \in {i[2], i[3]} THEN Ports!Sure(i[1])
                         ELSE IF i[2] = i[3] THEN Ports!Sure(i[2])
                         ELSE [inc |-> IF i[1] # 0 THEN i[1] ELSE i[2], random |-> TRUE]
    BY DEF Ports!FoundAll, Ports!Word
  <1> HIDE DEF i
  <1>7. (j # 1 => i[1] = r) /\ (j # 2 => i[2] = r) /\ (j # 3 => i[3] = r)
    BY <1>5
  <1>8. (i[1] = r /\ i[2] = r) \/ (i[1] = r /\ i[3] = r) \/ (i[2] = r /\ i[3] = r)
    <2>1. (j # 1 /\ j # 2) \/ (j # 1 /\ j # 3) \/ (j # 2 /\ j # 3)
      OBVIOUS
    <2> QED BY <1>7, <2>1
  <1> QED BY <1>3, <1>6, <1>8

\* The port a rising NAT gives after it rose by t, and what the answers, the
\* port that is next and the mappings nobody told of have to do with each other.
NatAfter(p, t) ==
  LET q == p + t IN IF q > PortsMax THEN q - (PortsMax - PortsKnown) ELSE q
Follows(st, nx, an, si, od) ==
  st \in PortsSteps /\ st >= 0 /\ Len(an) > 0 =>
    /\ nx = NatAfter(an[Len(an)].port, (si + 1) * st)
    /\ st = 0 \/ od = 0 => \A i \in 1..Len(an) - 1 : an[i + 1].port - an[i].port = st
    /\ od = 1 => \E j \in 1..Len(an) : \A i \in 1..Len(an) - 1 :
                   i # j => an[i + 1].port - an[i].port = st

\* The invariant of the answers, before and after a step.
LEMMA PortsAnswersIs ==
  /\ Ports!AnswersInv <=> (s3 = <<>> => s6 = "ask") /\ Follows(s1, s2, s3, s4, s5)
  /\ Ports!AnswersInv' <=> (s3' = <<>> => s6' = "ask") /\ Follows(s1', s2', s3', s4', s5')
PROOF
  <1>1. \A p, k : Ports!Turned(p, k) = NatAfter(p, k * s1)
    BY Zenon DEF Ports!Turned, NatAfter
  <1>2. \A p, k : Ports!Turned(p, k)' = NatAfter(p, k * s1')
    BY Zenon DEF Ports!Turned, NatAfter
  <1>3. \A i : Ports!Steady(i) <=> s3[i + 1].port - s3[i].port = s1
    BY DEF Ports!Steady, Ports!Rise, Ports!P
  <1>4. \A i : Ports!Steady(i)' <=> s3'[i + 1].port - s3'[i].port = s1'
    BY DEF Ports!Steady, Ports!Rise, Ports!P
  <1>5. Ports!AnswersInv <=> (s3 = <<>> => s6 = "ask") /\ Follows(s1, s2, s3, s4, s5)
    BY <1>1, <1>3 DEF Ports!AnswersInv, Follows, Ports!P
  <1>6. Ports!AnswersInv' <=> (s3' = <<>> => s6' = "ask") /\ Follows(s1', s2', s3', s4', s5')
    BY <1>2, <1>4 DEF Ports!AnswersInv, Follows, Ports!P
  <1> QED BY <1>5, <1>6

\* What is told is of the NAT and the answers alone.
LEMMA ToldStill ==
  ASSUME UNCHANGED <<s1, s2, s3, s4, s5>>
  PROVE  Ports!Told' <=> Ports!Told
PROOF
  <1>1. \A i, j : Ports!Same(i, j)' <=> Ports!Same(i, j)
    BY DEF Ports!Same
  <1>2. Ports!Telling' <=> Ports!Telling
    BY <1>1 DEF Ports!Telling
  <1>3. Ports!OneAddress' <=> Ports!OneAddress
    BY <1>1 DEF Ports!OneAddress
  <1>4. \A i : Ports!P(i)' = Ports!P(i)
    BY DEF Ports!P
  <1> QED BY <1>2, <1>3, <1>4 DEF Ports!Told

\* The invariant of what is found.
LEMMA PortsFoundIs ==
  /\ Ports!FoundInv <=>
       /\ s7.increment > -Turn /\ (s7.random => s7.increment # 0)
       /\ s6 # "ask" =>
            /\ s7.increment = 0 => s7.port \in NatPorts
            /\ s1 = 0 => s7.random \/ s7 = [port |-> s2, increment |-> 0, random |-> FALSE]
            /\ Ports!Told => s7 = [port |-> s3[Len(s3)].port + (4 - Len(s3)) * s1,
                                   increment |-> s1, random |-> FALSE]
  /\ Ports!FoundInv' <=>
       /\ s7'.increment > -Turn /\ (s7'.random => s7'.increment # 0)
       /\ s6' # "ask" =>
            /\ s7'.increment = 0 => s7'.port \in NatPorts
            /\ s1' = 0 => s7'.random \/ s7' = [port |-> s2', increment |-> 0, random |-> FALSE]
            /\ Ports!Told' => s7' = [port |-> s3'[Len(s3')].port + (4 - Len(s3')) * s1',
                                     increment |-> s1', random |-> FALSE]
PROOF
  <1>1. Ports!FoundInv <=>
          /\ s7.increment > -Turn /\ (s7.random => s7.increment # 0)
          /\ s6 # "ask" =>
               /\ s7.increment = 0 => s7.port \in NatPorts
               /\ s1 = 0 => s7.random \/ s7 = [port |-> s2, increment |-> 0, random |-> FALSE]
               /\ Ports!Told => s7 = [port |-> s3[Len(s3)].port + (4 - Len(s3)) * s1,
                                      increment |-> s1, random |-> FALSE]
    BY DEF Ports!FoundInv, Ports!P, Turn, NatPorts
  <1>2. Ports!FoundInv' <=>
          /\ s7'.increment > -Turn /\ (s7'.random => s7'.increment # 0)
          /\ s6' # "ask" =>
               /\ s7'.increment = 0 => s7'.port \in NatPorts
               /\ s1' = 0 => s7'.random \/ s7' = [port |-> s2', increment |-> 0, random |-> FALSE]
               /\ Ports!Told' => s7' = [port |-> s3'[Len(s3')].port + (4 - Len(s3')) * s1',
                                        increment |-> s1', random |-> FALSE]
    BY DEF Ports!FoundInv, Ports!P, Turn, NatPorts
  <1> QED BY <1>1, <1>2

\* The types of the ports.
PortsTypes(st, nx, an, si, od, ph, fo) ==
  /\ st \in PortsSteps \cup {PortsMax} /\ nx \in NatPorts
  /\ an \in NatAnswers /\ Len(an) <= 4
  /\ si \in 0..PortsUnseen /\ od \in Nat /\ ph \in {"ask", "offer", "offered"}
  /\ fo \in [port : 0..PortsMax, increment : Int, random : BOOLEAN]

\* The invariant in its parts; the last two are of what is offered.
LEMMA PortsInvIs ==
  /\ Ports!PortsInv <=> /\ PortsTypes(s1, s2, s3, s4, s5, s6, s7)
                        /\ Ports!AnswersInv /\ Ports!FoundInv
                        /\ Ports!GuessesFollowNat /\ Ports!OffersArePorts
  /\ Ports!PortsInv' <=> /\ PortsTypes(s1', s2', s3', s4', s5', s6', s7')
                         /\ Ports!AnswersInv' /\ Ports!FoundInv'
                         /\ Ports!GuessesFollowNat' /\ Ports!OffersArePorts'
  /\ s6 # "offered" => Ports!GuessesFollowNat /\ Ports!OffersArePorts
  /\ s6' # "offered" => Ports!GuessesFollowNat' /\ Ports!OffersArePorts'
PROOF
  <1>1. Ports!PortsInv <=> /\ PortsTypes(s1, s2, s3, s4, s5, s6, s7)
                           /\ Ports!AnswersInv /\ Ports!FoundInv
                           /\ Ports!GuessesFollowNat /\ Ports!OffersArePorts
    BY DEF Ports!PortsInv, PortsTypes, NatAnswers, NatPorts, Ports!Jumping
  <1>2. Ports!PortsInv' <=> /\ PortsTypes(s1', s2', s3', s4', s5', s6', s7')
                            /\ Ports!AnswersInv' /\ Ports!FoundInv'
                            /\ Ports!GuessesFollowNat' /\ Ports!OffersArePorts'
    BY DEF Ports!PortsInv, PortsTypes, NatAnswers, NatPorts, Ports!Jumping
  <1>3. s6 # "offered" => Ports!GuessesFollowNat /\ Ports!OffersArePorts
    BY DEF Ports!GuessesFollowNat, Ports!OffersArePorts
  <1>4. s6' # "offered" => Ports!GuessesFollowNat' /\ Ports!OffersArePorts'
    BY DEF Ports!GuessesFollowNat, Ports!OffersArePorts
  <1> QED BY <1>1, <1>2, <1>3, <1>4

\* The search for the ports begins as the invariant says.
LEMMA PortsInit == Ports!Init => Ports!PortsInv
PROOF
  <1>1. SUFFICES ASSUME Ports!Init PROVE Ports!PortsInv
    OBVIOUS
  <1>2. /\ s1 \in PortsSteps \cup {PortsMax} /\ s2 \in PortsStarts
        /\ s3 = <<>> /\ s4 = 0 /\ s5 = 0 /\ s6 = "ask"
        /\ s7 = [port |-> 0, increment |-> 0, random |-> FALSE]
    BY <1>1 DEF Ports!Init, Ports!Nothing, Ports!Jumping
  <1>3. s3 \in NatAnswers /\ Len(s3) = 0
    BY <1>2 DEF NatAnswers
  <1>4. Turn > 0 /\ Turn \in Nat
    BY PortsConstants DEF Turn
  <1>5. PortsTypes(s1, s2, s3, s4, s5, s6, s7)
    BY <1>2, <1>3, PortsConstants DEF PortsTypes
  <1>6. Ports!AnswersInv
    BY <1>2, <1>3, PortsAnswersIs DEF Follows
  <1>7. Ports!FoundInv
    <2>1. s7.increment > -Turn /\ s7.random = FALSE
      BY <1>2, <1>4
    <2> QED BY <1>2, <2>1, PortsFoundIs
  <1>8. s6 # "offered"
    BY <1>2
  <1> QED BY <1>5, <1>6, <1>7, <1>8, PortsInvIs

\* A NAT gives a port after another.
LEMMA NatOn ==
  ASSUME PortsTypes(s1, s2, s3, s4, s5, s6, s7), Ports!NatGives
  PROVE  /\ s2' \in NatPorts
         /\ s1 \in PortsSteps /\ s1 >= 0 => s2' = NatAfter(s2, s1)
PROOF
  <1>1. s2 \in NatPorts /\ s1 \in PortsSteps \cup {PortsMax}
    BY DEF PortsTypes
  <1>2. CASE s1 = PortsMax
    <2>1. s2' \in PortsJumps
      BY <1>2 DEF Ports!NatGives, Ports!Jumping
    <2>2. s1 \notin PortsSteps
      BY <1>2, PortsConstants
    <2> QED BY <2>1, <2>2, PortsConstants
  <1>3. CASE s1 # PortsMax
    <2>1. s1 \in PortsSteps /\ s1 \in Int /\ -s1 < Turn /\ s1 < Turn
      BY <1>1, <1>3, PortsConstants
    <2>2. s2' = IF s2 + s1 > PortsMax THEN (s2 + s1) - PortsMax + PortsKnown
                ELSE IF s2 + s1 <= PortsKnown THEN (s2 + s1) + PortsMax - PortsKnown ELSE s2 + s1
      BY <1>3 DEF Ports!NatGives, Ports!Jumping
    <2>3. PortsMax \in Nat /\ PortsKnown \in Nat /\ PortsKnown < PortsMax /\ 0 < PortsKnown
      BY PortsConstants
    <2>4. PICK x : x = s2'
      OBVIOUS
    <2>5. x \in NatPorts /\ (s1 >= 0 => x = NatAfter(s2, s1))
      BY <1>1, <2>1, <2>2, <2>3, <2>4 DEF Turn, NatPorts, NatAfter
    <2> QED BY <2>4, <2>5
  <1> QED BY <1>2, <1>3

\* How far a rising NAT gets, within a turn.
LEMMA WithinTurn ==
  ASSUME NEW st \in PortsSteps, st >= 0, NEW u \in 0..PortsUnseen + 1
  PROVE  st \in Nat /\ u * st \in Nat /\ u * st < Turn
PROOF
  <1>1. st \in Int /\ Turn \in Nat /\ Turn > 0 /\ PortsUnseen \in Nat
    BY PortsConstants DEF Turn
  <1>2. u \in Nat /\ st \in Nat
    BY <1>1
  <1>3. u * st \in Nat
    BY <1>2
  <1>4. CASE u = 0
    BY <1>1, <1>2, <1>4
  <1>5. CASE u # 0
    <2>1. u \in 1..PortsUnseen + 1
      BY <1>1, <1>5
    <2>2. u * st < Turn
      BY <2>1, PortsConstants
    <2> QED BY <1>2, <1>3, <2>2
  <1> QED BY <1>4, <1>5

\* A NAT that rises twice rises by the sum, within a turn.
LEMMA AfterAfter ==
  ASSUME NEW p \in NatPorts, NEW t \in Nat, NEW s \in Nat, t + s < Turn
  PROVE  /\ NatAfter(p, t) \in NatPorts
         /\ NatAfter(NatAfter(p, t), s) = NatAfter(p, t + s)
         /\ NatAfter(p, 0) = p
         /\ NatAfter(p, t) = IF p + t > PortsMax THEN p + t - Turn ELSE p + t
PROOF
  <1>1. p \in Nat /\ p > PortsKnown /\ p <= PortsMax
        /\ PortsMax \in Nat /\ PortsKnown \in Nat /\ Turn = PortsMax - PortsKnown
    BY PortsConstants DEF NatPorts, Turn
  <1>2. \A q \in NatPorts : \A u \in Nat :
          NatAfter(q, u) = IF q + u > PortsMax THEN q + u - Turn ELSE q + u
    BY <1>1 DEF NatAfter, NatPorts
  <1>3. PICK q : q = NatAfter(p, t)
    OBVIOUS
  <1>4. q = IF p + t > PortsMax THEN p + t - Turn ELSE p + t
    BY <1>2, <1>3
  <1>5. q \in NatPorts
    BY <1>1, <1>4 DEF NatPorts
  <1>6. NatAfter(q, s) = IF q + s > PortsMax THEN q + s - Turn ELSE q + s
    BY <1>2, <1>5
  <1>7. t + s \in Nat
    OBVIOUS
  <1>8. NatAfter(p, t + s) = IF p + (t + s) > PortsMax THEN p + (t + s) - Turn ELSE p + (t + s)
    BY <1>2, <1>7
  <1>9. NatAfter(q, s) = NatAfter(p, t + s)
    BY <1>1, <1>4, <1>6, <1>8
  <1>10. NatAfter(p, 0) = p
    BY <1>1, <1>2
  <1> QED BY <1>3, <1>4, <1>5, <1>9, <1>10

\* An answer appended to the others rises by the step, unless it came around or
\* after mappings that nobody told of.
LEMMA AnswerFollows ==
  ASSUME s2 \in NatPorts, s3 \in NatAnswers, s4 \in 0..PortsUnseen, s5 \in Nat,
         Follows(s1, s2, s3, s4, s5), NEW a, NEW nx2, NEW an2, NEW od2,
         s1 \in PortsSteps /\ s1 >= 0 => nx2 = NatAfter(s2, s1),
         an2 = Append(s3, [addr |-> a, port |-> s2]),
         od2 = IF s3 = <<>> THEN 0 ELSE s5 + s4 + (IF s2 < s3[Len(s3)].port THEN 1 ELSE 0)
  PROVE  Follows(s1, nx2, an2, 0, od2)
PROOF
  <1> DEFINE n == Len(s3)
             Up(i) == s3[i + 1].port - s3[i].port
             Up2(i) == an2[i + 1].port - an2[i].port
  <1>1. SUFFICES ASSUME s1 \in PortsSteps, s1 >= 0
                 PROVE  /\ nx2 = NatAfter(an2[Len(an2)].port, (0 + 1) * s1)
                        /\ s1 = 0 \/ od2 = 0 => \A i \in 1..Len(an2) - 1 : Up2(i) = s1
                        /\ od2 = 1 => \E j \in 1..Len(an2) : \A i \in 1..Len(an2) - 1 :
                                        i # j => Up2(i) = s1
    BY DEF Follows
  <1>2. s1 \in Nat /\ s1 < Turn /\ Turn \in Nat
    BY <1>1, PortsConstants
  <1>3. n \in Nat /\ Len(an2) = n + 1 /\ an2[n + 1] = [addr |-> a, port |-> s2]
        /\ \A i \in 1..n : an2[i] = s3[i]
    <2> DEFINE S == [addr : 1..PortsAddresses, port : NatPorts]
    <2>1. s3 \in Seq(S)
      BY DEF NatAnswers
    <2> HIDE DEF S
    <2> QED BY <2>1
  <1>4. nx2 = NatAfter(an2[Len(an2)].port, (0 + 1) * s1)
    <2>1. (0 + 1) * s1 = s1
      BY <1>2
    <2> QED BY <1>1, <1>3, <2>1
  <1>5. CASE n = 0
    <2>1. s3 = <<>>
      <3> DEFINE S == [addr : 1..PortsAddresses, port : NatPorts]
      <3>1. s3 \in Seq(S)
        BY DEF NatAnswers
      <3> HIDE DEF S
      <3> QED BY <1>5, <3>1
    <2>2. od2 = 0 /\ Len(an2) = 1
      BY <1>3, <1>5, <2>1
    <2>3. 1..Len(an2) - 1 = {}
      BY <2>2
    <2> HIDE DEF Up2
    <2> QED BY <1>4, <2>2, <2>3
  <1>6. CASE n # 0
    <2> DEFINE p == s3[n].port
               u == s4 + 1
    <2>1. s3 # <<>>
      BY <1>6
    <2>2. p \in NatPorts
      <3> DEFINE S == [addr : 1..PortsAddresses, port : NatPorts]
      <3>1. s3 \in Seq(S) /\ n \in 1..Len(s3)
        BY <1>3, <1>6 DEF NatAnswers
      <3> HIDE DEF S
      <3>2. s3[n] \in S
        BY <3>1
      <3> QED BY <3>2 DEF S
    <2>3. /\ s2 = NatAfter(p, u * s1)
          /\ (s1 = 0 \/ s5 = 0) => \A i \in 1..n - 1 : Up(i) = s1
          /\ s5 = 1 => \E j \in 1..n : \A i \in 1..n - 1 : i # j => Up(i) = s1
      <3>1. Len(s3) > 0
        BY <1>3, <1>6
      <3>2. Follows(s1, s2, s3, s4, s5)
        OBVIOUS
      <3>3. /\ s2 = NatAfter(s3[Len(s3)].port, (s4 + 1) * s1)
            /\ s1 = 0 \/ s5 = 0 => \A i \in 1..Len(s3) - 1 : s3[i + 1].port - s3[i].port = s1
            /\ s5 = 1 => \E j \in 1..Len(s3) : \A i \in 1..Len(s3) - 1 :
                           i # j => s3[i + 1].port - s3[i].port = s1
        BY Zenon, <1>1, <3>1, <3>2 DEF Follows
      <3> QED BY Zenon, <3>3
    <2>4. u \in 0..PortsUnseen + 1 /\ u \in Nat /\ u * s1 \in Nat /\ u * s1 < Turn
      <3>1. u \in 0..PortsUnseen + 1 /\ u \in Nat
        BY PortsConstants
      <3> HIDE DEF u
      <3> QED BY <1>1, <3>1, WithinTurn
    <2>5. Up2(n) = s2 - p /\ \A i \in 1..n - 1 : Up2(i) = Up(i)
      <3>1. n \in 1..n /\ \A i \in 1..n - 1 : i \in 1..n /\ i + 1 \in 1..n
        BY <1>3, <1>6
      <3> QED BY <1>3, <3>1
    <2>6. s1 = 0 => s2 = p
      <3>1. s1 = 0 => u * s1 = 0
        BY <2>4
      <3>2. NatAfter(p, 0) = p
        BY <1>2, <2>2, AfterAfter
      <3> QED BY <2>3, <3>1, <3>2
    <2>7. s4 = 0 /\ ~(s2 < p) => s2 = p + s1
      <3>1. s4 = 0 => u * s1 = s1
        BY <1>2
      <3>2. s4 = 0 => s2 = IF p + s1 > PortsMax THEN p + s1 - Turn ELSE p + s1
        <4>1. s4 = 0 => s2 = NatAfter(p, s1)
          BY <2>3, <3>1
        <4>2. 0 \in Nat /\ s1 + 0 = s1 /\ s1 + 0 < Turn
          BY <1>2
        <4> HIDE DEF p
        <4>3. NatAfter(p, s1) = IF p + s1 > PortsMax THEN p + s1 - Turn ELSE p + s1
          BY <1>2, <2>2, <4>2, AfterAfter
        <4> QED BY <4>1, <4>3
      <3> HIDE DEF p, u, n, Up, Up2
      <3> QED BY <1>2, <2>2, <3>2, PortsConstants DEF Turn, NatPorts
    <2>8. /\ od2 = 0 => s5 = 0 /\ s4 = 0 /\ ~(s2 < p)
          /\ od2 = 1 => \/ s5 = 1 /\ s4 = 0 /\ ~(s2 < p)
                        \/ s5 = 0
      <3>1. od2 = s5 + s4 + (IF s2 < p THEN 1 ELSE 0)
        BY <2>1
      <3>2. s5 \in Nat /\ s4 \in Nat
        BY PortsConstants
      <3> HIDE DEF p
      <3> QED BY <3>1, <3>2
    <2>9. s2 \in Int /\ p \in Int
      <3> HIDE DEF p
      <3> QED BY <2>2, PortsConstants DEF NatPorts
    <2>10. Len(an2) - 1 = n
      BY <1>3
    <2>11. 1..n = (1..n - 1) \cup {n} /\ n \notin 1..n - 1
      BY <1>3, <1>6
    <2>12. s2 = p + s1 => s2 - p = s1
      <3> HIDE DEF p
      <3> QED BY <1>2, <2>9
    <2>13. s1 = 0 /\ s2 = p => s2 - p = s1
      <3> HIDE DEF p
      <3> QED BY <2>9
    <2> HIDE DEF Up, Up2, p, u
    <2>14. s1 = 0 \/ od2 = 0 => \A i \in 1..n : Up2(i) = s1
      <3>1. s1 = 0 \/ od2 = 0 => \A i \in 1..n - 1 : Up2(i) = s1
        BY <2>3, <2>5, <2>8
      <3>2. s1 = 0 \/ od2 = 0 => Up2(n) = s1
        BY <2>5, <2>6, <2>7, <2>8, <2>12, <2>13
      <3> QED BY <2>11, <3>1, <3>2
    <2>15. ASSUME od2 = 1 PROVE \E j \in 1..n + 1 : \A i \in 1..n : i # j => Up2(i) = s1
      <3>1. CASE s5 = 1 /\ s4 = 0 /\ ~(s2 < p)
        <4>1. PICK j \in 1..n : \A i \in 1..n - 1 : i # j => Up(i) = s1
          BY <2>3, <3>1
        <4>2. Up2(n) = s1
          BY <2>5, <2>7, <2>12, <3>1
        <4>3. j \in 1..n + 1
          BY <1>3
        <4>4. \A i \in 1..n - 1 : i # j => Up2(i) = s1
          BY <2>5, <4>1
        <4> QED BY <2>11, <4>2, <4>3, <4>4
      <3>2. CASE s5 = 0
        <4>1. \A i \in 1..n - 1 : Up2(i) = s1
          BY <2>3, <2>5, <3>2
        <4>2. n \in 1..n + 1
          BY <1>3, <1>6
        <4> QED BY <2>11, <4>1, <4>2
      <3> QED BY <2>8, <2>15, <3>1, <3>2
    <2> QED BY <1>3, <1>4, <2>10, <2>14, <2>15 DEF Up2
  <1> QED BY <1>3, <1>5, <1>6

\* A mapping that nobody told of is one more after the last answer.
LEMMA UnseenFollows ==
  ASSUME NEW st, NEW nx, NEW an \in NatAnswers, NEW si \in Nat, si + 1 \in 0..PortsUnseen,
         NEW od, Follows(st, nx, an, si, od), NEW nx2, NEW si2, si2 = si + 1,
         st \in PortsSteps /\ st >= 0 => nx2 = NatAfter(nx, st)
  PROVE  Follows(st, nx2, an, si2, od)
PROOF
  <1>1. SUFFICES ASSUME st \in PortsSteps, st >= 0, Len(an) > 0
                 PROVE  nx2 = NatAfter(an[Len(an)].port, (si2 + 1) * st)
    BY DEF Follows
  <1> DEFINE p == an[Len(an)].port
             u == si + 1
             v == si2 + 1
  <1>2. p \in NatPorts
    <2> DEFINE S == [addr : 1..PortsAddresses, port : NatPorts]
    <2>1. an \in Seq(S)
      BY DEF NatAnswers
    <2> HIDE DEF S
    <2>2. an[Len(an)] \in S
      BY <1>1, <2>1
    <2> QED BY <2>2 DEF S
  <1>3. nx = NatAfter(p, u * st)
    <2>1. Follows(st, nx, an, si, od)
      OBVIOUS
    <2> QED BY Zenon, <1>1, <2>1 DEF Follows
  <1>4. u \in 0..PortsUnseen + 1 /\ v \in 0..PortsUnseen + 1 /\ u \in Nat /\ v = u + 1
    BY PortsConstants
  <1> HIDE DEF p, u, v
  <1>5. st \in Nat /\ u * st \in Nat /\ v * st \in Nat /\ v * st < Turn
    BY <1>1, <1>4, WithinTurn
  <1>6. v * st = u * st + st
    BY <1>4, <1>5
  <1> DEFINE t == u * st
  <1>7. t \in Nat /\ t + st < Turn /\ nx = NatAfter(p, t)
    BY <1>3, <1>5, <1>6
  <1> HIDE DEF t
  <1>8. NatAfter(nx, st) = NatAfter(p, t + st)
    BY <1>2, <1>5, <1>7, AfterAfter
  <1> QED BY <1>1, <1>6, <1>8 DEF p, t, v

\* An answer comes, or a mapping that nobody tells of.
LEMMA PortsAsk ==
  ASSUME Ports!PortsInv, (\E a \in 1..PortsAddresses : Ports!Answered(a)) \/ Ports!Unseen
  PROVE  Ports!PortsInv'
PROOF
  <1>1. /\ PortsTypes(s1, s2, s3, s4, s5, s6, s7) /\ Follows(s1, s2, s3, s4, s5)
        /\ s7.increment > -Turn /\ (s7.random => s7.increment # 0)
    BY PortsInvIs, PortsAnswersIs, PortsFoundIs
  <1>2. Ports!NatGives /\ UNCHANGED <<s1, s6, s7, s8>> /\ s6 = "ask"
    BY DEF Ports!Answered, Ports!Unseen
  <1>3. s2' \in NatPorts /\ (s1 \in PortsSteps /\ s1 >= 0 => s2' = NatAfter(s2, s1))
    BY <1>1, <1>2, NatOn
  <1>4. /\ s1 \in PortsSteps \cup {PortsMax} /\ s2 \in NatPorts
        /\ s3 \in NatAnswers /\ Len(s3) <= 4
        /\ s4 \in 0..PortsUnseen /\ s5 \in Nat
        /\ s7 \in [port : 0..PortsMax, increment : Int, random : BOOLEAN]
    BY <1>1 DEF PortsTypes
  <1>5. s3' \in NatAnswers /\ Len(s3') <= 4 /\ s4' \in 0..PortsUnseen /\ s5' \in Nat
        /\ Follows(s1, s2', s3', s4', s5')
    <2>1. CASE \E a \in 1..PortsAddresses : Ports!Answered(a)
      <3>1. PICK a \in 1..PortsAddresses : Ports!Answered(a)
        BY <2>1
      <3>2. /\ Len(s3) < 4 /\ s3' = Append(s3, [addr |-> a, port |-> s2]) /\ s4' = 0
            /\ s5' = IF s3 = <<>> THEN 0
                     ELSE s5 + s4 + (IF s2 < s3[Len(s3)].port THEN 1 ELSE 0)
        BY <3>1 DEF Ports!Answered
      <3>3. s3' \in NatAnswers /\ Len(s3') = Len(s3) + 1 /\ Len(s3) \in Nat
        <4> DEFINE S == [addr : 1..PortsAddresses, port : NatPorts]
        <4>1. s3 \in Seq(S) /\ [addr |-> a, port |-> s2] \in S
          BY <1>4 DEF NatAnswers
        <4> DEFINE e == [addr |-> a, port |-> s2]
        <4> HIDE DEF S, e
        <4>2. s3' = Append(s3, e)
          BY <3>2 DEF e
        <4>3. s3' \in Seq(S) /\ Len(s3') = Len(s3) + 1 /\ Len(s3) \in Nat
          BY <4>1, <4>2 DEF e
        <4> QED BY <4>3 DEF S, NatAnswers
      <3>4. PICK x : x = s2'
        OBVIOUS
      <3>5. PICK y : y = s3'
        OBVIOUS
      <3>6. PICK z : z = s5'
        OBVIOUS
      <3>7. Follows(s1, x, y, 0, z)
        <4>1. y = Append(s3, [addr |-> a, port |-> s2])
          BY <3>2, <3>5
        <4>2. z = IF s3 = <<>> THEN 0 ELSE s5 + s4 + (IF s2 < s3[Len(s3)].port THEN 1 ELSE 0)
          BY <3>2, <3>6
        <4>3. s1 \in PortsSteps /\ s1 >= 0 => x = NatAfter(s2, s1)
          BY <1>3, <3>4
        <4> QED BY <1>1, <1>4, <4>1, <4>2, <4>3, AnswerFollows
      <3>8. s5' \in Nat
        <4>1. s4 \in Nat
          BY <1>4, PortsConstants
        <4> QED BY <1>4, <3>2, <4>1
      <3>9. Len(s3') <= 4 /\ s4' \in 0..PortsUnseen
        BY <3>2, <3>3, PortsConstants
      <3> QED BY <3>2, <3>3, <3>4, <3>5, <3>6, <3>7, <3>8, <3>9
    <2>2. CASE Ports!Unseen
      <3>1. s5 + s4 < PortsUnseen /\ s4' = s4 + 1 /\ s3' = s3 /\ s5' = s5
        BY <2>2 DEF Ports!Unseen
      <3>2. s4 \in Nat /\ s4 + 1 \in 0..PortsUnseen
        BY <1>4, <3>1, PortsConstants
      <3>3. PICK x : x = s2'
        OBVIOUS
      <3>4. PICK y : y = s4'
        OBVIOUS
      <3>5. Follows(s1, x, s3, y, s5)
        BY <1>1, <1>3, <1>4, <3>1, <3>2, <3>3, <3>4, UnseenFollows
      <3> QED BY <1>4, <3>1, <3>2, <3>3, <3>4, <3>5
    <2> QED BY <2>1, <2>2
  <1>6. PortsTypes(s1', s2', s3', s4', s5', s6', s7')
    BY <1>2, <1>3, <1>4, <1>5 DEF PortsTypes
  <1>7. Ports!AnswersInv'
    BY <1>2, <1>5, PortsAnswersIs
  <1>8. Ports!FoundInv'
    BY <1>1, <1>2, PortsFoundIs
  <1>9. s6' # "offered"
    BY <1>2
  <1> QED BY <1>6, <1>7, <1>8, <1>9, PortsInvIs

\* What is told of a rising NAT is found.
LEMMA ToldFound ==
  ASSUME PortsTypes(s1, s2, s3, s4, s5, s6, s7), Follows(s1, s2, s3, s4, s5), Ports!Told,
         Len(s3) \in 1..4
  PROVE  /\ s1 \in Nat /\ s1 # 0
         /\ Len(s3) = 1 => Ports!Found1 = Ports!Sure(s1)
         /\ Len(s3) = 2 => Ports!Found2 = Ports!Sure(s1)
         /\ Len(s3) = 3 => Ports!Found3 = Ports!Sure(s1)
         /\ Len(s3) = 4 => Ports!Found4 = Ports!Sure(s1)
         /\ s3[Len(s3)].port + (4 - Len(s3)) * s1 \in NatPorts
         /\ s4 - 3 + Len(s3) \in 1..PortsAhead
         /\ (s4 - 3 + Len(s3)) * s1 < Turn
         /\ s2 = NatAfter(s3[Len(s3)].port + (4 - Len(s3)) * s1, (s4 - 3 + Len(s3)) * s1)
PROOF
  <1> DEFINE n == Len(s3)
             p == s3[n].port
             u == s4 + 1
             v == 4 - n
             k == s4 - 3 + n
  <1>1. /\ s1 # PortsMax /\ s1 > 0 /\ Ports!Telling /\ s4 \in v..3 - n + PortsAhead
        /\ \/ s5 = 0 /\ (n = 4 \/ s2 > p)
           \/ s5 = 1 /\ n = 4 /\ Ports!OneAddress
    BY DEF Ports!Told, Ports!Jumping, Ports!P
  <1>2. /\ s1 \in PortsSteps /\ s3 \in NatAnswers /\ s4 \in 0..PortsUnseen /\ s2 \in NatPorts
    BY <1>1 DEF PortsTypes
  <1>3. s1 \in Nat /\ s1 # 0 /\ s1 < Turn /\ s1 >= 0
    BY <1>1, <1>2, PortsConstants
  <1>4. DOMAIN s3 = 1..n /\ n \in Nat /\ n \in 1..4
    BY <1>2 DEF NatAnswers
  <1>5. p \in NatPorts
    <2>1. n \in DOMAIN s3
      BY <1>4
    <2> QED BY <1>2, <2>1, RiseFound DEF Ports!P
  <1>6. /\ s2 = NatAfter(p, u * s1)
        /\ s5 = 0 => \A i \in 1..n - 1 : s3[i + 1].port - s3[i].port = s1
        /\ s5 = 1 => \E j \in 1..n : \A i \in 1..n - 1 : i # j => s3[i + 1].port - s3[i].port = s1
    <2>1. Follows(s1, s2, s3, s4, s5) /\ Len(s3) > 0 /\ s1 >= 0
      BY <1>3, <1>4
    <2>2. /\ s2 = NatAfter(s3[Len(s3)].port, (s4 + 1) * s1)
          /\ s1 = 0 \/ s5 = 0 => \A i \in 1..Len(s3) - 1 : s3[i + 1].port - s3[i].port = s1
          /\ s5 = 1 => \E j \in 1..Len(s3) : \A i \in 1..Len(s3) - 1 :
                         i # j => s3[i + 1].port - s3[i].port = s1
      BY Zenon, <1>2, <2>1 DEF Follows
    <2> QED BY Zenon, <2>2
  <1>7. \A i : Ports!Rise(i, i + 1) = s3[i + 1].port - s3[i].port
    BY DEF Ports!Rise, Ports!P
  <1>8. /\ Len(s3) = 1 => Ports!Found1 = Ports!Sure(s1)
        /\ Len(s3) = 2 => Ports!Found2 = Ports!Sure(s1)
        /\ Len(s3) = 3 => Ports!Found3 = Ports!Sure(s1)
        /\ Len(s3) = 4 => Ports!Found4 = Ports!Sure(s1)
    <2>1. CASE s5 = 0
      <3>1. \A i \in 1..Len(s3) - 1 : Ports!Rise(i, i + 1) = s1
        BY <1>6, <1>7, <2>1
      <3> QED BY <1>1, <1>2, <1>3, <3>1, SteadyFound
    <2>2. CASE s5 = 1 /\ n = 4 /\ Ports!OneAddress
      <3>1. PICK j \in 1..n : \A i \in 1..n - 1 : i # j => s3[i + 1].port - s3[i].port = s1
        BY <1>6, <2>2
      <3>2. 1..n - 1 = 1..3
        BY <2>2
      <3>3. \A i \in 1..3 : i # j => Ports!Rise(i, i + 1) = s1
        BY <1>7, <3>1, <3>2
      <3>4. Ports!Found4 = Ports!Sure(s1)
        BY <1>2, <1>3, <2>2, <3>3, OneAddressFound
      <3> QED BY <2>2, <3>4
    <2> QED BY <1>1, <2>1, <2>2
  <1>9. /\ u \in Nat /\ v \in 0..3 /\ v \in Nat /\ k \in Nat /\ v <= u /\ u = v + k
        /\ k \in 1..PortsAhead /\ u \in 0..PortsUnseen + 1
    <2> HIDE DEF n
    <2>1. s4 >= 4 - n /\ s4 <= 3 - n + PortsAhead /\ s4 \in Nat /\ s4 <= PortsUnseen
      <3>1. s4 \in 4 - n..3 - n + PortsAhead
        BY <1>1
      <3> QED BY <1>2, <1>4, <3>1, PortsConstants
    <2>2. n \in Nat /\ n >= 1 /\ n <= 4 /\ PortsAhead \in Nat /\ PortsUnseen \in Nat
      BY <1>4, PortsConstants
    <2> QED BY <2>1, <2>2
  <1> HIDE DEF u, v, k
  <1>10. u * s1 \in Nat /\ u * s1 < Turn
    BY <1>2, <1>3, <1>9, WithinTurn
  <1>11. v * s1 \in Nat /\ k * s1 \in Nat /\ u * s1 = v * s1 + k * s1
    BY <1>3, <1>9
  <1>12. n = 4 => v * s1 = 0
    <2>1. n = 4 => v = 0
      BY DEF v
    <2> QED BY <1>3, <2>1
  <1> DEFINE a == v * s1
             b == k * s1
  <1>13. a \in Nat /\ b \in Nat /\ a + b < Turn /\ s2 = NatAfter(p, a + b) /\ (n = 4 => a = 0)
    BY <1>6, <1>10, <1>11, <1>12
  <1>14. n = 4 \/ s2 > p
    BY <1>1
  <1> HIDE DEF a, b, p, n
  <1>15. p + a \in NatPorts
    <2>1. p \in Nat /\ p > PortsKnown /\ p <= PortsMax /\ PortsMax \in Nat /\ PortsKnown \in Nat
          /\ Turn = PortsMax - PortsKnown
      BY <1>5, PortsConstants DEF NatPorts, Turn
    <2>2. a + b \in Nat /\ a + b + 0 < Turn /\ 0 \in Nat
      BY <1>13
    <2>3. NatAfter(p, a + b) = IF p + (a + b) > PortsMax THEN p + (a + b) - Turn ELSE p + (a + b)
      BY <1>5, <2>2, AfterAfter
    <2>4. s2 > p => p + (a + b) <= PortsMax
      BY <1>13, <2>1, <2>3
    <2>5. p + a \in Nat /\ p + a > PortsKnown /\ p + a <= PortsMax
      BY <1>13, <1>14, <2>1, <2>4
    <2> QED BY <2>1, <2>5 DEF NatPorts
  <1>16. b < Turn
    BY <1>13, PortsConstants
  <1>17. s2 = NatAfter(p + a, b)
    <2>1. p + a <= PortsMax /\ NatAfter(p, a) = p + a
      <3>1. a < Turn /\ a + 0 < Turn /\ 0 \in Nat
        BY <1>13, PortsConstants
      <3>2. NatAfter(p, a) = IF p + a > PortsMax THEN p + a - Turn ELSE p + a
        BY <1>5, <1>13, <3>1, AfterAfter
      <3>3. p + a <= PortsMax
        BY <1>15, PortsConstants DEF NatPorts
      <3>4. p + a \in Int /\ PortsMax \in Int
        BY <1>15, PortsConstants DEF NatPorts
      <3> QED BY <3>2, <3>3, <3>4
    <2>2. NatAfter(NatAfter(p, a), b) = NatAfter(p, a + b)
      BY <1>5, <1>13, AfterAfter
    <2> QED BY <1>13, <2>1, <2>2
  <1> QED BY <1>3, <1>8, <1>9, <1>15, <1>16, <1>17 DEF a, b, p, n, k, v

\* Of a NAT that always gives the same port no increment is found, and that port.
LEMMA StillFound ==
  ASSUME PortsTypes(s1, s2, s3, s4, s5, s6, s7), Follows(s1, s2, s3, s4, s5), s1 = 0,
         Len(s3) \in 1..4
  PROVE  /\ Len(s3) = 1 => Ports!Found1 = Ports!Sure(0)
         /\ Len(s3) = 2 => Ports!Found2 = Ports!Sure(0)
         /\ Len(s3) = 3 => Ports!Found3 = Ports!Sure(0)
         /\ Len(s3) = 4 => Ports!Found4 = Ports!Sure(0)
         /\ s3[Len(s3)].port = s2
PROOF
  <1> DEFINE p == s3[Len(s3)].port
  <1>1. /\ s1 \in PortsSteps /\ s1 >= 0 /\ Len(s3) > 0 /\ s3 \in NatAnswers
        /\ 0 \in Nat /\ 0 < Turn /\ s4 \in Nat
    <2>1. s1 \in PortsSteps \cup {PortsMax} /\ s1 # PortsMax /\ s3 \in NatAnswers /\ s4 \in Nat
      BY PortsConstants DEF PortsTypes
    <2>2. 0 < Turn
      BY PortsConstants DEF Turn
    <2> QED BY <2>1, <2>2
  <1>2. /\ s2 = NatAfter(s3[Len(s3)].port, (s4 + 1) * s1)
        /\ s1 = 0 \/ s5 = 0 => \A i \in 1..Len(s3) - 1 : s3[i + 1].port - s3[i].port = s1
    <2>1. Follows(s1, s2, s3, s4, s5)
      OBVIOUS
    <2> QED BY Zenon, <1>1, <2>1 DEF Follows
  <1>3. \A i \in 1..Len(s3) - 1 : Ports!Rise(i, i + 1) = 0
    BY <1>2 DEF Ports!Rise, Ports!P
  <1>4. p \in NatPorts
    <2>1. Len(s3) \in DOMAIN s3
      BY <1>1 DEF NatAnswers
    <2> QED BY <1>1, <2>1, RiseFound DEF Ports!P
  <1>5. (s4 + 1) * s1 = 0
    BY <1>1
  <1>6. s2 = p
    <2>1. 0 + 0 < Turn /\ 0 \in Nat
      BY <1>1
    <2>2. NatAfter(p, 0) = p
      <3> HIDE DEF p
      <3> QED BY <1>4, <2>1, AfterAfter
    <2> QED BY <1>2, <1>5, <2>2
  <1> QED BY <1>1, <1>3, <1>6, SteadyFound

\* The program concludes from the answers it has got.
LEMMA PortsConclude ==
  ASSUME Ports!PortsInv, Ports!Conclude
  PROVE  Ports!PortsInv'
PROOF
  <1> DEFINE n == Len(s3)
             p == s3[n].port
             W == PortsMax + 1
  <1>1. /\ PortsTypes(s1, s2, s3, s4, s5, s6, s7) /\ Follows(s1, s2, s3, s4, s5)
    BY PortsInvIs, PortsAnswersIs
  <1>2. /\ s1 \in PortsSteps \cup {PortsMax} /\ s2 \in NatPorts
        /\ s3 \in NatAnswers /\ Len(s3) <= 4
        /\ s4 \in 0..PortsUnseen /\ s5 \in Nat
    BY <1>1 DEF PortsTypes
  <1>3. s6' = "offer" /\ n > 0 /\ UNCHANGED <<s1, s2, s3, s4, s5, s8>>
    BY DEF Ports!Conclude
  <1>4. n \in 1..4 /\ n \in Nat /\ DOMAIN s3 = 1..n
    <2> DEFINE S == [addr : 1..PortsAddresses, port : NatPorts]
    <2>1. s3 \in Seq(S)
      BY <1>2 DEF NatAnswers
    <2> HIDE DEF S
    <2>2. n \in Nat /\ DOMAIN s3 = 1..n
      BY <2>1
    <2>3. n <= 4 /\ n > 0
      BY <1>2, <1>3
    <2> HIDE DEF n
    <2> QED BY <2>2, <2>3
  <1>5. \E f : /\ n = 1 => f = Ports!Found1
               /\ n = 2 => f = Ports!Found2
               /\ n = 3 => f = Ports!Found3
               /\ n = 4 => f = Ports!Found4
               /\ s7' = [port |-> (p + (4 - n) * f.inc) % W, increment |-> f.inc, random |-> f.random]
    <2>1. CASE n = 1
      <3>1. s7' = [port |-> (p + (4 - n) * Ports!Found1.inc) % W,
                   increment |-> Ports!Found1.inc, random |-> Ports!Found1.random]
        BY <2>1 DEF Ports!Conclude, Ports!Word, Ports!P
      <3>2. n # 2 /\ n # 3 /\ n # 4
        BY <2>1
      <3> HIDE DEF n, p, W
      <3> QED BY <3>1, <3>2
    <2>2. CASE n = 2
      <3>1. s7' = [port |-> (p + (4 - n) * Ports!Found2.inc) % W,
                   increment |-> Ports!Found2.inc, random |-> Ports!Found2.random]
        BY <2>2 DEF Ports!Conclude, Ports!Word, Ports!P
      <3>2. n # 1 /\ n # 3 /\ n # 4
        BY <2>2
      <3> HIDE DEF n, p, W
      <3> QED BY <3>1, <3>2
    <2>3. CASE n = 3
      <3>1. s7' = [port |-> (p + (4 - n) * Ports!Found3.inc) % W,
                   increment |-> Ports!Found3.inc, random |-> Ports!Found3.random]
        BY <2>3 DEF Ports!Conclude, Ports!Word, Ports!P
      <3>2. n # 1 /\ n # 2 /\ n # 4
        BY <2>3
      <3> HIDE DEF n, p, W
      <3> QED BY <3>1, <3>2
    <2>4. CASE n = 4
      <3>1. s7' = [port |-> (p + (4 - n) * Ports!Found4.inc) % W,
                   increment |-> Ports!Found4.inc, random |-> Ports!Found4.random]
        BY <2>4 DEF Ports!Conclude, Ports!Word, Ports!P
      <3>2. n # 1 /\ n # 2 /\ n # 3
        BY <2>4
      <3> HIDE DEF n, p, W
      <3> QED BY <3>1, <3>2
    <2>5. n = 1 \/ n = 2 \/ n = 3 \/ n = 4
      <3> HIDE DEF n
      <3> QED BY <1>4
    <2> HIDE DEF n, p, W
    <2> QED BY <2>1, <2>2, <2>3, <2>4, <2>5
  <1>6. PICK f : /\ n = 1 => f = Ports!Found1
                 /\ n = 2 => f = Ports!Found2
                 /\ n = 3 => f = Ports!Found3
                 /\ n = 4 => f = Ports!Found4
                 /\ s7' = [port |-> (p + (4 - n) * f.inc) % W, increment |-> f.inc, random |-> f.random]
    BY <1>5
  <1>7. n = 1 \/ n = 2 \/ n = 3 \/ n = 4
    <2> HIDE DEF n
    <2> QED BY <1>4
  <1>8. StepFound(f)
    <2>1. /\ n = 1 => StepFound(Ports!Found1)
          /\ n = 2 => StepFound(Ports!Found2)
          /\ n = 3 => StepFound(Ports!Found3)
          /\ n = 4 => StepFound(Ports!Found4)
      BY <1>2, AnyFound
    <2> QED BY <1>6, <1>7, <2>1
  <1>9. f.inc \in Int /\ f.random \in BOOLEAN /\ f.inc > -Turn /\ (f.random => f.inc # 0)
    BY <1>8 DEF StepFound
  <1>10. p \in NatPorts /\ p \in Nat /\ p <= PortsMax /\ PortsMax \in Nat
    <2>1. n \in DOMAIN s3
      BY <1>4
    <2>2. p \in NatPorts
      BY <1>2, <2>1, RiseFound DEF Ports!P
    <2> HIDE DEF p
    <2> QED BY <2>2, PortsConstants DEF NatPorts
  <1> HIDE DEF p, n, W
  <1> DEFINE x == p + (4 - n) * f.inc
  <1>11. x \in Int /\ x % W \in 0..PortsMax /\ \A y \in NatPorts : y % W = y
    <2>1. x \in Int
      BY <1>4, <1>9, <1>10
    <2> HIDE DEF x
    <2>2. x % W \in 0..PortsMax
      BY <1>10, <2>1 DEF W
    <2>3. \A y \in NatPorts : y % W = y
      BY <1>10, PortsConstants DEF W, NatPorts
    <2> QED BY <2>1, <2>2, <2>3
  <1>12. s7' = [port |-> x % W, increment |-> f.inc, random |-> f.random]
    BY <1>6
  <1>13. f.inc = 0 => x = p
    BY <1>4, <1>10
  <1> HIDE DEF x
  <1>14. PortsTypes(s1', s2', s3', s4', s5', s6', s7')
    <2>1. s7' \in [port : 0..PortsMax, increment : Int, random : BOOLEAN]
      BY <1>9, <1>11, <1>12
    <2> QED BY <1>2, <1>3, <2>1 DEF PortsTypes
  <1>15. Ports!AnswersInv'
    <2>1. s3' # <<>>
      <3>1. s3 # <<>>
        BY <1>3 DEF n
      <3> QED BY <1>3, <3>1
    <2>2. Follows(s1', s2', s3', s4', s5')
      BY <1>1, <1>3
    <2> QED BY <2>1, <2>2, PortsAnswersIs
  <1>16. Ports!FoundInv'
    <2>1. s7'.increment = f.inc /\ s7'.random = f.random /\ s7'.port = x % W
      BY <1>12
    <2>2. s7'.increment > -Turn /\ (s7'.random => s7'.increment # 0)
      BY <1>9, <2>1
    <2>3. s7'.increment = 0 => s7'.port \in NatPorts
      BY <1>10, <1>11, <1>13, <2>1
    <2>4. s1 = 0 => s7' = [port |-> s2, increment |-> 0, random |-> FALSE]
      <3>1. SUFFICES ASSUME s1 = 0 PROVE s7' = [port |-> s2, increment |-> 0, random |-> FALSE]
        OBVIOUS
      <3>2. /\ n = 1 => Ports!Found1 = Ports!Sure(0)
            /\ n = 2 => Ports!Found2 = Ports!Sure(0)
            /\ n = 3 => Ports!Found3 = Ports!Sure(0)
            /\ n = 4 => Ports!Found4 = Ports!Sure(0)
            /\ p = s2
        BY <1>1, <1>4, <3>1, StillFound DEF n, p
      <3>3. f = Ports!Sure(0)
        BY <1>6, <1>7, <3>2
      <3>4. f.inc = 0 /\ f.random = FALSE
        BY <3>3 DEF Ports!Sure
      <3>5. x % W = s2
        BY <1>10, <1>11, <1>13, <3>2, <3>4
      <3> QED BY <1>12, <3>4, <3>5
    <2>5. Ports!Told => s7' = [port |-> p + (4 - n) * s1, increment |-> s1, random |-> FALSE]
      <3>1. SUFFICES ASSUME Ports!Told
                     PROVE  s7' = [port |-> p + (4 - n) * s1, increment |-> s1, random |-> FALSE]
        OBVIOUS
      <3>2. /\ n = 1 => Ports!Found1 = Ports!Sure(s1)
            /\ n = 2 => Ports!Found2 = Ports!Sure(s1)
            /\ n = 3 => Ports!Found3 = Ports!Sure(s1)
            /\ n = 4 => Ports!Found4 = Ports!Sure(s1)
            /\ p + (4 - n) * s1 \in NatPorts
        BY <1>1, <1>4, <3>1, ToldFound DEF n, p
      <3>3. f = Ports!Sure(s1)
        BY <1>6, <1>7, <3>2
      <3>4. f.inc = s1 /\ f.random = FALSE
        BY <3>3 DEF Ports!Sure
      <3>5. x % W = p + (4 - n) * s1
        BY <1>11, <3>2, <3>4 DEF x
      <3> QED BY <1>12, <3>4, <3>5
    <2>6. Ports!Told' <=> Ports!Told
      BY <1>3, ToldStill
    <2>7. Ports!Told' => s7' = [port |-> s3'[Len(s3')].port + (4 - Len(s3')) * s1',
                                increment |-> s1', random |-> FALSE]
      <3>1. s3'[Len(s3')].port + (4 - Len(s3')) * s1' = p + (4 - n) * s1
        BY <1>3 DEF n, p
      <3> QED BY <1>3, <2>5, <2>6, <3>1
    <2> QED BY <1>3, <2>2, <2>3, <2>4, <2>7, PortsFoundIs
  <1>17. s6' # "offered"
    BY <1>3
  <1> QED BY <1>14, <1>15, <1>16, <1>17, PortsInvIs

\* The program offers ports.
LEMMA PortsOffer ==
  ASSUME Ports!PortsInv, NEW force \in BOOLEAN, Ports!MakeOffer(force)
  PROVE  Ports!PortsInv'
PROOF
  <1> DEFINE n == Len(s3)
             p == s3[n].port
             forced == force /\ s7.increment = 0 /\ s7.port # PortsLocal
             around == forced \/ (s7.increment # 0 /\ s7.random)
  <1>1. /\ PortsTypes(s1, s2, s3, s4, s5, s6, s7) /\ Follows(s1, s2, s3, s4, s5)
        /\ (s3 = <<>> => s6 = "ask")
    BY PortsInvIs, PortsAnswersIs
  <1>2. /\ s1 \in PortsSteps \cup {PortsMax} /\ s2 \in NatPorts
        /\ s3 \in NatAnswers /\ Len(s3) <= 4 /\ s4 \in 0..PortsUnseen /\ s5 \in Nat
        /\ s7 \in [port : 0..PortsMax, increment : Int, random : BOOLEAN]
    BY <1>1 DEF PortsTypes
  <1>3. /\ s6 = "offer" /\ s6' = "offered" /\ UNCHANGED <<s1, s2, s3, s4, s5>>
        /\ s8' = IF around THEN Ports!Around
                 ELSE IF s7.increment # 0 THEN Ports!Following ELSE <<s7.port>>
        /\ s7' = IF forced THEN [s7 EXCEPT !.random = TRUE, !.increment = 1] ELSE s7
    BY DEF Ports!MakeOffer
  <1>4. n \in 1..4
    <2> DEFINE S == [addr : 1..PortsAddresses, port : NatPorts]
    <2>1. s3 \in Seq(S) /\ s3 # <<>>
      BY <1>1, <1>2, <1>3 DEF NatAnswers
    <2> HIDE DEF S
    <2>2. n \in Nat /\ n # 0
      BY <2>1
    <2>3. n <= 4
      BY <1>2
    <2> HIDE DEF n
    <2> QED BY <2>2, <2>3
  <1>5. /\ s7.increment > -Turn /\ (s7.random => s7.increment # 0)
        /\ s7.increment = 0 => s7.port \in NatPorts
        /\ s1 = 0 => s7.random \/ s7 = [port |-> s2, increment |-> 0, random |-> FALSE]
        /\ Ports!Told => s7 = [port |-> p + (4 - n) * s1, increment |-> s1, random |-> FALSE]
    BY <1>3, PortsInvIs, PortsFoundIs
  <1>6. /\ s7.port \in 0..PortsMax /\ s7.increment \in Int /\ s7.random \in BOOLEAN
        /\ Turn \in Nat /\ Turn > 1
    BY <1>2, PortsConstants DEF Turn
  <1>7. /\ forced => s7' = [port |-> s7.port, increment |-> 1, random |-> TRUE]
        /\ ~forced => s7' = s7
    BY <1>2, <1>3
  <1> HIDE DEF forced
  <1>8. PortsTypes(s1', s2', s3', s4', s5', s6', s7')
    <2>1. s7' \in [port : 0..PortsMax, increment : Int, random : BOOLEAN]
      <3>1. CASE forced
        <4>1. [port |-> s7.port, increment |-> 1, random |-> TRUE]
              \in [port : 0..PortsMax, increment : Int, random : BOOLEAN]
          BY <1>6
        <4> QED BY <1>7, <3>1, <4>1
      <3>2. CASE ~forced
        BY <1>2, <1>7, <3>2
      <3> QED BY <3>1, <3>2
    <2> QED BY <1>2, <1>3, <2>1 DEF PortsTypes
  <1>9. Ports!AnswersInv'
    <2>1. s3' # <<>> /\ Follows(s1', s2', s3', s4', s5')
      BY <1>1, <1>3
    <2> QED BY <2>1, PortsAnswersIs
  <1>10. Ports!Told' <=> Ports!Told
    BY <1>3, ToldStill
  <1>11. Ports!Told => s1 \in Nat /\ s1 # 0 /\ ~forced /\ ~around /\ s7.increment # 0
    <2>1. SUFFICES ASSUME Ports!Told
                   PROVE  s1 \in Nat /\ s1 # 0 /\ ~forced /\ ~around /\ s7.increment # 0
      OBVIOUS
    <2>2. s1 \in Nat /\ s1 # 0
      BY <1>1, <1>4, <2>1, ToldFound
    <2>3. s7.increment = s1 /\ s7.random = FALSE
      BY <1>5, <2>1
    <2> QED BY <2>2, <2>3 DEF forced
  <1>12. Ports!FoundInv'
    <2>1. s7'.increment > -Turn /\ (s7'.random => s7'.increment # 0)
      <3>1. CASE forced
        <4>1. s7'.increment = 1 /\ 1 > -Turn
          BY <1>6, <1>7, <3>1
        <4> QED BY <4>1
      <3>2. CASE ~forced
        BY <1>5, <1>7, <3>2
      <3> QED BY <3>1, <3>2
    <2>2. s7'.increment = 0 => s7'.port \in NatPorts
      <3>1. CASE forced
        <4>1. s7'.increment = 1
          BY <1>7, <3>1
        <4> QED BY <4>1
      <3>2. CASE ~forced
        BY <1>5, <1>7, <3>2
      <3> QED BY <3>1, <3>2
    <2>3. s1 = 0 => s7'.random \/ s7' = [port |-> s2, increment |-> 0, random |-> FALSE]
      <3>1. CASE forced
        <4>1. s7'.random = TRUE
          BY <1>7, <3>1
        <4> QED BY <4>1
      <3>2. CASE ~forced
        BY <1>5, <1>7, <3>2
      <3> QED BY <3>1, <3>2
    <2>4. Ports!Told' => s7' = [port |-> s3'[Len(s3')].port + (4 - Len(s3')) * s1',
                                increment |-> s1', random |-> FALSE]
      <3>1. s3'[Len(s3')].port + (4 - Len(s3')) * s1' = p + (4 - n) * s1
        BY <1>3
      <3>2. Ports!Told => s7' = [port |-> p + (4 - n) * s1, increment |-> s1, random |-> FALSE]
        BY <1>5, <1>7, <1>11
      <3> QED BY <1>3, <1>10, <3>1, <3>2
    <2> QED BY <1>3, <2>1, <2>2, <2>3, <2>4, PortsFoundIs
  <1> HIDE DEF n, p
  <1>13. s1 = 0 /\ ~s7'.random => s8' = <<s2>>
    <2>1. SUFFICES ASSUME s1 = 0, ~s7'.random PROVE s8' = <<s2>>
      OBVIOUS
    <2>2. ~forced
      <3>1. SUFFICES ASSUME forced PROVE FALSE
        OBVIOUS
      <3>2. s7'.random = TRUE
        BY <1>7, <3>1
      <3> QED BY <2>1, <3>2
    <2>3. s7 = [port |-> s2, increment |-> 0, random |-> FALSE]
      BY <1>5, <1>7, <2>1, <2>2
    <2>4. s7.increment = 0 /\ s7.random = FALSE /\ s7.port = s2
      BY <2>3
    <2>5. ~around
      BY <2>2, <2>4
    <2> HIDE DEF around
    <2> QED BY <1>3, <2>4, <2>5
  <1>14. Ports!Told => \E i \in DOMAIN s8' : s8'[i] = s2
    <2>1. SUFFICES ASSUME Ports!Told PROVE \E i \in DOMAIN s8' : s8'[i] = s2
      OBVIOUS
    <2>2. s8' = Ports!Following
      BY <1>3, <1>11, <2>1
    <2> DEFINE k == s4 - 3 + n
               q == p + (4 - n) * s1
    <2>3. /\ s1 \in Nat /\ q \in NatPorts /\ k \in 1..PortsAhead /\ k * s1 < Turn
          /\ s2 = NatAfter(q, k * s1)
      BY <1>1, <1>4, <2>1, ToldFound DEF n, p
    <2>4. s7.port = q /\ s7.increment = s1
      BY <1>5, <2>1
    <2> HIDE DEF k, q
    <2>5. \E i \in DOMAIN Ports!Following : Ports!Following[i]
            = IF q + k * s1 > PortsMax THEN q + k * s1 - Turn ELSE q + k * s1
      BY <2>3, <2>4, FollowingSteps
    <2>6. k * s1 \in Nat
      BY <2>3, PortsConstants
    <2> DEFINE t == k * s1
    <2>7. NatAfter(q, t) = IF q + t > PortsMax THEN q + t - Turn ELSE q + t
      <3>1. t \in Nat /\ 0 \in Nat /\ t + 0 < Turn
        BY <2>3, <2>6
      <3> HIDE DEF t
      <3> QED BY <2>3, <3>1, AfterAfter
    <2> QED BY <2>2, <2>3, <2>5, <2>7
  <1>15. \A R : Ports!Range(R) = {R[x] : x \in DOMAIN R}
    BY DEF Ports!Range
  <1>16. Ports!GuessesFollowNat'
    <2>1. Ports!Told' => s2' \in {s8'[x] : x \in DOMAIN s8'}
      BY <1>3, <1>10, <1>14
    <2>2. s1' = 0 /\ ~s7'.random => s8' = <<s2'>>
      BY <1>3, <1>13
    <2> QED BY <2>1, <2>2 DEF Ports!GuessesFollowNat, Ports!Range
  <1>17. s7'.increment < Turn => {s8'[x] : x \in DOMAIN s8'} \subseteq 1..PortsMax
    <2>1. SUFFICES ASSUME s7'.increment < Turn
                   PROVE  {s8'[x] : x \in DOMAIN s8'} \subseteq 1..PortsMax
      OBVIOUS
    <2>2. CASE around
      <3>1. s8' = Ports!Around
        BY <1>3, <2>2
      <3> QED BY <1>6, <1>15, <3>1, AroundTyped
    <2>3. CASE ~around /\ s7.increment # 0
      <3>1. s8' = Ports!Following
        BY <1>3, <2>3
      <3>2. s7' = s7
        BY <1>7, <2>3
      <3>3. s7.increment < Turn
        BY <2>1, <3>2
      <3> HIDE DEF around
      <3> QED BY <1>5, <1>6, <1>15, <3>1, <3>3, FollowingTyped
    <2>4. CASE ~around /\ s7.increment = 0
      <3>1. s8' = <<s7.port>>
        BY <1>3, <2>4
      <3>2. s7.port \in 1..PortsMax
        BY <1>5, <2>4, PortsConstants DEF NatPorts
      <3> QED BY <3>1, <3>2
    <2> QED BY <2>2, <2>3, <2>4
  <1>18. s7'.random => Ports!Cardinality({s8'[x] : x \in DOMAIN s8'}) = PortsGuesses
    <2>1. SUFFICES ASSUME s7'.random
                   PROVE  Ports!Cardinality({s8'[x] : x \in DOMAIN s8'}) = PortsGuesses
      OBVIOUS
    <2>2. around
      <3>1. CASE forced
        BY <3>1
      <3>2. CASE ~forced
        <4>1. s7.random
          BY <1>7, <2>1, <3>2
        <4> QED BY <1>5, <4>1
      <3> QED BY <3>1, <3>2
    <2>3. s8' = Ports!Around
      BY <1>3, <2>2
    <2> QED BY <1>6, <1>15, <2>3, AroundTyped
  <1>19. Ports!OffersArePorts'
    <2>1. s7'.random => s7'.increment # 0
      BY <1>12, PortsFoundIs
    <2> QED BY <1>17, <1>18, <2>1 DEF Ports!OffersArePorts, Ports!Range, Turn
  <1> QED BY <1>8, <1>9, <1>12, <1>16, <1>19, PortsInvIs

\* Nothing changes in a step of another kind.
LEMMA PortsStill ==
  ASSUME UNCHANGED <<s1, s2, s3, s4, s5, s6, s7, s8>>, Ports!PortsInv
  PROVE  Ports!PortsInv'
PROOF
  <1>1. Ports!Told' <=> Ports!Told
    BY ToldStill
  <1>2. Ports!AnswersInv'
    BY PortsInvIs, PortsAnswersIs
  <1>3. Ports!FoundInv'
    BY <1>1, PortsInvIs, PortsFoundIs
  <1>4. Ports!GuessesFollowNat'
    BY <1>1, PortsInvIs DEF Ports!GuessesFollowNat, Ports!Range
  <1>5. Ports!OffersArePorts'
    BY PortsInvIs DEF Ports!OffersArePorts, Ports!Range
  <1>6. PortsTypes(s1', s2', s3', s4', s5', s6', s7')
    BY PortsInvIs
  <1> QED BY <1>2, <1>3, <1>4, <1>5, <1>6, PortsInvIs

\* Each step of it leaves it as the invariant says.
LEMMA PortsNext ==
  ASSUME Ports!PortsInv, Ports!Next
  PROVE  Ports!PortsInv'
PROOF
  <1>1. CASE \E a \in 1..PortsAddresses : Ports!Answered(a)
    BY <1>1, PortsAsk
  <1>2. CASE Ports!Unseen
    BY <1>2, PortsAsk
  <1>3. CASE Ports!Conclude
    BY <1>3, PortsConclude
  <1>4. CASE \E force \in BOOLEAN : Ports!MakeOffer(force)
    BY <1>4, PortsOffer
  <1>5. CASE Ports!Done
    BY <1>5, PortsStill DEF Ports!Done, Ports!vars
  <1> QED BY <1>1, <1>2, <1>3, <1>4, <1>5 DEF Ports!Next

-----------------------------------------------------------------------------
(* The parts together                                                      *)

\* Nothing changes in a step of another kind.
LEMMA AnswersStill ==
  ASSUME UNCHANGED vars
  PROVE  /\ Measure!SenkushaInv => Measure!SenkushaInv'
         /\ Reliable!RudpInv => Reliable!RudpInv'
         /\ Handshake!HandshakeInv => Handshake!HandshakeInv'
         /\ Regist!RegistInv => Regist!RegistInv'
         /\ Search!SearchInv => Search!SearchInv'
         /\ Punch!PunchInv => Punch!PunchInv'
         /\ Ports!PortsInv => Ports!PortsInv'
PROOF
  <1>1. UNCHANGED <<s1, s2, s3, s4, s5, s6, s7, s8, s9, s10, s11, s12, s13, s14, s15>>
    BY DEF vars
  <1>2. Measure!SenkushaInv => Measure!SenkushaInv'
    <2>1. \A ph, a : Measure!Fits(ph, a) => Measure!Fits(ph, a)'
      BY <1>1 DEF Measure!Fits
    <2>2. \A p, slack : Measure!SearchLeaves(p, slack) => Measure!SearchLeaves(p, slack)'
      BY <1>1 DEF Measure!SearchLeaves
    <2>3. Measure!MtuIsOfThePath => Measure!MtuIsOfThePath'
      BY <1>1 DEF Measure!MtuIsOfThePath
    <2>4. Measure!SuccessHasAll => Measure!SuccessHasAll'
      BY <1>1 DEF Measure!SuccessHasAll
    <2> QED BY <1>1, <2>1, <2>2, <2>3, <2>4 DEF Measure!SenkushaInv
  <1>3. Reliable!RudpInv => Reliable!RudpInv'
    <2>1. Reliable!NumbersInv => Reliable!NumbersInv'
      BY <1>1 DEF Reliable!NumbersInv
    <2>2. Reliable!SendersInv => Reliable!SendersInv'
      BY <1>1 DEF Reliable!SendersInv, Reliable!Active
    <2>3. Reliable!PacketsInv => Reliable!PacketsInv'
      BY <1>1 DEF Reliable!PacketsInv, Reliable!Active
    <2>4. Reliable!InTurn => Reliable!InTurn'
      BY <1>1 DEF Reliable!InTurn
    <2>5. Reliable!NothingForgotten => Reliable!NothingForgotten'
      BY <1>1 DEF Reliable!NothingForgotten
    <2>6. s11' = s11
      BY <1>1
    <2> QED BY <2>1, <2>2, <2>3, <2>4, <2>5, <2>6 DEF Reliable!RudpInv
  <1>4. Handshake!HandshakeInv => Handshake!HandshakeInv'
    <2>1. Handshake!Wrong' = Handshake!Wrong
      BY <1>1 DEF Handshake!Wrong
    <2> QED BY <1>1, <2>1 DEF Handshake!HandshakeInv, Handshake!FaultsSurvived
  <1>5. Regist!RegistInv => Regist!RegistInv'
    BY <1>1 DEF Regist!RegistInv, Regist!OneVerdict
  <1>6. Search!SearchInv => Search!SearchInv'
    <2>1. Search!Polled' = Search!Polled
      BY <1>1 DEF Search!Polled
    <2> QED BY <1>1, <2>1 DEF Search!SearchInv, Search!PairedBothWays, Search!OnlyTheChosenStaysOpen
  <1>7. Punch!PunchInv => Punch!PunchInv'
    <2>1. Punch!Line' = Punch!Line
      BY <1>1 DEF Punch!Line
    <2>2. Punch!Members(Punch!Line)' = Punch!Members(Punch!Line)
      BY <2>1 DEF Punch!Members
    <2>3. Punch!InOrder(Punch!Line) => Punch!InOrder(Punch!Line)'
      BY <2>1 DEF Punch!InOrder
    <2>4. \A n : Punch!OffersInv(n) => Punch!OffersInv(n)'
      BY <1>1 DEF Punch!OffersInv
    <2>5. \A n : Punch!AnswersInv(n) => Punch!AnswersInv(n)'
      BY <1>1 DEF Punch!AnswersInv
    <2>6. Punch!RightMessages => Punch!RightMessages'
      BY <1>1 DEF Punch!RightMessages
    <2>7. \A n \in Punch!Members(Punch!Line) : Punch!Heard(n) /\ Punch!OffersInv(n) /\ Punch!AnswersInv(n)
          => (Punch!Heard(n) /\ Punch!OffersInv(n) /\ Punch!AnswersInv(n))'
      BY <2>4, <2>5 DEF Punch!Heard
    <2> QED BY <1>1, <2>2, <2>3, <2>6, <2>7 DEF Punch!PunchInv
  <1>8. Ports!PortsInv => Ports!PortsInv'
    BY <1>1, PortsStill
  <1> QED BY <1>2, <1>3, <1>4, <1>5, <1>6, <1>7, <1>8

\* The invariant of the parts that get answers.
AnswersInv ==
  /\ part = "senkusha" => Measure!SenkushaInv
  /\ part = "rudp" => Reliable!RudpInv
  /\ part = "handshake" => Handshake!HandshakeInv
  /\ part = "regist" => Regist!RegistInv
  /\ part = "candidates" => Search!SearchInv
  /\ part = "punch" => Punch!PunchInv
  /\ part = "ports" => Ports!PortsInv

\* It holds of every behaviour as well.
LEMMA SpecAnswersInv == PartsSpec => []AnswersInv
PROOF
  <1>1. PartsInit => AnswersInv
    <2>1. PartsInit => /\ part = "senkusha" => Measure!Init
                       /\ part = "rudp" => Reliable!Init
                       /\ part = "handshake" => Handshake!Init
                       /\ part = "regist" => Regist!Init
                       /\ part = "candidates" => Search!Init
                       /\ part = "punch" => Punch!Init
                       /\ part = "ports" => Ports!Init
      BY DEF PartsInit
    <2> QED BY <2>1, MeasureInit, RudpInit, ShakeInit, RegistInit, SearchInit, PunchInit,
               PortsInit DEF AnswersInv
  <1>2. AnswersInv /\ [PartsNext]_vars => AnswersInv'
    <2>1. SUFFICES ASSUME AnswersInv, [PartsNext]_vars PROVE AnswersInv'
      OBVIOUS
    <2>2. CASE PartsNext
      <3>1. part' = part
        BY <2>2 DEF PartsNext, After15, After14, After13, After12, After11, After10, After9,
                    After8, After6, After5, After4
      <3>2. /\ part = "senkusha" => Measure!Next
            /\ part = "rudp" => Reliable!Next
            /\ part = "handshake" => Handshake!Next
            /\ part = "regist" => Regist!Next
            /\ part = "candidates" => Search!Next
            /\ part = "punch" => Punch!Next
            /\ part = "ports" => Ports!Next
        BY <2>2 DEF PartsNext
      <3> QED BY <2>1, <3>1, <3>2, MeasureNext, RudpNext, ShakeNext, RegistNext, SearchNext,
                 PunchNext, PortsNext DEF AnswersInv
    <2>3. CASE UNCHANGED vars
      <3>1. part' = part
        BY <2>3 DEF vars
      <3> QED BY <2>1, <2>3, <3>1, AnswersStill DEF AnswersInv
    <2> QED BY <2>1, <2>2, <2>3
  <1> QED BY <1>1, <1>2, PTL DEF PartsSpec

\* Answers that are late, lost or repeated do not decide what they do not
\* answer: the sizes that senkusha finds, the numbers RUDP counts on, the first
\* messages of a connection, the verdict of a registration, the candidate that
\* is chosen, the messages that punch the hole, and the ports that are offered.
THEOREM AnswersDecideAlone == PartsSpec => []AnswersDecide
PROOF
  <1>1. AnswersInv => AnswersDecide
    <2>1. SUFFICES ASSUME AnswersInv PROVE AnswersDecide
      OBVIOUS
    <2>2. part = "senkusha" => Measure!MtuIsOfThePath /\ Measure!SuccessHasAll
      BY <2>1 DEF AnswersInv, Measure!SenkushaInv
    <2>3. part = "rudp" => Reliable!NothingForgotten
      BY <2>1 DEF AnswersInv, Reliable!RudpInv
    <2>4. part = "handshake" => Handshake!FaultsSurvived
      BY <2>1 DEF AnswersInv, Handshake!HandshakeInv
    <2>5. part = "regist" => Regist!OneVerdict
      BY <2>1 DEF AnswersInv, Regist!RegistInv
    <2>6. part = "candidates" => Search!PairedBothWays /\ Search!OnlyTheChosenStaysOpen
      BY <2>1 DEF AnswersInv, Search!SearchInv
    <2>7. part = "punch" => Punch!RightMessages
      BY <2>1 DEF AnswersInv, Punch!PunchInv
    <2>8. part = "ports" => Ports!GuessesFollowNat /\ Ports!OffersArePorts
      BY <2>1 DEF AnswersInv, Ports!PortsInv
    <2> QED BY <2>2, <2>3, <2>4, <2>5, <2>6, <2>7, <2>8 DEF AnswersDecide
  <1> QED BY <1>1, SpecAnswersInv, PTL
=============================================================================
