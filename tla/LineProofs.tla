------------------------------ MODULE LineProofs ------------------------------
(***************************************************************************)
(* Lines out and lines in, for every size of the rings, of their parts and  *)
(* of the lines, and any number of them. LineWriter, for every set of       *)
(* sources and of stages: what goes out is whole and in order, whoever      *)
(* interrupts whom, and nothing is lost untold. LineReader, over each of    *)
(* its rings: what is delivered is whole and in order, wherever bytes are   *)
(* lost. The inductive invariants are LineInvariants'.                      *)
(***************************************************************************)
EXTENDS LineInvariants, FiniteSetTheorems, SequenceTheorems, WellFoundedInduction, TLAPS

-----------------------------------------------------------------------------
(* The transmit ring: what it holds goes from the tail round to the head.    *)
\* A place moved forward by at most the ring comes round at most once.
LEMMA Turned ==
  ASSUME NEW n \in Nat \ {0}, NEW a \in 0..n - 1, NEW i \in 0..n
  PROVE  (a + i) % n = (IF a + i < n THEN a + i ELSE a + i - n)
<1>1. CASE a + i < n
  <2>1. a + i \in 0..n - 1 BY <1>1
  <2>. QED BY <1>1, <2>1, Z3
<1>2. CASE ~(a + i < n)
  <2>1. a + i - n \in 0..n - 1 /\ a + i = (a + i - n) + n BY <1>2
  <2>2. ((a + i - n) + n) % n = a + i - n BY <2>1, Z3
  <2>. QED BY <1>2, <2>1, <2>2
<1>. QED BY <1>1, <1>2

\* The distance between two places of the ring.
LEMMA TurnedBack ==
  ASSUME NEW n \in Nat \ {0}, NEW a \in 0..n - 1, NEW b \in 0..n - 1
  PROVE  (a - b) % n = (IF b <= a THEN a - b ELSE a - b + n)
<1>1. CASE b <= a
  <2>1. a - b \in 0..n - 1 BY <1>1
  <2>. QED BY <1>1, <2>1, Z3
<1>2. CASE ~(b <= a)
  <2>1. a - b + n \in 0..n - 1 /\ a - b = (a - b + n) - n BY <1>2
  <2>2. ((a - b + n) - n) % n = a - b + n BY <2>1, Z3
  <2>. QED BY <1>2, <2>1, <2>2
<1>. QED BY <1>1, <1>2

\* The room and the count make up the ring less the slot that stays free.
LEMMA RoomOf ==
  ASSUME NEW h \in TxPlace, NEW t \in TxPlace
  PROVE  (t - h - 1) % TxSize = TxSize - 1 - ((h - t) % TxSize)
<1>1. TxSize \in Nat \ {0} /\ TxSize > 1 BY TransmitAssumption
<1>2. (h - t) % TxSize = (IF t <= h THEN h - t ELSE h - t + TxSize)
  BY <1>1, TurnedBack DEF TxPlace
<1>3. CASE t = 0
  <2>1. (t - h - 1) % TxSize = TxSize - 1 - h
    <3>1. TxSize - 1 - h \in 0..TxSize - 1 /\ t - h - 1 = (TxSize - 1 - h) - TxSize
      BY <1>1, <1>3 DEF TxPlace
    <3>2. ((TxSize - 1 - h) - TxSize) % TxSize = TxSize - 1 - h BY <1>1, <3>1, Z3
    <3>. QED BY <3>1, <3>2
  <2>. QED BY <1>1, <1>2, <1>3, <2>1 DEF TxPlace
<1>4. CASE t # 0 BY <1>1, <1>2, <1>4, TurnedBack DEF TxPlace
<1>. QED BY <1>3, <1>4

(* The places of the ring without the modulus.                               *)
LEMMA Places ==
  ASSUME txHead \in TxPlace, txTail \in TxPlace
  PROVE  /\ TxSize \in Nat /\ TxSize > 1
         /\ TxCount = (IF txTail <= txHead THEN txHead - txTail ELSE txHead - txTail + TxSize)
         /\ TxCount \in 0..TxSize - 1 /\ Room = TxSize - 1 - TxCount
         /\ \A i \in 0..TxSize - 1 :
              /\ (txTail + i) % TxSize = (IF txTail + i < TxSize THEN txTail + i ELSE txTail + i - TxSize)
              /\ (txHead + i) % TxSize = (IF txHead + i < TxSize THEN txHead + i ELSE txHead + i - TxSize)
              /\ (txTail + i) % TxSize \in TxPlace /\ (txHead + i) % TxSize \in TxPlace
<1>1. TxSize \in Nat \ {0} /\ TxSize > 1 BY TransmitAssumption
<1>2. TxCount = (IF txTail <= txHead THEN txHead - txTail ELSE txHead - txTail + TxSize)
  BY <1>1, TurnedBack DEF TxCount, TxPlace
<1>3. Room = TxSize - 1 - TxCount BY RoomOf DEF Room, TxCount
<1>4. ASSUME NEW i \in 0..TxSize - 1
      PROVE  /\ (txTail + i) % TxSize = (IF txTail + i < TxSize THEN txTail + i ELSE txTail + i - TxSize)
             /\ (txHead + i) % TxSize = (IF txHead + i < TxSize THEN txHead + i ELSE txHead + i - TxSize)
  <2>1. i \in 0..TxSize BY <1>1
  <2>. QED BY <1>1, <2>1, Turned DEF TxPlace
<1>5. TxCount \in 0..TxSize - 1 BY <1>1, <1>2 DEF TxPlace
<1>6. \A i \in 0..TxSize - 1 : (txTail + i) % TxSize \in TxPlace /\ (txHead + i) % TxSize \in TxPlace
  BY <1>1, <1>4 DEF TxPlace
<1>. QED BY <1>1, <1>2, <1>3, <1>4, <1>5, <1>6

\* The places from a tail round to a head, without the modulus.
LEMMA RingOf ==
  ASSUME NEW h \in TxPlace, NEW t \in TxPlace
  PROVE  LET n == (h - t) % TxSize
         IN /\ n = (IF t <= h THEN h - t ELSE h - t + TxSize) /\ n \in 0..TxSize - 1
            /\ \A i \in 1..n :
                 (t + i - 1) % TxSize = IF t + i - 1 < TxSize THEN t + i - 1 ELSE t + i - 1 - TxSize
<1>. DEFINE n == (h - t) % TxSize
<1>1. TxSize \in Nat \ {0} /\ TxSize > 1 BY TransmitAssumption
<1>2. n = (IF t <= h THEN h - t ELSE h - t + TxSize) BY <1>1, TurnedBack DEF TxPlace
<1>3. n \in 0..TxSize - 1 BY <1>1, <1>2 DEF TxPlace
<1>. HIDE DEF n
<1>4. \A i \in 1..n : (t + i - 1) % TxSize = IF t + i - 1 < TxSize THEN t + i - 1 ELSE t + i - 1 - TxSize
  <2>. TAKE i \in 1..n
  <2>1. i - 1 \in 0..TxSize /\ t + (i - 1) = t + i - 1 BY <1>1, <1>3 DEF TxPlace
  <2>2. (t + (i - 1)) % TxSize = IF t + (i - 1) < TxSize THEN t + (i - 1) ELSE t + (i - 1) - TxSize
    BY <1>1, <2>1, Turned DEF TxPlace
  <2>. QED BY <2>1, <2>2
<1>. QED BY <1>2, <1>3, <1>4 DEF n

\* What waits in the ring, place by place.
LEMMA RingAt ==
  ASSUME txHead \in TxPlace, txTail \in TxPlace
  PROVE  /\ Len(InRing) = TxCount /\ DOMAIN InRing = 1..TxCount
         /\ \A i \in 1..TxCount :
              InRing[i] = txSlots[IF txTail + i - 1 < TxSize THEN txTail + i - 1
                                  ELSE txTail + i - 1 - TxSize]
<1>1. InRing = [i \in 1..TxCount |-> txSlots[(txTail + i - 1) % TxSize]] BY DEF InRing, TxCount
<1>2. TxCount \in Nat BY RingOf, TransmitAssumption DEF TxCount
<1>3. \A i \in 1..TxCount : (txTail + i - 1) % TxSize
         = IF txTail + i - 1 < TxSize THEN txTail + i - 1 ELSE txTail + i - 1 - TxSize
  BY RingOf DEF TxCount
<1>. QED BY <1>1, <1>2, <1>3

(* What was sent and what waits, byte by byte.                               *)
LEMMA OutputIs ==
  ASSUME RingInv
  PROVE  /\ Output \in Seq(Byte) /\ Len(Output) = Len(wire) + TxCount /\ Len(wire) \in Nat
         /\ TxCount \in Nat /\ Len(InRing) = TxCount
         /\ \A j \in 1..Len(wire) + TxCount :
              Output[j] = IF j <= Len(wire) THEN wire[j] ELSE InRing[j - Len(wire)]
<1>1. Len(InRing) = TxCount /\ TxCount \in Nat BY RingAt, Places DEF RingInv
<1>2. wire \in Seq(Byte) /\ InRing \in Seq(Byte) /\ Len(wire) \in Nat BY DEF RingInv
<1>3. /\ Output \in Seq(Byte) /\ Len(Output) = Len(wire) + Len(InRing)
      /\ \A j \in 1..Len(wire) + Len(InRing) :
           Output[j] = IF j <= Len(wire) THEN wire[j] ELSE InRing[j - Len(wire)]
  BY <1>2, ConcatProperties DEF Output
<1>. QED BY <1>1, <1>2, <1>3

-----------------------------------------------------------------------------
(* The producer's verbs and the interrupt, on what went out.                 *)
LEMMA OutputSame ==
  ASSUME UNCHANGED <<txSlots, txHead, txTail, wire>>
  PROVE  /\ RingInv => RingInv'
         /\ Output' = Output /\ Room' = Room /\ InRing' = InRing
<1>1. TxCount' = TxCount /\ InRing' = InRing /\ Room' = Room BY DEF TxCount, InRing, Room
<1>. QED BY <1>1 DEF RingInv, Output

\* A byte pushed goes out behind the rest: push_body().
LEMMA PushedOut ==
  ASSUME RingInv, NEW b \in Byte, TxPush(b)
  PROVE  RingInv' /\ Output' = Append(Output, b)
<1>. USE DEF TxPush
<1>1. txHead \in TxPlace /\ txTail \in TxPlace BY DEF RingInv
<1>2. TxSize \in Nat /\ TxSize > 1 /\ TxCount \in 0..TxSize - 1 /\ Room = TxSize - 1 - TxCount
      /\ TxCount = (IF txTail <= txHead THEN txHead - txTail ELSE txHead - txTail + TxSize)
  BY <1>1, Places
<1>3. txHead' = (IF txHead + 1 < TxSize THEN txHead + 1 ELSE txHead + 1 - TxSize)
      /\ txHead' \in TxPlace /\ txTail' = txTail
  <2>1. 1 \in 0..TxSize - 1 BY <1>2
  <2>. QED BY <1>1, <2>1, Places
<1>4. TxCount' = TxCount + 1 /\ TxCount + 1 \in 1..TxSize - 1 BY <1>1, <1>2, <1>3, RingOf DEF TxCount, TxPlace
<1>5. /\ DOMAIN InRing = 1..TxCount
      /\ \A i \in 1..TxCount :
           InRing[i] = txSlots[IF txTail + i - 1 < TxSize THEN txTail + i - 1
                               ELSE txTail + i - 1 - TxSize]
  BY <1>1, RingAt
<1>6. /\ DOMAIN InRing' = 1..TxCount'
      /\ InRing' = [i \in 1..TxCount' |-> InRing'[i]]
      /\ \A i \in 1..TxCount' :
           InRing'[i] = txSlots'[IF txTail + i - 1 < TxSize THEN txTail + i - 1
                                 ELSE txTail + i - 1 - TxSize]
  <2>1. InRing' = [i \in 1..TxCount' |-> txSlots'[(txTail' + i - 1) % TxSize]] BY DEF InRing, TxCount
  <2>2. \A i \in 1..TxCount' : (txTail' + i - 1) % TxSize
           = IF txTail' + i - 1 < TxSize THEN txTail' + i - 1 ELSE txTail' + i - 1 - TxSize
    BY <1>1, <1>3, RingOf DEF TxCount
  <2>3. txTail' = txTail BY <1>3
  <2>. QED BY <2>1, <2>2, <2>3
<1>7. txSlots' = [i \in TxPlace |-> IF i = txHead THEN b ELSE txSlots[i]] BY <1>1 DEF RingInv
<1>8. \A i \in 1..TxCount : InRing'[i] = InRing[i]
  <2>. TAKE i \in 1..TxCount
  <2>. DEFINE p == IF txTail + i - 1 < TxSize THEN txTail + i - 1 ELSE txTail + i - 1 - TxSize
  <2>1. p \in TxPlace /\ p # txHead BY <1>1, <1>2 DEF TxPlace
  <2>2. i \in 1..TxCount' BY <1>2, <1>4
  <2>. HIDE DEF p
  <2>3. txSlots'[p] = txSlots[p] BY <1>7, <2>1
  <2>. QED BY <1>5, <1>6, <2>2, <2>3 DEF p
<1>9. InRing'[TxCount + 1] = b
  <2>1. (IF txTail + (TxCount + 1) - 1 < TxSize THEN txTail + (TxCount + 1) - 1
         ELSE txTail + (TxCount + 1) - 1 - TxSize) = txHead
    BY <1>1, <1>2 DEF TxPlace
  <2>2. TxCount + 1 \in 1..TxCount' BY <1>2, <1>4
  <2>3. txSlots'[txHead] = b BY <1>1, <1>7
  <2>. QED BY <1>6, <2>1, <2>2, <2>3
<1>10. InRing \in Seq(Byte) /\ Len(InRing) = TxCount BY <1>1, RingAt DEF RingInv
<1>11. InRing' = Append(InRing, b)
  <2>1. /\ Append(InRing, b) \in Seq(Byte) /\ Len(Append(InRing, b)) = TxCount + 1
        /\ \A i \in 1..TxCount : Append(InRing, b)[i] = InRing[i]
        /\ Append(InRing, b)[TxCount + 1] = b
    BY <1>10, AppendProperties
  <2>2. \A i \in 1..TxCount' : InRing'[i] \in Byte
    <3>. TAKE i \in 1..TxCount'
    <3>1. i \in 1..TxCount \/ i = TxCount + 1 BY <1>2, <1>4
    <3>2. \A j \in 1..TxCount : InRing[j] \in Byte BY <1>10
    <3>. QED BY <1>8, <1>9, <3>1, <3>2
  <2>3. InRing' \in Seq(Byte)
    <3>1. InRing' \in [1..TxCount' -> Byte] BY <1>6, <2>2
    <3>2. TxCount' \in Nat BY <1>2, <1>4
    <3>. QED BY <3>1, <3>2, ElementOfSeq, SeqDef
  <2>4. Len(InRing') = TxCount + 1 BY <1>2, <1>4, <1>6
  <2>5. \A i \in 1..TxCount + 1 : InRing'[i] = Append(InRing, b)[i]
    <3>. TAKE i \in 1..TxCount + 1
    <3>1. i \in 1..TxCount \/ i = TxCount + 1 BY <1>2
    <3>. QED BY <1>8, <1>9, <2>1, <3>1
  <2>. QED BY <2>1, <2>3, <2>4, <2>5, SeqEqual
<1>12. wire \in Seq(Byte) /\ wire' = wire BY DEF RingInv
<1>13. InRing' \in Seq(Byte) BY <1>10, <1>11, AppendProperties
<1>14. RingInv' BY <1>1, <1>3, <1>7, <1>12, <1>13 DEF RingInv
<1>15. Output' = Append(Output, b)
  <2>1. Output' = wire \o Append(InRing, b) BY <1>11, <1>12 DEF Output
  <2>2. Append(InRing, b) = InRing \o <<b>> /\ <<b>> \in Seq(Byte) BY <1>10, AppendIsConcat
  <2>3. wire \o (InRing \o <<b>>) = (wire \o InRing) \o <<b>>
    BY <1>10, <1>12, <2>2, ConcatAssociative
  <2>4. (wire \o InRing) \o <<b>> = Append(wire \o InRing, b)
    <3>1. wire \o InRing \in Seq(Byte) BY <1>10, <1>12, ConcatProperties
    <3>. QED BY <3>1, AppendIsConcat
  <2>. QED BY <2>1, <2>2, <2>3, <2>4 DEF Output
<1>. QED BY <1>14, <1>15

\* Starting the transmitter sends nothing by itself.
LEMMA ArmedOut ==
  ASSUME RingInv, TxArm
  PROVE  RingInv' /\ Output' = Output /\ Room' = Room /\ UNCHANGED <<txSlots, txHead>>
BY OutputSame DEF TxArm

\* The least of three numbers is one of them and under the others.
LEMMA LeastIs ==
  ASSUME NEW a \in Nat, NEW b \in Nat, NEW c \in Nat
  PROVE  Min({a, b, c}) \in {a, b, c} /\ Min({a, b, c}) <= a /\ Min({a, b, c}) <= b /\ Min({a, b, c}) <= c
<1>1. \E x \in {a, b, c} : \A y \in {a, b, c} : x <= y OBVIOUS
<1>. QED BY <1>1 DEF Min

\* The free run is no more than the room and ends with the storage: write_span_body().
LEMMA SpanFits ==
  ASSUME RingInv
  PROVE  /\ Room \in Nat /\ (Room > 0 => WriteSpan \in Nat \ {0})
         /\ WriteSpan <= Room /\ WriteSpan \in Nat /\ txHead + WriteSpan <= TxSize
<1>1. txHead \in TxPlace /\ txTail \in TxPlace BY DEF RingInv
<1>2. TxSize \in Nat /\ TxSize > 1 /\ TxCount \in 0..TxSize - 1 /\ Room = TxSize - 1 - TxCount
      /\ TxCount = (IF txTail <= txHead THEN txHead - txTail ELSE txHead - txTail + TxSize)
  BY <1>1, Places
<1>3. WriteSpan = IF txTail > txHead THEN txTail - txHead - 1
                  ELSE IF txTail = 0 THEN TxSize - txHead - 1 ELSE TxSize - txHead
  BY <1>1, <1>2 DEF WriteSpan, TxPlace
<1>. QED BY <1>1, <1>2, <1>3 DEF TxPlace

(* The copy is behind the head, where nothing waits.                         *)
LEMMA CopiedOut ==
  ASSUME RingInv, NEW rest \in Seq(Byte), TxCopy(rest)
  PROVE  /\ RingInv' /\ Output' = Output /\ Room' = Room /\ txHead' = txHead
         /\ Part(rest) \in 1..Len(rest) /\ Part(rest) <= Room /\ txHead + Part(rest) <= TxSize
         /\ \A i \in 1..Part(rest) : txSlots'[txHead + i - 1] = rest[i]
<1>. USE DEF TxCopy
<1>. DEFINE n == Part(rest)
<1>1. txHead \in TxPlace /\ txTail \in TxPlace BY DEF RingInv
<1>2. TxSize \in Nat /\ TxSize > 1 /\ TxCount \in 0..TxSize - 1 /\ Room = TxSize - 1 - TxCount
      /\ TxCount = (IF txTail <= txHead THEN txHead - txTail ELSE txHead - txTail + TxSize)
  BY <1>1, Places
<1>3. /\ WriteSpan <= Room /\ WriteSpan \in Nat /\ txHead + WriteSpan <= TxSize /\ Room \in Nat
  BY SpanFits
<1>4. n \in Nat /\ n <= Len(rest) /\ n <= WriteSpan BY <1>3, TransmitAssumption, LeastIs DEF Part
<1>5. n > 0 OBVIOUS
<1>6. txSlots' = [i \in TxPlace |-> IF i \in txHead..txHead + n - 1 THEN rest[i - txHead + 1] ELSE txSlots[i]]
  <2>1. DOMAIN txSlots = TxPlace BY DEF RingInv
  <2>. QED BY <2>1
<1>. HIDE DEF n
<1>7. UNCHANGED <<txHead, txTail, wire>> OBVIOUS
<1>8. \A i \in 1..n : txSlots'[txHead + i - 1] = rest[i]
  <2>. TAKE i \in 1..n
  <2>1. /\ txHead + i - 1 \in TxPlace /\ txHead + i - 1 \in txHead..txHead + n - 1
        /\ (txHead + i - 1) - txHead + 1 = i
    <3>1. i \in Nat /\ i >= 1 /\ i <= n BY <1>4
    <3>2. txHead \in Nat /\ TxSize \in Nat /\ txHead + n <= TxSize BY <1>1, <1>2, <1>3, <1>4 DEF TxPlace
    <3>. QED BY <1>4, <3>1, <3>2 DEF TxPlace
  <2>. QED BY <1>6, <2>1
<1>9. InRing' = InRing
  <2>1. InRing = [i \in 1..TxCount |-> txSlots[(txTail + i - 1) % TxSize]] BY DEF InRing, TxCount
  <2>2. TxCount' = TxCount BY <1>7 DEF TxCount
  <2>3. InRing' = [i \in 1..TxCount |-> txSlots'[(txTail + i - 1) % TxSize]]
    BY <1>7, <2>2 DEF InRing, TxCount
  <2>4. \A i \in 1..TxCount : txSlots'[(txTail + i - 1) % TxSize] = txSlots[(txTail + i - 1) % TxSize]
    <3>. TAKE i \in 1..TxCount
    <3>. DEFINE p == (txTail + i - 1) % TxSize
    <3>1. p = (IF txTail + i - 1 < TxSize THEN txTail + i - 1 ELSE txTail + i - 1 - TxSize)
      <4>1. i - 1 \in 0..TxSize - 1 /\ txTail + (i - 1) = txTail + i - 1 BY <1>1, <1>2 DEF TxPlace
      <4>2. (txTail + (i - 1)) % TxSize
              = IF txTail + (i - 1) < TxSize THEN txTail + (i - 1) ELSE txTail + (i - 1) - TxSize
        BY <1>1, <4>1, Places
      <4>. QED BY <4>1, <4>2
    <3>. HIDE DEF p
    <3>2. p \in TxPlace /\ p \notin txHead..txHead + n - 1
      BY <1>1, <1>2, <1>3, <1>4, <3>1 DEF TxPlace
    <3>3. txSlots'[p] = txSlots[p] BY <1>6, <3>2
    <3>. QED BY <3>3 DEF p
  <2>. QED BY <2>1, <2>3, <2>4
<1>10. RingInv' BY <1>6, <1>7, <1>9 DEF RingInv
<1>11. Output' = Output /\ Room' = Room BY <1>7, <1>9 DEF Output, Room
<1>12. n \in 1..Len(rest) /\ n <= Room /\ txHead + n <= TxSize BY <1>1, <1>2, <1>3, <1>4, <1>5 DEF TxPlace
<1>. QED BY <1>7, <1>8, <1>10, <1>11, <1>12 DEF n

(* A part published goes out behind the rest.                                *)
LEMMA PublishedOut ==
  ASSUME RingInv, NEW n \in Nat \ {0}, n <= Room, txHead + n <= TxSize, TxPublish(n),
         \A i \in 1..n : txSlots[txHead + i - 1] \in Byte
  PROVE  /\ RingInv' /\ Len(Output') = Len(Output) + n
         /\ \A j \in 1..Len(Output) : Output'[j] = Output[j]
         /\ \A i \in 1..n : Output'[Len(Output) + i] = txSlots[txHead + i - 1]
<1>. USE DEF TxPublish
<1>1. txHead \in TxPlace /\ txTail \in TxPlace BY DEF RingInv
<1>2. TxSize \in Nat /\ TxSize > 1 /\ TxCount \in 0..TxSize - 1 /\ Room = TxSize - 1 - TxCount
      /\ TxCount = (IF txTail <= txHead THEN txHead - txTail ELSE txHead - txTail + TxSize)
  BY <1>1, Places
<1>3. Min({n, Room}) = n BY <1>2 DEF Min
<1>4. txHead' = (IF txHead + n < TxSize THEN txHead + n ELSE txHead + n - TxSize)
      /\ txHead' \in TxPlace /\ txTail' = txTail
  <2>1. n \in 0..TxSize - 1 BY <1>2
  <2>. QED BY <1>1, <1>3, <2>1, Places
<1>5. TxCount' = TxCount + n /\ TxCount + n \in 1..TxSize - 1
  <2>1. TxCount' = (IF txTail' <= txHead' THEN txHead' - txTail' ELSE txHead' - txTail' + TxSize)
    BY <1>1, <1>4, RingOf DEF TxCount
  <2>. QED BY <1>1, <1>2, <1>4, <2>1 DEF TxPlace
<1>6. /\ DOMAIN InRing = 1..TxCount
      /\ \A i \in 1..TxCount :
           InRing[i] = txSlots[IF txTail + i - 1 < TxSize THEN txTail + i - 1
                               ELSE txTail + i - 1 - TxSize]
  BY <1>1, RingAt
<1>7. /\ InRing' = [i \in 1..TxCount' |-> InRing'[i]]
      /\ \A i \in 1..TxCount' :
           InRing'[i] = txSlots[IF txTail + i - 1 < TxSize THEN txTail + i - 1
                                ELSE txTail + i - 1 - TxSize]
  <2>1. InRing' = [i \in 1..TxCount' |-> txSlots'[(txTail' + i - 1) % TxSize]] BY DEF InRing, TxCount
  <2>2. \A i \in 1..TxCount' : (txTail' + i - 1) % TxSize
           = IF txTail' + i - 1 < TxSize THEN txTail' + i - 1 ELSE txTail' + i - 1 - TxSize
    BY <1>1, <1>4, RingOf DEF TxCount
  <2>3. txTail' = txTail /\ txSlots' = txSlots BY <1>4
  <2>. QED BY <2>1, <2>2, <2>3
<1>8. \A i \in 1..TxCount : i \in 1..TxCount' /\ InRing'[i] = InRing[i] BY <1>2, <1>5, <1>6, <1>7
<1>9. \A i \in 1..n : TxCount + i \in 1..TxCount' /\ InRing'[TxCount + i] = txSlots[txHead + i - 1]
  <2>. TAKE i \in 1..n
  <2>1. (IF txTail + (TxCount + i) - 1 < TxSize THEN txTail + (TxCount + i) - 1
         ELSE txTail + (TxCount + i) - 1 - TxSize) = txHead + i - 1
    BY <1>1, <1>2 DEF TxPlace
  <2>2. TxCount + i \in 1..TxCount' BY <1>2, <1>5
  <2>. QED BY <1>7, <2>1, <2>2
<1>10. InRing \in Seq(Byte) /\ Len(InRing) = TxCount BY <1>1, RingAt DEF RingInv
<1>11. InRing' \in Seq(Byte) /\ Len(InRing') = TxCount'
  <2>1. \A i \in 1..TxCount' : InRing'[i] \in Byte
    <3>. TAKE i \in 1..TxCount'
    <3>1. i \in 1..TxCount \/ (i - TxCount \in 1..n /\ TxCount + (i - TxCount) = i) BY <1>2, <1>5
    <3>2. \A j \in 1..TxCount : InRing[j] \in Byte BY <1>10
    <3>. QED BY <1>8, <1>9, <3>1, <3>2
  <2>2. InRing' \in [1..TxCount' -> Byte] BY <1>7, <2>1
  <2>3. TxCount' \in Nat BY <1>2, <1>5
  <2>. QED BY <2>2, <2>3
<1>12. wire \in Seq(Byte) /\ wire' = wire /\ Len(wire) \in Nat BY DEF RingInv
<1>13. RingInv' BY <1>1, <1>4, <1>11, <1>12 DEF RingInv
<1>14. /\ Len(Output') = Len(wire) + Len(InRing')
       /\ \A j \in 1..Len(wire) + Len(InRing') :
            Output'[j] = IF j <= Len(wire) THEN wire[j] ELSE InRing'[j - Len(wire)]
  <2>1. Output' = wire \o InRing' BY <1>12 DEF Output
  <2>. QED BY <1>11, <1>12, <2>1, ConcatProperties
<1>15. /\ Len(Output) = Len(wire) + TxCount
       /\ \A j \in 1..Len(wire) + TxCount :
            Output[j] = IF j <= Len(wire) THEN wire[j] ELSE InRing[j - Len(wire)]
  BY OutputIs
<1>16. \A j \in 1..Len(Output) : Output'[j] = Output[j]
  <2>. TAKE j \in 1..Len(Output)
  <2>0. Len(InRing') = TxCount + n /\ TxCount \in Nat /\ Len(wire) \in Nat BY <1>2, <1>5, <1>11, <1>12
  <2>1. j \in 1..Len(wire) + Len(InRing') /\ j \in 1..Len(wire) + TxCount BY <1>15, <2>0
  <2>2. CASE j <= Len(wire) BY <1>14, <1>15, <2>1, <2>2
  <2>3. CASE ~(j <= Len(wire))
    <3>1. j - Len(wire) \in 1..TxCount BY <1>2, <1>12, <2>1, <2>3
    <3>. QED BY <1>8, <1>14, <1>15, <2>1, <2>3, <3>1
  <2>. QED BY <2>2, <2>3
<1>17. \A i \in 1..n : Output'[Len(Output) + i] = txSlots[txHead + i - 1]
  <2>. TAKE i \in 1..n
  <2>1. /\ Len(Output) + i \in 1..Len(wire) + Len(InRing') /\ ~(Len(Output) + i <= Len(wire))
        /\ (Len(Output) + i) - Len(wire) = TxCount + i
    <3>1. Len(InRing') = TxCount + n /\ TxCount \in Nat /\ Len(wire) \in Nat BY <1>2, <1>5, <1>11, <1>12
    <3>. QED BY <1>15, <3>1
  <2>. QED BY <1>9, <1>14, <2>1
<1>18. Len(Output') = Len(Output) + n
  <2>1. Len(InRing') = TxCount + n /\ TxCount \in Nat /\ Len(wire) \in Nat BY <1>2, <1>5, <1>11, <1>12
  <2>. QED BY <1>14, <1>15, <2>1
<1>. QED BY <1>13, <1>16, <1>17, <1>18

(* The interrupt moves a byte from the ring to the wire.                     *)
LEMMA SentOut ==
  ASSUME RingInv, Dre
  PROVE  /\ RingInv' /\ Output' = Output /\ UNCHANGED <<txSlots, txHead>>
         /\ Room \in Nat /\ Room' \in Nat /\ Room <= Room'
<1>. USE DEF Dre
<1>1. txHead \in TxPlace /\ txTail \in TxPlace BY DEF RingInv
<1>2. TxSize \in Nat /\ TxSize > 1 /\ TxCount \in 0..TxSize - 1 /\ Room = TxSize - 1 - TxCount
      /\ TxCount = (IF txTail <= txHead THEN txHead - txTail ELSE txHead - txTail + TxSize)
  BY <1>1, Places
<1>3. Room \in Nat BY <1>2
<1>4. CASE InRing = <<>> BY <1>3, <1>4, OutputSame
<1>5. CASE InRing # <<>>
  <2>0. InRing \in Seq(Byte) /\ Len(InRing) = TxCount BY <1>1, RingAt DEF RingInv
  <2>1. TxCount >= 1 BY <1>2, <1>5, <2>0, EmptySeq
  <2>2. txTail' = (IF txTail + 1 < TxSize THEN txTail + 1 ELSE txTail + 1 - TxSize)
        /\ txTail' \in TxPlace /\ txHead' = txHead /\ txSlots' = txSlots
        /\ wire' = Append(wire, txSlots[txTail])
    <3>1. 1 \in 0..TxSize - 1 BY <1>2
    <3>. QED BY <1>1, <1>5, <3>1, Places
  <2>3. TxCount' = TxCount - 1
    <3>1. TxCount' = (IF txTail' <= txHead' THEN txHead' - txTail' ELSE txHead' - txTail' + TxSize)
      BY <1>1, <2>2, RingOf DEF TxCount
    <3>. QED BY <1>1, <1>2, <2>1, <2>2, <3>1 DEF TxPlace
  <2>4. \A i \in 1..TxCount :
          InRing[i] = txSlots[IF txTail + i - 1 < TxSize THEN txTail + i - 1
                              ELSE txTail + i - 1 - TxSize]
    BY <1>1, RingAt
  <2>5. /\ InRing' = [i \in 1..TxCount' |-> InRing'[i]]
        /\ \A i \in 1..TxCount' :
             InRing'[i] = txSlots[IF txTail' + i - 1 < TxSize THEN txTail' + i - 1
                                  ELSE txTail' + i - 1 - TxSize]
    <3>1. InRing' = [i \in 1..TxCount' |-> txSlots'[(txTail' + i - 1) % TxSize]] BY DEF InRing, TxCount
    <3>2. \A i \in 1..TxCount' : (txTail' + i - 1) % TxSize
             = IF txTail' + i - 1 < TxSize THEN txTail' + i - 1 ELSE txTail' + i - 1 - TxSize
      BY <1>1, <2>2, RingOf DEF TxCount
    <3>. QED BY <2>2, <3>1, <3>2
  <2>6. Head(InRing) = txSlots[txTail] /\ Head(InRing) = InRing[1]
    <3>1. 1 \in 1..TxCount /\ txTail + 1 - 1 = txTail /\ txTail < TxSize BY <1>1, <1>2, <2>1 DEF TxPlace
    <3>. QED BY <1>5, <2>0, <2>4, <3>1
  <2>7. \A i \in 1..TxCount - 1 : InRing'[i] = InRing[i + 1]
    <3>. TAKE i \in 1..TxCount - 1
    <3>1. i \in 1..TxCount' /\ i + 1 \in 1..TxCount BY <1>2, <2>3
    <3>2. (IF txTail' + i - 1 < TxSize THEN txTail' + i - 1 ELSE txTail' + i - 1 - TxSize)
            = (IF txTail + (i + 1) - 1 < TxSize THEN txTail + (i + 1) - 1 ELSE txTail + (i + 1) - 1 - TxSize)
      BY <1>1, <1>2, <2>2 DEF TxPlace
    <3>. QED BY <2>4, <2>5, <3>1, <3>2
  <2>8. InRing' = Tail(InRing) /\ InRing' \in Seq(Byte)
    <3>1. /\ Tail(InRing) \in Seq(Byte) /\ Len(Tail(InRing)) = TxCount - 1
          /\ \A i \in 1..TxCount - 1 : Tail(InRing)[i] = InRing[i + 1]
      BY <1>5, <2>0, HeadTailProperties
    <3>2. \A i \in 1..TxCount' : InRing'[i] \in Byte
      <4>1. \A i \in 1..TxCount - 1 : i + 1 \in 1..Len(InRing) BY <1>2, <2>0
      <4>. QED BY <2>0, <2>3, <2>7, <4>1
    <3>3. InRing' \in Seq(Byte) /\ Len(InRing') = TxCount - 1
      <4>1. TxCount - 1 \in Nat BY <1>2, <2>1
      <4>. QED BY <2>3, <2>5, <3>2, <4>1
    <3>4. \A i \in 1..TxCount - 1 : InRing'[i] = Tail(InRing)[i] BY <2>7, <3>1
    <3>5. InRing' = Tail(InRing) BY <3>1, <3>3, <3>4, SeqEqual
    <3>. QED BY <3>3, <3>5
  <2>9. wire \in Seq(Byte) /\ txSlots[txTail] \in Byte
    BY <1>5, <2>0, <2>6, HeadTailProperties DEF RingInv
  <2>10. RingInv'
    <3>1. wire' \in Seq(Byte) BY <2>2, <2>9, AppendProperties
    <3>. QED BY <1>1, <2>2, <2>8, <3>1 DEF RingInv
  <2>11. Output' = Output
    <3>. DEFINE b == txSlots[txTail]
                t == Tail(InRing)
    <3>1. Output' = Append(wire, b) \o t BY <2>2, <2>8 DEF Output
    <3>2. Append(wire, b) = wire \o <<b>> /\ <<b>> \in Seq(Byte) BY <2>9, AppendIsConcat
    <3>3. t \in Seq(Byte) BY <2>8
    <3>4. (wire \o <<b>>) \o t = wire \o (<<b>> \o t) BY <2>9, <3>2, <3>3, ConcatAssociative
    <3>5. <<b>> \o t = InRing
      <4>1. /\ <<b>> \o t \in Seq(Byte) /\ Len(<<b>> \o t) = 1 + Len(t)
            /\ \A i \in 1..1 + Len(t) : (<<b>> \o t)[i] = IF i <= 1 THEN <<b>>[i] ELSE t[i - 1]
        BY <3>2, <3>3, ConcatProperties
      <4>2. Len(t) = TxCount - 1 /\ \A i \in 1..TxCount - 1 : t[i] = InRing[i + 1]
        BY <1>5, <2>0, HeadTailProperties
      <4>3. \A i \in 1..TxCount : (<<b>> \o t)[i] = InRing[i]
        <5>. TAKE i \in 1..TxCount
        <5>1. i \in 1..1 + Len(t) BY <1>2, <4>2
        <5>2. CASE i = 1 BY <2>6, <4>1, <5>1, <5>2
        <5>3. CASE i # 1 BY <1>2, <4>1, <4>2, <5>1, <5>3
        <5>. QED BY <5>2, <5>3
      <4>4. Len(<<b>> \o t) = TxCount BY <1>2, <4>1, <4>2
      <4>. QED BY <2>0, <4>1, <4>3, <4>4, SeqEqual
    <3>. QED BY <3>1, <3>2, <3>4, <3>5 DEF Output
  <2>12. Room' = TxSize - 1 - TxCount' BY <1>1, <2>2, RoomOf DEF Room, TxCount
  <2>13. Room' = Room + 1 BY <1>2, <2>3, <2>12
  <2>14. Room' \in Nat /\ Room <= Room' BY <1>3, <2>13
  <2>. QED BY <1>3, <2>2, <2>10, <2>11, <2>14
<1>. QED BY <1>4, <1>5

\* What the assumption on the constants comes to.
LEMMA WriterConstants ==
  /\ SmallStages \in Nat /\ MaxLines \in Nat /\ SeqRange \in Nat \ {0} /\ SmallStages + 2 <= SeqRange
  /\ SmallStages < SeqRange \div 2 /\ Objects \in Nat /\ Main \in Sources /\ MarkSize \in Nat \ {0}
  /\ LongSize \in Nat \ {0} /\ SmallSize \in Nat \ {0}
  /\ Stages = 0..SmallStages /\ NoSlot \notin Stages /\ Refused \notin Stages
  /\ \A size \in Sizes : size \in Nat \ {0}
  /\ \A i \in Stages : Capacity(i) \in Nat \ {0}
<1>1. SmallStages + 2 <= SeqRange BY WriterAssumption
<1>. QED BY <1>1, WriterAssumption, TransmitAssumption DEF Main, Sources, Handler, Stages, NoSlot, Refused, Capacity

\* There is a running context, and it is the last frame.
LEMMA TopIs ==
  ASSUME WriterType
  PROVE  /\ Len(stack) \in Nat \ {0} /\ DOMAIN stack = 1..Len(stack) /\ Len(stack) \in DOMAIN stack
         /\ Top = stack[Len(stack)] /\ Top \in FrameT /\ \A d \in DOMAIN stack : stack[d] \in FrameT
<1>1. stack \in Seq(FrameT) /\ stack # <<>> BY DEF WriterType
<1>2. Len(stack) \in Nat \ {0} BY <1>1, EmptySeq
<1>. QED BY <1>1, <1>2 DEF Top

\* The running frame replaced: the others stay.
LEMMA Becomes ==
  ASSUME WriterType, NEW f \in FrameT, f.src = Top.src, Become(f)
  PROVE  /\ stack' \in Seq(FrameT) /\ stack' # <<>> /\ stack'[1].src = Main /\ Len(stack') = Len(stack)
         /\ DOMAIN stack' = DOMAIN stack /\ stack'[Len(stack)] = f
         /\ \A d \in DOMAIN stack : d # Len(stack) => stack'[d] = stack[d]
<1>1. stack \in Seq(FrameT) /\ Len(stack) \in 1..Len(stack) BY TopIs DEF WriterType
<1>2. stack' = [stack EXCEPT ![Len(stack)] = f] BY DEF Become
<1>3. /\ stack' \in Seq(FrameT) /\ Len(stack') = Len(stack)
      /\ \A d \in 1..Len(stack) : stack'[d] = IF d = Len(stack) THEN f ELSE stack[d]
  BY <1>1, <1>2, ExceptSeq
<1>4. stack' # <<>> BY <1>1, <1>3
<1>5. stack'[1].src = Main BY <1>1, <1>3, TopIs DEF WriterType
<1>. QED BY <1>1, <1>3, <1>4, <1>5

-----------------------------------------------------------------------------
(* What a step leaves alone.                                                *)
\* Stages composed and claimed stay whole where a step leaves them alone.
LEMMA PoolKept ==
  ASSUME PoolInv,
         \A s \in Sources : slot'[s] \in Stages =>
           slot'[s] = slot[s] /\ stages'[slot[s]] = stages[slot[s]] /\ Fresh(stages[slot[s]].line)',
         \A d \in DOMAIN stack' : Claimed(stack'[d]) =>
           /\ d \in DOMAIN stack /\ stack[d] = stack'[d] /\ Fresh(stack[d].line)'
           /\ stages'[stack[d].stage].state = "open"
  PROVE  PoolInv'
<1>1. \A i : Capacity(i)' = Capacity(i) BY DEF Capacity
<1>2. (\A s \in Sources : slot[s] \in Stages =>
       /\ stages[slot[s]].state = "open" /\ Fresh(stages[slot[s]].line)
       /\ stages[slot[s]].size > 0
       /\ stages[slot[s]].overflow \/ stages[slot[s]].size <= Capacity(slot[s]))'
  BY <1>1 DEF PoolInv
<1>3. (\A s, t \in Sources : s # t /\ slot[s] \in Stages /\ slot[t] \in Stages =>
       slot[s] # slot[t] /\ stages[slot[s]].line # stages[slot[t]].line)'
  BY DEF PoolInv
<1>4. (\A d \in DOMAIN stack : Claimed(stack[d]) =>
       stages[stack[d].stage].state = "open" /\ Fresh(stack[d].line))'
  BY DEF PoolInv
<1>5. (\A d, e \in DOMAIN stack : d # e /\ Claimed(stack[d]) /\ Claimed(stack[e]) =>
       stack[d].stage # stack[e].stage /\ stack[d].line # stack[e].line)'
  BY DEF PoolInv
<1>6. (\A s \in Sources, d \in DOMAIN stack : slot[s] \in Stages /\ Claimed(stack[d]) =>
       slot[s] # stack[d].stage /\ stages[slot[s]].line # stack[d].line)'
  BY DEF PoolInv
<1>. QED BY <1>2, <1>3, <1>4, <1>5, <1>6 DEF PoolInv

\* The same frame holds the lock.
SameHolder ==
  /\ \A d \in DOMAIN stack : Holds(stack[d]) =>
       d \in DOMAIN stack' /\ Holds(stack'[d]) /\ stack'[d].stage = stack[d].stage
  /\ \A d \in DOMAIN stack' : Holds(stack'[d]) => d \in DOMAIN stack /\ Holds(stack[d])

\* The lock stays with its holder where a step moves no line in or out of its hands.
LEMMA LockKept ==
  ASSUME LockInv, busy' = busy, SameHolder,
         \A i \in Stages : stages'[i].state = "publishing" <=> stages[i].state = "publishing",
         \A i \in Stages : stages'[i].state = "pending" => busy,
         \A d \in DOMAIN stack : stack[d].stage \in Stages
  PROVE  LockInv'
<1>1. (busy <=> \E d \in DOMAIN stack : Holds(stack[d]))' BY DEF LockInv, SameHolder
<1>2. (\A d, e \in DOMAIN stack : Holds(stack[d]) /\ Holds(stack[e]) => d = e)' BY DEF LockInv, SameHolder
<1>3. (\A d \in DOMAIN stack : Holds(stack[d]) => stages[stack[d].stage].state = "publishing")'
  BY DEF LockInv, SameHolder
<1>4. (\A i \in In("publishing") : \E d \in DOMAIN stack : Holds(stack[d]) /\ stack[d].stage = i)'
  BY DEF LockInv, SameHolder, In
<1>5. (In("pending") # {} => busy)' BY DEF In
<1>. QED BY <1>1, <1>2, <1>3, <1>4, <1>5 DEF LockInv

\* A line keeps its turn while none is completed.
LEMMA TurnKept ==
  ASSUME completed' = completed, NEW l
  PROVE  Turn(l)' = Turn(l) /\ (Done(l)' <=> Done(l))
BY DEF Turn, Done

\* The lines published and pending stay as they are where a step frees some only.
LEMMA LineKept ==
  ASSUME LineInv, completed' = completed,
         \A i \in Stages : stages'[i].state \in {"pending", "publishing"} =>
           /\ stages[i].state \in {"pending", "publishing"} /\ stages'[i].size = stages[i].size
           /\ stages'[i].line = stages[i].line /\ stages[i].line \notin refused'
  PROVE  LineInv'
<1>1. \A i : Capacity(i)' = Capacity(i) BY DEF Capacity
<1>. QED BY <1>1 DEF LineInv, In, Done

\* The lines published and pending are the same.
SameQueue == \A i \in Stages : /\ stages'[i].state = "pending" <=> stages[i].state = "pending"
                               /\ stages'[i].state = "publishing" <=> stages[i].state = "publishing"
                               /\ stages[i].state \in {"pending", "publishing"} =>
                                    stages'[i].line = stages[i].line /\ stages'[i].seq = stages[i].seq

\* The queue under the lock stays as it is with its numbers.
LEMMA QueueKept ==
  ASSUME QueueInv, completed' = completed, seqNo' = seqNo, SameQueue
  PROVE  QueueInv'
<1>1. In("pending")' = In("pending") /\ In("publishing")' = In("publishing") BY DEF SameQueue, In
<1>2. \A i \in In("pending") \cup In("publishing") :
        TurnAt(i)' = TurnAt(i) /\ stages'[i].line = stages[i].line /\ stages'[i].seq = stages[i].seq
  BY DEF SameQueue, In, TurnAt, Turn
<1>. QED BY <1>1, <1>2 DEF QueueInv

\* What went out stays in order where nothing goes out.
LEMMA SentKept ==
  ASSUME SentInv, completed' = completed, Output' = Output,
         \A i \in Stages : stages'[i].state = "publishing" =>
           stages[i].state = "publishing" /\ stages'[i].line = stages[i].line
  PROVE  SentInv'
<1>1. \A i \in In("publishing")' : i \in In("publishing") /\ TurnAt(i)' = TurnAt(i) BY DEF In, TurnAt, Turn
<1>2. \A l : Turn(l)' = Turn(l) /\ (Done(l)' <=> Done(l)) BY TurnKept
<1>. QED BY <1>1, <1>2 DEF SentInv

\* What went out stays whole where nothing goes out.
LEMMA ChainedKept ==
  ASSUME Chained, Output' = Output
  PROVE  Chained'
BY DEF Chained

\* The same run is under way.
SameUnderway ==
  /\ \A d \in DOMAIN stack : Underway(stack[d]) => d \in DOMAIN stack' /\ stack'[d] = stack[d]
  /\ \A d \in DOMAIN stack' : Underway(stack'[d]) => d \in DOMAIN stack /\ stack'[d] = stack[d]

\* The run under way stays where it is while only the transmitter takes from the ring.
LEMMA WireKept ==
  ASSUME WireInv, LockInv, WriterType, SameUnderway,
         Output' = Output, txSlots' = txSlots, txHead' = txHead, marked' = marked,
         Room \in Nat, Room' \in Nat, Room <= Room',
         \A i \in Stages : stages[i].state = "publishing" => stages'[i] = stages[i]
  PROVE  WireInv'
<1>1. Chained' BY ChainedKept DEF WireInv
<1>2. (\A d \in DOMAIN stack' : ~Underway(stack'[d])) =>
       Len(Output') = 0 \/ Output'[Len(Output')].k = Output'[Len(Output')].size
  BY DEF WireInv, SameUnderway
<1>3. ASSUME NEW d \in DOMAIN stack', Underway(stack'[d])
      PROVE  Ending(stack[d])'
  <2>. DEFINE f == stack[d]
  <2>1. d \in DOMAIN stack /\ Underway(f) /\ stack'[d] = f BY <1>3 DEF SameUnderway
  <2>2. f \in FrameT /\ Holds(f) /\ stages[f.stage].state = "publishing" /\ f.stage \in Stages
    BY <2>1, TopIs DEF LockInv, Holds, Underway, Stops, FrameT
  <2>3. Ending(f) BY <2>1 DEF WireInv
  <2>4. stages'[f.stage] = stages[f.stage] BY <2>2
  <2>5. \A i : Capacity(i)' = Capacity(i) BY DEF Capacity
  <2>6. Run(stack[d])' = Run(f) BY <2>1, <2>4, <2>5 DEF Run, StageBytes
  <2>7. f.pc = "publish" => f.part \in Nat /\ f.part <= Room' BY <2>2, <2>3 DEF Ending, FrameT
  <2>. QED BY <2>1, <2>3, <2>6, <2>7 DEF Ending
<1>. QED BY <1>1, <1>2, <1>3 DEF WireInv

(* The frames that compose or hold stay as they are.                         *)
SameFrames ==
  /\ \A d \in DOMAIN stack : stack[d].pc # "run" => d \in DOMAIN stack' /\ stack'[d] = stack[d]
  /\ \A d \in DOMAIN stack' : stack'[d].pc # "run" => d \in DOMAIN stack /\ stack'[d] = stack[d]

\* Frames kept keep the holder and the run under way.
LEMMA WorkKept ==
  ASSUME SameFrames
  PROVE  SameHolder /\ SameUnderway
BY DEF SameFrames, SameHolder, SameUnderway, Holds, Underway, Stops

\* A step that leaves the ring alone leaves what goes out alone.
LEMMA RingSame ==
  ASSUME RingInv, UNCHANGED txVars
  PROVE  /\ RingInv' /\ Output' = Output /\ Room \in Nat /\ Room' = Room
         /\ txSlots' = txSlots /\ txHead' = txHead
BY OutputSame, SpanFits DEF txVars

\* A step that only enters, leaves or closes a refused line keeps the invariant.
LEMMA Idle ==
  ASSUME LinesInv, SameFrames, stack' \in Seq(FrameT), stack' # <<>>, stack'[1].src = Main,
         UNCHANGED <<txVars, busy, marked, stages, seqNo, lostLines, begun, completed, refused>>,
         slot' \in [Sources -> Stages \cup {NoSlot, Refused}],
         \A s \in Sources : slot'[s] \in Stages => slot'[s] = slot[s]
  PROVE  LinesInv'
<1>. USE DEF LinesInv
<1>1. /\ RingInv' /\ Output' = Output /\ Room \in Nat /\ Room' = Room
      /\ txSlots' = txSlots /\ txHead' = txHead
  BY RingSame
<1>2. WriterType' BY DEF WriterType
<1>3. CountInv' BY DEF CountInv, SameFrames, Holds, Stops
<1>4. PoolInv' BY PoolKept DEF Fresh, PoolInv, SameFrames, Claimed
<1>5. LockInv' BY TopIs, WorkKept, LockKept DEF LockInv, In, FrameT
<1>6. LineInv' BY LineKept DEF LineInv, In
<1>7. QueueInv' BY QueueKept DEF SameQueue
<1>8. SentInv' BY <1>1, SentKept
<1>9. WireInv' BY <1>1, WorkKept, WireKept
<1>. QED BY <1>1, <1>2, <1>3, <1>4, <1>5, <1>6, <1>7, <1>8, <1>9

\* A context entered holds nothing yet.
LEMMA EnterKeeps == ASSUME LinesInv, NEW src \in Sources, Enter(src) PROVE LinesInv'
<1>. USE DEF Enter
<1>1. stack \in Seq(FrameT) /\ stack # <<>> /\ stack[1].src = Main BY DEF LinesInv, WriterType
<1>2. Frame(src) \in FrameT /\ Frame(src).pc = "run"
  BY WriterConstants DEF Frame, FrameT, Stops
<1>3. stack' \in Seq(FrameT) /\ stack' # <<>> /\ stack'[1].src = Main BY <1>1, <1>2
<1>4. SameFrames BY <1>1, <1>2 DEF SameFrames
<1>5. slot' \in [Sources -> Stages \cup {NoSlot, Refused}] BY DEF LinesInv, WriterType, poolVars
<1>. QED BY <1>3, <1>4, <1>5, Idle DEF poolVars

\* A context left holds nothing any more.
LEMMA LeaveKeeps == ASSUME LinesInv, Leave PROVE LinesInv'
<1>. USE DEF Leave
<1>. DEFINE n == Len(stack)
<1>1. /\ stack \in Seq(FrameT) /\ n \in Nat \ {0} /\ Top = stack[n] /\ stack[1].src = Main
      /\ DOMAIN stack = 1..n
  BY TopIs DEF LinesInv, WriterType
<1>2. Top.pc = "run" /\ Top.src # Main BY DEF At
<1>3. n - 1 \in 1..n BY <1>1, <1>2
<1>4. stack' = SubSeq(stack, 1, n - 1) OBVIOUS
<1>. HIDE DEF n
<1>5. /\ stack' \in Seq(FrameT) /\ Len(stack') = n - 1 /\ \A d \in 1..n - 1 : stack'[d] = stack[d]
  BY <1>1, <1>3, <1>4
<1>6. SameFrames BY <1>1, <1>2, <1>3, <1>5 DEF SameFrames
<1>7. stack' # <<>> /\ stack'[1].src = Main
  <2>1. 1 \in 1..n - 1 /\ n - 1 # 0 BY <1>1, <1>3
  <2>2. stack' # <<>> BY <1>5, <2>1
  <2>. QED BY <1>1, <1>5, <2>1, <2>2
<1>8. slot' \in [Sources -> Stages \cup {NoSlot, Refused}] BY DEF LinesInv, WriterType, poolVars
<1>. QED BY <1>5, <1>6, <1>7, <1>8, Idle DEF poolVars

\* The end of a refused line leaves the pool alone.
LEMMA EndRefusedKeeps == ASSUME LinesInv, EndRefused PROVE LinesInv'
<1>. USE DEF EndRefused
<1>. DEFINE f == [Top EXCEPT !.printed = TRUE]
<1>1. Top \in FrameT /\ Top.pc = "run" /\ Top = stack[Len(stack)] BY TopIs DEF At, LinesInv
<1>2. f \in FrameT /\ f.src = Top.src /\ f.pc = "run" /\ Become(f) BY <1>1 DEF FrameT, Printed
<1>. HIDE DEF f
<1>3. /\ stack' \in Seq(FrameT) /\ stack' # <<>> /\ stack'[1].src = Main
      /\ DOMAIN stack' = DOMAIN stack /\ stack'[Len(stack)] = f
      /\ \A d \in DOMAIN stack : d # Len(stack) => stack'[d] = stack[d]
  BY <1>2, Becomes DEF LinesInv
<1>4. SameFrames BY <1>1, <1>2, <1>3 DEF SameFrames
<1>5. /\ slot' \in [Sources -> Stages \cup {NoSlot, Refused}]
      /\ \A s \in Sources : slot'[s] \in Stages => slot'[s] = slot[s]
  BY WriterConstants DEF LinesInv, WriterType
<1>. QED BY <1>3, <1>4, <1>5, Idle DEF poolVars

\* The interrupt moves a byte to the wire and makes room for the run under way.
LEMMA TransmitKeeps == ASSUME LinesInv, Transmit PROVE LinesInv'
<1>. USE DEF LinesInv, Transmit
<1>1. /\ RingInv' /\ Output' = Output /\ txSlots' = txSlots /\ txHead' = txHead
      /\ Room \in Nat /\ Room' \in Nat /\ Room <= Room'
  BY SentOut
<1>2. UNCHANGED <<stack, busy, marked, stages, slot, seqNo, lostLines, begun, completed, refused>>
  BY DEF poolVars
<1>3. WriterType' /\ CountInv' BY <1>2 DEF WriterType, CountInv
<1>4. PoolInv' /\ LockInv' BY <1>2 DEF PoolInv, LockInv, Fresh, In, Capacity
<1>5. LineInv' /\ QueueInv' BY <1>2 DEF LineInv, QueueInv, In, Capacity, Done, TurnAt, Turn
<1>6. SentInv' BY <1>1, <1>2, SentKept
<1>7. SameUnderway BY <1>2 DEF SameUnderway
<1>8. WireInv' BY <1>1, <1>2, <1>7, WireKept
<1>. QED BY <1>1, <1>3, <1>4, <1>5, <1>6, <1>8

-----------------------------------------------------------------------------
(* A line composed.                                                         *)
LEMMA Less == IsWellFoundedOn({p \in Nat \X Nat : p[1] < p[2]}, Nat)
<1>1. {p \in Nat \X Nat : p[1] < p[2]} = OpToRel(<, Nat) BY DEF OpToRel
<1>. QED BY <1>1, NatLessThanWellFounded

\* A set of stages that is not empty has its least: first_in().
LEMMA LeastOf ==
  ASSUME NEW S \in SUBSET Stages, S # {}
  PROVE  Min(S) \in S
<1>1. S \subseteq Nat BY WriterConstants
<1>2. PICK x \in S : \A y \in S : ~(<<y, x>> \in {p \in Nat \X Nat : p[1] < p[2]})
  BY <1>1, Less, WFMin
<1>3. ASSUME NEW y \in S
      PROVE  x <= y
  <2>1. <<y, x>> \notin {p \in Nat \X Nat : p[1] < p[2]} /\ x \in Nat /\ y \in Nat BY <1>1, <1>2
  <2>2. ~(y < x) BY <2>1
  <2>. QED BY <2>1, <2>2
<1>. QED BY <1>3 DEF Min

\* A line refused is counted once.
LEMMA RefusedMore ==
  ASSUME CountInv, begun \in Nat, NEW l \in Nat \ refused,
         refused' = refused \cup {l}, lostLines' = lostLines + 1, begun' \in Nat, begun <= begun',
         l \in 1..begun', marked \in Nat, marked' = marked
  PROVE  /\ lostLines \in Nat /\ refused' \subseteq 1..begun' /\ lostLines' = Cardinality(refused')
         /\ marked' <= lostLines'
<1>1. refused \subseteq 1..begun /\ lostLines = Cardinality(refused) /\ marked <= lostLines BY DEF CountInv
<1>2. IsFiniteSet(1..begun) BY FS_Interval
<1>3. IsFiniteSet(refused) BY <1>1, <1>2, FS_Subset
<1>4. Cardinality(refused') = Cardinality(refused) + 1 /\ Cardinality(refused) \in Nat
  BY <1>3, FS_AddElement, FS_CardinalityType
<1>5. refused' \subseteq 1..begun' BY <1>1
<1>. QED BY <1>1, <1>4, <1>5

\* No more lines are lost than were begun.
LEMMA CountNat ==
  ASSUME CountInv, begun \in Nat
  PROVE  lostLines \in Nat /\ lostLines <= begun
<1>1. IsFiniteSet(1..begun) /\ Cardinality(1..begun) = begun BY FS_Interval
<1>2. Cardinality(refused) \in Nat /\ Cardinality(refused) <= Cardinality(1..begun)
  BY <1>1, FS_Subset, FS_CardinalityType DEF CountInv
<1>. QED BY <1>1, <1>2 DEF CountInv

\* take() gives a stage no other source has, or refuses a line of its own.
LEMMA ClaimKeeps == ASSUME LinesInv, Claim PROVE LinesInv'
<1>. USE DEF LinesInv, Claim
<1>. DEFINE free == {i \in In("free") : i > 0 \/ MayWait(Top.src)}
            n == Len(stack)
<1>0. PICK line \in Nat : line = begun + 1 BY DEF WriterType
<1>1. /\ RingInv' /\ Output' = Output /\ Room \in Nat /\ Room' = Room
      /\ txSlots' = txSlots /\ txHead' = txHead
  BY RingSame
<1>2. Top \in FrameT /\ Top.pc = "run" /\ Top = stack[n] /\ n \in DOMAIN stack
      /\ \A d \in DOMAIN stack : stack[d] \in FrameT
  BY TopIs DEF At
<1>3. begun \in Nat /\ begun' = line /\ line \in 0..MaxLines /\ line \in 1..line
      /\ 1..begun \subseteq 1..line /\ marked \in Nat /\ marked' = marked /\ line \in Nat
  <2>1. begun \in Nat /\ begun <= MaxLines /\ marked \in Nat BY WriterConstants DEF WriterType
  <2>2. begun < MaxLines /\ begun' = line /\ marked' = marked BY <1>0
  <2>. QED BY <1>0, <2>1, <2>2, WriterConstants
<1>4. UNCHANGED <<busy, seqNo, completed, waitFrom>> OBVIOUS
<1>5. \A k \in 1..Len(completed) : completed[k] \in 1..begun BY DEF WriterType
<1>6. completed' \in Seq(1..begun') BY <1>3, <1>4 DEF WriterType
<1>7. lostLines \in Nat BY <1>3, CountNat
<1>. HIDE DEF Claim
<1>8. CASE free = {} /\ lostLines' = lostLines + 1 /\ refused' = refused \cup {line}
           /\ slot' = [slot EXCEPT ![Top.src] = Refused] /\ Printed /\ UNCHANGED stages
  <2>. DEFINE f == [Top EXCEPT !.printed = TRUE]
  <2>1. f \in FrameT /\ f.src = Top.src /\ f.pc = "run" /\ Become(f) BY <1>2, <1>8 DEF FrameT, Printed
  <2>. HIDE DEF f
  <2>2. /\ stack' \in Seq(FrameT) /\ stack' # <<>> /\ stack'[1].src = Main
        /\ DOMAIN stack' = DOMAIN stack /\ stack'[n] = f
        /\ \A d \in DOMAIN stack : d # n => stack'[d] = stack[d]
    BY <2>1, Becomes
  <2>3. SameFrames BY <1>2, <2>1, <2>2 DEF SameFrames
  <2>4. /\ slot' \in [Sources -> Stages \cup {NoSlot, Refused}]
        /\ \A s \in Sources : slot'[s] \in Stages => slot'[s] = slot[s]
    BY <1>8, WriterConstants DEF WriterType
  <2>5. line \notin refused BY <1>0, <1>3 DEF CountInv
  <2>6. CountInv'
    <3>1. refused' \subseteq 1..begun' /\ lostLines' = Cardinality(refused') /\ marked' <= lostLines'
      BY <1>3, <1>8, <2>5, RefusedMore
    <3>2. \A d \in DOMAIN stack' : Holds(stack'[d]) => stack'[d].now <= lostLines
      BY <2>3 DEF SameFrames, CountInv, Holds, Stops
    <3>3. \A d \in DOMAIN stack' : stack'[d].now \in Nat
      <4>1. \A d \in DOMAIN stack' : stack'[d] \in FrameT BY <2>2
      <4>. QED BY <4>1 DEF FrameT
    <3>. QED BY <1>7, <1>8, <3>1, <3>2, <3>3 DEF CountInv
  <2>7. WriterType' BY <1>3, <1>4, <1>6, <1>8, <2>2, <2>4 DEF WriterType
  <2>8. PoolInv'
    <3>1. \A l : Fresh(l) => Fresh(l)' BY <1>0, <1>3, <1>4, <1>8 DEF Fresh
    <3>2. \A s \in Sources : slot'[s] \in Stages => Fresh(stages[slot[s]].line)'
      BY <1>8, <2>4, <3>1 DEF PoolInv
    <3>3. \A d \in DOMAIN stack' : Claimed(stack'[d]) =>
             /\ d \in DOMAIN stack /\ stack[d] = stack'[d] /\ Fresh(stack[d].line)'
             /\ stages'[stack[d].stage].state = "open"
      BY <1>8, <2>3, <3>1 DEF PoolInv, SameFrames, Claimed
    <3>. QED BY <1>8, <2>4, <3>2, <3>3, PoolKept
  <2>9. LockInv'
    <3>1. \A i \in Stages : stages[i].state = "pending" => busy BY DEF LockInv, In
    <3>2. \A d \in DOMAIN stack : stack[d].stage \in Stages BY <1>2 DEF FrameT
    <3>. QED BY <1>4, <1>8, <2>3, <3>1, <3>2, WorkKept, LockKept
  <2>10. LineInv'
    <3>1. \A i \in Stages : stages[i].state \in {"pending", "publishing"} => stages[i].line \notin refused'
      BY <1>0, <1>3, <1>5, <1>8 DEF LineInv, In, Done
    <3>. QED BY <1>4, <1>8, <3>1, LineKept
  <2>11. QueueInv' BY <1>4, <1>8, QueueKept DEF SameQueue
  <2>12. SentInv' BY <1>1, <1>4, <1>8, SentKept
  <2>13. WireInv' BY <1>1, <1>3, <1>8, <2>3, WorkKept, WireKept
  <2>. QED BY <1>1, <2>6, <2>7, <2>8, <2>9, <2>10, <2>11, <2>12, <2>13
<1>9. CASE /\ free # {} /\ stages' = [stages EXCEPT ![Min(free)].state = "open"]
           /\ Become([Top EXCEPT !.pc = "claimed", !.printed = TRUE, !.stage = Min(free), !.line = line])
           /\ UNCHANGED <<slot, lostLines, refused>>
  <2>. DEFINE i0 == Min(free)
              f == [Top EXCEPT !.pc = "claimed", !.printed = TRUE, !.stage = i0, !.line = line]
  <2>1. i0 \in Stages /\ stages[i0].state = "free" BY <1>9, LeastOf DEF In
  <2>. HIDE DEF i0, free
  <2>2. f \in FrameT /\ f.src = Top.src /\ f.pc = "claimed" /\ Become(f) /\ f.stage = i0 /\ f.line = line
    BY <1>2, <1>3, <1>9, <2>1 DEF FrameT, Stops, i0
  <2>. HIDE DEF f
  <2>3. /\ stack' \in Seq(FrameT) /\ stack' # <<>> /\ stack'[1].src = Main
        /\ DOMAIN stack' = DOMAIN stack /\ stack'[n] = f
        /\ \A d \in DOMAIN stack : d # n => stack'[d] = stack[d]
    BY <2>2, Becomes
  <2>4. /\ stages' = [stages EXCEPT ![i0].state = "open"] /\ stages \in [Stages -> StageT]
        /\ UNCHANGED <<slot, lostLines, refused>>
    BY <1>9 DEF i0, WriterType
  <2>5. stages' \in [Stages -> StageT] /\ \A i \in Stages : i # i0 => stages'[i] = stages[i]
    BY <2>1, <2>4 DEF StageT
  <2>6. stages'[i0].state = "open" BY <2>1, <2>4 DEF StageT
  <2>7. WriterType' BY <1>3, <1>4, <1>6, <2>3, <2>4, <2>5 DEF WriterType
  <2>8. SameHolder /\ SameUnderway
    BY <1>2, <2>2, <2>3 DEF SameHolder, SameUnderway, Holds, Underway, Stops
  <2>9. CountInv' BY <1>2, <1>3, <2>2, <2>3, <2>4 DEF CountInv, Holds, Stops
  <2>10. PoolInv'
    <3>1. \A l : Fresh(l) => Fresh(l)' /\ l # line BY <1>0, <1>3, <1>4, <2>4 DEF Fresh
    <3>2. Fresh(line)' BY <1>0, <1>3, <1>4, <1>5, <2>4 DEF CountInv, Fresh
    <3>3. \A s \in Sources : slot[s] \in Stages => slot[s] # i0 /\ stages'[slot[s]] = stages[slot[s]]
      BY <2>1, <2>5 DEF PoolInv
    <3>4. \A d \in DOMAIN stack : Claimed(stack[d]) => stack[d].stage # i0 /\ d # n
      BY <1>2, <2>1 DEF PoolInv, Claimed
    <3>5. \A d \in DOMAIN stack' : Claimed(stack'[d]) =>
            \/ d = n /\ stack'[d] = f
            \/ d # n /\ stack'[d] = stack[d] /\ Claimed(stack[d]) /\ stack[d].stage # i0 /\ stack[d].line # line
      BY <2>3, <3>1, <3>4 DEF PoolInv
    <3>6. \A d \in DOMAIN stack : stack[d].stage \in Stages BY <1>2 DEF FrameT
    <3>7. (\A s \in Sources : slot[s] \in Stages =>
           /\ stages[slot[s]].state = "open" /\ Fresh(stages[slot[s]].line)
           /\ stages[slot[s]].size > 0
           /\ stages[slot[s]].overflow \/ stages[slot[s]].size <= Capacity(slot[s]))'
      BY <2>4, <3>1, <3>3 DEF PoolInv, Capacity
    <3>8. (\A s, t \in Sources : s # t /\ slot[s] \in Stages /\ slot[t] \in Stages =>
           slot[s] # slot[t] /\ stages[slot[s]].line # stages[slot[t]].line)'
      BY <2>4, <3>3 DEF PoolInv
    <3>9. (\A d \in DOMAIN stack : Claimed(stack[d]) =>
           stages[stack[d].stage].state = "open" /\ Fresh(stack[d].line))'
      BY <2>2, <2>3, <2>5, <2>6, <3>1, <3>2, <3>5, <3>6 DEF PoolInv
    <3>10. (\A d, e \in DOMAIN stack : d # e /\ Claimed(stack[d]) /\ Claimed(stack[e]) =>
           stack[d].stage # stack[e].stage /\ stack[d].line # stack[e].line)'
      BY <2>2, <2>3, <3>5 DEF PoolInv
    <3>11. (\A s \in Sources, d \in DOMAIN stack : slot[s] \in Stages /\ Claimed(stack[d]) =>
           slot[s] # stack[d].stage /\ stages[slot[s]].line # stack[d].line)'
      BY <2>2, <2>3, <2>4, <3>1, <3>3, <3>5 DEF PoolInv
    <3>. QED BY <3>7, <3>8, <3>9, <3>10, <3>11 DEF PoolInv
  <2>11. LockInv'
    <3>1. \A i \in Stages : stages'[i].state = "pending" => busy BY <2>5, <2>6 DEF LockInv, In
    <3>2. \A d \in DOMAIN stack : stack[d].stage \in Stages BY <1>2 DEF FrameT
    <3>3. \A i \in Stages : stages'[i].state = "publishing" <=> stages[i].state = "publishing"
      BY <2>1, <2>5, <2>6
    <3>. QED BY <1>4, <2>8, <3>1, <3>2, <3>3, LockKept
  <2>12. LineInv' BY <1>4, <2>4, <2>5, <2>6, LineKept DEF LineInv, In
  <2>13. QueueInv'
    <3>1. SameQueue BY <2>1, <2>5, <2>6 DEF SameQueue
    <3>. QED BY <1>4, <3>1, QueueKept
  <2>14. SentInv' BY <1>1, <1>4, <2>5, <2>6, SentKept
  <2>15. WireInv'
    <3>1. \A i \in Stages : stages[i].state = "publishing" => stages'[i] = stages[i] BY <2>1, <2>5
    <3>. QED BY <1>1, <1>3, <2>8, <3>1, WireKept
  <2>. QED BY <1>1, <2>7, <2>9, <2>10, <2>11, <2>12, <2>13, <2>14, <2>15
<1>. QED BY <1>0, <1>8, <1>9 DEF Claim

\* A stage that is neither published nor pending changes under nobody.
LEMMA Aside ==
  ASSUME LinesInv, NEW i0 \in Stages,
         stages[i0].state \notin {"pending", "publishing"}, stages'[i0].state \notin {"pending", "publishing"},
         \A i \in Stages : i # i0 => stages'[i] = stages[i],
         SameHolder, SameUnderway, UNCHANGED <<txVars, busy, marked, seqNo, completed>>,
         \A i \in Stages : stages[i].state \in {"pending", "publishing"} => stages[i].line \notin refused'
  PROVE  RingInv' /\ LockInv' /\ LineInv' /\ QueueInv' /\ SentInv' /\ WireInv'
<1>. USE DEF LinesInv
<1>1. /\ RingInv' /\ Output' = Output /\ Room \in Nat /\ Room' = Room
      /\ txSlots' = txSlots /\ txHead' = txHead
  BY RingSame
<1>2. \A i \in Stages : stages[i].state \in {"pending", "publishing"} \/ stages'[i].state \in {"pending", "publishing"} =>
        stages'[i] = stages[i]
  OBVIOUS
<1>3. LockInv' BY <1>2, TopIs, LockKept DEF LockInv, In, FrameT
<1>4. LineInv' BY <1>2, LineKept
<1>5. QueueInv' BY <1>2, QueueKept DEF SameQueue
<1>6. SentInv' BY <1>1, <1>2, SentKept
<1>7. WireInv' BY <1>1, <1>2, WireKept
<1>. QED BY <1>1, <1>3, <1>4, <1>5, <1>6, <1>7

\* A stage claimed becomes its source's open line.
LEMMA ComposeKeeps == ASSUME LinesInv, Compose PROVE LinesInv'
<1>. USE DEF LinesInv
<1>. DEFINE n == Len(stack)
            f == [Top EXCEPT !.pc = "run"]
<1>1. /\ Top \in FrameT /\ Top.pc = "claimed" /\ Top = stack[n] /\ n \in DOMAIN stack /\ Top.src \in Sources
      /\ \A d \in DOMAIN stack : stack[d] \in FrameT /\ stack[d].stage \in Stages
  BY TopIs DEF At, FrameT, Compose
<1>2. f \in FrameT /\ f.src = Top.src /\ f.pc = "run" /\ Become(f) BY <1>1 DEF FrameT, GoTo, Compose, Stops
<1>. HIDE DEF f
<1>3. /\ stack' \in Seq(FrameT) /\ stack' # <<>> /\ stack'[1].src = Main
      /\ DOMAIN stack' = DOMAIN stack /\ stack'[n] = f
      /\ \A d \in DOMAIN stack : d # n => stack'[d] = stack[d]
  BY <1>2, Becomes
<1>4. PICK i0 \in Stages : i0 = Top.stage BY <1>1
<1>5. PICK src \in Sources : src = Top.src BY <1>1
<1>6. PICK line \in Nat : line = Top.line BY <1>1 DEF FrameT
<1>7. PICK size \in Sizes :
        stages' = [stages EXCEPT ![i0] = [line |-> line, size |-> size, owner |-> src, state |-> "open",
                                          seq |-> @.seq, overflow |-> size > Capacity(i0)]]
  BY <1>4, <1>5, <1>6 DEF Compose
<1>8. /\ slot' = [slot EXCEPT ![src] = i0] /\ slot \in [Sources -> Stages \cup {NoSlot, Refused}]
      /\ UNCHANGED <<txVars, waitFrom, busy, marked, seqNo, lostLines, begun, completed, refused>>
  BY <1>4, <1>5 DEF Compose, WriterType
<1>9. stages \in [Stages -> StageT] /\ size \in Nat \ {0} /\ Capacity(i0) \in Nat
  BY WriterConstants DEF WriterType
<1>10. /\ stages'[i0] \in StageT /\ stages'[i0].line = line /\ stages'[i0].size = size
       /\ stages'[i0].state = "open" /\ stages'[i0].overflow = (size > Capacity(i0))
       /\ \A i \in Stages : i # i0 => stages'[i] = stages[i]
       /\ stages' \in [Stages -> StageT]
  BY <1>7, <1>9 DEF StageT
<1>11. /\ slot' \in [Sources -> Stages \cup {NoSlot, Refused}] /\ slot'[src] = i0
       /\ \A s \in Sources : s # src => slot'[s] = slot[s]
  BY <1>8
<1>12. WriterType' BY <1>3, <1>8, <1>10, <1>11 DEF WriterType
<1>13. SameHolder /\ SameUnderway
  BY <1>1, <1>2, <1>3 DEF SameHolder, SameUnderway, Holds, Underway, Stops
<1>14. CountInv' BY <1>2, <1>3, <1>8 DEF CountInv, Holds, Stops
<1>15. stages[i0].state = "open" /\ Fresh(line) BY <1>1, <1>4, <1>6 DEF PoolInv, Claimed
<1>16. PoolInv'
  <2>1. \A l : Fresh(l) => Fresh(l)' BY <1>8 DEF Fresh
  <2>2. \A s \in Sources : s # src /\ slot[s] \in Stages =>
          /\ slot'[s] = slot[s] /\ slot[s] # i0 /\ stages'[slot[s]] = stages[slot[s]]
          /\ stages[slot[s]].line # line
    BY <1>1, <1>4, <1>6, <1>10, <1>11 DEF PoolInv, Claimed
  <2>3. \A d \in DOMAIN stack' : Claimed(stack'[d]) =>
          /\ d # n /\ stack'[d] = stack[d] /\ Claimed(stack[d]) /\ stack[d].stage # i0 /\ stack[d].line # line
    BY <1>1, <1>2, <1>3, <1>4, <1>6 DEF PoolInv, Claimed
  <2>4. (\A s \in Sources : slot[s] \in Stages =>
         /\ stages[slot[s]].state = "open" /\ Fresh(stages[slot[s]].line)
         /\ stages[slot[s]].size > 0
         /\ stages[slot[s]].overflow \/ stages[slot[s]].size <= Capacity(slot[s]))'
    <3>1. ASSUME NEW s \in Sources, slot'[s] \in Stages
          PROVE  /\ stages'[slot'[s]].state = "open" /\ Fresh(stages[slot[s]].line)'
                 /\ stages'[slot'[s]].size > 0
                 /\ stages'[slot'[s]].overflow \/ stages'[slot'[s]].size <= Capacity(slot[s])'
      <4>1. \A i : Capacity(i)' = Capacity(i) BY DEF Capacity
      <4>2. CASE s = src
        <5>1. Fresh(line)' BY <1>15, <2>1
        <5>2. size > 0 /\ (size > Capacity(i0) \/ size <= Capacity(i0)) BY <1>9
        <5>. QED BY <1>10, <1>11, <4>1, <4>2, <5>1, <5>2
      <4>3. CASE s # src
        <5>1. slot[s] \in Stages /\ slot'[s] = slot[s] /\ stages'[slot[s]] = stages[slot[s]]
          BY <1>11, <2>2, <3>1, <4>3
        <5>2. Fresh(stages[slot[s]].line)' BY <2>1, <5>1 DEF PoolInv
        <5>. QED BY <4>1, <5>1, <5>2 DEF PoolInv
      <4>. QED BY <4>2, <4>3
    <3>. QED BY <3>1
  <2>5. (\A s, t \in Sources : s # t /\ slot[s] \in Stages /\ slot[t] \in Stages =>
         slot[s] # slot[t] /\ stages[slot[s]].line # stages[slot[t]].line)'
    <3>1. ASSUME NEW s \in Sources, NEW t \in Sources, s # t, slot'[s] \in Stages, slot'[t] \in Stages
          PROVE  slot'[s] # slot'[t] /\ stages'[slot'[s]].line # stages'[slot'[t]].line
      BY <1>10, <1>11, <2>2, <3>1 DEF PoolInv
    <3>. QED BY <3>1
  <2>6. (\A d \in DOMAIN stack : Claimed(stack[d]) =>
         stages[stack[d].stage].state = "open" /\ Fresh(stack[d].line))'
    BY <1>1, <1>3, <1>10, <2>1, <2>3 DEF PoolInv
  <2>7. (\A d, e \in DOMAIN stack : d # e /\ Claimed(stack[d]) /\ Claimed(stack[e]) =>
         stack[d].stage # stack[e].stage /\ stack[d].line # stack[e].line)'
    BY <1>3, <2>3 DEF PoolInv
  <2>8. (\A s \in Sources, d \in DOMAIN stack : slot[s] \in Stages /\ Claimed(stack[d]) =>
         slot[s] # stack[d].stage /\ stages[slot[s]].line # stack[d].line)'
    <3>1. ASSUME NEW s \in Sources, NEW d \in DOMAIN stack', slot'[s] \in Stages, Claimed(stack'[d])
          PROVE  slot'[s] # stack'[d].stage /\ stages'[slot'[s]].line # stack'[d].line
      <4>1. CASE s # src BY <1>3, <1>11, <2>2, <2>3, <3>1, <4>1 DEF PoolInv
      <4>2. CASE s = src BY <1>10, <1>11, <2>3, <3>1, <4>2
      <4>. QED BY <4>1, <4>2
    <3>. QED BY <3>1
  <2>. QED BY <2>4, <2>5, <2>6, <2>7, <2>8 DEF PoolInv
<1>17. RingInv' /\ LockInv' /\ LineInv' /\ QueueInv' /\ SentInv' /\ WireInv'
  BY <1>8, <1>10, <1>13, <1>15, Aside DEF LineInv, In
<1>. QED BY <1>12, <1>14, <1>16, <1>17

\* A line that outgrew its stage is refused and its stage freed.
LEMMA EndOverflowKeeps == ASSUME LinesInv, EndOverflow PROVE LinesInv'
<1>. USE DEF LinesInv
<1>. DEFINE n == Len(stack)
            f == [Top EXCEPT !.printed = TRUE]
<1>1. /\ Top \in FrameT /\ Top.pc = "run" /\ Top = stack[n] /\ n \in DOMAIN stack /\ Top.src \in Sources
      /\ \A d \in DOMAIN stack : stack[d] \in FrameT /\ stack[d].stage \in Stages
  BY TopIs DEF At, FrameT, EndOverflow
<1>2. f \in FrameT /\ f.src = Top.src /\ f.pc = "run" /\ Become(f) BY <1>1 DEF FrameT, Printed, EndOverflow
<1>. HIDE DEF f
<1>3. /\ stack' \in Seq(FrameT) /\ stack' # <<>> /\ stack'[1].src = Main
      /\ DOMAIN stack' = DOMAIN stack /\ stack'[n] = f
      /\ \A d \in DOMAIN stack : d # n => stack'[d] = stack[d]
  BY <1>2, Becomes
<1>4. PICK src \in Sources : src = Top.src BY <1>1
<1>5. PICK i0 \in Stages : i0 = slot[src] BY <1>4 DEF EndOverflow
<1>6. PICK line : line = stages[i0].line OBVIOUS
<1>7. /\ stages' = [stages EXCEPT ![i0].state = "free"] /\ slot' = [slot EXCEPT ![src] = NoSlot]
      /\ lostLines' = lostLines + 1 /\ refused' = refused \cup {line}
      /\ UNCHANGED <<txVars, waitFrom, busy, marked, seqNo, begun, completed>>
      /\ slot \in [Sources -> Stages \cup {NoSlot, Refused}] /\ stages \in [Stages -> StageT]
  BY <1>4, <1>5, <1>6 DEF EndOverflow, WriterType
<1>8. /\ stages' \in [Stages -> StageT] /\ stages'[i0].state = "free"
      /\ \A i \in Stages : i # i0 => stages'[i] = stages[i]
  BY <1>7 DEF StageT
<1>9. /\ slot' \in [Sources -> Stages \cup {NoSlot, Refused}]
      /\ \A s \in Sources : slot'[s] \in Stages => s # src /\ slot'[s] = slot[s]
  BY <1>7, WriterConstants
<1>10. stages[i0].state = "open" /\ Fresh(line) BY <1>5, <1>6 DEF PoolInv
<1>11. begun \in Nat /\ line \in 1..begun /\ line \notin refused /\ line \in Nat /\ marked \in Nat
  BY <1>10 DEF Fresh, WriterType
<1>12. WriterType' BY <1>3, <1>7, <1>8, <1>9 DEF WriterType
<1>13. SameHolder /\ SameUnderway
  BY <1>1, <1>2, <1>3 DEF SameHolder, SameUnderway, Holds, Underway, Stops
<1>14. CountInv'
  <2>1. /\ lostLines \in Nat /\ refused' \subseteq 1..begun' /\ lostLines' = Cardinality(refused')
        /\ marked' <= lostLines'
    <3>1. /\ line \in Nat \ refused /\ begun' \in Nat /\ begun <= begun' /\ line \in 1..begun'
          /\ marked' = marked
      BY <1>7, <1>11
    <3>. QED BY <1>7, <1>11, <3>1, RefusedMore
  <2>2. \A d \in DOMAIN stack' : Holds(stack'[d]) => stack'[d].now <= lostLines
    BY <1>2, <1>3 DEF CountInv, Holds, Stops
  <2>3. \A d \in DOMAIN stack' : stack'[d].now \in Nat
    <3>1. \A d \in DOMAIN stack' : stack'[d] \in FrameT BY <1>3
    <3>. QED BY <3>1 DEF FrameT
  <2>. QED BY <1>7, <2>1, <2>2, <2>3 DEF CountInv
<1>15. PoolInv'
  <2>1. \A l : Fresh(l) /\ l # line => Fresh(l)' BY <1>7 DEF Fresh
  <2>2. \A s \in Sources : slot'[s] \in Stages =>
           slot'[s] = slot[s] /\ stages'[slot[s]] = stages[slot[s]] /\ Fresh(stages[slot[s]].line)'
    <3>. SUFFICES ASSUME NEW s \in Sources, slot'[s] \in Stages
                  PROVE  slot'[s] = slot[s] /\ stages'[slot[s]] = stages[slot[s]] /\ Fresh(stages[slot[s]].line)'
      OBVIOUS
    <3>1. s # src /\ slot'[s] = slot[s] BY <1>9
    <3>2. slot[s] # i0 /\ stages[slot[s]].line # line /\ Fresh(stages[slot[s]].line)
      BY <1>5, <1>6, <3>1 DEF PoolInv
    <3>3. stages'[slot[s]] = stages[slot[s]] BY <1>8, <3>1, <3>2
    <3>. QED BY <2>1, <3>1, <3>2, <3>3
  <2>3. \A d \in DOMAIN stack' : Claimed(stack'[d]) =>
           /\ d \in DOMAIN stack /\ stack[d] = stack'[d] /\ Fresh(stack[d].line)'
           /\ stages'[stack[d].stage].state = "open"
    <3>. SUFFICES ASSUME NEW d \in DOMAIN stack', Claimed(stack'[d])
                  PROVE  /\ d \in DOMAIN stack /\ stack[d] = stack'[d] /\ Fresh(stack[d].line)'
                         /\ stages'[stack[d].stage].state = "open"
      OBVIOUS
    <3>1. d \in DOMAIN stack /\ stack[d] = stack'[d] /\ Claimed(stack[d]) BY <1>2, <1>3 DEF Claimed
    <3>2. stack[d].stage # i0 /\ stack[d].line # line /\ Fresh(stack[d].line)
          /\ stages[stack[d].stage].state = "open"
      BY <1>5, <1>6, <3>1 DEF PoolInv
    <3>. QED BY <1>1, <1>8, <2>1, <3>1, <3>2
  <2>. QED BY <2>2, <2>3, PoolKept
<1>16. RingInv' /\ LockInv' /\ LineInv' /\ QueueInv' /\ SentInv' /\ WireInv'
  BY <1>7, <1>8, <1>10, <1>13, Aside DEF LineInv, In, Done, Fresh
<1>. QED BY <1>12, <1>14, <1>15, <1>16

-----------------------------------------------------------------------------
(* The holder's steps.                                                      *)
\* The frame that holds the lock is the only one, and its line the only one published.
LEMMA OneHolder ==
  ASSUME LinesInv, Holds(Top)
  PROVE  /\ \A d \in DOMAIN stack : d # Len(stack) => ~Holds(stack[d]) /\ ~Underway(stack[d])
         /\ \A i \in Stages : stages[i].state = "publishing" <=> i = Top.stage
         /\ busy /\ Top.stage \in In("publishing")
<1>. USE DEF LinesInv
<1>1. Top = stack[Len(stack)] /\ Len(stack) \in DOMAIN stack /\ Top.stage \in Stages
  BY TopIs DEF FrameT
<1>2. \A d \in DOMAIN stack : d # Len(stack) => ~Holds(stack[d]) BY <1>1 DEF LockInv
<1>3. \A f : Underway(f) => Holds(f) BY DEF Underway, Holds, Stops
<1>4. \A i \in Stages : stages[i].state = "publishing" => i = Top.stage BY <1>1, <1>2 DEF LockInv, In
<1>5. stages[Top.stage].state = "publishing" /\ busy BY <1>1 DEF LockInv
<1>. QED BY <1>1, <1>2, <1>3, <1>4, <1>5 DEF In

\* The holder goes on with the same line: all but the wire is kept.
LEMMA MovesOn ==
  ASSUME LinesInv, NEW f \in FrameT, Become(f), f.src = Top.src, f.stage = Top.stage, f.now = Top.now,
         Holds(Top), Holds(f), UNCHANGED <<waitFrom, busy, poolVars>>, marked' \in Nat, marked' <= lostLines
  PROVE  /\ WriterType' /\ CountInv' /\ PoolInv' /\ LockInv' /\ LineInv' /\ QueueInv'
         /\ DOMAIN stack' = DOMAIN stack /\ stack'[Len(stack)] = f /\ Len(stack) \in DOMAIN stack
         /\ \A d \in DOMAIN stack : d # Len(stack) => stack'[d] = stack[d] /\ ~Underway(stack[d])
<1>. USE DEF LinesInv, poolVars
<1>. DEFINE n == Len(stack)
<1>1. Top = stack[n] /\ n \in DOMAIN stack /\ \A d \in DOMAIN stack : stack[d] \in FrameT BY TopIs
<1>2. /\ stack' \in Seq(FrameT) /\ stack' # <<>> /\ stack'[1].src = Main
      /\ DOMAIN stack' = DOMAIN stack /\ stack'[n] = f
      /\ \A d \in DOMAIN stack : d # n => stack'[d] = stack[d]
  BY Becomes
<1>3. \A d \in DOMAIN stack : d # n => ~Underway(stack[d]) BY OneHolder
<1>4. WriterType' BY <1>2 DEF WriterType
<1>5. CountInv' BY <1>1, <1>2 DEF CountInv
<1>6. \A f1 : Holds(f1) => ~Claimed(f1) BY DEF Holds, Claimed, Stops
<1>7. PoolInv' BY <1>2, <1>6, PoolKept DEF Fresh, PoolInv
<1>8. LockInv' BY <1>1, <1>2, LockKept DEF SameHolder, LockInv, In, FrameT
<1>9. LineInv' BY LineKept DEF LineInv, In
<1>10. QueueInv' BY QueueKept DEF SameQueue
<1>. QED BY <1>1, <1>2, <1>3, <1>4, <1>5, <1>7, <1>8, <1>9, <1>10

\* The holder goes on before its run is begun: write_mark(), write_line().
LEMMA NotYet ==
  ASSUME LinesInv, NEW f \in FrameT, Become(f), f.src = Top.src, f.stage = Top.stage, f.now = Top.now,
         Top.pc \in {"mark", "line"}, f.pc \in {"line", "push", "refuse"},
         UNCHANGED <<txVars, waitFrom, busy, marked, poolVars>>
  PROVE  LinesInv'
<1>. USE DEF LinesInv
<1>1. /\ RingInv' /\ Output' = Output /\ Room \in Nat /\ Room' = Room
      /\ txSlots' = txSlots /\ txHead' = txHead
  BY RingSame
<1>2. Holds(Top) /\ Holds(f) /\ ~Underway(Top) /\ ~Underway(f) BY DEF Holds, Underway, Stops
<1>3. marked' \in Nat /\ marked' <= lostLines BY DEF WriterType, CountInv
<1>4. /\ WriterType' /\ CountInv' /\ PoolInv' /\ LockInv' /\ LineInv' /\ QueueInv'
      /\ DOMAIN stack' = DOMAIN stack /\ stack'[Len(stack)] = f /\ Len(stack) \in DOMAIN stack
      /\ \A d \in DOMAIN stack : d # Len(stack) => stack'[d] = stack[d] /\ ~Underway(stack[d])
  BY <1>2, <1>3, MovesOn
<1>5. SentInv' BY <1>1, SentKept DEF poolVars
<1>6. SameUnderway BY <1>2, <1>4, TopIs DEF SameUnderway
<1>7. WireInv' BY <1>1, <1>6, WireKept DEF poolVars
<1>. QED BY <1>1, <1>4, <1>5, <1>7

\* The mark tried, or owed.
LEMMA WriteMarkKeeps == ASSUME LinesInv, WriteMark PROVE LinesInv'
<1>1. Top \in FrameT /\ Top.pc = "mark" BY TopIs DEF WriteMark, At, LinesInv
<1>2. CASE Become([Top EXCEPT !.pc = "push", !.mark = TRUE])
  <2>1. PICK f \in FrameT : f = [Top EXCEPT !.pc = "push", !.mark = TRUE] BY <1>1 DEF FrameT, Stops
  <2>2. f.pc = "push" /\ f.src = Top.src /\ f.stage = Top.stage /\ f.now = Top.now BY <1>1, <2>1 DEF FrameT
  <2>. QED BY <1>1, <1>2, <2>1, <2>2, NotYet DEF WriteMark
<1>3. CASE GoTo("line")
  <2>1. PICK f \in FrameT : f = [Top EXCEPT !.pc = "line"] BY <1>1 DEF FrameT, Stops
  <2>2. f.pc = "line" /\ f.src = Top.src /\ f.stage = Top.stage /\ f.now = Top.now BY <1>1, <2>1 DEF FrameT
  <2>. QED BY <1>1, <1>3, <2>1, <2>2, NotYet DEF WriteMark, GoTo
<1>. QED BY <1>2, <1>3 DEF WriteMark

\* The line tried, or given up.
LEMMA WriteLineKeeps == ASSUME LinesInv, WriteLine PROVE LinesInv'
<1>1. Top \in FrameT /\ Top.pc = "line" BY TopIs DEF WriteLine, At, LinesInv
<1>2. CASE Become([Top EXCEPT !.pc = "push", !.mark = FALSE])
  <2>1. PICK f \in FrameT : f = [Top EXCEPT !.pc = "push", !.mark = FALSE] BY <1>1 DEF FrameT, Stops
  <2>2. f.pc = "push" /\ f.src = Top.src /\ f.stage = Top.stage /\ f.now = Top.now BY <1>1, <2>1 DEF FrameT
  <2>. QED BY <1>1, <1>2, <2>1, <2>2, NotYet DEF WriteLine
<1>3. CASE GoTo("refuse")
  <2>1. PICK f \in FrameT : f = [Top EXCEPT !.pc = "refuse"] BY <1>1 DEF FrameT, Stops
  <2>2. f.pc = "refuse" /\ f.src = Top.src /\ f.stage = Top.stage /\ f.now = Top.now BY <1>1, <2>1 DEF FrameT
  <2>. QED BY <1>1, <1>3, <2>1, <2>2, NotYet DEF WriteLine, GoTo
<1>. QED BY <1>2, <1>3 DEF WriteLine

-----------------------------------------------------------------------------
(* The bytes of a run.                                                      *)
\* The bytes of a run, counted.
LEMMA BytesAre ==
  ASSUME NEW l \in Nat, NEW n \in Nat \ {0}, NEW o \in Int
  PROVE  Bytes(l, n, o) \in Seq(Byte) /\ Len(Bytes(l, n, o)) = n
<1>1. \A k \in 1..n : [line |-> l, size |-> n, k |-> k, owed |-> o] \in Byte BY DEF Byte
<1>2. Bytes(l, n, o) \in [1..n -> Byte] BY <1>1 DEF Bytes
<1>. QED BY <1>1, <1>2 DEF Bytes

\* The run of a holder is its mark or its own line.
LEMMA RunIs ==
  ASSUME LinesInv, NEW f \in FrameT, stages[f.stage].state = "publishing"
  PROVE  \E line \in Nat, size \in Nat \ {0}, owed \in Int :
           /\ Run(f) = Bytes(line, size, owed) /\ line \in {0, stages[f.stage].line}
           /\ Run(f) \in Seq(Byte) /\ Len(Run(f)) = size
<1>. USE DEF LinesInv
<1>1. f.stage \in Stages /\ f.now \in Nat /\ f.mark \in BOOLEAN BY DEF FrameT
<1>2. stages[f.stage] \in StageT /\ marked \in Nat BY <1>1 DEF WriterType
<1>3. CASE f.mark
  <2>1. Run(f) = Bytes(0, MarkSize, f.now - marked) BY <1>3 DEF Run
  <2>2. PICK o \in Int : o = f.now - marked BY <1>1, <1>2
  <2>3. 0 \in Nat /\ MarkSize \in Nat \ {0} BY WriterConstants
  <2>4. Bytes(0, MarkSize, o) \in Seq(Byte) /\ Len(Bytes(0, MarkSize, o)) = MarkSize BY <2>3, BytesAre
  <2>5. Run(f) = Bytes(0, MarkSize, o) BY <2>1, <2>2
  <2>. QED BY <2>2, <2>3, <2>4, <2>5
<1>4. CASE ~f.mark
  <2>. DEFINE i == f.stage
              c == Min({stages[i].size, Capacity(i)})
  <2>1. Run(f) = Bytes(stages[i].line, c, 0) BY <1>4 DEF Run, StageBytes
  <2>2. stages[i].size \in Nat \ {0} /\ Capacity(i) \in Nat \ {0}
    BY <1>1, WriterConstants DEF LineInv, In
  <2>3. c \in Nat \ {0} BY <2>2 DEF Min
  <2>4. stages[i].line \in Nat /\ 0 \in Int BY <1>2 DEF StageT
  <2>. HIDE DEF c
  <2>5. Run(f) \in Seq(Byte) /\ Len(Run(f)) = c BY <2>1, <2>3, <2>4, BytesAre
  <2>. QED BY <2>1, <2>3, <2>4, <2>5
<1>. QED BY <1>1, <1>3, <1>4

\* A run stays the same while its stage and the mark do.
LEMMA RunKept ==
  ASSUME NEW f, NEW g, f.mark = g.mark, f.now = g.now, f.stage = g.stage,
         stages' = stages, marked' = marked
  PROVE  Run(f)' = Run(g) /\ Run(f) = Run(g)
<1>1. \A i : Capacity(i)' = Capacity(i) BY DEF Capacity
<1>. QED BY <1>1 DEF Run, StageBytes

\* The byte before one of a run.
LEMMA EarlierByte ==
  ASSUME NEW line, NEW size, NEW owed, NEW k \in Int, NEW b,
         b = [line |-> line, size |-> size, k |-> k, owed |-> owed]
  PROVE  [b EXCEPT !.k = @ - 1] = [line |-> line, size |-> size, k |-> k - 1, owed |-> owed]
OBVIOUS

\* The next bytes of the run sent behind what went out stay whole.
LEMMA ChainedMore ==
  ASSUME LinesInv, Holds(Top), NEW at \in Nat, NEW n \in Nat \ {0}, at + n <= Len(Run(Top)),
         Len(Output') = Len(Output) + n,
         \A j \in 1..Len(Output) : Output'[j] = Output[j],
         \A i \in 1..n : Output'[Len(Output) + i] = Run(Top)[at + i],
         IF at = 0 THEN Len(Output) = 0 \/ Output[Len(Output)].k = Output[Len(Output)].size
         ELSE Len(Output) > 0 /\ Output[Len(Output)] = Run(Top)[at]
  PROVE  Chained'
<1>. DEFINE m == Len(Output)
<1>0. PICK line \in Nat, size \in Nat \ {0}, owed \in Int : Run(Top) = Bytes(line, size, owed) /\ Len(Run(Top)) = size
  BY TopIs, OneHolder, RunIs DEF LinesInv, In
<1>. DEFINE B(k) == [line |-> line, size |-> size, k |-> k, owed |-> owed]
<1>1. m \in Nat /\ Chained /\ at + n <= size BY <1>0, OutputIs DEF LinesInv, WireInv
<1>2. \A k \in 1..size : Run(Top)[k] = B(k) BY <1>0 DEF Bytes
<1>3. ASSUME NEW j \in 1..m + n
      PROVE  /\ Output'[j].k \in 1..Output'[j].size
             /\ IF Output'[j].k = 1 THEN j = 1 \/ Output'[j - 1].k = Output'[j - 1].size
                ELSE j > 1 /\ Output'[j - 1] = [Output'[j] EXCEPT !.k = @ - 1]
  <2>1. CASE j <= m
    <3>1. j \in 1..m /\ (j = 1 \/ j - 1 \in 1..m) BY <1>1, <2>1
    <3>2. Output'[j] = Output[j] /\ (j = 1 \/ Output'[j - 1] = Output[j - 1]) BY <3>1
    <3>3. /\ Output[j].k \in 1..Output[j].size
          /\ IF Output[j].k = 1 THEN j = 1 \/ Output[j - 1].k = Output[j - 1].size
             ELSE j > 1 /\ Output[j - 1] = [Output[j] EXCEPT !.k = @ - 1]
      BY <1>1, <3>1 DEF Chained
    <3>. QED BY <3>1, <3>2, <3>3
  <2>2. CASE j > m
    <3>. DEFINE i == j - m
    <3>1. i \in 1..n /\ j = m + i /\ at + i \in 1..size BY <1>1, <2>2
    <3>2. Output'[j] = B(at + i) BY <1>2, <3>1
    <3>3. Output'[j].k = at + i /\ Output'[j].size = size BY <3>2
    <3>4. CASE i > 1
      <4>1. i - 1 \in 1..n /\ j - 1 = m + (i - 1) /\ at + (i - 1) \in 1..size /\ at + i # 1
        BY <1>1, <3>1, <3>4
      <4>2. Output'[j - 1] = B(at + (i - 1)) BY <1>2, <4>1
      <4>3. [B(at + i) EXCEPT !.k = @ - 1] = B(at + (i - 1))
        <5>1. (at + i) - 1 = at + (i - 1) /\ at + i \in Int BY <3>1
        <5>2. [B(at + i) EXCEPT !.k = @ - 1] = B((at + i) - 1) BY <5>1, EarlierByte
        <5>. QED BY <5>1, <5>2
      <4>4. j > 1 /\ at + i # 1 BY <1>1, <3>1, <3>4
      <4>. QED BY <3>1, <3>2, <3>3, <4>2, <4>3, <4>4
    <3>5. CASE i = 1 /\ at = 0
      <4>1. m = 0 \/ (m \in 1..m /\ j - 1 = m) BY <1>1, <3>1, <3>5
      <4>2. m = 0 \/ Output'[j - 1] = Output[m] BY <4>1
      <4>3. m = 0 \/ Output[m].k = Output[m].size BY <3>5
      <4>4. Output'[j].k = 1 /\ Output'[j].size = size /\ 1 \in 1..size /\ (m = 0 => j = 1) BY <3>1, <3>3, <3>5
      <4>. QED BY <4>2, <4>3, <4>4
    <3>6. CASE i = 1 /\ at # 0
      <4>0. m > 0 BY <3>6
      <4>1. m \in 1..m /\ j - 1 = m /\ at \in 1..size /\ j > 1
        <5>. HIDE DEF m
        <5>. QED BY <1>1, <3>1, <3>6, <4>0
      <4>2. Output'[j - 1] = B(at) BY <1>2, <3>6, <4>1
      <4>3. [B(at + i) EXCEPT !.k = @ - 1] = B(at)
        <5>1. (at + i) - 1 = at /\ at + i \in Int BY <3>6
        <5>2. [B(at + i) EXCEPT !.k = @ - 1] = B((at + i) - 1) BY <5>1, EarlierByte
        <5>. QED BY <5>1, <5>2
      <4>. QED BY <3>1, <3>2, <3>3, <3>6, <4>1, <4>2, <4>3
    <3>. QED BY <3>1, <3>4, <3>5, <3>6
  <2>. QED BY <1>1, <2>1, <2>2
<1>. QED BY <1>3 DEF Chained

\* A completed line has a turn.
LEMMA TurnIs ==
  ASSUME WriterType, QueueInv, NEW l, Done(l)
  PROVE  Turn(l) \in 1..Len(completed) /\ completed[Turn(l)] = l
BY DEF Turn, Done, WriterType

\* The turn of the line completed at a place is that place.
LEMMA TurnOf ==
  ASSUME WriterType, QueueInv, NEW k \in 1..Len(completed)
  PROVE  Turn(completed[k]) = k
<1>1. Done(completed[k]) BY DEF Done
<1>2. Turn(completed[k]) \in 1..Len(completed) /\ completed[Turn(completed[k])] = completed[k] BY <1>1, TurnIs
<1>. QED BY <1>2 DEF QueueInv

\* The bytes of the line being published go out in order: it is the last by turn.
LEMMA SentMore ==
  ASSUME LinesInv, Holds(Top), completed' = completed, stages' = stages,
         NEW l \in {0, stages[Top.stage].line}, NEW n \in Nat,
         Len(Output') = Len(Output) + n,
         \A j \in 1..Len(Output) : Output'[j] = Output[j],
         \A i \in 1..n : Output'[Len(Output) + i].line = l
  PROVE  SentInv'
<1>. USE DEF LinesInv
<1>. DEFINE m == Len(Output)
<1>1. m \in Nat BY OutputIs
<1>2. Top.stage \in In("publishing") /\ \A i \in In("publishing") : i = Top.stage
  BY OneHolder DEF In
<1>3. l # 0 => Done(l) /\ Turn(l) = TurnAt(Top.stage) /\ Turn(l) \in Nat
  <2>1. ASSUME l # 0 PROVE Done(l) BY <1>2, <2>1 DEF LineInv
  <2>2. ASSUME l # 0 PROVE Turn(l) = TurnAt(Top.stage) BY <2>2 DEF TurnAt
  <2>. QED BY <2>1, <2>2, TurnIs
<1>4. \A x : Turn(x)' = Turn(x) /\ (Done(x)' <=> Done(x)) BY TurnKept
<1>5. \A i \in In("publishing")' : i = Top.stage /\ TurnAt(i)' = TurnAt(Top.stage)
  BY <1>2 DEF In, TurnAt, Turn
<1>6. \A j \in 1..m + n : \/ j \in 1..m /\ Output'[j] = Output[j]
                          \/ j > m /\ Output'[j].line = l
  <2>. TAKE j \in 1..m + n
  <2>1. CASE j <= m BY <1>1, <2>1
  <2>2. CASE j > m
    <3>1. j - m \in 1..n /\ m + (j - m) = j BY <1>1, <2>2
    <3>2. Output'[m + (j - m)].line = l BY <3>1
    <3>. QED BY <2>2, <3>1, <3>2
  <2>. QED BY <1>1, <2>1, <2>2
<1>7. ASSUME NEW j \in 1..m + n, Output'[j].line # 0
      PROVE  /\ Done(Output'[j].line)
             /\ \A i \in 1..j - 1 : Output'[i].line # 0 => Turn(Output'[i].line) <= Turn(Output'[j].line)
             /\ Turn(Output'[j].line) <= TurnAt(Top.stage)
  <2>1. CASE j \in 1..m /\ Output'[j] = Output[j] BY <1>1, <1>2, <1>7, <2>1 DEF SentInv
  <2>2. CASE j > m /\ Output'[j].line = l
    <3>1. ASSUME NEW i \in 1..j - 1, Output'[i].line # 0
          PROVE  Turn(Output'[i].line) <= Turn(l)
      <4>1. i \in 1..m + n BY <1>1
      <4>2. CASE i \in 1..m /\ Output'[i] = Output[i]
        BY <1>2, <1>3, <1>7, <2>2, <3>1, <4>2 DEF SentInv
      <4>3. CASE Output'[i].line = l BY <1>3, <1>7, <2>2, <4>3
      <4>. QED BY <1>6, <4>1, <4>2, <4>3
    <3>. QED BY <1>3, <1>7, <2>2, <3>1
  <2>. QED BY <1>6, <2>1, <2>2
<1>. QED BY <1>4, <1>5, <1>7 DEF SentInv

\* The run under way is only the holder's.
LEMMA WireMoved ==
  ASSUME LinesInv, NEW f \in FrameT, Underway(f), Chained', Ending(f)',
         DOMAIN stack' = DOMAIN stack, stack'[Len(stack)] = f, Len(stack) \in DOMAIN stack,
         \A d \in DOMAIN stack : d # Len(stack) => stack'[d] = stack[d] /\ ~Underway(stack[d])
  PROVE  WireInv'
<1>1. ASSUME NEW d \in DOMAIN stack', Underway(stack'[d])
      PROVE  Ending(stack[d])'
  <2>1. d = Len(stack) /\ stack'[d] = f BY <1>1
  <2>. QED BY <2>1
<1>2. ~(\A d \in DOMAIN stack' : ~Underway(stack'[d])) OBVIOUS
<1>. QED BY <1>1, <1>2 DEF WireInv

\* write_bulk() begins a run behind a whole one.
LEMMA PushFirstKeeps == ASSUME LinesInv, PushFirst PROVE LinesInv'
<1>. USE DEF LinesInv
<1>1. Top \in FrameT /\ Top.pc = "push" /\ Top.stage \in Stages BY TopIs DEF PushFirst, At, FrameT
<1>2. PICK f \in FrameT : f = [Top EXCEPT !.pc = "arm", !.at = 1] BY <1>1 DEF FrameT, Stops
<1>3. /\ f.pc = "arm" /\ f.at = 1 /\ f.src = Top.src /\ f.stage = Top.stage /\ f.now = Top.now
      /\ f.mark = Top.mark
  BY <1>1, <1>2 DEF FrameT
<1>4. Holds(Top) /\ Holds(f) /\ ~Underway(Top) /\ Underway(f) BY <1>1, <1>3 DEF Holds, Underway, Stops
<1>5. /\ Become(f) /\ TxPush(Run(Top)[1])
      /\ UNCHANGED <<waitFrom, busy, marked, poolVars>> /\ stages' = stages /\ completed' = completed
  BY <1>2 DEF PushFirst, poolVars
<1>6. marked' \in Nat /\ marked' <= lostLines BY <1>5 DEF WriterType, CountInv
<1>7. /\ WriterType' /\ CountInv' /\ PoolInv' /\ LockInv' /\ LineInv' /\ QueueInv'
      /\ DOMAIN stack' = DOMAIN stack /\ stack'[Len(stack)] = f /\ Len(stack) \in DOMAIN stack
      /\ \A d \in DOMAIN stack : d # Len(stack) => stack'[d] = stack[d] /\ ~Underway(stack[d])
  BY <1>3, <1>4, <1>5, <1>6, MovesOn
<1>8. PICK line \in Nat, size \in Nat \ {0}, owed \in Int :
        /\ Run(Top) = Bytes(line, size, owed) /\ line \in {0, stages[Top.stage].line}
        /\ Run(Top) \in Seq(Byte) /\ Len(Run(Top)) = size
  BY <1>1, <1>4, OneHolder, RunIs
<1>9. Run(f)' = Run(Top) BY <1>3, <1>5, RunKept
<1>10. PICK b \in Byte : b = Run(Top)[1] /\ b.line = line
  <2>1. 1 \in 1..size BY <1>8
  <2>2. Run(Top)[1] \in Byte /\ Run(Top)[1].line = line
    BY <1>8, <2>1 DEF Bytes, Byte
  <2>. QED BY <1>8, <2>2
<1>11. RingInv' /\ Output' = Append(Output, b) BY <1>5, <1>10, PushedOut
<1>12. Output \in Seq(Byte) /\ Len(Output) \in Nat BY OutputIs
<1>13. /\ Len(Output') = Len(Output) + 1
       /\ \A j \in 1..Len(Output) : Output'[j] = Output[j]
       /\ Output'[Len(Output) + 1] = b
  BY <1>11, <1>12, AppendProperties
<1>14. SentInv'
  <2>1. \A i \in 1..1 : Output'[Len(Output) + i].line = line BY <1>10, <1>13
  <2>. QED BY <1>4, <1>5, <1>8, <1>13, <2>1, SentMore
<1>15. Chained'
  <2>1. \A d \in DOMAIN stack : ~Underway(stack[d]) BY <1>4, <1>7, TopIs
  <2>2. Chained /\ (Len(Output) = 0 \/ Output[Len(Output)].k = Output[Len(Output)].size)
    BY <2>1 DEF WireInv
  <2>3. \A i \in 1..1 : Output'[Len(Output) + i] = Run(Top)[0 + i] BY <1>8, <1>10, <1>13
  <2>4. PICK at \in Nat : at = 0 OBVIOUS
  <2>5. at + 1 <= size /\ 1 \in Nat \ {0} BY <1>8, <2>4
  <2>6. IF at = 0 THEN Len(Output) = 0 \/ Output[Len(Output)].k = Output[Len(Output)].size
        ELSE Len(Output) > 0 /\ Output[Len(Output)] = Run(Top)[at]
    BY <2>2, <2>4
  <2>. QED BY <1>4, <1>8, <1>13, <2>3, <2>4, <2>5, <2>6, ChainedMore
<1>16. Ending(f)'
  <2>1. Run(f)'[f.at] = b /\ f.at \in 1..Len(Run(f)') BY <1>3, <1>8, <1>9, <1>10
  <2>2. Len(Output') > 0 /\ Output'[Len(Output')] = b BY <1>12, <1>13
  <2>. QED BY <1>3, <2>1, <2>2 DEF Ending
<1>17. WireInv' BY <1>4, <1>7, <1>15, <1>16, WireMoved
<1>. QED BY <1>7, <1>11, <1>14, <1>17

\* A step within the run, which leaves what went out.
LEMMA Within ==
  ASSUME LinesInv, NEW f \in FrameT, Become(f), f.src = Top.src, f.stage = Top.stage, f.now = Top.now,
         f.mark = Top.mark, f.at = Top.at,
         Underway(Top), Underway(f), UNCHANGED <<waitFrom, busy, marked, poolVars>>,
         RingInv', Output' = Output,
         f.pc = "copy" => f.at < Len(Run(Top)), f.pc = "written" => f.at = Len(Run(Top)),
         f.pc = "publish" =>
           /\ f.part \in 1..Len(Run(Top)) - f.at /\ f.part <= Room' /\ txHead' + f.part <= TxSize
           /\ \A i \in 1..f.part : txSlots'[txHead' + i - 1] = Run(Top)[f.at + i]
  PROVE  LinesInv'
<1>. USE DEF LinesInv
<1>1. Holds(Top) /\ Holds(f) BY DEF Holds, Underway, Stops
<1>2. marked' \in Nat /\ marked' <= lostLines BY DEF WriterType, CountInv
<1>3. /\ WriterType' /\ CountInv' /\ PoolInv' /\ LockInv' /\ LineInv' /\ QueueInv'
      /\ DOMAIN stack' = DOMAIN stack /\ stack'[Len(stack)] = f /\ Len(stack) \in DOMAIN stack
      /\ \A d \in DOMAIN stack : d # Len(stack) => stack'[d] = stack[d] /\ ~Underway(stack[d])
  BY <1>1, <1>2, MovesOn
<1>4. SentInv' /\ Chained' BY SentKept, ChainedKept DEF poolVars, WireInv
<1>5. Run(f)' = Run(Top) BY RunKept DEF poolVars
<1>6. Ending(Top) BY TopIs DEF WireInv
<1>7. Ending(f)' BY <1>5, <1>6 DEF Ending
<1>8. WireInv' BY <1>3, <1>4, <1>7, WireMoved
<1>. QED BY <1>3, <1>4, <1>8

\* The transmitter started between the parts of a run.
LEMMA ArmTransmitterKeeps == ASSUME LinesInv, ArmTransmitter PROVE LinesInv'
<1>. USE DEF LinesInv
<1>1. Top \in FrameT /\ Top.pc = "arm" /\ Top.stage \in Stages BY TopIs DEF ArmTransmitter, At, FrameT
<1>2. PICK f \in FrameT : f = [Top EXCEPT !.pc = IF Top.at < Len(Run(Top)) THEN "copy" ELSE "written"]
  BY <1>1 DEF FrameT, Stops
<1>3. /\ f.pc = (IF Top.at < Len(Run(Top)) THEN "copy" ELSE "written") /\ f.at = Top.at
      /\ f.src = Top.src /\ f.stage = Top.stage /\ f.now = Top.now /\ f.mark = Top.mark
  BY <1>1, <1>2 DEF FrameT
<1>4. Underway(Top) /\ Underway(f) BY <1>1, <1>3 DEF Underway
<1>5. /\ Become(f) /\ UNCHANGED <<waitFrom, busy, marked, poolVars>>
      /\ RingInv' /\ Output' = Output
  BY <1>2, ArmedOut DEF ArmTransmitter, GoTo
<1>6. Ending(Top) BY <1>4, TopIs DEF WireInv
<1>7. Top.at \in 1..Len(Run(Top)) BY <1>6 DEF Ending
<1>8. Len(Run(Top)) \in Nat BY <1>1, OneHolder, RunIs DEF Holds, Stops
<1>9. (f.pc = "copy" => f.at < Len(Run(Top))) /\ (f.pc = "written" => f.at = Len(Run(Top))) /\ f.pc # "publish"
  BY <1>3, <1>7, <1>8
<1>. QED BY <1>3, <1>4, <1>5, <1>9, Within

\* The next part copied behind the head, where nothing waits.
LEMMA CopyRestKeeps == ASSUME LinesInv, CopyRest PROVE LinesInv'
<1>. USE DEF LinesInv
<1>. DEFINE bytes == Run(Top)
            rest == SubSeq(bytes, Top.at + 1, Len(bytes))
<1>1. Top \in FrameT /\ Top.pc = "copy" /\ Top.stage \in Stages BY TopIs DEF CopyRest, At, FrameT
<1>2. Ending(Top) BY <1>1, TopIs DEF WireInv, Underway
<1>3. bytes \in Seq(Byte) /\ Len(bytes) \in Nat BY <1>1, OneHolder, RunIs DEF Holds, Stops
<1>4. Top.at \in 1..Len(bytes) /\ Top.at < Len(bytes) BY <1>1, <1>2 DEF Ending
<1>5. TxCopy(rest) BY DEF CopyRest
<1>6. Become([Top EXCEPT !.pc = "publish", !.part = Part(rest)])
      /\ UNCHANGED <<waitFrom, busy, marked, poolVars>>
  BY DEF CopyRest
<1>. HIDE DEF bytes
<1>7. /\ rest \in Seq(Byte) /\ Len(rest) = Len(bytes) - Top.at
      /\ \A i \in 1..Len(bytes) - Top.at : rest[i] = bytes[Top.at + i]
  BY <1>3, <1>4
<1>. HIDE DEF rest
<1>8. /\ RingInv' /\ Output' = Output /\ Room' = Room /\ txHead' = txHead
      /\ Part(rest) \in 1..Len(rest) /\ Part(rest) <= Room /\ txHead + Part(rest) <= TxSize
      /\ \A i \in 1..Part(rest) : txSlots'[txHead + i - 1] = rest[i]
  BY <1>5, <1>7, CopiedOut
<1>9. PICK part \in Nat : part = Part(rest) BY <1>7, <1>8
<1>10. PICK f \in FrameT : f = [Top EXCEPT !.pc = "publish", !.part = part] BY <1>1 DEF FrameT, Stops
<1>11. /\ f.pc = "publish" /\ f.at = Top.at /\ f.part = part
       /\ f.src = Top.src /\ f.stage = Top.stage /\ f.now = Top.now /\ f.mark = Top.mark
  BY <1>1, <1>10 DEF FrameT
<1>12. Underway(Top) /\ Underway(f) /\ Become(f) BY <1>1, <1>6, <1>9, <1>10, <1>11 DEF Underway
<1>13. /\ f.part \in 1..Len(bytes) - f.at /\ f.part <= Room' /\ txHead' + f.part <= TxSize
       /\ \A i \in 1..f.part : txSlots'[txHead' + i - 1] = bytes[f.at + i]
  <2>1. \A i \in 1..part : i \in 1..Len(bytes) - Top.at BY <1>3, <1>4, <1>7, <1>8, <1>9
  <2>. QED BY <1>7, <1>8, <1>9, <1>11, <2>1
<1>. QED BY <1>6, <1>8, <1>11, <1>12, <1>13, Within DEF bytes

\* The part published is what was copied, whatever the transmitter took since.
LEMMA PublishPartKeeps == ASSUME LinesInv, PublishPart PROVE LinesInv'
<1>. USE DEF LinesInv
<1>1. Top \in FrameT /\ Top.pc = "publish" /\ Top.stage \in Stages BY TopIs DEF PublishPart, At, FrameT
<1>2. Ending(Top) BY <1>1, TopIs DEF WireInv, Underway
<1>3. Holds(Top) BY <1>1 DEF Holds, Stops
<1>4. PICK line \in Nat, size \in Nat \ {0}, owed \in Int :
        /\ Run(Top) = Bytes(line, size, owed) /\ line \in {0, stages[Top.stage].line}
        /\ Run(Top) \in Seq(Byte) /\ Len(Run(Top)) = size
  BY <1>1, <1>3, OneHolder, RunIs
<1>5. PICK n \in Nat, at \in Nat : n = Top.part /\ at = Top.at BY <1>1 DEF FrameT
<1>6. /\ at \in 1..size /\ Len(Output) > 0 /\ Output[Len(Output)] = Run(Top)[at]
      /\ n \in 1..size - at /\ n <= Room /\ txHead + n <= TxSize
      /\ \A i \in 1..n : txSlots[txHead + i - 1] = Run(Top)[at + i]
  BY <1>1, <1>2, <1>4, <1>5 DEF Ending
<1>7. n \in Nat \ {0} /\ at + n <= size /\ at # 0 /\ \A i \in 1..n : at + i \in 1..size BY <1>4, <1>6
<1>8. PICK f \in FrameT : f = [Top EXCEPT !.pc = "arm", !.at = at + n, !.part = 0]
  <2>1. at + n \in Nat /\ 0 \in Nat /\ "arm" \in Stops BY <1>5 DEF Stops
  <2>. QED BY <1>1, <2>1 DEF FrameT
<1>9. /\ f.pc = "arm" /\ f.at = at + n /\ f.src = Top.src /\ f.stage = Top.stage /\ f.now = Top.now
      /\ f.mark = Top.mark
  BY <1>1, <1>8 DEF FrameT
<1>10. Become(f) /\ TxPublish(n) /\ UNCHANGED <<waitFrom, busy, marked, poolVars>>
       /\ stages' = stages /\ completed' = completed
  BY <1>5, <1>8 DEF PublishPart, poolVars
<1>11. Holds(f) /\ Underway(f) BY <1>9 DEF Holds, Underway, Stops
<1>12. marked' \in Nat /\ marked' <= lostLines BY <1>10 DEF WriterType, CountInv
<1>13. /\ WriterType' /\ CountInv' /\ PoolInv' /\ LockInv' /\ LineInv' /\ QueueInv'
      /\ DOMAIN stack' = DOMAIN stack /\ stack'[Len(stack)] = f /\ Len(stack) \in DOMAIN stack
      /\ \A d \in DOMAIN stack : d # Len(stack) => stack'[d] = stack[d] /\ ~Underway(stack[d])
  BY <1>3, <1>9, <1>10, <1>11, <1>12, MovesOn
<1>14. \A i \in 1..n : txSlots[txHead + i - 1] \in Byte /\ Run(Top)[at + i].line = line
  <2>1. \A k \in 1..size : Run(Top)[k] \in Byte /\ Run(Top)[k].line = line
    BY <1>4 DEF Bytes, Byte
  <2>. QED BY <1>4, <1>6, <1>7, <2>1
<1>15. /\ RingInv' /\ Len(Output') = Len(Output) + n
       /\ \A j \in 1..Len(Output) : Output'[j] = Output[j]
       /\ \A i \in 1..n : Output'[Len(Output) + i] = txSlots[txHead + i - 1]
  BY <1>6, <1>7, <1>10, <1>14, PublishedOut
<1>16. \A i \in 1..n : /\ Output'[Len(Output) + i] = Run(Top)[at + i]
                       /\ Output'[Len(Output) + i].line = line
  BY <1>4, <1>6, <1>14, <1>15
<1>17. SentInv' BY <1>3, <1>4, <1>7, <1>10, <1>15, <1>16, SentMore
<1>18. Chained'
  <2>1. Chained /\ IF at = 0 THEN Len(Output) = 0 \/ Output[Len(Output)].k = Output[Len(Output)].size
        ELSE Len(Output) > 0 /\ Output[Len(Output)] = Run(Top)[at]
    BY <1>4, <1>6, <1>7 DEF WireInv
  <2>2. \A i \in 1..n : Output'[Len(Output) + i] = Run(Top)[at + i] BY <1>6, <1>15
  <2>. QED BY <1>3, <1>4, <1>5, <1>7, <1>15, <2>1, <2>2, ChainedMore
<1>19. Run(f)' = Run(Top) BY <1>9, <1>10, RunKept
<1>20. Ending(f)'
  <2>1. f.at \in 1..Len(Run(f)') BY <1>4, <1>7, <1>9, <1>19
  <2>2. Len(Output) \in Nat /\ n \in 1..n BY <1>7, OutputIs
  <2>3. Len(Output') > 0 /\ Output'[Len(Output')] = Run(f)'[f.at]
    BY <1>4, <1>7, <1>9, <1>15, <1>16, <1>19, <2>2
  <2>. QED BY <1>9, <2>1, <2>3 DEF Ending
<1>21. WireInv' BY <1>11, <1>13, <1>18, <1>20, WireMoved
<1>. QED BY <1>13, <1>15, <1>17, <1>21

\* At the end of a line what went out ends with a whole run.
LEMMA EndWhole ==
  ASSUME LinesInv, Top.pc \in {"written", "refuse"}
  PROVE  Len(Output) = 0 \/ Output[Len(Output)].k = Output[Len(Output)].size
<1>. USE DEF LinesInv
<1>1. Holds(Top) BY DEF Holds, Stops
<1>2. CASE Top.pc = "refuse" BY <1>1, <1>2, TopIs, OneHolder DEF Underway, WireInv
<1>3. CASE Top.pc = "written"
  <2>1. Ending(Top) /\ Top \in FrameT /\ Top.stage \in Stages BY <1>3, TopIs DEF WireInv, Underway, FrameT
  <2>2. PICK l \in Nat, m \in Nat \ {0}, o \in Int : Run(Top) = Bytes(l, m, o) /\ Len(Run(Top)) = m
    BY <1>1, <2>1, OneHolder, RunIs
  <2>3. Output[Len(Output)] = Run(Top)[m] BY <1>3, <2>1, <2>2 DEF Ending
  <2>4. m \in 1..m BY <2>2
  <2>. QED BY <2>2, <2>3, <2>4 DEF Bytes
<1>. QED BY <1>2, <1>3

\* A mark written is whole, and tells no more than was lost.
LEMMA MarkWrittenKeeps == ASSUME LinesInv, MarkWritten PROVE LinesInv'
<1>. USE DEF LinesInv
<1>1. Top \in FrameT /\ Top.pc = "written" /\ Top.now \in Nat BY TopIs DEF MarkWritten, At, FrameT
<1>2. PICK f \in FrameT : f = [Top EXCEPT !.pc = "line", !.mark = FALSE, !.at = 0] BY <1>1 DEF FrameT, Stops
<1>3. f.pc = "line" /\ f.src = Top.src /\ f.stage = Top.stage /\ f.now = Top.now BY <1>1, <1>2 DEF FrameT
<1>4. Holds(Top) /\ Holds(f) /\ ~Underway(f) BY <1>1, <1>3 DEF Holds, Underway, Stops
<1>5. /\ Become(f) /\ UNCHANGED <<txVars, waitFrom, busy, poolVars>> /\ marked' = Top.now
      /\ stages' = stages /\ completed' = completed
  BY <1>2 DEF MarkWritten, poolVars
<1>6. marked' \in Nat /\ marked' <= lostLines BY <1>1, <1>4, <1>5, TopIs DEF CountInv
<1>7. /\ WriterType' /\ CountInv' /\ PoolInv' /\ LockInv' /\ LineInv' /\ QueueInv'
      /\ DOMAIN stack' = DOMAIN stack /\ stack'[Len(stack)] = f /\ Len(stack) \in DOMAIN stack
      /\ \A d \in DOMAIN stack : d # Len(stack) => stack'[d] = stack[d] /\ ~Underway(stack[d])
  BY <1>3, <1>4, <1>5, <1>6, MovesOn
<1>8. RingInv' /\ Output' = Output BY <1>5, RingSame
<1>9. SentInv' /\ Chained' BY <1>5, <1>8, SentKept, ChainedKept DEF WireInv
<1>10. \A d \in DOMAIN stack' : ~Underway(stack'[d]) BY <1>4, <1>7
<1>11. WireInv' BY <1>1, <1>8, <1>9, <1>10, EndWhole DEF WireInv
<1>. QED BY <1>7, <1>8, <1>9, <1>11

-----------------------------------------------------------------------------
(* The numbers of the pending lines.                                        *)
LEMMA Numbers ==
  ASSUME NEW r \in Nat \ {0}, NEW a \in 0..r - 1, NEW x \in 1..r - 1, NEW y \in 1..r - 1
  PROVE  (((a - x) % r) - ((a - y) % r)) % r = (IF x <= y THEN y - x ELSE y - x + r)
<1>. DEFINE p == (a - x) % r
            q == (a - y) % r
<1>1. x \in 0..r - 1 /\ y \in 0..r - 1 OBVIOUS
<1>2. p = (IF x <= a THEN a - x ELSE a - x + r) BY <1>1, TurnedBack
<1>3. q = (IF y <= a THEN a - y ELSE a - y + r) BY <1>1, TurnedBack
<1>. HIDE DEF p, q
<1>4. p \in 0..r - 1 /\ q \in 0..r - 1 BY <1>2, <1>3
<1>5. (p - q) % r = (IF q <= p THEN p - q ELSE p - q + r) BY <1>4, TurnedBack
<1>6. (IF q <= p THEN p - q ELSE p - q + r) = (IF x <= y THEN y - x ELSE y - x + r) BY <1>2, <1>3
<1>. QED BY <1>5, <1>6 DEF p, q

\* A number one further on, and the distances to it.
LEMMA NextNumber ==
  ASSUME NEW r \in Nat \ {0}, NEW a \in 0..r - 1, NEW x \in 0..r - 2
  PROVE  (((a + 1) % r) - (x + 1)) % r = (a - x) % r /\ (a + 1) % r \in 0..r - 1 /\ (a - 0) % r = a
<1>. DEFINE p == (a + 1) % r
<1>1. 1 \in 0..r /\ x \in 0..r - 1 /\ x + 1 \in 0..r - 1 /\ 0 \in 0..r - 1 OBVIOUS
<1>2. p = (IF a + 1 < r THEN a + 1 ELSE a + 1 - r) BY <1>1, Turned
<1>. HIDE DEF p
<1>3. p \in 0..r - 1 BY <1>2
<1>4. (p - (x + 1)) % r = (IF x + 1 <= p THEN p - (x + 1) ELSE p - (x + 1) + r) BY <1>1, <1>3, TurnedBack
<1>5. (a - x) % r = (IF x <= a THEN a - x ELSE a - x + r) BY <1>1, TurnedBack
<1>6. (a - 0) % r = a BY <1>1, TurnedBack
<1>7. (p - (x + 1)) % r = (a - x) % r BY <1>2, <1>4, <1>5
<1>. QED BY <1>3, <1>6, <1>7 DEF p

(* The lines completed since the one being published wait each in a stage.   *)
LEMMA FewWait ==
  ASSUME LinesInv, NEW pub \in In("publishing")
  PROVE  /\ TurnAt(pub) \in 1..Len(completed) /\ Len(completed) \in Nat
         /\ Len(completed) - TurnAt(pub) <= SmallStages
<1>. USE DEF LinesInv
<1>. DEFINE t == TurnAt(pub)
            S == t + 1..Len(completed)
            T == Stages \ {pub}
            g == [k \in S |-> CHOOSE p \in In("pending") : stages[p].line = completed[k]]
<1>1. Done(stages[pub].line) BY DEF LineInv
<1>2. t \in 1..Len(completed) /\ Len(completed) \in Nat BY <1>1, TurnIs DEF TurnAt, WriterType
<1>. HIDE DEF t
<1>3. \A k \in S : g[k] \in In("pending") /\ stages[g[k]].line = completed[k] BY DEF QueueInv, t
<1>4. \A p \in In("pending") : p \in T BY DEF In
<1>5. g \in [S -> T] BY <1>3, <1>4
<1>6. \A k, l \in S : g[k] = g[l] => k = l
  <2>. TAKE k, l \in S
  <2>1. k \in 1..Len(completed) /\ l \in 1..Len(completed) BY <1>2
  <2>2. completed[k] = completed[l] => k = l BY <2>1 DEF QueueInv
  <2>. QED BY <1>3, <2>2
<1>. HIDE DEF g
<1>7. g \in Injection(S, T) BY <1>5, <1>6 DEF Injection, IsInjective
<1>8. IsFiniteSet(T) /\ Cardinality(T) = SmallStages
  <2>1. IsFiniteSet(0..SmallStages) /\ Cardinality(0..SmallStages) = SmallStages + 1
    BY FS_Interval, WriterConstants
  <2>2. pub \in 0..SmallStages /\ T = (0..SmallStages) \ {pub} BY WriterConstants DEF In
  <2>3. IsFiniteSet((0..SmallStages) \ {pub}) /\ Cardinality((0..SmallStages) \ {pub}) = Cardinality(0..SmallStages) - 1
    BY <2>1, <2>2, FS_RemoveElement
  <2>4. SmallStages \in Nat BY WriterConstants
  <2>. HIDE DEF T
  <2>5. Cardinality((0..SmallStages) \ {pub}) = SmallStages BY <2>1, <2>3, <2>4
  <2>. QED BY <2>2, <2>3, <2>5
<1>9. Cardinality(S) <= Cardinality(T) BY <1>7, <1>8, FS_Injection
<1>10. Cardinality(S) = Len(completed) - t
  <2>1. Cardinality(t + 1..Len(completed)) = IF t + 1 > Len(completed) THEN 0 ELSE Len(completed) - (t + 1) + 1
    <3>1. t + 1 \in Int /\ Len(completed) \in Int BY <1>2
    <3>. QED BY <3>1, FS_Interval
  <2>. QED BY <1>2, <2>1
<1>. QED BY <1>2, <1>8, <1>9, <1>10 DEF t

(* By their numbers the pending lines are in the order of their turns.        *)
LEMMA BeforeIs ==
  ASSUME LinesInv, NEW pub \in In("publishing")
  PROVE  \A p, q \in In("pending") :
           /\ TurnAt(p) \in 1..Len(completed) /\ TurnAt(pub) < TurnAt(p)
           /\ p # q => TurnAt(p) # TurnAt(q) /\ (Before(p, q) <=> TurnAt(p) < TurnAt(q))
<1>. USE DEF LinesInv
<1>. DEFINE L == Len(completed)
            t == TurnAt(pub)
            x(p) == L + 1 - TurnAt(p)
<1>1. t \in 1..L /\ L \in Nat /\ L - t <= SmallStages BY FewWait
<1>2. \A p \in In("pending") : /\ TurnAt(p) \in 1..L /\ completed[TurnAt(p)] = stages[p].line
                               /\ t < TurnAt(p)
  BY TurnIs DEF TurnAt, LineInv, QueueInv
<1>. HIDE DEF t, L
<1>3. \A p \in In("pending") : /\ x(p) \in 1..SmallStages /\ x(p) \in 1..SeqRange - 1
                               /\ stages[p].seq = (seqNo - x(p)) % SeqRange
  <2>. TAKE p \in In("pending")
  <2>1. x(p) \in 1..SmallStages BY <1>1, <1>2, WriterConstants
  <2>2. stages[p].seq = (seqNo - x(p)) % SeqRange BY DEF QueueInv, L
  <2>. QED BY <2>1, <2>2, WriterConstants
<1>4. \A p, q \in In("pending") :
        (stages[p].seq - stages[q].seq) % SeqRange = (IF x(p) <= x(q) THEN x(q) - x(p) ELSE x(q) - x(p) + SeqRange)
  <2>1. SeqRange \in Nat \ {0} /\ seqNo \in 0..SeqRange - 1 BY WriterConstants DEF WriterType
  <2>. TAKE p, q \in In("pending")
  <2>2. x(p) \in 1..SeqRange - 1 /\ x(q) \in 1..SeqRange - 1 BY <1>3
  <2>3. (((seqNo - x(p)) % SeqRange) - ((seqNo - x(q)) % SeqRange)) % SeqRange
          = (IF x(p) <= x(q) THEN x(q) - x(p) ELSE x(q) - x(p) + SeqRange)
    BY <2>1, <2>2, Numbers
  <2>. QED BY <1>3, <2>3
<1>5. SeqRange \div 2 \in Nat /\ 2 * (SeqRange \div 2) <= SeqRange /\ SmallStages < SeqRange \div 2
      /\ SeqRange \in Nat /\ SmallStages \in Nat
  BY WriterConstants
<1>6. ASSUME NEW p \in In("pending"), NEW q \in In("pending"), p # q
      PROVE  TurnAt(p) # TurnAt(q) /\ (Before(p, q) <=> TurnAt(p) < TurnAt(q))
  <2>1. TurnAt(p) # TurnAt(q) BY <1>2, <1>6 DEF QueueInv
  <2>2. /\ x(p) \in 1..SmallStages /\ x(q) \in 1..SmallStages
        /\ TurnAt(p) \in Nat /\ TurnAt(q) \in Nat /\ L \in Nat
    BY <1>1, <1>2, <1>3
  <2>3. Before(p, q) <=> x(p) > x(q)
    <3>1. CASE x(p) <= x(q) BY <1>4, <1>5, <2>2, <3>1 DEF Before
    <3>2. CASE ~(x(p) <= x(q)) BY <1>4, <1>5, <2>2, <3>2 DEF Before
    <3>. QED BY <3>1, <3>2
  <2>. QED BY <2>1, <2>2, <2>3
<1>7. \A p \in In("pending") : TurnAt(p) \in 1..Len(completed) /\ TurnAt(pub) < TurnAt(p)
  BY <1>2 DEF t, L
<1>. QED BY <1>6, <1>7

(* So the oldest of the pending lines is the one completed next.             *)
LEMMA OldestIs ==
  ASSUME LinesInv, NEW pub \in In("publishing"), In("pending") # {}
  PROVE  Oldest(In("pending")) \in In("pending") /\ TurnAt(Oldest(In("pending"))) = TurnAt(pub) + 1
<1>. USE DEF LinesInv
<1>. DEFINE L == Len(completed)
            t == TurnAt(pub)
<1>1. t \in 1..L /\ L \in Nat BY FewWait
<1>2. \A p, q \in In("pending") :
        /\ TurnAt(p) \in 1..L /\ t < TurnAt(p)
        /\ p # q => TurnAt(p) # TurnAt(q) /\ (Before(p, q) <=> TurnAt(p) < TurnAt(q))
  BY BeforeIs
<1>3. PICK p1 \in In("pending") : stages[p1].line = completed[t + 1]
  <2>1. t + 1 \in t + 1..L BY <1>1, <1>2
  <2>. QED BY <2>1 DEF QueueInv
<1>4. TurnAt(p1) = t + 1 BY <1>1, <1>2, <1>3, TurnOf DEF TurnAt
<1>. HIDE DEF t, L
<1>5. \A p \in In("pending") \ {p1} : Before(p1, p) /\ ~Before(p, p1)
  <2>. TAKE p \in In("pending") \ {p1}
  <2>1. TurnAt(p1) < TurnAt(p) BY <1>1, <1>2, <1>4
  <2>2. ~(TurnAt(p) < TurnAt(p1)) BY <1>1, <1>2, <2>1
  <2>. QED BY <1>2, <2>1, <2>2
<1>6. \A i \in In("pending") : (\A j \in In("pending") \ {i} : Before(i, j)) => i = p1 BY <1>5
<1>7. Oldest(In("pending")) = p1 BY <1>5, <1>6 DEF Oldest
<1>. QED BY <1>4, <1>7 DEF t

-----------------------------------------------------------------------------
(* A line completed and published.                                          *)
\* A line completed takes the turn after the others.
LEMMA TurnAppend ==
  ASSUME WriterType, QueueInv, NEW l, ~Done(l), completed' = Append(completed, l)
  PROVE  /\ Len(completed) \in Nat /\ Len(completed') = Len(completed) + 1
         /\ completed'[Len(completed) + 1] = l
         /\ \A k \in 1..Len(completed) : completed'[k] = completed[k]
         /\ \A a : Done(a) => Done(a)' /\ Turn(a)' = Turn(a)
         /\ Done(l)' /\ Turn(l)' = Len(completed) + 1
         /\ \A j, k \in 1..Len(completed') : completed'[j] = completed'[k] => j = k
<1>. DEFINE L == Len(completed)
<1>1. completed \in Seq(1..begun) /\ L \in Nat BY DEF WriterType
<1>2. /\ Len(completed') = L + 1 /\ DOMAIN completed' = 1..L + 1 /\ completed'[L + 1] = l
      /\ \A k \in 1..L : completed'[k] = completed[k]
  BY <1>1
<1>3. \A k \in 1..L : completed[k] # l BY DEF Done
<1>4. \A k \in 1..L + 1 : k \in 1..L \/ k = L + 1 BY <1>1
<1>5. \A j, k \in 1..L : completed[j] = completed[k] => j = k BY DEF QueueInv
<1>. HIDE DEF L
<1>6. \A j, k \in 1..L + 1 : completed'[j] = completed'[k] => j = k
  <2>. SUFFICES ASSUME NEW j \in 1..L + 1, NEW k \in 1..L + 1, completed'[j] = completed'[k]
                PROVE  j = k
    OBVIOUS
  <2>1. CASE j \in 1..L /\ k \in 1..L BY <1>2, <1>5, <2>1
  <2>2. CASE j = L + 1 \/ k = L + 1 BY <1>2, <1>3, <1>4, <2>2
  <2>. QED BY <1>4, <2>1, <2>2
<1>7. ASSUME NEW a, Done(a)
      PROVE  Done(a)' /\ Turn(a)' = Turn(a)
  <2>1. Turn(a) \in 1..L /\ completed[Turn(a)] = a BY <1>7, TurnIs DEF L
  <2>2. Turn(a) \in 1..L + 1 /\ completed'[Turn(a)] = a BY <1>1, <1>2, <2>1 DEF L
  <2>3. \A k \in 1..L + 1 : completed'[k] = a => k = Turn(a) BY <1>6, <2>2
  <2>4. Turn(a)' = (CHOOSE k \in 1..L + 1 : completed'[k] = a) BY <1>2 DEF Turn
  <2>5. Turn(a)' = Turn(a) BY <2>2, <2>3, <2>4
  <2>6. Done(a)' BY <1>2, <2>2 DEF Done
  <2>. QED BY <2>5, <2>6
<1>8. Done(l)' /\ Turn(l)' = L + 1 BY <1>1, <1>2, <1>6 DEF L, Turn, Done
<1>. QED BY <1>1, <1>2, <1>6, <1>7, <1>8 DEF L

\* end_line(): the line is published under the lock, or numbered behind the pending ones.
LEMMA EndLineKeeps == ASSUME LinesInv, EndLine PROVE LinesInv'
<1>. USE DEF LinesInv
<1>. DEFINE n == Len(stack)
            L == Len(completed)
<1>1. /\ Top \in FrameT /\ Top.pc = "run" /\ Top = stack[n] /\ n \in DOMAIN stack /\ Top.src \in Sources
      /\ \A d \in DOMAIN stack : stack[d] \in FrameT /\ stack[d].stage \in Stages
  BY TopIs DEF At, FrameT, EndLine
<1>2. PICK src \in Sources : src = Top.src BY <1>1
<1>3. PICK i0 \in Stages : i0 = slot[src] BY <1>2 DEF EndLine
<1>4. PICK line : line = stages[i0].line OBVIOUS
<1>5. /\ slot' = [slot EXCEPT ![src] = NoSlot] /\ completed' = Append(completed, line)
      /\ ~stages[i0].overflow
      /\ UNCHANGED <<txVars, waitFrom, marked, lostLines, begun, refused>>
      /\ slot \in [Sources -> Stages \cup {NoSlot, Refused}] /\ stages \in [Stages -> StageT]
  BY <1>2, <1>3, <1>4 DEF EndLine, WriterType
<1>6. stages[i0].state = "open" /\ Fresh(line) /\ stages[i0].size \in 1..Capacity(i0)
  BY <1>3, <1>4, <1>5, WriterConstants DEF PoolInv, StageT
<1>7. ~Done(line) /\ line \in 1..begun /\ line \notin refused BY <1>6 DEF Fresh, Done
<1>8. /\ L \in Nat /\ Len(completed') = L + 1 /\ completed'[L + 1] = line
      /\ \A k \in 1..L : completed'[k] = completed[k]
      /\ \A a : Done(a) => Done(a)' /\ Turn(a)' = Turn(a)
      /\ Done(line)' /\ Turn(line)' = L + 1
      /\ \A j, k \in 1..Len(completed') : completed'[j] = completed'[k] => j = k
  BY <1>5, <1>7, TurnAppend
<1>9. /\ slot' \in [Sources -> Stages \cup {NoSlot, Refused}]
      /\ \A s \in Sources : slot'[s] \in Stages => s # src /\ slot'[s] = slot[s]
  BY <1>5, WriterConstants
<1>10. completed' \in Seq(1..begun') BY <1>5, <1>7 DEF WriterType
<1>11. \A l : Fresh(l) /\ l # line => Fresh(l)' BY <1>5, <1>8 DEF Fresh
<1>12. /\ RingInv' /\ Output' = Output /\ Room \in Nat /\ Room' = Room
       /\ txSlots' = txSlots /\ txHead' = txHead
  BY <1>5, RingSame
<1>13. ASSUME stages' \in [Stages -> StageT], stages'[i0].state \in {"pending", "publishing"},
              stages'[i0].line = line, stages'[i0].size = stages[i0].size,
              \A i \in Stages : i # i0 => stages'[i] = stages[i],
              busy' \in BOOLEAN, seqNo' \in 0..SeqRange - 1,
              NEW f \in FrameT, f.src = Top.src, ~Claimed(f), ~Underway(f), f.now <= lostLines \/ ~Holds(f), Become(f)
       PROVE  /\ WriterType' /\ CountInv' /\ PoolInv' /\ LineInv' /\ WireInv'
              /\ DOMAIN stack' = DOMAIN stack /\ stack'[n] = f
              /\ \A d \in DOMAIN stack : d # n => stack'[d] = stack[d]
              /\ \A i \in Stages : i # i0 /\ stages[i].state \in {"pending", "publishing"} =>
                   Done(stages[i].line) /\ Turn(stages[i].line)' = TurnAt(i) /\ TurnAt(i) \in 1..L
              /\ \A l : Done(l) => Turn(l) \in 1..L
  <2>1. /\ stack' \in Seq(FrameT) /\ stack' # <<>> /\ stack'[1].src = Main
        /\ DOMAIN stack' = DOMAIN stack /\ stack'[n] = f
        /\ \A d \in DOMAIN stack : d # n => stack'[d] = stack[d]
    BY <1>13, Becomes
  <2>2. WriterType' BY <1>5, <1>9, <1>10, <1>13, <2>1 DEF WriterType
  <2>3. CountInv' BY <1>1, <1>5, <1>13, <2>1 DEF CountInv
  <2>4. PoolInv'
    <3>1. \A s \in Sources : slot'[s] \in Stages =>
             slot'[s] = slot[s] /\ stages'[slot[s]] = stages[slot[s]] /\ Fresh(stages[slot[s]].line)'
      <4>. SUFFICES ASSUME NEW s \in Sources, slot'[s] \in Stages
                    PROVE  slot'[s] = slot[s] /\ stages'[slot[s]] = stages[slot[s]] /\ Fresh(stages[slot[s]].line)'
        OBVIOUS
      <4>1. s # src /\ slot'[s] = slot[s] BY <1>9
      <4>2. slot[s] # i0 /\ stages[slot[s]].line # line /\ Fresh(stages[slot[s]].line)
        BY <1>3, <1>4, <4>1 DEF PoolInv
      <4>3. stages'[slot[s]] = stages[slot[s]] BY <1>13, <4>1, <4>2
      <4>. QED BY <1>11, <4>1, <4>2, <4>3
    <3>2. \A d \in DOMAIN stack' : Claimed(stack'[d]) =>
             /\ d \in DOMAIN stack /\ stack[d] = stack'[d] /\ Fresh(stack[d].line)'
             /\ stages'[stack[d].stage].state = "open"
      <4>. SUFFICES ASSUME NEW d \in DOMAIN stack', Claimed(stack'[d])
                    PROVE  /\ d \in DOMAIN stack /\ stack[d] = stack'[d] /\ Fresh(stack[d].line)'
                           /\ stages'[stack[d].stage].state = "open"
        OBVIOUS
      <4>1. d \in DOMAIN stack /\ stack[d] = stack'[d] /\ Claimed(stack[d]) BY <1>13, <2>1
      <4>2. stack[d].stage # i0 /\ stack[d].line # line /\ Fresh(stack[d].line)
            /\ stages[stack[d].stage].state = "open"
        BY <1>3, <1>4, <4>1 DEF PoolInv
      <4>. QED BY <1>1, <1>11, <1>13, <4>1, <4>2
    <3>. QED BY <3>1, <3>2, PoolKept
  <2>5. LineInv'
    <3>. SUFFICES ASSUME NEW i \in Stages, stages'[i].state \in {"pending", "publishing"}
                  PROVE  /\ stages'[i].size \in 1..Capacity(i)' /\ stages'[i].line \notin refused'
                         /\ Done(stages[i].line)'
      BY DEF LineInv, In
    <3>1. Capacity(i)' = Capacity(i) BY DEF Capacity
    <3>2. CASE i = i0
      <4>1. Done(line)' /\ line = stages'[i].line BY <1>8, <1>13, <3>2
      <4>2. Done(stages[i].line)' BY <4>1 DEF Done
      <4>. QED BY <1>5, <1>6, <1>7, <1>13, <3>1, <3>2, <4>2
    <3>3. CASE i # i0 BY <1>5, <1>8, <1>13, <3>1, <3>3 DEF In, LineInv, Done
    <3>. QED BY <3>2, <3>3
  <2>6. WireInv'
    <3>1. SameUnderway BY <1>1, <1>13, <2>1 DEF SameUnderway, Underway
    <3>2. \A i \in Stages : stages[i].state = "publishing" => stages'[i] = stages[i] BY <1>6, <1>13
    <3>. QED BY <1>5, <1>12, <3>1, <3>2, WireKept
  <2>7. \A l : Done(l) => Turn(l) \in 1..L BY TurnIs
  <2>8. \A i \in Stages : i # i0 /\ stages[i].state \in {"pending", "publishing"} =>
          Done(stages[i].line) /\ Turn(stages[i].line)' = TurnAt(i) /\ TurnAt(i) \in 1..L
    <3>. SUFFICES ASSUME NEW i \in Stages, i # i0, stages[i].state \in {"pending", "publishing"}
                  PROVE  Done(stages[i].line) /\ Turn(stages[i].line)' = TurnAt(i) /\ TurnAt(i) \in 1..L
      OBVIOUS
    <3>1. Done(stages[i].line) BY DEF LineInv, In
    <3>2. stages'[i].line = stages[i].line BY <1>13
    <3>3. Turn(stages[i].line)' = TurnAt(i) BY <1>8, <3>1, <3>2 DEF TurnAt, Turn
    <3>. QED BY <2>7, <3>1, <3>3 DEF TurnAt
  <2>. QED BY <2>1, <2>2, <2>3, <2>4, <2>5, <2>6, <2>7, <2>8
<1>. HIDE DEF n
<1>14. CASE /\ busy /\ stages' = [stages EXCEPT ![i0].state = "pending", ![i0].seq = seqNo]
            /\ seqNo' = (seqNo + 1) % SeqRange /\ Printed /\ UNCHANGED busy
  <2>1. PICK f \in FrameT : f = [Top EXCEPT !.printed = TRUE] BY <1>1 DEF FrameT
  <2>2. f.src = Top.src /\ f.pc = "run" BY <1>1, <2>1 DEF FrameT
  <2>3. /\ stages' \in [Stages -> StageT] /\ stages'[i0].state = "pending" /\ stages'[i0].seq = seqNo
        /\ stages'[i0].line = line /\ stages'[i0].size = stages[i0].size
        /\ \A i \in Stages : i # i0 => stages'[i] = stages[i]
    BY <1>4, <1>5, <1>14 DEF StageT, WriterType
  <2>4. seqNo' \in 0..SeqRange - 1 /\ seqNo \in 0..SeqRange - 1 /\ SeqRange \in Nat \ {0} /\ SmallStages + 2 <= SeqRange
        /\ SmallStages \in Nat
    <3>1. seqNo \in 0..SeqRange - 1 /\ SeqRange \in Nat \ {0} /\ 0 \in 0..SeqRange - 2
      BY WriterConstants DEF WriterType
    <3>. QED BY <1>14, <3>1, NextNumber, WriterConstants
  <2>5. busy' \in BOOLEAN BY <1>14 DEF WriterType
  <2>6. Become(f) /\ ~Claimed(f) /\ ~Underway(f) /\ ~Holds(f)
    BY <1>14, <2>1, <2>2 DEF Printed, Claimed, Underway, Holds, Stops
  <2>7. /\ WriterType' /\ CountInv' /\ PoolInv' /\ LineInv' /\ WireInv'
        /\ DOMAIN stack' = DOMAIN stack /\ stack'[n] = f
        /\ \A d \in DOMAIN stack : d # n => stack'[d] = stack[d]
        /\ \A i \in Stages : i # i0 /\ stages[i].state \in {"pending", "publishing"} =>
             Done(stages[i].line) /\ Turn(stages[i].line)' = TurnAt(i) /\ TurnAt(i) \in 1..L
        /\ \A l : Done(l) => Turn(l) \in 1..L
    BY <1>13, <2>2, <2>3, <2>4, <2>5, <2>6
  <2>8. LockInv'
    <3>1. SameHolder BY <1>1, <2>6, <2>7 DEF SameHolder, Holds, Stops
    <3>2. \A i \in Stages : stages'[i].state = "publishing" <=> stages[i].state = "publishing"
      BY <1>6, <2>3
    <3>. QED BY <1>1, <1>14, <3>1, <3>2, LockKept
  <2>9. PICK pub \in In("publishing") : TRUE BY <1>14, <1>1 DEF LockInv, In
  <2>10. pub # i0 /\ TurnAt(pub) \in 1..L /\ L - TurnAt(pub) <= SmallStages BY <1>6, <2>9, FewWait DEF In
  <2>11. In("publishing")' = In("publishing") /\ In("pending")' = In("pending") \cup {i0}
    BY <1>6, <2>3 DEF In
  <2>12. \A i \in In("pending") \cup In("publishing") : i # i0 /\ stages'[i] = stages[i] /\ TurnAt(i)' = TurnAt(i)
           /\ TurnAt(i) \in 1..L /\ Done(stages[i].line)
    <3>. TAKE i \in In("pending") \cup In("publishing")
    <3>1. i \in Stages /\ i # i0 /\ stages[i].state \in {"pending", "publishing"} BY <1>6 DEF In
    <3>. QED BY <2>3, <2>7, <3>1 DEF TurnAt
  <2>13. TurnAt(i0)' = L + 1 BY <1>8, <2>3 DEF Turn, TurnAt
  <2>14. QueueInv'
    <3>1. \A p, q \in In("pending")' : stages'[p].line = stages'[q].line => p = q
      BY <1>7, <2>3, <2>11, <2>12 DEF QueueInv
    <3>2. ASSUME NEW i \in In("publishing")'
          PROVE  /\ \A p \in In("pending")' : TurnAt(i)' < TurnAt(p)'
                 /\ \A k \in TurnAt(i)' + 1..Len(completed') : \E p \in In("pending")' : stages'[p].line = completed'[k]
      <4>1. i \in In("publishing") /\ TurnAt(i)' = TurnAt(i) /\ TurnAt(i) \in 1..L BY <2>11, <2>12
      <4>2. \A p \in In("pending") : TurnAt(i) < TurnAt(p) BY <4>1 DEF QueueInv
      <4>3. \A p \in In("pending")' : TurnAt(i)' < TurnAt(p)'
        BY <1>8, <2>11, <2>12, <2>13, <4>1, <4>2
      <4>4. ASSUME NEW k \in TurnAt(i)' + 1..Len(completed')
            PROVE  \E p \in In("pending")' : stages'[p].line = completed'[k]
        <5>1. CASE k = L + 1 BY <1>8, <2>3, <2>11, <5>1
        <5>2. CASE k # L + 1
          <6>1. k \in TurnAt(i) + 1..L /\ k \in 1..L BY <1>8, <4>1, <5>2
          <6>2. PICK p \in In("pending") : stages[p].line = completed[k] BY <4>1, <6>1 DEF QueueInv
          <6>3. p \in In("pending")' /\ stages'[p].line = stages[p].line /\ completed'[k] = completed[k]
            BY <1>8, <2>11, <2>12, <6>1
          <6>. QED BY <6>2, <6>3
        <5>. QED BY <5>1, <5>2
      <4>. QED BY <4>3, <4>4
    <3>3. ASSUME NEW p \in In("pending")'
          PROVE  stages'[p].seq = (seqNo' - (Len(completed') + 1 - TurnAt(p)')) % SeqRange
      <4>1. CASE p = i0
        <5>1. Len(completed') + 1 - TurnAt(p)' = 0 + 1 BY <1>8, <2>13, <4>1
        <5>2. 0 \in 0..SeqRange - 2 BY <2>4
        <5>3. (((seqNo + 1) % SeqRange) - (0 + 1)) % SeqRange = (seqNo - 0) % SeqRange /\ (seqNo - 0) % SeqRange = seqNo
          BY <2>4, <5>2, NextNumber
        <5>. QED BY <1>14, <2>3, <4>1, <5>1, <5>3
      <4>2. CASE p # i0
        <5>1. p \in In("pending") /\ stages'[p] = stages[p] /\ TurnAt(p)' = TurnAt(p) /\ TurnAt(p) \in 1..L
          BY <2>11, <2>12, <4>2
        <5>2. TurnAt(pub) < TurnAt(p) BY <2>9, <5>1 DEF QueueInv
        <5>0. PICK a \in 1..L, b \in 1..L : a = TurnAt(pub) /\ b = TurnAt(p) BY <2>10, <5>1
        <5>. HIDE DEF L
        <5>3. PICK x \in 0..SeqRange - 2 : x = L + 1 - TurnAt(p) BY <1>8, <2>4, <2>10, <5>0, <5>2
        <5>. USE DEF L
        <5>4. Len(completed') + 1 - TurnAt(p)' = x + 1 BY <1>8, <5>1, <5>3
        <5>5. stages[p].seq = (seqNo - x) % SeqRange BY <5>1, <5>3 DEF QueueInv
        <5>6. (((seqNo + 1) % SeqRange) - (x + 1)) % SeqRange = (seqNo - x) % SeqRange
          BY <2>4, <5>3, NextNumber
        <5>. QED BY <1>14, <5>1, <5>4, <5>5, <5>6
      <4>. QED BY <4>1, <4>2
    <3>. QED BY <1>8, <3>1, <3>2, <3>3 DEF QueueInv
  <2>15. SentInv'
    <3>1. ASSUME NEW j \in 1..Len(Output), Output[j].line # 0
          PROVE  /\ Done(Output[j].line)' /\ Turn(Output[j].line)' = Turn(Output[j].line)
      <4>1. Done(Output[j].line) BY <3>1 DEF SentInv
      <4>. QED BY <1>8, <1>12, <4>1 DEF Done, Turn
    <3>2. \A i \in In("publishing")' : i \in In("publishing") /\ TurnAt(i)' = TurnAt(i) BY <2>11, <2>12
    <3>3. ASSUME NEW j \in 1..Len(Output'), Output'[j].line # 0
          PROVE  /\ Done(Output[j].line)'
                 /\ \A i \in 1..j - 1 : Output'[i].line # 0 => Turn(Output[i].line)' <= Turn(Output[j].line)'
                 /\ \A i \in In("publishing")' : Turn(Output[j].line)' <= TurnAt(i)'
      BY <1>12, <3>1, <3>2, <3>3, OutputIs DEF SentInv
    <3>. QED BY <3>3 DEF SentInv
  <2>. QED BY <1>12, <2>7, <2>8, <2>14, <2>15
<1>15. CASE /\ ~busy /\ busy' = TRUE /\ stages' = [stages EXCEPT ![i0].state = "publishing"]
            /\ Become([Top EXCEPT !.pc = IF lostLines # marked THEN "mark" ELSE "line", !.printed = TRUE,
                                  !.stage = i0, !.now = lostLines])
            /\ UNCHANGED seqNo
  <2>0. lostLines \in Nat BY CountNat DEF WriterType
  <2>1. PICK f \in FrameT : f = [Top EXCEPT !.pc = IF lostLines # marked THEN "mark" ELSE "line", !.printed = TRUE,
                                            !.stage = i0, !.now = lostLines]
    BY <1>1, <2>0 DEF FrameT, Stops
  <2>2. f.src = Top.src /\ f.pc \in {"mark", "line"} /\ f.stage = i0 /\ f.now = lostLines
    BY <1>1, <2>1 DEF FrameT
  <2>3. /\ stages' \in [Stages -> StageT] /\ stages'[i0].state = "publishing"
        /\ stages'[i0].line = line /\ stages'[i0].size = stages[i0].size
        /\ \A i \in Stages : i # i0 => stages'[i] = stages[i]
    BY <1>4, <1>5, <1>15 DEF StageT
  <2>4. seqNo' \in 0..SeqRange - 1 /\ busy' \in BOOLEAN BY <1>15 DEF WriterType
  <2>5. f.now <= lostLines BY <2>0, <2>2
  <2>6. Become(f) /\ ~Claimed(f) /\ ~Underway(f) /\ Holds(f)
    BY <1>15, <2>1, <2>2 DEF Claimed, Underway, Holds, Stops
  <2>7. /\ WriterType' /\ CountInv' /\ PoolInv' /\ LineInv' /\ WireInv'
        /\ DOMAIN stack' = DOMAIN stack /\ stack'[n] = f
        /\ \A d \in DOMAIN stack : d # n => stack'[d] = stack[d]
        /\ \A i \in Stages : i # i0 /\ stages[i].state \in {"pending", "publishing"} =>
             Done(stages[i].line) /\ Turn(stages[i].line)' = TurnAt(i) /\ TurnAt(i) \in 1..L
        /\ \A l : Done(l) => Turn(l) \in 1..L
    BY <1>13, <2>2, <2>3, <2>4, <2>5, <2>6
  <2>8. /\ \A d \in DOMAIN stack : ~Holds(stack[d])
        /\ \A i \in Stages : stages[i].state # "pending" /\ stages[i].state # "publishing"
    BY <1>15 DEF LockInv, In
  <2>9. In("pending")' = {} /\ In("publishing")' = {i0} BY <2>3, <2>8 DEF In
  <2>10. LockInv' BY <1>1, <1>15, <2>2, <2>3, <2>6, <2>7, <2>8, <2>9 DEF LockInv
  <2>11. TurnAt(i0)' = L + 1 BY <1>8, <2>3 DEF Turn, TurnAt
  <2>12. QueueInv' BY <1>8, <2>9, <2>11 DEF QueueInv
  <2>13. SentInv'
    <3>1. ASSUME NEW j \in 1..Len(Output), Output[j].line # 0
          PROVE  /\ Done(Output[j].line)' /\ Turn(Output[j].line)' = Turn(Output[j].line)
                 /\ Turn(Output[j].line) \in 1..L
      <4>1. Done(Output[j].line) BY <3>1 DEF SentInv
      <4>. QED BY <1>8, <1>12, <2>7, <4>1 DEF Done, Turn
    <3>2. \A i \in In("publishing")' : TurnAt(i)' = L + 1 BY <2>9, <2>11
    <3>3. ASSUME NEW j \in 1..Len(Output'), Output'[j].line # 0
          PROVE  /\ Done(Output[j].line)'
                 /\ \A i \in 1..j - 1 : Output'[i].line # 0 => Turn(Output[i].line)' <= Turn(Output[j].line)'
                 /\ \A i \in In("publishing")' : Turn(Output[j].line)' <= TurnAt(i)'
      <4>1. j \in 1..Len(Output) /\ Output[j].line # 0 /\ \A i \in 1..j - 1 : i \in 1..Len(Output)
        BY <1>12, <3>3, OutputIs
      <4>. QED BY <1>8, <1>12, <3>1, <3>2, <4>1 DEF SentInv
    <3>. QED BY <3>3 DEF SentInv
  <2>. QED BY <1>12, <2>7, <2>10, <2>12, <2>13
<1>16. (<1>14!1 \/ <1>15!1) BY <1>2, <1>3 DEF EndLine
<1>. QED BY <1>14, <1>15, <1>16

\* The end of a line: the next is the oldest pending, or the lock is released.
LEMMA RelayKeeps == ASSUME LinesInv, Relay PROVE LinesInv'
<1>. USE DEF LinesInv
<1>. DEFINE n == Len(stack)
            L == Len(completed)
<1>1. /\ Top \in FrameT /\ Top.pc \in {"refuse", "written"} /\ Top = stack[n] /\ n \in DOMAIN stack
      /\ Top.src \in Sources /\ Top.stage \in Stages /\ Holds(Top)
      /\ \A d \in DOMAIN stack : stack[d] \in FrameT /\ stack[d].stage \in Stages
  BY TopIs DEF At, FrameT, Relay, Holds, Stops
<1>2. PICK pub \in Stages : pub = Top.stage BY <1>1
<1>3. PICK line : line = stages[pub].line OBVIOUS
<1>4. /\ pub \in In("publishing") /\ busy /\ stages[pub].state = "publishing"
      /\ \A d \in DOMAIN stack : d # n => ~Holds(stack[d]) /\ ~Underway(stack[d])
      /\ \A i \in Stages : stages[i].state = "publishing" <=> i = pub
  BY <1>1, <1>2, OneHolder DEF In
<1>5. /\ UNCHANGED <<txVars, waitFrom, marked, slot, seqNo, begun, completed>>
      /\ completed' = completed /\ slot' = slot /\ seqNo' = seqNo /\ begun' = begun /\ marked' = marked
      /\ stages \in [Stages -> StageT]
  BY DEF Relay, WriterType
<1>6. Done(line) /\ line \notin refused /\ line \in 1..begun BY <1>3, <1>4 DEF LineInv, Done, WriterType
<1>8. /\ refused' \subseteq refused \cup {line} /\ refused' \subseteq 1..begun /\ lostLines' = Cardinality(refused')
      /\ marked <= lostLines' /\ lostLines \in Nat /\ lostLines <= lostLines' /\ lostLines' \in Nat
  <2>1. lostLines \in Nat BY CountNat DEF WriterType
  <2>2. CASE refused' = refused /\ lostLines' = lostLines BY <2>1, <2>2 DEF CountInv
  <2>3. CASE refused' = refused \cup {line} /\ lostLines' = lostLines + 1
    <3>1. /\ line \in Nat \ refused /\ begun \in Nat /\ begun' \in Nat /\ begun <= begun' /\ line \in 1..begun'
          /\ marked \in Nat
      BY <1>5, <1>6 DEF WriterType
    <3>2. refused' \subseteq 1..begun' /\ lostLines' = Cardinality(refused') /\ marked' <= lostLines'
      BY <1>5, <2>3, <3>1, RefusedMore
    <3>. QED BY <1>5, <2>1, <2>3, <3>2
  <2>. QED BY <1>2, <1>3, <2>2, <2>3 DEF Relay, Publishing
<1>9. \A l : Fresh(l) => Fresh(l)' BY <1>5, <1>6, <1>8 DEF Fresh, Done
<1>10. /\ RingInv' /\ Output' = Output BY <1>5, RingSame
<1>11. Len(Output) = 0 \/ Output[Len(Output)].k = Output[Len(Output)].size BY <1>1, EndWhole
(* What the two ends have in common: the top frame becomes f, which is not    *)
(* writing, and the other stages in use are as they were.                   *)
<1>12. ASSUME stages' \in [Stages -> StageT], stages'[pub].state = "free",
              \A i \in Stages : stages[i].state = "open" => stages'[i] = stages[i],
              \A i \in Stages : /\ stages'[i].line = stages[i].line /\ stages'[i].size = stages[i].size
                                /\ stages'[i].seq = stages[i].seq,
              \A i \in Stages : stages'[i].state \in {"pending", "publishing"} => stages[i].state = "pending",
              busy' \in BOOLEAN,
              NEW f \in FrameT, f.src = Top.src, ~Claimed(f), ~Underway(f), f.now <= lostLines \/ ~Holds(f), Become(f)
       PROVE  /\ WriterType' /\ CountInv' /\ PoolInv' /\ LineInv' /\ WireInv'
              /\ DOMAIN stack' = DOMAIN stack /\ stack'[n] = f
              /\ \A d \in DOMAIN stack : d # n => stack'[d] = stack[d]
              /\ \A i \in Stages : stages[i].state \in {"pending", "publishing"} =>
                   Done(stages[i].line) /\ TurnAt(i)' = TurnAt(i) /\ TurnAt(i) \in 1..L
              /\ \A l : Turn(l)' = Turn(l) /\ (Done(l)' <=> Done(l))
  <2>1. /\ stack' \in Seq(FrameT) /\ stack' # <<>> /\ stack'[1].src = Main
        /\ DOMAIN stack' = DOMAIN stack /\ stack'[n] = f
        /\ \A d \in DOMAIN stack : d # n => stack'[d] = stack[d]
    BY <1>12, Becomes
  <2>2. WriterType' BY <1>5, <1>12, <2>1 DEF WriterType
  <2>3. CountInv'
    <3>1. \A d \in DOMAIN stack' : Holds(stack'[d]) => stack'[d].now <= lostLines'
      <4>. SUFFICES ASSUME NEW d \in DOMAIN stack', Holds(stack'[d])
                    PROVE  stack'[d].now <= lostLines'
        OBVIOUS
      <4>1. d = n /\ stack'[d] = f BY <1>4, <2>1
      <4>2. f.now \in Nat /\ f.now <= lostLines BY <1>12, <4>1 DEF FrameT
      <4>. QED BY <1>8, <4>1, <4>2
    <3>. QED BY <1>5, <1>8, <3>1 DEF CountInv
  <2>4. PoolInv'
    <3>1. \A s \in Sources : slot'[s] \in Stages =>
             slot'[s] = slot[s] /\ stages'[slot[s]] = stages[slot[s]] /\ Fresh(stages[slot[s]].line)'
      <4>. SUFFICES ASSUME NEW s \in Sources, slot'[s] \in Stages
                    PROVE  slot'[s] = slot[s] /\ stages'[slot[s]] = stages[slot[s]] /\ Fresh(stages[slot[s]].line)'
        OBVIOUS
      <4>1. slot'[s] = slot[s] /\ slot[s] \in Stages BY <1>5
      <4>2. stages[slot[s]].state = "open" /\ Fresh(stages[slot[s]].line) BY <4>1 DEF PoolInv
      <4>3. stages'[slot[s]] = stages[slot[s]] BY <1>12, <4>1, <4>2
      <4>. QED BY <1>9, <4>1, <4>2, <4>3 DEF Fresh
    <3>2. \A d \in DOMAIN stack' : Claimed(stack'[d]) =>
             /\ d \in DOMAIN stack /\ stack[d] = stack'[d] /\ Fresh(stack[d].line)'
             /\ stages'[stack[d].stage].state = "open"
      <4>. SUFFICES ASSUME NEW d \in DOMAIN stack', Claimed(stack'[d])
                    PROVE  /\ d \in DOMAIN stack /\ stack[d] = stack'[d] /\ Fresh(stack[d].line)'
                           /\ stages'[stack[d].stage].state = "open"
        OBVIOUS
      <4>1. d \in DOMAIN stack /\ stack[d] = stack'[d] /\ Claimed(stack[d]) BY <1>12, <2>1
      <4>2. Fresh(stack[d].line) /\ stages[stack[d].stage].state = "open" BY <4>1 DEF PoolInv
      <4>3. stages'[stack[d].stage] = stages[stack[d].stage] BY <1>1, <1>12, <4>1, <4>2
      <4>. QED BY <1>9, <4>1, <4>2, <4>3 DEF Fresh
    <3>. QED BY <3>1, <3>2, PoolKept
  <2>5. \A l : Turn(l)' = Turn(l) /\ (Done(l)' <=> Done(l)) BY <1>5, TurnKept
  <2>6. \A i \in Stages : stages[i].state \in {"pending", "publishing"} =>
          Done(stages[i].line) /\ TurnAt(i)' = TurnAt(i) /\ TurnAt(i) \in 1..L
    <3>. SUFFICES ASSUME NEW i \in Stages, stages[i].state \in {"pending", "publishing"}
                  PROVE  Done(stages[i].line) /\ TurnAt(i)' = TurnAt(i) /\ TurnAt(i) \in 1..L
      OBVIOUS
    <3>1. Done(stages[i].line) BY DEF LineInv, In
    <3>2. TurnAt(i)' = TurnAt(i) BY <1>5, <1>12 DEF TurnAt, Turn
    <3>. QED BY <3>1, <3>2, TurnIs DEF TurnAt
  <2>7. LineInv'
    <3>. SUFFICES ASSUME NEW i \in Stages, stages'[i].state \in {"pending", "publishing"}
                  PROVE  /\ stages[i].state \in {"pending", "publishing"} /\ stages'[i].size = stages[i].size
                         /\ stages'[i].line = stages[i].line /\ stages[i].line \notin refused'
      BY <1>5, LineKept
    <3>1. i \in In("pending") /\ stages[i].state = "pending" BY <1>12 DEF In
    <3>2. TurnAt(pub) < TurnAt(i) /\ TurnAt(pub) \in 1..L BY <1>4, <2>6, <3>1 DEF QueueInv
    <3>3. stages[i].line # line BY <1>3, <3>2 DEF TurnAt
    <3>4. stages[i].line \notin refused BY <3>1 DEF LineInv
    <3>. QED BY <1>8, <1>12, <3>1, <3>3, <3>4
  <2>8. WireInv'
    <3>1. \A d \in DOMAIN stack' : ~Underway(stack'[d]) BY <1>4, <1>12, <2>1
    <3>2. Chained' BY <1>10, ChainedKept DEF WireInv
    <3>. QED BY <1>10, <1>11, <3>1, <3>2 DEF WireInv
  <2>. QED BY <2>1, <2>2, <2>3, <2>4, <2>5, <2>6, <2>7, <2>8
<1>. HIDE DEF n
<1>13. CASE /\ In("pending") = {} /\ stages' = [stages EXCEPT ![pub].state = "free"]
            /\ busy' = FALSE /\ Become([Frame(Top.src) EXCEPT !.printed = TRUE])
  <2>0. PICK src \in Sources : src = Top.src BY <1>1
  <2>1. PICK f \in FrameT : f = [Frame(Top.src) EXCEPT !.printed = TRUE]
    <3>1. Frame(src) \in FrameT BY WriterConstants DEF Frame, FrameT, Stops
    <3>2. [Frame(src) EXCEPT !.printed = TRUE] \in FrameT BY <3>1 DEF FrameT
    <3>. QED BY <2>0, <3>2
  <2>2. f.src = Top.src /\ f.pc = "run" BY <2>1 DEF Frame
  <2>3. /\ stages' \in [Stages -> StageT] /\ stages'[pub].state = "free"
        /\ \A i \in Stages : i # pub => stages'[i] = stages[i]
        /\ stages'[pub].line = stages[pub].line /\ stages'[pub].size = stages[pub].size
        /\ stages'[pub].seq = stages[pub].seq
    BY <1>5, <1>13 DEF StageT
  <2>4. \A i \in Stages : stages'[i].state # "pending" /\ stages'[i].state # "publishing"
    BY <1>4, <1>13, <2>3 DEF In
  <2>5. /\ Become(f) /\ ~Claimed(f) /\ ~Underway(f) /\ ~Holds(f)
        /\ \A i \in Stages : stages[i].state = "open" => stages'[i] = stages[i]
        /\ \A i \in Stages : /\ stages'[i].line = stages[i].line /\ stages'[i].size = stages[i].size
                             /\ stages'[i].seq = stages[i].seq
        /\ \A i \in Stages : stages'[i].state \in {"pending", "publishing"} => stages[i].state = "pending"
        /\ busy' \in BOOLEAN
    BY <1>4, <1>13, <2>1, <2>2, <2>3, <2>4 DEF Claimed, Underway, Holds, Stops
  <2>6. /\ WriterType' /\ CountInv' /\ PoolInv' /\ LineInv' /\ WireInv'
        /\ DOMAIN stack' = DOMAIN stack /\ stack'[n] = f
        /\ \A d \in DOMAIN stack : d # n => stack'[d] = stack[d]
        /\ \A l : Turn(l)' = Turn(l) /\ (Done(l)' <=> Done(l))
    BY <1>12, <2>2, <2>3, <2>5
  <2>7. In("pending")' = {} /\ In("publishing")' = {} BY <2>4 DEF In
  <2>8. \A d \in DOMAIN stack' : ~Holds(stack'[d]) BY <1>4, <2>5, <2>6
  <2>9. LockInv' BY <1>13, <2>7, <2>8 DEF LockInv
  <2>10. QueueInv' BY <1>5, <2>7 DEF QueueInv
  <2>11. SentInv' BY <1>5, <1>10, <2>4, SentKept
  <2>. QED BY <1>10, <2>6, <2>9, <2>10, <2>11
<1>14. CASE /\ In("pending") # {}
            /\ stages' = [stages EXCEPT ![pub].state = "free", ![Oldest(In("pending"))].state = "publishing"]
            /\ Become([Top EXCEPT !.pc = "line", !.stage = Oldest(In("pending")), !.at = 0])
            /\ UNCHANGED busy
  <2>1. Oldest(In("pending")) \in In("pending") /\ TurnAt(Oldest(In("pending"))) = TurnAt(pub) + 1
    BY <1>4, <1>14, OldestIs
  <2>2. PICK heir \in Stages : heir = Oldest(In("pending")) BY <2>1 DEF In
  <2>3. /\ heir # pub /\ stages[heir].state = "pending" /\ TurnAt(heir) = TurnAt(pub) + 1
        /\ heir \in In("pending")
    BY <1>4, <2>1, <2>2 DEF In
  <2>4. PICK f \in FrameT : f = [Top EXCEPT !.pc = "line", !.stage = heir, !.at = 0]
    BY <1>1 DEF FrameT, Stops
  <2>5. f.src = Top.src /\ f.pc = "line" /\ f.stage = heir /\ f.now = Top.now BY <1>1, <2>4 DEF FrameT
  <2>6. /\ stages' \in [Stages -> StageT] /\ stages'[pub].state = "free" /\ stages'[heir].state = "publishing"
        /\ \A i \in Stages : i # pub /\ i # heir => stages'[i] = stages[i]
        /\ \A i \in Stages : /\ stages'[i].line = stages[i].line /\ stages'[i].size = stages[i].size
                             /\ stages'[i].seq = stages[i].seq
    BY <1>5, <1>14, <2>2, <2>3 DEF StageT
  <2>7. f.now <= lostLines BY <1>1, <2>5 DEF CountInv
  <2>8. /\ Become(f) /\ ~Claimed(f) /\ ~Underway(f) /\ Holds(f) /\ busy' \in BOOLEAN
        /\ \A i \in Stages : stages[i].state = "open" => stages'[i] = stages[i]
        /\ \A i \in Stages : stages'[i].state \in {"pending", "publishing"} => stages[i].state = "pending"
    BY <1>4, <1>14, <2>2, <2>3, <2>4, <2>5, <2>6 DEF Claimed, Underway, Holds, Stops
  <2>9. /\ WriterType' /\ CountInv' /\ PoolInv' /\ LineInv' /\ WireInv'
        /\ DOMAIN stack' = DOMAIN stack /\ stack'[n] = f
        /\ \A d \in DOMAIN stack : d # n => stack'[d] = stack[d]
        /\ \A i \in Stages : stages[i].state \in {"pending", "publishing"} =>
             Done(stages[i].line) /\ TurnAt(i)' = TurnAt(i) /\ TurnAt(i) \in 1..L
        /\ \A l : Turn(l)' = Turn(l) /\ (Done(l)' <=> Done(l))
    BY <1>12, <2>5, <2>6, <2>7, <2>8
  <2>10. In("publishing")' = {heir} /\ In("pending")' = In("pending") \ {heir}
    BY <1>4, <2>3, <2>6 DEF In
  <2>11. LockInv'
    <3>1. \A d \in DOMAIN stack' : Holds(stack'[d]) <=> d = n BY <1>1, <1>4, <2>8, <2>9
    <3>. QED BY <1>1, <1>4, <1>14, <2>5, <2>6, <2>9, <2>10, <3>1 DEF LockInv
  <2>12. QueueInv'
    <3>1. \A p \in In("pending") : p # heir => stages[p].line # stages[heir].line BY <2>3 DEF QueueInv
    <3>2. ASSUME NEW p \in In("pending")'
          PROVE  TurnAt(heir)' < TurnAt(p)'
      <4>1. p \in In("pending") /\ p # heir /\ stages[p].state = "pending" /\ p \in Stages BY <2>10 DEF In
      <4>2. TurnAt(pub) < TurnAt(p) BY <1>4, <4>1 DEF QueueInv
      <4>3. TurnAt(p) # TurnAt(heir) BY <2>3, <2>9, <3>1, <4>1, TurnIs DEF TurnAt
      <4>4. /\ TurnAt(heir) \in 1..L /\ TurnAt(p) \in 1..L /\ TurnAt(pub) \in 1..L
            /\ TurnAt(heir)' = TurnAt(heir) /\ TurnAt(p)' = TurnAt(p)
        BY <1>4, <2>3, <2>9, <4>1
      <4>. QED BY <2>3, <4>2, <4>3, <4>4
    <3>3. ASSUME NEW k \in TurnAt(heir)' + 1..Len(completed')
          PROVE  \E p \in In("pending")' : stages'[p].line = completed'[k]
      <4>0. L \in Nat BY DEF WriterType
      <4>1. TurnAt(heir)' = TurnAt(heir) /\ TurnAt(heir) \in 1..L /\ TurnAt(pub) \in 1..L /\ L \in Nat
        BY <1>4, <2>3, <2>9, <4>0
      <4>2. k \in TurnAt(pub) + 1..L /\ k \in 1..L /\ k # TurnAt(heir) BY <1>5, <2>3, <4>1
      <4>3. PICK p \in In("pending") : stages[p].line = completed[k] BY <1>4, <4>2 DEF QueueInv
      <4>4. Turn(completed[k]) = k BY <4>2, TurnOf
      <4>5. p # heir BY <4>2, <4>3, <4>4 DEF TurnAt
      <4>6. p \in In("pending")' /\ stages'[p].line = stages[p].line BY <2>6, <2>10, <4>3, <4>5 DEF In
      <4>. QED BY <1>5, <4>3, <4>6
    <3>4. ASSUME NEW p \in In("pending")'
          PROVE  stages'[p].seq = (seqNo' - (Len(completed') + 1 - TurnAt(p)')) % SeqRange
      BY <1>5, <2>6, <2>9, <2>10 DEF In, QueueInv
    <3>5. \A p, q \in In("pending")' : stages'[p].line = stages'[q].line => p = q
      BY <2>6, <2>10 DEF QueueInv, In
    <3>6. \A k, l \in 1..Len(completed') : completed'[k] = completed'[l] => k = l
      BY <1>5 DEF QueueInv
    <3>. QED BY <2>10, <3>2, <3>3, <3>4, <3>5, <3>6 DEF QueueInv
  <2>13. SentInv'
    <3>1. TurnAt(heir)' = TurnAt(heir) /\ TurnAt(heir) \in 1..L /\ TurnAt(pub) \in 1..L
      BY <1>4, <2>3, <2>9
    <3>2. ASSUME NEW j \in 1..Len(Output'), Output'[j].line # 0
          PROVE  /\ Done(Output[j].line)'
                 /\ \A i \in 1..j - 1 : Output'[i].line # 0 => Turn(Output[i].line)' <= Turn(Output[j].line)'
                 /\ \A i \in In("publishing")' : Turn(Output[j].line)' <= TurnAt(i)'
      <4>1. j \in 1..Len(Output) /\ Output[j].line # 0 BY <1>10, <3>2
      <4>2. /\ Done(Output[j].line) /\ Turn(Output[j].line) <= TurnAt(pub)
            /\ \A i \in 1..j - 1 : Output[i].line # 0 => Turn(Output[i].line) <= Turn(Output[j].line)
        BY <1>4, <4>1 DEF SentInv
      <4>3. \A i : Turn(Output[i].line)' = Turn(Output[i].line) BY <1>5, <1>10 DEF Turn
      <4>4. Done(Output[j].line)' BY <1>5, <1>10, <4>2 DEF Done
      <4>5. Turn(Output[j].line) \in 1..L BY <4>2, TurnIs
      <4>6. Turn(Output[j].line) <= TurnAt(heir) BY <2>3, <3>1, <4>2, <4>5
      <4>. QED BY <1>10, <2>10, <3>1, <4>2, <4>3, <4>4, <4>6
    <3>. QED BY <3>2 DEF SentInv
  <2>. QED BY <1>10, <2>9, <2>11, <2>12, <2>13
<1>15. (<1>13!1 \/ <1>14!1) BY <1>2 DEF Relay
<1>. QED BY <1>13, <1>14, <1>15

-----------------------------------------------------------------------------
(* No byte of a line goes out twice.                                        *)

\* A step that sends nothing and leaves the holder its line and its run, or
\* gives the lock with a line of which nothing is out.
LEMMA OnceKept ==
  ASSUME OnceInv, Output' = Output,
         \A d \in DOMAIN stack' : Holds(stack'[d]) =>
           \/ \A j \in 1..Len(Output) : Output[j].line # stages'[stack'[d].stage].line
           \/ /\ d \in DOMAIN stack /\ Holds(stack[d])
              /\ stages'[stack'[d].stage].line = stages[stack[d].stage].line
              /\ Underway(stack[d]) /\ ~stack[d].mark =>
                   Underway(stack'[d]) /\ ~stack'[d].mark /\ stack'[d].at = stack[d].at
  PROVE  OnceInv'
<1>1. \A j \in 1..Len(Output') : \A i \in 1..j - 1 :
        Output'[j].line # 0 /\ Output'[i].line = Output'[j].line => Output'[i].k < Output'[j].k
  BY DEF OnceInv
<1>2. ASSUME NEW d \in DOMAIN stack', NEW j \in 1..Len(Output'),
             Holds(stack'[d]), Output'[j].line = stages'[stack'[d].stage].line
      PROVE  Underway(stack'[d]) /\ ~stack'[d].mark /\ Output'[j].k <= stack'[d].at BY <1>2 DEF OnceInv
<1>. QED BY <1>1, <1>2 DEF OnceInv, Holds, Underway

\* A step beside the holder.
LEMMA BesideOnce ==
  ASSUME LinesInv, OnceInv, Output' = Output,
         \A d \in DOMAIN stack' : Holds(stack'[d]) => d \in DOMAIN stack /\ stack'[d] = stack[d],
         \A i \in Stages : stages[i].state = "publishing" => stages'[i].line = stages[i].line
  PROVE  OnceInv'
<1>1. \A d \in DOMAIN stack : Holds(stack[d]) =>
        stack[d].stage \in Stages /\ stages[stack[d].stage].state = "publishing"
  BY TopIs DEF LinesInv, LockInv, FrameT
<1>. QED BY <1>1, OnceKept

\* The holder goes on with its line.
LEMMA HolderOnce ==
  ASSUME LinesInv, OnceInv, Output' = Output, Holds(Top), stages' = stages,
         NEW f \in FrameT, f.src = Top.src, f.stage = Top.stage, Become(f),
         Underway(Top) /\ ~Top.mark => Underway(f) /\ ~f.mark /\ f.at = Top.at
  PROVE  OnceInv'
<1>1. /\ DOMAIN stack' = DOMAIN stack /\ stack'[Len(stack)] = f
      /\ \A d \in DOMAIN stack : d # Len(stack) => stack'[d] = stack[d]
  BY Becomes DEF LinesInv
<1>2. Top = stack[Len(stack)] BY DEF Top
<1>3. \A d \in DOMAIN stack : d # Len(stack) => ~Holds(stack[d]) BY OneHolder
<1>. QED BY <1>1, <1>2, <1>3, OnceKept

\* A frame that does not hold the lock takes the place of another.
LEMMA NoHolder ==
  ASSUME LinesInv, NEW f \in FrameT, f.src = Top.src, Become(f), ~Holds(f)
  PROVE  \A d \in DOMAIN stack' : Holds(stack'[d]) => d \in DOMAIN stack /\ stack'[d] = stack[d]
BY Becomes DEF LinesInv

-----------------------------------------------------------------------------
\* A context entered or left, and the interrupt, beside the holder.
LEMMA ContextsOnce ==
  ASSUME LinesInv, OnceInv, (\E src \in Sources : Enter(src)) \/ Leave \/ Transmit
  PROVE  OnceInv'
<1>. USE DEF LinesInv
<1>1. ASSUME NEW src \in Sources, Enter(src) PROVE OnceInv'
  <2>1. Output' = Output /\ stages' = stages BY <1>1, RingSame DEF Enter, poolVars
  <2>2. Frame(src).pc = "run" BY DEF Frame
  <2>3. ~Holds(Frame(src)) BY <2>2 DEF Holds
  <2>4. \A d \in DOMAIN stack' : Holds(stack'[d]) => d \in DOMAIN stack /\ stack'[d] = stack[d]
    <3>1. stack' = Append(stack, Frame(src)) BY <1>1 DEF Enter
    <3>2. stack \in Seq(FrameT) /\ Frame(src) \in FrameT
      BY WriterConstants DEF WriterType, Frame, FrameT, Stops
    <3>3. /\ DOMAIN stack' = 1..Len(stack) + 1 /\ stack'[Len(stack) + 1] = Frame(src)
          /\ \A d \in 1..Len(stack) : stack'[d] = stack[d]
      BY <3>1, <3>2, AppendProperties
    <3>4. DOMAIN stack = 1..Len(stack) /\ Len(stack) \in Nat BY <3>2
    <3>5. \A d \in 1..Len(stack) + 1 : d \in 1..Len(stack) \/ d = Len(stack) + 1 BY <3>4
    <3>. QED BY <2>3, <3>3, <3>4, <3>5
  <2>. QED BY <2>1, <2>4, BesideOnce
<1>2. CASE Leave
  <2>1. Output' = Output /\ stages' = stages BY <1>2, RingSame DEF Leave, poolVars
  <2>2. \A d \in DOMAIN stack' : d \in DOMAIN stack /\ stack'[d] = stack[d] BY <1>2, TopIs DEF Leave, WriterType
  <2>. QED BY <2>1, <2>2, BesideOnce
<1>3. CASE Transmit BY <1>3, SentOut, BesideOnce DEF Transmit, poolVars
<1>. QED BY <1>1, <1>2, <1>3

\* A line composed, beside the holder.
LEMMA ComposingOnce ==
  ASSUME LinesInv, OnceInv, Claim \/ Compose \/ EndRefused \/ EndOverflow
  PROVE  OnceInv'
<1>. USE DEF LinesInv
<1>1. Output' = Output BY RingSame DEF Claim, Compose, EndRefused, EndOverflow
<1>2. /\ Top \in FrameT /\ Top.src \in Sources /\ stages \in [Stages -> StageT]
      /\ \A i \in Stages : stages[i] \in StageT
  BY TopIs DEF FrameT, WriterType
<1>3. CASE At("run") /\ Printed /\ \A i \in Stages : stages'[i].line = stages[i].line
  <2>1. PICK f \in FrameT : f = [Top EXCEPT !.printed = TRUE] BY <1>2 DEF FrameT
  <2>2. f.src = Top.src /\ ~Holds(f) /\ Become(f) BY <1>2, <1>3, <2>1 DEF FrameT, Holds, Printed, At
  <2>. QED BY <1>1, <1>3, <2>2, NoHolder, BesideOnce
<1>4. CASE Claim
  <2>1. CASE Printed /\ stages' = stages BY <1>3, <1>4, <2>1 DEF Claim
  <2>2. ASSUME NEW i0 \in Stages, stages' = [stages EXCEPT ![i0].state = "open"],
               Become([Top EXCEPT !.pc = "claimed", !.printed = TRUE, !.stage = i0, !.line = begun + 1])
        PROVE  OnceInv'
    <3>1. begun + 1 \in Nat BY DEF WriterType
    <3>2. PICK f \in FrameT : f = [Top EXCEPT !.pc = "claimed", !.printed = TRUE, !.stage = i0, !.line = begun + 1]
      BY <1>2, <3>1 DEF FrameT, Stops
    <3>3. f.src = Top.src /\ ~Holds(f) /\ Become(f) BY <1>2, <2>2, <3>2 DEF FrameT, Holds
    <3>4. \A i \in Stages : stages'[i].line = stages[i].line BY <1>2, <2>2 DEF StageT
    <3>. QED BY <1>1, <3>3, <3>4, NoHolder, BesideOnce
  <2>3. LET free == {i \in In("free") : i > 0 \/ MayWait(Top.src)}
        IN free # {} => Min(free) \in Stages
    <3>. DEFINE free == {i \in In("free") : i > 0 \/ MayWait(Top.src)}
    <3>1. free \in SUBSET Stages BY DEF In
    <3>. QED BY <3>1, LeastOf
  <2>. QED BY <1>4, <2>1, <2>2, <2>3 DEF Claim
<1>5. CASE Compose
  <2>1. PICK i0 \in Stages : i0 = Top.stage BY <1>2 DEF FrameT
  <2>2. PICK f \in FrameT : f = [Top EXCEPT !.pc = "run"] BY <1>2 DEF FrameT, Stops
  <2>3. f.src = Top.src /\ ~Holds(f) /\ Become(f)
    BY <1>2, <1>5, <2>2 DEF FrameT, Holds, Compose, GoTo
  <2>4. stages[i0].state = "open" BY <1>5, <2>1, TopIs DEF PoolInv, Compose, At, Claimed
  <2>5. \A i \in Stages : i # i0 => stages'[i] = stages[i] BY <1>2, <1>5, <2>1 DEF Compose
  <2>6. \A i \in Stages : stages[i].state = "publishing" => stages'[i].line = stages[i].line
    BY <2>4, <2>5
  <2>. QED BY <1>1, <2>3, <2>6, NoHolder, BesideOnce
<1>6. CASE EndRefused BY <1>3, <1>6 DEF EndRefused
<1>7. CASE EndOverflow
  <2>1. PICK i0 \in Stages : i0 = slot[Top.src] BY <1>7 DEF EndOverflow
  <2>2. stages' = [stages EXCEPT ![i0].state = "free"] BY <1>7, <2>1 DEF EndOverflow
  <2>3. \A i \in Stages : stages'[i].line = stages[i].line BY <1>2, <2>2 DEF StageT
  <2>. QED BY <1>3, <1>7, <2>3 DEF EndOverflow
<1>. QED BY <1>4, <1>5, <1>6, <1>7

\* A line just completed has sent nothing.
LEMMA EndLineOnce == ASSUME LinesInv, OnceInv, EndLine PROVE OnceInv'
<1>. USE DEF LinesInv
<1>1. /\ Top \in FrameT /\ Top.pc = "run" /\ stages \in [Stages -> StageT] /\ Output' = Output
      /\ \A i \in Stages : stages[i] \in StageT
  BY TopIs, RingSame DEF EndLine, At, WriterType
<1>2. PICK src \in Sources : src = Top.src BY <1>1 DEF FrameT
<1>3. PICK i0 \in Stages : i0 = slot[src] BY <1>2 DEF EndLine
<1>4. CASE Printed /\ stages' = [stages EXCEPT ![i0].state = "pending", ![i0].seq = seqNo]
  <2>1. PICK f \in FrameT : f = [Top EXCEPT !.printed = TRUE] BY <1>1 DEF FrameT
  <2>2. f.src = Top.src /\ ~Holds(f) /\ Become(f) BY <1>1, <1>4, <2>1 DEF FrameT, Holds, Printed
  <2>3. \A i \in Stages : stages'[i].line = stages[i].line BY <1>1, <1>4 DEF StageT
  <2>. QED BY <1>1, <2>2, <2>3, NoHolder, BesideOnce
<1>5. CASE /\ ~busy /\ stages' = [stages EXCEPT ![i0].state = "publishing"]
           /\ Become([Top EXCEPT !.pc = IF lostLines # marked THEN "mark" ELSE "line", !.printed = TRUE,
                                 !.stage = i0, !.now = lostLines])
  <2>0. lostLines \in Nat BY CountNat DEF WriterType
  <2>1. PICK f \in FrameT : f = [Top EXCEPT !.pc = IF lostLines # marked THEN "mark" ELSE "line", !.printed = TRUE,
                                            !.stage = i0, !.now = lostLines]
    BY <1>1, <2>0 DEF FrameT, Stops
  <2>2. f.src = Top.src /\ f.stage = i0 /\ Become(f) BY <1>1, <1>5, <2>1 DEF FrameT
  <2>3. /\ DOMAIN stack' = DOMAIN stack /\ stack'[Len(stack)] = f
        /\ \A d \in DOMAIN stack : d # Len(stack) => stack'[d] = stack[d]
    BY <2>2, Becomes
  <2>4. \A d \in DOMAIN stack : ~Holds(stack[d]) BY <1>5 DEF LockInv
  <2>5. stages'[i0].line = stages[i0].line BY <1>1, <1>5 DEF StageT
  <2>6. ~Done(stages[i0].line) /\ stages[i0].line # 0 BY <1>2, <1>3 DEF PoolInv, Fresh, Done
  <2>7. \A j \in 1..Len(Output) : Output[j].line # stages[i0].line BY <2>6 DEF SentInv
  <2>. QED BY <1>1, <2>2, <2>3, <2>4, <2>5, <2>7, OnceKept
<1>6. (<1>4!1 \/ <1>5!1) BY <1>2, <1>3 DEF EndLine
<1>. QED BY <1>4, <1>5, <1>6

\* The next line has sent nothing: its turn is after all that is out.
LEMMA RelayOnce == ASSUME LinesInv, OnceInv, Relay PROVE OnceInv'
<1>. USE DEF LinesInv
<1>1. /\ Top \in FrameT /\ stages \in [Stages -> StageT] /\ Output' = Output /\ Holds(Top)
      /\ \A i \in Stages : stages[i] \in StageT
  BY TopIs, RingSame DEF Relay, At, WriterType, Holds, Stops
<1>2. PICK pub \in Stages : pub = Top.stage BY <1>1 DEF FrameT
<1>3. pub \in In("publishing") /\ \A d \in DOMAIN stack : d # Len(stack) => ~Holds(stack[d])
  BY <1>1, <1>2, OneHolder
<1>4. CASE Become([Frame(Top.src) EXCEPT !.printed = TRUE])
  <2>0. PICK src \in Sources : src = Top.src BY <1>1 DEF FrameT
  <2>1. PICK f \in FrameT : f = [Frame(Top.src) EXCEPT !.printed = TRUE]
    <3>1. Frame(src) \in FrameT BY WriterConstants DEF Frame, FrameT, Stops
    <3>2. [Frame(src) EXCEPT !.printed = TRUE] \in FrameT BY <3>1 DEF FrameT
    <3>. QED BY <2>0, <3>2
  <2>2. f.src = Top.src /\ ~Holds(f) /\ Become(f) BY <1>4, <2>1 DEF Frame, Holds
  <2>3. /\ DOMAIN stack' = DOMAIN stack /\ stack'[Len(stack)] = f
        /\ \A d \in DOMAIN stack : d # Len(stack) => stack'[d] = stack[d]
    BY <2>2, Becomes
  <2>. QED BY <1>1, <1>3, <2>2, <2>3, OnceKept
<1>5. CASE /\ In("pending") # {}
           /\ stages' = [stages EXCEPT ![pub].state = "free", ![Oldest(In("pending"))].state = "publishing"]
           /\ Become([Top EXCEPT !.pc = "line", !.stage = Oldest(In("pending")), !.at = 0])
  <2>1. Oldest(In("pending")) \in In("pending") /\ TurnAt(Oldest(In("pending"))) = TurnAt(pub) + 1
    BY <1>3, <1>5, OldestIs
  <2>2. PICK heir \in Stages : heir = Oldest(In("pending")) BY <2>1 DEF In
  <2>3. PICK f \in FrameT : f = [Top EXCEPT !.pc = "line", !.stage = heir, !.at = 0]
    BY <1>1 DEF FrameT, Stops
  <2>4. f.src = Top.src /\ f.stage = heir /\ Become(f) BY <1>1, <1>5, <2>2, <2>3 DEF FrameT
  <2>5. /\ DOMAIN stack' = DOMAIN stack /\ stack'[Len(stack)] = f
        /\ \A d \in DOMAIN stack : d # Len(stack) => stack'[d] = stack[d]
    BY <2>4, Becomes
  <2>6. stages'[heir].line = stages[heir].line BY <1>1, <1>5, <2>2 DEF StageT
  <2>7. Done(stages[heir].line) /\ stages[heir].line # 0 BY <2>1, <2>2 DEF LineInv, Done, WriterType
  <2>8. \A j \in 1..Len(Output) : Output[j].line # stages[heir].line
    <3>. SUFFICES ASSUME NEW j \in 1..Len(Output), Output[j].line = stages[heir].line
                  PROVE  FALSE
      OBVIOUS
    <3>1. Turn(Output[j].line) <= TurnAt(pub) BY <1>3, <2>7 DEF SentInv
    <3>2. Turn(Output[j].line) = TurnAt(heir) /\ TurnAt(heir) = TurnAt(pub) + 1 BY <2>1, <2>2 DEF TurnAt
    <3>3. TurnAt(pub) \in Nat BY <1>3, FewWait
    <3>. QED BY <3>1, <3>2, <3>3
  <2>. QED BY <1>1, <1>3, <2>4, <2>5, <2>6, <2>8, OnceKept
<1>6. (<1>4!1 \/ <1>5!1) BY <1>2 DEF Relay
<1>. QED BY <1>4, <1>5, <1>6

\* The holder between two sendings.
LEMMA HolderStepsOnce ==
  ASSUME LinesInv, OnceInv, WriteMark \/ WriteLine \/ ArmTransmitter \/ CopyRest \/ MarkWritten
  PROVE  OnceInv'
<1>. USE DEF LinesInv
<1>1. Top \in FrameT BY TopIs
<1>2. Top.pc \in {"mark", "line", "arm", "copy", "written"}
  BY DEF WriteMark, WriteLine, ArmTransmitter, CopyRest, MarkWritten, At
<1>3. Holds(Top) BY <1>2 DEF Holds, Stops
<1>4. stages' = stages BY DEF WriteMark, WriteLine, ArmTransmitter, CopyRest, MarkWritten, poolVars
<1>5. ASSUME NEW f \in FrameT, f.src = Top.src, f.stage = Top.stage, Become(f), Output' = Output,
             Underway(Top) /\ ~Top.mark => Underway(f) /\ ~f.mark /\ f.at = Top.at
      PROVE  OnceInv'
  BY <1>3, <1>4, <1>5, HolderOnce
<1>6. CASE WriteMark \/ WriteLine
  <2>1. ~Underway(Top) /\ Output' = Output BY <1>6, RingSame DEF WriteMark, WriteLine, At, Underway
  <2>2. \/ Become([Top EXCEPT !.pc = "push", !.mark = TRUE]) \/ Become([Top EXCEPT !.pc = "line"])
        \/ Become([Top EXCEPT !.pc = "push", !.mark = FALSE]) \/ Become([Top EXCEPT !.pc = "refuse"])
    BY <1>6 DEF WriteMark, WriteLine, GoTo
  <2>3. \E f \in FrameT : f.src = Top.src /\ f.stage = Top.stage /\ Become(f)
    <3>1. ASSUME NEW p \in Stops, NEW m \in BOOLEAN, Become([Top EXCEPT !.pc = p, !.mark = m])
          PROVE  \E f \in FrameT : f.src = Top.src /\ f.stage = Top.stage /\ Become(f)
      <4>1. PICK f \in FrameT : f = [Top EXCEPT !.pc = p, !.mark = m] BY <1>1 DEF FrameT
      <4>2. f.src = Top.src /\ f.stage = Top.stage BY <1>1, <4>1 DEF FrameT
      <4>. QED BY <3>1, <4>1, <4>2
    <3>2. ASSUME NEW p \in Stops, Become([Top EXCEPT !.pc = p])
          PROVE  \E f \in FrameT : f.src = Top.src /\ f.stage = Top.stage /\ Become(f)
      <4>1. PICK f \in FrameT : f = [Top EXCEPT !.pc = p] BY <1>1 DEF FrameT
      <4>2. f.src = Top.src /\ f.stage = Top.stage BY <1>1, <4>1 DEF FrameT
      <4>. QED BY <3>2, <4>1, <4>2
    <3>3. "push" \in Stops /\ "line" \in Stops /\ "refuse" \in Stops BY DEF Stops
    <3>. QED BY <2>2, <3>1, <3>2, <3>3
  <2>. QED BY <1>5, <2>1, <2>3
<1>7. CASE ArmTransmitter
  <2>1. Output' = Output BY <1>7, ArmedOut DEF ArmTransmitter
  <2>2. PICK p \in {"copy", "written"} : Become([Top EXCEPT !.pc = p])
    BY <1>7 DEF ArmTransmitter, GoTo
  <2>3. PICK f \in FrameT : f = [Top EXCEPT !.pc = p] BY <1>1, <2>2 DEF FrameT, Stops
  <2>4. f.src = Top.src /\ f.stage = Top.stage /\ f.mark = Top.mark /\ f.at = Top.at /\ Underway(f) /\ Become(f)
    BY <1>1, <2>2, <2>3 DEF FrameT, Underway
  <2>. QED BY <1>5, <2>1, <2>4
<1>8. CASE CopyRest
  <2>. DEFINE rest == SubSeq(Run(Top), Top.at + 1, Len(Run(Top)))
  <2>0. Ending(Top) BY <1>8, TopIs DEF WireInv, Underway, CopyRest, At
  <2>1. PICK line \in Nat, size \in Nat \ {0}, owed \in Int :
          /\ Run(Top) = Bytes(line, size, owed) /\ Run(Top) \in Seq(Byte) /\ Len(Run(Top)) = size
    BY <1>1, <1>3, OneHolder, RunIs DEF FrameT
  <2>2. rest \in Seq(Byte) /\ Len(rest) \in Nat BY <2>0, <2>1 DEF Ending
  <2>3. Output' = Output /\ Part(rest) \in Nat
    <3>1. TxCopy(rest) BY <1>8 DEF CopyRest
    <3>. HIDE DEF rest
    <3>2. Output' = Output /\ Part(rest) \in 1..Len(rest) BY <2>2, <3>1, CopiedOut
    <3>. QED BY <2>2, <3>2
  <2>4. PICK n \in Nat : n = Part(rest) BY <2>3
  <2>5. PICK f \in FrameT : f = [Top EXCEPT !.pc = "publish", !.part = n] BY <1>1 DEF FrameT, Stops
  <2>6. f.src = Top.src /\ f.stage = Top.stage /\ f.mark = Top.mark /\ f.at = Top.at /\ Underway(f) /\ Become(f)
    BY <1>1, <1>8, <2>4, <2>5 DEF FrameT, Underway, CopyRest
  <2>. QED BY <1>5, <2>3, <2>6
<1>9. CASE MarkWritten
  <2>1. Output' = Output /\ Top.mark BY <1>9, RingSame DEF MarkWritten
  <2>2. PICK f \in FrameT : f = [Top EXCEPT !.pc = "line", !.mark = FALSE, !.at = 0] BY <1>1 DEF FrameT, Stops
  <2>3. f.src = Top.src /\ f.stage = Top.stage /\ Become(f) BY <1>1, <1>9, <2>2 DEF FrameT, MarkWritten
  <2>. QED BY <1>5, <2>1, <2>3
<1>. QED BY <1>6, <1>7, <1>8, <1>9

\* The next bytes of the run go out: of the line in hand they are the ones
\* after those sent.
LEMMA SendingOnce ==
  ASSUME LinesInv, OnceInv, Holds(Top), stages' = stages, NEW f \in FrameT, f.src = Top.src,
         f.stage = Top.stage, f.mark = Top.mark, Become(f), Underway(f),
         NEW at \in Nat, NEW n \in Nat, f.at = at + n,
         Underway(Top) => Top.at = at,
         Len(Output') = Len(Output) + n,
         \A j \in 1..Len(Output) : Output'[j] = Output[j],
         \A i \in 1..n : /\ Output'[Len(Output) + i].k = at + i
                         /\ Output'[Len(Output) + i].line = IF f.mark THEN 0 ELSE stages[f.stage].line
  PROVE  OnceInv'
<1>. USE DEF LinesInv
<1>. DEFINE m == Len(Output)
            l == stages[f.stage].line
<1>1. /\ DOMAIN stack' = DOMAIN stack /\ stack'[Len(stack)] = f /\ Top = stack[Len(stack)]
      /\ Len(stack) \in DOMAIN stack /\ Top \in FrameT
      /\ \A d \in DOMAIN stack : d # Len(stack) => stack'[d] = stack[d] /\ ~Holds(stack[d])
  BY Becomes, OneHolder, TopIs
<1>2. m \in Nat /\ \A j \in 1..m : Output[j].k \in Int
  <2>1. \A j \in 1..m : Output[j] \in Byte BY OutputIs
  <2>. QED BY <2>1, OutputIs DEF Byte
<1>3. l # 0
  <2>1. Done(l) BY OneHolder DEF LineInv
  <2>. QED BY <2>1 DEF Done, WriterType
<1>4. \A j \in 1..m : Output[j].line = l => ~f.mark /\ Output[j].k <= at
  BY <1>1 DEF OnceInv
<1>5. PICK new : new = (IF f.mark THEN 0 ELSE l) OBVIOUS
<1>6. \A j \in 1..m + n : \/ j \in 1..m /\ Output'[j] = Output[j]
                          \/ j > m /\ j - m \in 1..n /\ Output'[j].k = at + (j - m) /\ Output'[j].line = new
  <2>. TAKE j \in 1..m + n
  <2>1. CASE j <= m BY <1>2, <2>1
  <2>2. CASE j > m
    <3>1. j - m \in 1..n /\ m + (j - m) = j BY <1>2, <2>2
    <3>2. Output'[m + (j - m)].k = at + (j - m) /\ Output'[m + (j - m)].line = new BY <1>5, <3>1
    <3>. QED BY <2>2, <3>1, <3>2
  <2>. QED BY <1>2, <2>1, <2>2
<1>7. ASSUME NEW j \in 1..m + n, NEW i \in 1..j - 1, Output'[j].line # 0, Output'[i].line = Output'[j].line
      PROVE  Output'[i].k < Output'[j].k
  <2>1. i \in 1..m + n /\ i < j BY <1>2
  <2>2. CASE j \in 1..m /\ Output'[j] = Output[j] BY <1>2, <1>7, <2>1, <2>2 DEF OnceInv
  <2>3. CASE j > m /\ j - m \in 1..n /\ Output'[j].k = at + (j - m) /\ Output'[j].line = new
    <3>1. new = l BY <1>5, <1>7, <2>3
    <3>2. CASE i \in 1..m /\ Output'[i] = Output[i]
      <4>1. Output[i].k <= at /\ Output[i].k \in Int BY <1>2, <1>4, <1>7, <2>3, <3>1, <3>2
      <4>. QED BY <2>3, <3>2, <4>1
    <3>3. CASE i > m /\ i - m \in 1..n /\ Output'[i].k = at + (i - m) BY <1>2, <2>1, <2>3, <3>3
    <3>. QED BY <1>6, <2>1, <3>2, <3>3
  <2>. QED BY <1>6, <2>2, <2>3
<1>8. ASSUME NEW d \in DOMAIN stack', NEW j \in 1..m + n, Holds(stack'[d]),
             Output'[j].line = stages'[stack'[d].stage].line
      PROVE  Underway(stack'[d]) /\ ~stack'[d].mark /\ Output'[j].k <= stack'[d].at
  <2>1. d = Len(stack) /\ stack'[d] = f BY <1>1, <1>8
  <2>2. Output'[j].line = l BY <1>8, <2>1
  <2>3. ~f.mark /\ Output'[j].k <= at + n
    <3>1. CASE j \in 1..m /\ Output'[j] = Output[j] BY <1>2, <1>4, <2>2, <3>1
    <3>2. CASE j > m /\ j - m \in 1..n /\ Output'[j].k = at + (j - m) /\ Output'[j].line = new
      BY <1>2, <1>3, <1>5, <2>2, <3>2
    <3>. QED BY <1>6, <3>1, <3>2
  <2>. QED BY <2>1, <2>3
<1>. QED BY <1>7, <1>8 DEF OnceInv, Holds, Underway

\* A byte of a holder's run.
LEMMA RunByte ==
  ASSUME NEW line, NEW size \in Nat, NEW owed, Run(Top) = Bytes(line, size, owed), Len(Run(Top)) = size, NEW k \in 1..size
  PROVE  Run(Top)[k].k = k /\ Run(Top)[k].line = IF Top.mark THEN 0 ELSE stages[Top.stage].line
<1>1. Run(Top)[k].k = k BY DEF Bytes
<1>2. CASE Top.mark BY <1>1, <1>2, WriterConstants DEF Run, Bytes
<1>3. CASE ~Top.mark
  <2>. DEFINE i == Top.stage
              c == Min({stages[i].size, Capacity(i)})
  <2>1. Run(Top) = [j \in 1..c |-> [line |-> stages[i].line, size |-> c, k |-> j, owed |-> 0]]
    BY <1>3 DEF Run, StageBytes, Bytes
  <2>2. DOMAIN Run(Top) = 1..size BY DEF Bytes
  <2>3. DOMAIN Run(Top) = 1..c BY <2>1
  <2>4. k \in 1..c BY <2>2, <2>3
  <2>. HIDE DEF c
  <2>5. Run(Top)[k].line = stages[i].line BY <2>1, <2>4
  <2>. QED BY <1>1, <1>3, <2>5
<1>. QED BY <1>2, <1>3

\* The first byte of a run, when none of its line is out.
LEMMA PushFirstOnce == ASSUME LinesInv, OnceInv, PushFirst PROVE OnceInv'
<1>. USE DEF LinesInv
<1>1. Top \in FrameT /\ Top.pc = "push" /\ Top.stage \in Stages BY TopIs DEF PushFirst, At, FrameT
<1>2. PICK f \in FrameT : f = [Top EXCEPT !.pc = "arm", !.at = 1] BY <1>1 DEF FrameT, Stops
<1>3. /\ f.pc = "arm" /\ f.at = 1 /\ f.src = Top.src /\ f.stage = Top.stage /\ f.mark = Top.mark
  BY <1>1, <1>2 DEF FrameT
<1>4. Holds(Top) /\ ~Underway(Top) /\ Underway(f) BY <1>1, <1>3 DEF Holds, Underway, Stops
<1>5. Become(f) /\ TxPush(Run(Top)[1]) /\ stages' = stages BY <1>2 DEF PushFirst, poolVars
<1>6. PICK line \in Nat, size \in Nat \ {0}, owed \in Int :
        Run(Top) = Bytes(line, size, owed) /\ Run(Top) \in Seq(Byte) /\ Len(Run(Top)) = size
  BY <1>1, <1>4, OneHolder, RunIs
<1>7. PICK b \in Byte : b = Run(Top)[1]
  <2>1. 1 \in 1..size BY <1>6
  <2>. QED BY <1>6, <2>1
<1>8. b.k = 1 /\ b.line = IF f.mark THEN 0 ELSE stages[f.stage].line
  BY <1>3, <1>6, <1>7, RunByte
<1>9. Output' = Append(Output, b) /\ Output \in Seq(Byte) /\ Len(Output) \in Nat BY <1>5, <1>7, PushedOut, OutputIs
<1>10. /\ Len(Output') = Len(Output) + 1
       /\ \A j \in 1..Len(Output) : Output'[j] = Output[j]
       /\ Output'[Len(Output) + 1] = b
  BY <1>9, AppendProperties
<1>11. PICK at \in Nat : at = 0 OBVIOUS
<1>12. /\ f.at = at + 1 /\ 1 \in Nat
       /\ \A i \in 1..1 : /\ Output'[Len(Output) + i].k = at + i
                          /\ Output'[Len(Output) + i].line = IF f.mark THEN 0 ELSE stages[f.stage].line
  BY <1>3, <1>8, <1>10, <1>11
<1>. QED BY <1>3, <1>4, <1>5, <1>10, <1>12, SendingOnce

\* A part of a run, behind the bytes it has sent.
LEMMA PublishPartOnce == ASSUME LinesInv, OnceInv, PublishPart PROVE OnceInv'
<1>. USE DEF LinesInv
<1>1. Top \in FrameT /\ Top.pc = "publish" /\ Top.stage \in Stages BY TopIs DEF PublishPart, At, FrameT
<1>2. Ending(Top) /\ Holds(Top) BY <1>1, TopIs DEF WireInv, Underway, Holds, Stops
<1>3. PICK line \in Nat, size \in Nat \ {0}, owed \in Int :
        Run(Top) = Bytes(line, size, owed) /\ Run(Top) \in Seq(Byte) /\ Len(Run(Top)) = size
  BY <1>1, <1>2, OneHolder, RunIs
<1>4. PICK n \in Nat, at \in Nat : n = Top.part /\ at = Top.at BY <1>1 DEF FrameT
<1>5. /\ at \in 1..size /\ n \in 1..size - at /\ n <= Room /\ txHead + n <= TxSize
      /\ \A i \in 1..n : txSlots[txHead + i - 1] = Run(Top)[at + i]
  BY <1>1, <1>2, <1>3, <1>4 DEF Ending
<1>6. n \in Nat \ {0} /\ \A i \in 1..n : at + i \in 1..size BY <1>3, <1>5
<1>7. PICK f \in FrameT : f = [Top EXCEPT !.pc = "arm", !.at = at + n, !.part = 0]
  <2>1. at + n \in Nat /\ 0 \in Nat /\ "arm" \in Stops BY <1>4 DEF Stops
  <2>. QED BY <1>1, <2>1 DEF FrameT
<1>8. f.pc = "arm" /\ f.at = at + n /\ f.src = Top.src /\ f.stage = Top.stage /\ f.mark = Top.mark
  BY <1>1, <1>7 DEF FrameT
<1>9. Become(f) /\ TxPublish(n) /\ stages' = stages /\ Underway(f)
  BY <1>4, <1>7, <1>8 DEF PublishPart, poolVars, Underway
<1>10. \A i \in 1..n : /\ txSlots[txHead + i - 1] \in Byte /\ txSlots[txHead + i - 1] = Run(Top)[at + i]
                       /\ Run(Top)[at + i].k = at + i
                       /\ Run(Top)[at + i].line = IF f.mark THEN 0 ELSE stages[f.stage].line
  <2>. TAKE i \in 1..n
  <2>1. at + i \in 1..size BY <1>6
  <2>2. Run(Top)[at + i] \in Byte BY <1>3, <2>1
  <2>. QED BY <1>3, <1>5, <1>8, <2>1, <2>2, RunByte
<1>11. /\ Len(Output') = Len(Output) + n
       /\ \A j \in 1..Len(Output) : Output'[j] = Output[j]
       /\ \A i \in 1..n : Output'[Len(Output) + i] = txSlots[txHead + i - 1]
  BY <1>5, <1>6, <1>9, <1>10, PublishedOut
<1>12. \A i \in 1..n : /\ Output'[Len(Output) + i].k = at + i
                       /\ Output'[Len(Output) + i].line = IF f.mark THEN 0 ELSE stages[f.stage].line
  BY <1>10, <1>11
<1>. QED BY <1>2, <1>4, <1>8, <1>9, <1>11, <1>12, SendingOnce

\* Nothing is out at the start.
LEMMA InitOnce == Init => OnceInv
<1>. SUFFICES ASSUME Init PROVE OnceInv OBVIOUS
<1>1. (0 - 0) % TxSize = 0 BY TransmitAssumption, TurnedBack
<1>2. InRing = <<>> BY <1>1 DEF InRing, Init, TxInit
<1>3. Len(Output) = 0 BY <1>2 DEF Output, Init, TxInit
<1>. QED BY <1>3 DEF OnceInv

\* Every step keeps the bytes of a line in a row.
LEMMA NextOnce == LinesInv /\ OnceInv /\ [Next]_vars => OnceInv'
<1>. SUFFICES ASSUME LinesInv, OnceInv, [Next]_vars PROVE OnceInv' OBVIOUS
<1>1. CASE (\E src \in Sources : Enter(src)) \/ Leave \/ Transmit BY <1>1, ContextsOnce
<1>2. CASE Claim \/ Compose \/ EndRefused \/ EndOverflow BY <1>2, ComposingOnce
<1>3. CASE EndLine \/ Relay BY <1>3, EndLineOnce, RelayOnce
<1>4. CASE WriteMark \/ WriteLine \/ ArmTransmitter \/ CopyRest \/ MarkWritten BY <1>4, HolderStepsOnce
<1>5. CASE PushFirst \/ PublishPart BY <1>5, PushFirstOnce, PublishPartOnce
<1>6. CASE UNCHANGED vars BY <1>6, RingSame, BesideOnce DEF vars, poolVars, LinesInv
<1>. QED BY <1>1, <1>2, <1>3, <1>4, <1>5, <1>6 DEF Next, Step

-----------------------------------------------------------------------------
(* The theorems.                                                            *)
\* The writer starts in the invariant.
LEMMA InitLines == Init => LinesInv
<1>. SUFFICES ASSUME Init PROVE LinesInv OBVIOUS
<1>. USE DEF Init, TxInit
<1>1. /\ stack = <<Frame(Main)>> /\ Frame(Main) \in FrameT /\ NoLine \in StageT /\ Frame(Main).src = Main
      /\ Frame(Main).pc = "run" /\ NoLine.state = "free"
  BY WriterConstants, WriterAssumption DEF Frame, FrameT, Stops, NoLine, StageT
<1>2. /\ stack \in Seq(FrameT) /\ stack # <<>> /\ stack[1] = Frame(Main) /\ DOMAIN stack = {1}
  BY <1>1
<1>3. \A d \in DOMAIN stack : ~Claimed(stack[d]) /\ ~Holds(stack[d]) /\ ~Underway(stack[d])
  BY <1>1, <1>2 DEF Claimed, Holds, Underway, Stops
<1>4. \A s \in Sources : slot[s] \notin Stages BY WriterConstants
<1>5. In("pending") = {} /\ In("publishing") = {} BY <1>1 DEF In
<1>6. WriterType
  <2>1. /\ stages \in [Stages -> StageT] /\ slot \in [Sources -> Stages \cup {NoSlot, Refused}]
    BY <1>1
  <2>2. seqNo \in 0..SeqRange - 1 /\ begun \in 0..MaxLines /\ busy \in BOOLEAN /\ marked \in Nat
    <3>1. FirstSeq \in 0..SeqRange - 1 BY WriterAssumption
    <3>2. MaxLines \in Nat BY WriterConstants
    <3>3. begun \in 0..MaxLines BY <3>2
    <3>4. marked \in Nat OBVIOUS
    <3>5. busy \in BOOLEAN OBVIOUS
    <3>. QED BY <3>1, <3>3, <3>4, <3>5
  <2>3. completed \in Seq(1..begun) OBVIOUS
  <2>. QED BY <1>1, <1>2, <2>1, <2>2, <2>3 DEF WriterType
<1>7. CountInv BY <1>3, FS_EmptySet DEF CountInv
<1>8. PoolInv BY <1>3, <1>4 DEF PoolInv
<1>9. LockInv BY <1>3, <1>5 DEF LockInv
<1>10. LineInv /\ QueueInv BY <1>5 DEF LineInv, QueueInv
<1>11. RingInv BY TransmitAssumption, TurnedBack DEF TxPlace, InRing, RingInv
<1>12. Len(Output) = 0 BY TransmitAssumption, TurnedBack DEF InRing, Output
<1>13. SentInv /\ WireInv BY <1>3, <1>12 DEF SentInv, WireInv, Chained
<1>. QED BY <1>6, <1>7, <1>8, <1>9, <1>10, <1>11, <1>13 DEF LinesInv

\* Every step of the contexts and of the transmitter keeps the invariant.
LEMMA NextLines == LinesInv /\ [Next]_vars => LinesInv'
<1>. SUFFICES ASSUME LinesInv, [Next]_vars PROVE LinesInv' OBVIOUS
<1>1. ASSUME NEW src \in Sources, Enter(src) PROVE LinesInv' BY <1>1, EnterKeeps
<1>2. CASE Leave \/ Transmit BY <1>2, LeaveKeeps, TransmitKeeps
<1>3. CASE Claim \/ Compose \/ EndRefused \/ EndOverflow \/ EndLine
  BY <1>3, ClaimKeeps, ComposeKeeps, EndRefusedKeeps, EndOverflowKeeps, EndLineKeeps
<1>4. CASE WriteMark \/ WriteLine \/ MarkWritten \/ Relay
  BY <1>4, WriteMarkKeeps, WriteLineKeeps, MarkWrittenKeeps, RelayKeeps
<1>5. CASE PushFirst \/ ArmTransmitter \/ CopyRest \/ PublishPart
  BY <1>5, PushFirstKeeps, ArmTransmitterKeeps, CopyRestKeeps, PublishPartKeeps
<1>6. CASE UNCHANGED vars
  <2>1. /\ UNCHANGED <<txVars, busy, marked, stages, seqNo, lostLines, begun, completed, refused>>
        /\ slot' = slot /\ stack' = stack
    BY <1>6 DEF vars, poolVars
  <2>2. SameFrames BY <2>1 DEF SameFrames
  <2>. QED BY <2>1, <2>2, Idle DEF LinesInv, WriterType
<1>. QED BY <1>1, <1>2, <1>3, <1>4, <1>5, <1>6 DEF Next, Step

\* What the wire shows follows from the invariant.
LEMMA LinesAreWhole == ASSUME LinesInv, OnceInv PROVE LinesWhole
<1>. USE DEF LinesInv
<1>1. TypeOK
  <2>1. lostLines \in Nat /\ lostLines <= begun BY CountNat DEF WriterType
  <2>2. ToSet(completed) \subseteq 1..begun BY DEF ToSet, WriterType
  <2>3. begun <= MaxLines BY WriterConstants DEF WriterType
  <2>. QED BY <2>1, <2>2, <2>3 DEF TypeOK, RingInv, TxPlace, WriterType, CountInv
<1>2. /\ Output \in Seq(Byte) /\ DOMAIN Output = 1..Len(Output) /\ Len(Output) \in Nat
      /\ \A j \in DOMAIN Output : Output[j] \in Byte
  BY OutputIs
<1>3. ASSUME NEW j \in DOMAIN Output, NEW b \in Byte, b = Output[j]
      PROVE  /\ IF b.k = 1 THEN j = 1 \/ Output[j - 1].k = Output[j - 1].size
                ELSE j > 1 /\ Output[j - 1] = [b EXCEPT !.k = @ - 1]
             /\ b.k < b.size /\ j = Len(Output) => busy
             /\ b.line # 0 => \A i \in 1..j - 1 :
                  \/ Output[i].line = 0
                  \/ Output[i].line = b.line /\ Output[i].k < b.k
                  \/ Output[i].line # b.line /\ Turn(Output[i].line) < Turn(b.line)
  <2>1. j \in 1..Len(Output) BY <1>2
  <2>2. IF b.k = 1 THEN j = 1 \/ Output[j - 1].k = Output[j - 1].size
        ELSE j > 1 /\ Output[j - 1] = [b EXCEPT !.k = @ - 1]
    BY <1>3, <2>1 DEF WireInv, Chained
  <2>3. ASSUME ~busy, j = Len(Output) PROVE ~(b.k < b.size)
    <3>1. \A d \in DOMAIN stack : ~Underway(stack[d]) BY <2>3 DEF LockInv, Holds, Underway, Stops
    <3>2. b.k = b.size BY <1>3, <2>1, <2>3, <3>1 DEF WireInv
    <3>. QED BY <3>2 DEF Byte
  <2>4. ASSUME NEW i \in 1..j - 1, b.line # 0, Output[i].line # 0, Output[i].line # b.line
        PROVE  Turn(Output[i].line) < Turn(b.line) BY <1>2, <1>3, <2>1, <2>4, TurnIs DEF SentInv
  <2>5. ASSUME NEW i \in 1..j - 1, b.line # 0, Output[i].line = b.line
        PROVE  Output[i].k < b.k
    BY <1>3, <2>1, <2>5 DEF OnceInv
  <2>. QED BY <2>2, <2>3, <2>4, <2>5
<1>. QED BY <1>1, <1>2, <1>3 DEF LinesWhole

\* The inductive invariant holds in every behaviour.
THEOREM LinesKept == Spec => [](LinesInv /\ OnceInv)
BY InitLines, InitOnce, NextLines, NextOnce, PTL DEF Spec

(* Every line goes out whole, each once, in the order the lines were          *)
(* completed, for every number of objects and stages, every size of the ring *)
(* and of its parts, and any number of lines: publish() hands the line to    *)
(* the holder of the lock, and the holder takes the oldest pending one,      *)
(* though a context may interrupt another between any two steps of a run.    *)
THEOREM LinesGoOutWhole == Spec => []LinesWhole
BY LinesKept, LinesAreWhole, PTL

-----------------------------------------------------------------------------
(* Sums and flattened sequences.                                            *)
\* Induction over the numbers, of a set.
LEMMA AllNumbers ==
  ASSUME NEW S, 0 \in S, \A n \in Nat : n \in S => n + 1 \in S
  PROVE  \A n \in Nat : n \in S
<1>. SUFFICES ASSUME Nat \ S # {} PROVE FALSE OBVIOUS
<1>1. PICK x \in Nat \ S : \A y \in Nat \ S : ~(<<y, x>> \in {p \in Nat \X Nat : p[1] < p[2]})
  BY Less, WFMin
<1>2. x # 0 /\ x - 1 \in Nat /\ (x - 1) + 1 = x BY <1>1
<1>3. x - 1 \notin S BY <1>1, <1>2
<1>4. <<x - 1, x>> \in {p \in Nat \X Nat : p[1] < p[2]} BY <1>2
<1>. QED BY <1>1, <1>2, <1>3, <1>4

\* The recursion of FlattenSeq, over the first sequences.
Flattens(f, s, n) == f = [i \in 1..n |-> IF i = 1 THEN s[i] ELSE f[i - 1] \o s[i]]

LEMMA FlattenIs ==
  ASSUME NEW s, Len(s) # 0
  PROVE  FlattenSeq(s) = (CHOOSE f : Flattens(f, s, Len(s)))[Len(s)]
BY Zenon DEF FlattenSeq, Flattens

\* There is such a function for any number of sequences.
LEMMA FlattenExists ==
  ASSUME NEW s
  PROVE  \A n \in Nat : \E f : Flattens(f, s, n)
<1>. DEFINE S == {n \in Nat : \E f : Flattens(f, s, n)}
<1>1. 0 \in S
  <2>1. Flattens(<<>>, s, 0) BY DEF Flattens
  <2>. QED BY <2>1
<1>2. ASSUME NEW n \in Nat, n \in S
      PROVE  n + 1 \in S
  <2>1. PICK f : Flattens(f, s, n) BY <1>2
  <2>2. PICK last : last = (IF n + 1 = 1 THEN s[n + 1] ELSE f[n] \o s[n + 1]) OBVIOUS
  <2>3. PICK g : g = [i \in 1..n + 1 |-> IF i = n + 1 THEN last ELSE f[i]] OBVIOUS
  <2>4. \A i \in 1..n : f[i] = IF i = 1 THEN s[i] ELSE f[i - 1] \o s[i]
    BY <2>1 DEF Flattens
  <2>5. ASSUME NEW i \in 1..n + 1
        PROVE  g[i] = IF i = 1 THEN s[i] ELSE g[i - 1] \o s[i]
    <3>1. CASE i = n + 1
      <4>1. g[i] = last BY <2>3, <3>1
      <4>2. CASE i = 1 BY <2>2, <3>1, <4>1, <4>2
      <4>3. CASE i # 1
        <5>1. i - 1 = n /\ n \in 1..n + 1 /\ n # n + 1 BY <3>1, <4>3
        <5>2. g[n] = f[n] BY <2>3, <5>1
        <5>. QED BY <2>2, <3>1, <4>1, <4>3, <5>1, <5>2
      <4>. QED BY <4>2, <4>3
    <3>2. CASE i # n + 1
      <4>1. i \in 1..n BY <3>2
      <4>2. g[i] = f[i] BY <2>3, <3>2
      <4>3. i # 1 => g[i - 1] = f[i - 1] BY <2>3, <4>1
      <4>. QED BY <2>4, <4>1, <4>2, <4>3
    <3>. QED BY <3>1, <3>2
  <2>6. g = [i \in 1..n + 1 |-> g[i]] BY <2>3
  <2>7. g = [i \in 1..n + 1 |-> IF i = 1 THEN s[i] ELSE g[i - 1] \o s[i]] BY <2>5, <2>6
  <2>8. Flattens(g, s, n + 1) BY <2>7 DEF Flattens
  <2>. QED BY <2>8
<1>. HIDE DEF S
<1>3. \A n \in Nat : n \in S BY <1>1, <1>2, AllNumbers
<1>. QED BY <1>3 DEF S

\* What is in one of the sequences is in all of them flattened.
LEMMA FlattenHas ==
  ASSUME NEW B, NEW s, Len(s) \in Nat, \A i \in 1..Len(s) : s[i] \in Seq(B)
  PROVE  /\ Len(s) # 0 => FlattenSeq(s) \in Seq(B)
         /\ \A i \in 1..Len(s) : \A k \in 1..Len(s[i]) :
              \E m \in 1..Len(FlattenSeq(s)) : FlattenSeq(s)[m] = s[i][k]
<1>. SUFFICES ASSUME Len(s) # 0
              PROVE  /\ FlattenSeq(s) \in Seq(B)
                     /\ \A i \in 1..Len(s) : \A k \in 1..Len(s[i]) :
                          \E m \in 1..Len(FlattenSeq(s)) : FlattenSeq(s)[m] = s[i][k]
  OBVIOUS
<1>1. PICK N \in Nat : N = Len(s) OBVIOUS
<1>2. \E f : Flattens(f, s, N) BY FlattenExists
<1>3. PICK f : f = CHOOSE g : Flattens(g, s, N) OBVIOUS
<1>4. Flattens(f, s, N) BY <1>2, <1>3
<1>5. FlattenSeq(s) = f[N] BY <1>1, <1>3, FlattenIs
<1>6. \A i \in 1..N : f[i] = IF i = 1 THEN s[i] ELSE f[i - 1] \o s[i] BY <1>4 DEF Flattens
<1>. DEFINE Good(n) == /\ f[n] \in Seq(B)
                       /\ \A i \in 1..n : \A k \in 1..Len(s[i]) : \E m \in 1..Len(f[n]) : f[n][m] = s[i][k]
            S == {n \in Nat : n \in 1..N => Good(n)}
<1>7. 0 \in S OBVIOUS
<1>8. ASSUME NEW n \in Nat, n \in S
      PROVE  n + 1 \in S
  <2>. SUFFICES ASSUME n + 1 \in 1..N PROVE Good(n + 1) OBVIOUS
  <2>1. CASE n = 0 BY <1>1, <1>6, <2>1
  <2>2. CASE n # 0
    <3>1. n \in 1..N /\ n + 1 # 1 /\ (n + 1) - 1 = n BY <2>2
    <3>2. Good(n) BY <1>8, <3>1
    <3>3. PICK a : a = f[n] OBVIOUS
    <3>4. PICK b : b = s[n + 1] OBVIOUS
    <3>5. a \in Seq(B) /\ b \in Seq(B) BY <1>1, <3>2, <3>3, <3>4
    <3>6. f[n + 1] = a \o b BY <1>6, <3>1, <3>3, <3>4
    <3>7. /\ a \o b \in Seq(B) /\ Len(a \o b) = Len(a) + Len(b) /\ Len(a) \in Nat /\ Len(b) \in Nat
          /\ \A m \in 1..Len(a) + Len(b) : (a \o b)[m] = IF m <= Len(a) THEN a[m] ELSE b[m - Len(a)]
      BY <3>5, ConcatProperties
    <3>8. ASSUME NEW i \in 1..n + 1, NEW k \in 1..Len(s[i])
          PROVE  \E m \in 1..Len(a \o b) : (a \o b)[m] = s[i][k]
      <4>1. CASE i = n + 1
        <5>1. k \in 1..Len(b) /\ s[i][k] = b[k] BY <3>4, <4>1
        <5>2. /\ Len(a) + k \in 1..Len(a) + Len(b) /\ ~(Len(a) + k <= Len(a)) /\ (Len(a) + k) - Len(a) = k
          BY <3>7, <5>1
        <5>. QED BY <3>7, <5>1, <5>2
      <4>2. CASE i # n + 1
        <5>1. i \in 1..n BY <4>2
        <5>2. PICK m \in 1..Len(a) : a[m] = s[i][k] BY <3>2, <3>3, <5>1
        <5>3. m \in 1..Len(a) + Len(b) /\ m <= Len(a) BY <3>7
        <5>. QED BY <3>7, <5>2, <5>3
      <4>. QED BY <4>1, <4>2
    <3>. QED BY <3>6, <3>7, <3>8
  <2>. QED BY <2>1, <2>2
<1>. HIDE DEF S
<1>9. \A n \in Nat : n \in S BY <1>7, <1>8, AllNumbers
<1>10. N \in S /\ N \in 1..N BY <1>1, <1>9
<1>11. Good(N) BY <1>10 DEF S
<1>. QED BY <1>1, <1>5, <1>11

\* The elements of a finite set, one behind the other.
LEMMA ListIs ==
  ASSUME NEW T, IsFiniteSet(T)
  PROVE  /\ SetToSeq(T) \in Seq(T) /\ Len(SetToSeq(T)) = Cardinality(T)
         /\ \A x \in T : \E k \in 1..Len(SetToSeq(T)) : SetToSeq(T)[k] = x
<1>1. PICK n \in Nat : n = Cardinality(T) BY FS_CardinalityType
<1>2. ExistsBijection(1..n, T) BY <1>1, FS_CardinalityType
<1>3. \E f \in [1..n -> T] : IsInjective(f)
  BY <1>2 DEF ExistsBijection, Bijection, Injection
<1>4. PICK f : f = SetToSeq(T) OBVIOUS
<1>5. f \in [1..n -> T] /\ IsInjective(f) BY <1>1, <1>3, <1>4 DEF SetToSeq
<1>6. f \in Seq(T) /\ Len(f) = n BY <1>5
<1>7. IsFiniteSet(1..n) /\ Cardinality(1..n) = n BY FS_Interval
<1>8. f \in Injection(1..n, T) BY <1>5 DEF Injection
<1>9. f \in Surjection(1..n, T) BY <1>1, <1>7, <1>8, FS_Injection
<1>10. \A x \in T : \E k \in 1..n : f[k] = x BY <1>9 DEF Surjection
<1>. QED BY <1>1, <1>4, <1>6, <1>10

\* A sum as the community modules iterate it.
Iter(w, S, it) ==
  it = [s \in SUBSET S |-> IF s = {} THEN 0
                           ELSE w[CHOOSE x \in s : TRUE].owed + it[s \ {CHOOSE x \in s : TRUE}]]

\* However a sum picks its elements, it comes to the same.
LEMMA SumAdds ==
  ASSUME NEW w, NEW S, IsFiniteSet(S), NEW A, Adds(A, w, S)
  PROVE  (CHOOSE it : Iter(w, S, it))[S] = A[S]
<1>1. Iter(w, S, A)
  <2>1. A = [s \in SUBSET S |-> A[s]] BY DEF Adds
  <2>2. ASSUME NEW s \in SUBSET S
        PROVE  A[s] = IF s = {} THEN 0 ELSE w[CHOOSE x \in s : TRUE].owed + A[s \ {CHOOSE x \in s : TRUE}]
    <3>1. CASE s = {} BY <3>1 DEF Adds
    <3>2. CASE s # {} BY <3>2 DEF Adds
    <3>. QED BY <3>1, <3>2
  <2>3. A = [s \in SUBSET S |-> IF s = {} THEN 0
                                ELSE w[CHOOSE x \in s : TRUE].owed + A[s \ {CHOOSE x \in s : TRUE}]]
    BY <2>1, <2>2
  <2>. QED BY <2>3 DEF Iter
<1>2. PICK it : it = CHOOSE i : Iter(w, S, i) OBVIOUS
<1>3. Iter(w, S, it) BY <1>1, <1>2
<1>4. \A s \in SUBSET S : it[s] = IF s = {} THEN 0
                                  ELSE w[CHOOSE x \in s : TRUE].owed + it[s \ {CHOOSE x \in s : TRUE}]
  BY <1>3 DEF Iter
<1>. DEFINE N == {n \in Nat : \A s \in SUBSET S : Cardinality(s) = n => it[s] = A[s]}
<1>5. \A s \in SUBSET S : IsFiniteSet(s) /\ Cardinality(s) \in Nat BY FS_Subset, FS_CardinalityType
<1>6. 0 \in N BY <1>4, <1>5, FS_EmptySet DEF Adds
<1>7. ASSUME NEW n \in Nat, n \in N
      PROVE  n + 1 \in N
  <2>. SUFFICES ASSUME NEW s \in SUBSET S, Cardinality(s) = n + 1 PROVE it[s] = A[s] OBVIOUS
  <2>1. s # {} BY FS_EmptySet
  <2>2. PICK x \in s : x = CHOOSE y \in s : TRUE BY <2>1
  <2>3. IsFiniteSet(s) BY <1>5
  <2>4. Cardinality(s \ {x}) = n
    <3>1. Cardinality(s \ {x}) = Cardinality(s) - 1 BY <2>3, FS_RemoveElement
    <3>. QED BY <3>1
  <2>5. it[s \ {x}] = A[s \ {x}] BY <1>7, <2>4
  <2>6. it[s] = w[x].owed + it[s \ {x}] BY <1>4, <2>1, <2>2
  <2>7. A[s] = w[x].owed + A[s \ {x}] BY DEF Adds
  <2>. QED BY <2>5, <2>6, <2>7
<1>. HIDE DEF N
<1>8. \A n \in Nat : n \in N BY <1>6, <1>7, AllNumbers
<1>9. Cardinality(S) \in N /\ S \in SUBSET S BY <1>5, <1>8
<1>10. it[S] = A[S] BY <1>9 DEF N
<1>. QED BY <1>2, <1>10

\* One element more adds what it owes.
LEMMA AddsMore ==
  ASSUME NEW w, NEW v, NEW S, NEW A, Adds(A, w, S), NEW y, y \notin S,
         \A x \in S \cup {y} : v[x].owed \in Int,
         \A x \in S : v[x] = w[x]
  PROVE  \E C : Adds(C, v, S \cup {y}) /\ C[S \cup {y}] = A[S] + v[y].owed
<1>. DEFINE U == S \cup {y}
            C == [T \in SUBSET U |-> IF y \in T THEN v[y].owed + A[T \ {y}] ELSE A[T]]
<1>1. A \in [SUBSET S -> Int] /\ A[{}] = 0 BY DEF Adds
<1>2. \A T \in SUBSET S : \A x \in T : A[T] = w[x].owed + A[T \ {x}] BY DEF Adds
<1>3. \A T \in SUBSET U : T \ {y} \in SUBSET S /\ (y \notin T => T \in SUBSET S) OBVIOUS
<1>4. C \in [SUBSET U -> Int] BY <1>1, <1>3
<1>5. C[{}] = 0 BY <1>1
<1>6. ASSUME NEW T \in SUBSET U, NEW x \in T
      PROVE  C[T] = v[x].owed + C[T \ {x}]
  <2>1. T \ {x} \in SUBSET U OBVIOUS
  <2>2. CASE x = y BY <2>1, <2>2
  <2>3. CASE x # y /\ y \in T
    <3>1. PICK R \in SUBSET S : R = T \ {y} BY <1>3
    <3>2. x \in R /\ x \in S BY <2>3, <3>1
    <3>3. A[R] = v[x].owed + A[R \ {x}] BY <1>2, <3>2
    <3>4. (T \ {x}) \ {y} = R \ {x} BY <3>1
    <3>5. C[T] = v[y].owed + A[R] BY <2>3, <3>1
    <3>6. y \in T \ {x} BY <2>3
    <3>7. C[T \ {x}] = v[y].owed + A[R \ {x}] BY <2>1, <3>4, <3>6
    <3>8. R \ {x} \in SUBSET S /\ A[R] \in Int /\ A[R \ {x}] \in Int /\ v[x].owed \in Int /\ v[y].owed \in Int
      BY <1>1, <3>2
    <3>. QED BY <3>3, <3>5, <3>7, <3>8
  <2>4. CASE y \notin T BY <1>2, <1>3, <2>1, <2>4
  <2>. QED BY <2>2, <2>3, <2>4
<1>7. C[U] = A[S] + v[y].owed
  <2>1. U \ {y} = S /\ y \in U /\ U \in SUBSET U OBVIOUS
  <2>2. C[U] = v[y].owed + A[S] BY <2>1
  <2>3. A[S] \in Int BY <1>1
  <2>. QED BY <2>2, <2>3
<1>. HIDE DEF C
<1>8. Adds(C, v, U) BY <1>4, <1>5, <1>6 DEF Adds
<1>. QED BY <1>7, <1>8

\* The pending lines in the order of their numbers, each once.
LEMMA InOrderIs ==
  ASSUME NEW S, IsFiniteSet(S), NEW t \in [S -> Int],
         \A i, j \in S : t[i] = t[j] => i = j,
         \A i, j \in S : i # j => (Before(j, i) <=> t[j] < t[i])
  PROVE  /\ InOrder(S) \in Seq(S)
         /\ \A x \in S : \E k \in 1..Len(InOrder(S)) : InOrder(S)[k] = x
<1>1. PICK n \in Nat : n = Cardinality(S) BY FS_CardinalityType
<1>. DEFINE Ahead(i) == {j \in S \ {i} : Before(j, i)}
            rank == [i \in S |-> Cardinality(Ahead(i))]
<1>2. ASSUME NEW i \in S
      PROVE  /\ Ahead(i) = {j \in S : t[j] < t[i]} /\ IsFiniteSet(Ahead(i)) /\ rank[i] \in 0..n - 1
             /\ rank[i] = Cardinality(Ahead(i))
  <2>1. Ahead(i) = {j \in S : t[j] < t[i]} OBVIOUS
  <2>2. Ahead(i) \in SUBSET S /\ i \notin Ahead(i) OBVIOUS
  <2>. HIDE DEF Ahead
  <2>3. IsFiniteSet(Ahead(i)) /\ Cardinality(Ahead(i)) <= n /\ (n = Cardinality(Ahead(i)) => S = Ahead(i))
    BY <1>1, <2>2, FS_Subset
  <2>4. Cardinality(Ahead(i)) \in Nat BY <2>3, FS_CardinalityType
  <2>5. Cardinality(Ahead(i)) # n BY <2>2, <2>3
  <2>. QED BY <2>1, <2>3, <2>4, <2>5
<1>3. ASSUME NEW i \in S, NEW j \in S, rank[i] = rank[j], t[i] < t[j]
      PROVE  FALSE
  <2>1. Ahead(i) \in SUBSET Ahead(j) /\ i \in Ahead(j) /\ i \notin Ahead(i) BY <1>2, <1>3
  <2>2. IsFiniteSet(Ahead(j)) /\ Cardinality(Ahead(j)) = Cardinality(Ahead(i)) BY <1>2, <1>3
  <2>. HIDE DEF Ahead, rank
  <2>3. Ahead(i) = Ahead(j) BY <2>1, <2>2, FS_Subset
  <2>. QED BY <2>1, <2>3
<1>4. \A i, j \in S : rank[i] = rank[j] => i = j
  <2>. SUFFICES ASSUME NEW i \in S, NEW j \in S, rank[i] = rank[j], i # j PROVE FALSE OBVIOUS
  <2>1. t[i] < t[j] \/ t[j] < t[i] OBVIOUS
  <2>. HIDE DEF rank
  <2>. QED BY <1>3, <2>1
<1>5. rank \in Injection(S, 0..n - 1)
  <2>1. rank \in [S -> 0..n - 1] BY <1>2
  <2>. HIDE DEF rank
  <2>. QED BY <1>4, <2>1 DEF Injection, IsInjective
<1>6. IsFiniteSet(0..n - 1) /\ Cardinality(0..n - 1) = n BY FS_Interval
<1>7. rank \in Surjection(S, 0..n - 1)
  <2>. HIDE DEF rank
  <2>. QED BY <1>1, <1>5, <1>6, FS_Injection
<1>8. PICK q : q = InOrder(S) OBVIOUS
<1>9. q = [k \in 1..n |-> CHOOSE i \in S : Cardinality(Ahead(i)) = k - 1] BY <1>1, <1>8 DEF InOrder
<1>10. ASSUME NEW k \in 1..n
       PROVE  q[k] \in S /\ rank[q[k]] = k - 1
  <2>1. k - 1 \in 0..n - 1 OBVIOUS
  <2>2. PICK i \in S : rank[i] = k - 1
    <3>. HIDE DEF rank
    <3>. QED BY <1>7, <2>1 DEF Surjection
  <2>3. \E j \in S : Cardinality(Ahead(j)) = k - 1 BY <2>2
  <2>4. q[k] = CHOOSE j \in S : Cardinality(Ahead(j)) = k - 1 BY <1>9
  <2>. HIDE DEF Ahead
  <2>5. q[k] \in S /\ Cardinality(Ahead(q[k])) = k - 1 BY <2>3, <2>4
  <2>. QED BY <2>5
<1>11. q \in Seq(S) /\ Len(q) = n
  <2>1. q \in [1..n -> S] BY <1>9, <1>10
  <2>. QED BY <2>1
<1>12. ASSUME NEW x \in S
       PROVE  \E k \in 1..n : q[k] = x
  <2>1. rank[x] \in 0..n - 1 BY <1>2
  <2>. HIDE DEF rank
  <2>2. PICK k \in 1..n : k - 1 = rank[x] BY <2>1
  <2>3. q[k] = x BY <1>4, <1>10, <2>2
  <2>. QED BY <2>3
<1>. QED BY <1>8, <1>11, <1>12

-----------------------------------------------------------------------------
(* Nothing is lost in silence.                                              *)
\* A line accounted for stays so while nothing of it is taken back.
LEMMA AccountKept ==
  ASSUME AccountInv, completed' = completed, refused \subseteq refused',
         \A j \in 1..Len(Output) : j \in 1..Len(Output') /\ Output'[j] = Output[j],
         \A i \in Stages : stages[i].state \in {"pending", "publishing"} =>
           /\ stages'[i].state \in {"pending", "publishing"} /\ stages'[i].line = stages[i].line
  PROVE  AccountInv'
<1>1. \A l : Waiting(l) => Waiting(l)' BY DEF Waiting
<1>2. \A l : SentWhole(l) => SentWhole(l)' BY DEF SentWhole
<1>3. ASSUME NEW k \in 1..Len(completed)
      PROVE  completed[k] \in refused' \/ Waiting(completed[k])' \/ SentWhole(completed[k])'
  BY <1>1, <1>2 DEF AccountInv
<1>. QED BY <1>3 DEF AccountInv, Waiting, SentWhole

\* The marks tell the same while no mark begins.
LEMMA MarksSame ==
  ASSUME MarkPlaces' = MarkPlaces, \A j \in MarkPlaces : Output'[j] = Output[j], NEW t, MarksTell(t)
  PROVE  MarksTell(t)'
<1>1. PICK A : Adds(A, Output, MarkPlaces) /\ A[MarkPlaces] = t BY DEF MarksTell
<1>2. PICK w : w = Output' OBVIOUS
<1>3. PICK S : S = MarkPlaces OBVIOUS
<1>4. Adds(A, w, S) BY <1>1, <1>2, <1>3 DEF Adds
<1>. QED BY <1>1, <1>2, <1>3, <1>4 DEF MarksTell

\* The marks and their holder as they were.
LEMMA MarkKept ==
  ASSUME MarkInv, MarkPlaces' = MarkPlaces, \A j \in MarkPlaces : Output'[j] = Output[j], marked' = marked,
         \A d \in DOMAIN stack : Marking(stack[d]) => d \in DOMAIN stack' /\ Marking(stack'[d]),
         \A d \in DOMAIN stack' : Marking(stack'[d]) =>
           d \in DOMAIN stack /\ Marking(stack[d]) /\ stack'[d].now = stack[d].now
  PROVE  MarkInv'
<1>1. (\A d \in DOMAIN stack' : ~Marking(stack'[d])) => MarksTell(marked)' BY MarksSame DEF MarkInv
<1>2. ASSUME NEW d \in DOMAIN stack', Marking(stack'[d])
      PROVE  MarksTell(stack[d].now)'
  <2>1. PICK t : t = stack[d].now OBVIOUS
  <2>2. MarksTell(t) /\ stack'[d].now = t BY <1>2, <2>1 DEF MarkInv
  <2>3. MarksTell(t)' BY <2>2, MarksSame
  <2>. QED BY <2>2, <2>3 DEF MarksTell
<1>. QED BY <1>1, <1>2 DEF MarkInv, Marking, Underway

\* A step of the running context that claims nothing.
LEMMA OwnedKept ==
  ASSUME LinesInv, OwnedInv, NEW f \in FrameT, f.src = Top.src, Become(f), ~Claimed(f), ~Claimed(Top),
         \A s \in Sources : s # Top.src => slot'[s] = slot[s],
         \A i \in Stages : stages'[i].state = "open" =>
           stages[i].state = "open" /\ (slot[Top.src] = i => slot'[Top.src] = i)
  PROVE  OwnedInv'
<1>1. /\ DOMAIN stack' = DOMAIN stack /\ stack'[Len(stack)] = f
      /\ \A d \in DOMAIN stack : d # Len(stack) => stack'[d] = stack[d]
  BY Becomes DEF LinesInv
<1>2. /\ Top = stack[Len(stack)] /\ Len(stack) \in DOMAIN stack /\ DOMAIN stack = 1..Len(stack)
      /\ \A d \in DOMAIN stack : stack[d].src \in Sources
  BY TopIs DEF LinesInv, FrameT
<1>3. \A d \in DOMAIN stack : stack'[d].src = stack[d].src BY <1>1, <1>2
<1>4. \A d, e \in DOMAIN stack' : d < e => stack'[d].src < stack'[e].src BY <1>1, <1>3 DEF OwnedInv
<1>5. \A d \in DOMAIN stack' : Claimed(stack'[d]) <=> Claimed(stack[d]) BY <1>1, <1>2
<1>6. ASSUME NEW d \in DOMAIN stack', Claimed(stack'[d])
      PROVE  slot'[stack'[d].src] = NoSlot
  <2>1. d \in DOMAIN stack /\ Claimed(stack[d]) /\ d # Len(stack) BY <1>1, <1>2, <1>5, <1>6
  <2>2. d < Len(stack) BY <1>2, <2>1
  <2>3. stack[d].src < Top.src BY <1>2, <2>1, <2>2 DEF OwnedInv
  <2>4. stack[d].src # Top.src BY <1>2, <2>1, <2>3, WriterConstants DEF Sources, Main, Handler
  <2>. QED BY <1>2, <1>3, <2>1, <2>4 DEF OwnedInv
<1>7. ASSUME NEW i \in Stages, stages'[i].state = "open"
      PROVE  \/ \E s \in Sources : slot'[s] = i
             \/ \E d \in DOMAIN stack' : Claimed(stack'[d]) /\ stack'[d].stage = i
  <2>1. CASE \E s \in Sources : slot[s] = i BY <1>7, <2>1
  <2>2. ASSUME NEW d \in DOMAIN stack, Claimed(stack[d]), stack[d].stage = i
        PROVE  \E e \in DOMAIN stack' : Claimed(stack'[e]) /\ stack'[e].stage = i
    <3>1. d # Len(stack) BY <1>2, <2>2
    <3>. QED BY <1>1, <2>2, <3>1
  <2>. QED BY <1>7, <2>1, <2>2 DEF OwnedInv
<1>. QED BY <1>4, <1>6, <1>7 DEF OwnedInv, Claimed

\* The running frame replaced by one that is not writing a mark, nor was it.
LEMMA MarkBecame ==
  ASSUME LinesInv, MarkInv, MarkPlaces' = MarkPlaces, \A j \in MarkPlaces : Output'[j] = Output[j],
         marked' = marked, NEW f \in FrameT, f.src = Top.src, Become(f),
         Marking(f) <=> Marking(Top), f.now = Top.now \/ ~Marking(f)
  PROVE  MarkInv'
<1>1. /\ DOMAIN stack' = DOMAIN stack /\ stack'[Len(stack)] = f
      /\ \A d \in DOMAIN stack : d # Len(stack) => stack'[d] = stack[d]
  BY Becomes DEF LinesInv
<1>2. Top = stack[Len(stack)] /\ Len(stack) \in DOMAIN stack BY TopIs DEF LinesInv
<1>. QED BY <1>1, <1>2, MarkKept

\* Where nothing goes out the marks are the same.
LEMMA PlacesSame ==
  ASSUME Output' = Output
  PROVE  /\ MarkPlaces' = MarkPlaces /\ \A j \in MarkPlaces : Output'[j] = Output[j]
         /\ \A j \in 1..Len(Output) : j \in 1..Len(Output') /\ Output'[j] = Output[j]
BY DEF MarkPlaces

\* The running context goes on with what it has: nothing is sent, nor a stage
\* changed.
LEMMA GoesOn ==
  ASSUME LinesInv, ToldInv, Output' = Output, stages' = stages, completed' = completed, refused' = refused,
         marked' = marked, slot' = slot, ~Claimed(Top),
         NEW f \in FrameT, f.src = Top.src, Become(f), ~Claimed(f),
         Marking(f) <=> Marking(Top), f.now = Top.now \/ ~Marking(f)
  PROVE  ToldInv'
<1>1. AccountInv' BY PlacesSame, AccountKept DEF ToldInv
<1>2. OwnedInv' BY OwnedKept DEF ToldInv
<1>3. MarkInv' BY PlacesSame, MarkBecame DEF ToldInv
<1>. QED BY <1>1, <1>2, <1>3 DEF ToldInv

\* A context entered or left, and the interrupt: what is held and told stays.
LEMMA ContextsTold ==
  ASSUME LinesInv, ToldInv, (\E src \in Sources : Enter(src)) \/ Leave \/ Transmit
  PROVE  ToldInv'
<1>. USE DEF LinesInv
<1>1. /\ Output' = Output /\ stages' = stages /\ completed' = completed /\ refused' = refused
      /\ marked' = marked /\ slot' = slot
  BY RingSame, SentOut DEF Enter, Leave, Transmit, poolVars
<1>2. /\ Len(stack) \in DOMAIN stack /\ DOMAIN stack = 1..Len(stack) /\ Len(stack) \in Nat \ {0}
      /\ Top = stack[Len(stack)] /\ \A d \in DOMAIN stack : stack[d] \in FrameT /\ stack[d].src \in Sources
  BY TopIs DEF FrameT
<1>3. Sources \subseteq Int BY WriterConstants DEF Sources, Main, Handler
<1>4. AccountInv' BY <1>1, PlacesSame, AccountKept DEF ToldInv
<1>5. ASSUME SameFrames, \A d, e \in DOMAIN stack' : d < e => stack'[d].src < stack'[e].src
      PROVE  ToldInv'
  <2>1. \A d \in DOMAIN stack : Marking(stack[d]) \/ Claimed(stack[d]) => d \in DOMAIN stack' /\ stack'[d] = stack[d]
    BY <1>5 DEF SameFrames, Marking, Underway, Claimed
  <2>2. \A d \in DOMAIN stack' : Marking(stack'[d]) \/ Claimed(stack'[d]) => d \in DOMAIN stack /\ stack'[d] = stack[d]
    BY <1>5 DEF SameFrames, Marking, Underway, Claimed
  <2>3. MarkInv' BY <1>1, <2>1, <2>2, PlacesSame, MarkKept DEF ToldInv
  <2>4. \A d \in DOMAIN stack' : Claimed(stack'[d]) => slot'[stack'[d].src] = NoSlot
    BY <1>1, <2>2 DEF ToldInv, OwnedInv
  <2>5. ASSUME NEW i \in Stages, stages'[i].state = "open"
        PROVE  \/ \E s \in Sources : slot'[s] = i
               \/ \E d \in DOMAIN stack' : Claimed(stack'[d]) /\ stack'[d].stage = i
    BY <1>1, <2>1, <2>5 DEF ToldInv, OwnedInv
  <2>6. OwnedInv' BY <1>5, <2>4, <2>5 DEF OwnedInv, Claimed
  <2>. QED BY <1>4, <2>3, <2>6 DEF ToldInv
<1>6. ASSUME NEW src \in Sources, Enter(src) PROVE ToldInv'
  <2>1. stack' = Append(stack, Frame(src)) /\ src > Top.src BY <1>6 DEF Enter
  <2>2. PICK f : f = Frame(src) OBVIOUS
  <2>3. f.pc = "run" /\ f.src = src /\ f \in FrameT BY <2>2, WriterConstants DEF Frame, FrameT, Stops
  <2>4. stack \in Seq(FrameT) BY DEF WriterType
  <2>5. /\ DOMAIN stack' = 1..Len(stack) + 1 /\ stack'[Len(stack) + 1] = f
        /\ \A d \in 1..Len(stack) : stack'[d] = stack[d]
    BY <2>1, <2>2, <2>3, <2>4, AppendProperties
  <2>6. \A d \in DOMAIN stack' : d \in DOMAIN stack \/ d = Len(stack) + 1 BY <1>2, <2>5
  <2>7. SameFrames BY <1>2, <2>3, <2>5, <2>6 DEF SameFrames
  <2>8. ASSUME NEW d \in DOMAIN stack', NEW e \in DOMAIN stack', d < e
        PROVE  stack'[d].src < stack'[e].src
    <3>1. d \in DOMAIN stack BY <1>2, <2>5, <2>8
    <3>2. CASE e \in DOMAIN stack BY <1>2, <2>5, <2>8, <3>1, <3>2 DEF ToldInv, OwnedInv
    <3>3. CASE e = Len(stack) + 1
      <4>1. d = Len(stack) \/ d < Len(stack) BY <1>2, <3>1
      <4>2. stack[d].src = Top.src \/ stack[d].src < Top.src BY <1>2, <3>1, <4>1 DEF ToldInv, OwnedInv
      <4>3. stack[d].src \in Int /\ Top.src \in Int /\ src \in Int BY <1>2, <1>3, <3>1
      <4>4. stack[d].src < src BY <2>1, <4>2, <4>3
      <4>5. stack'[d] = stack[d] /\ stack'[e].src = src BY <1>2, <2>3, <2>5, <3>1, <3>3
      <4>. QED BY <4>4, <4>5
    <3>. QED BY <2>6, <3>2, <3>3
  <2>. QED BY <1>5, <2>7, <2>8
<1>7. CASE Leave
  <2>1. stack' = SubSeq(stack, 1, Len(stack) - 1) /\ Top.pc = "run" BY <1>7 DEF Leave, At
  <2>2. stack \in Seq(FrameT) BY DEF WriterType
  <2>3. DOMAIN stack' = 1..Len(stack) - 1 /\ \A d \in DOMAIN stack' : d \in DOMAIN stack /\ stack'[d] = stack[d]
    BY <1>2, <2>1, <2>2
  <2>4. \A d \in DOMAIN stack : d \in DOMAIN stack' \/ d = Len(stack) BY <1>2, <2>3
  <2>5. SameFrames BY <1>2, <2>1, <2>3, <2>4 DEF SameFrames
  <2>6. \A d, e \in DOMAIN stack' : d < e => stack'[d].src < stack'[e].src BY <2>3 DEF ToldInv, OwnedInv
  <2>. QED BY <1>5, <2>5, <2>6
<1>8. CASE Transmit BY <1>5, <1>8 DEF Transmit, SameFrames, ToldInv, OwnedInv
<1>. QED BY <1>6, <1>7, <1>8

\* A stage claimed is its claimer's.
LEMMA ClaimTold == ASSUME LinesInv, ToldInv, Claim PROVE ToldInv'
<1>. USE DEF LinesInv
<1>1. /\ Output' = Output /\ completed' = completed /\ marked' = marked /\ refused \subseteq refused'
      /\ Top.pc = "run" /\ slot[Top.src] = NoSlot
  BY RingSame DEF Claim, At
<1>2. /\ Top \in FrameT /\ Top.src \in Sources /\ stages \in [Stages -> StageT]
      /\ \A i \in Stages : stages[i] \in StageT
      /\ Top = stack[Len(stack)] /\ Len(stack) \in DOMAIN stack
      /\ \A d \in DOMAIN stack : stack[d] \in FrameT /\ stack[d].src \in Sources
  BY TopIs DEF FrameT, WriterType
<1>3. ~Claimed(Top) /\ ~Marking(Top) BY <1>1 DEF Claimed, Marking, Underway
<1>4. CASE Printed /\ stages' = stages /\ slot' = [slot EXCEPT ![Top.src] = Refused]
  <2>1. PICK f \in FrameT : f = [Top EXCEPT !.printed = TRUE] BY <1>2 DEF FrameT
  <2>2. f.src = Top.src /\ f.pc = "run" /\ Become(f) BY <1>1, <1>2, <1>4, <2>1 DEF FrameT, Printed
  <2>3. ~Claimed(f) /\ ~Marking(f) BY <2>2 DEF Claimed, Marking, Underway
  <2>4. \A s \in Sources : s # Top.src => slot'[s] = slot[s] BY <1>4
  <2>5. \A i \in Stages : slot[Top.src] # i BY <1>1, WriterConstants
  <2>6. AccountInv' BY <1>1, <1>4, PlacesSame, AccountKept DEF ToldInv
  <2>7. OwnedInv' BY <1>3, <1>4, <2>2, <2>3, <2>4, <2>5, OwnedKept DEF ToldInv
  <2>8. MarkInv' BY <1>1, <1>3, <2>2, <2>3, PlacesSame, MarkBecame DEF ToldInv
  <2>. QED BY <2>6, <2>7, <2>8 DEF ToldInv
<1>5. ASSUME NEW i0 \in In("free"), stages' = [stages EXCEPT ![i0].state = "open"], slot' = slot,
             Become([Top EXCEPT !.pc = "claimed", !.printed = TRUE, !.stage = i0, !.line = begun + 1])
      PROVE  ToldInv'
  <2>0. i0 \in Stages /\ stages[i0].state = "free" BY DEF In
  <2>1. begun + 1 \in Nat BY DEF WriterType
  <2>2. PICK f \in FrameT : f = [Top EXCEPT !.pc = "claimed", !.printed = TRUE, !.stage = i0, !.line = begun + 1]
    BY <1>2, <2>0, <2>1 DEF FrameT, Stops
  <2>3. f.src = Top.src /\ f.pc = "claimed" /\ f.stage = i0 /\ Become(f) BY <1>2, <1>5, <2>2 DEF FrameT
  <2>4. Claimed(f) /\ ~Marking(f) BY <2>3 DEF Claimed, Marking, Underway
  <2>5. \A i \in Stages : stages'[i].line = stages[i].line /\ (i # i0 => stages'[i] = stages[i])
    BY <1>2, <1>5, <2>0 DEF StageT
  <2>6. \A i \in Stages : stages[i].state \in {"pending", "publishing"} => stages'[i] = stages[i]
    BY <2>0, <2>5
  <2>7. AccountInv' BY <1>1, <2>6, PlacesSame, AccountKept DEF ToldInv
  <2>8. MarkInv' BY <1>1, <1>3, <2>3, <2>4, PlacesSame, MarkBecame DEF ToldInv
  <2>9. /\ DOMAIN stack' = DOMAIN stack /\ stack'[Len(stack)] = f
        /\ \A d \in DOMAIN stack : d # Len(stack) => stack'[d] = stack[d]
    BY <2>3, Becomes
  <2>10. \A d \in DOMAIN stack : stack'[d].src = stack[d].src BY <1>2, <2>3, <2>9
  <2>11. \A d, e \in DOMAIN stack' : d < e => stack'[d].src < stack'[e].src
    BY <2>9, <2>10 DEF ToldInv, OwnedInv
  <2>12. \A d \in DOMAIN stack' : Claimed(stack'[d]) => slot'[stack'[d].src] = NoSlot
    BY <1>1, <1>2, <1>5, <2>9, <2>10 DEF ToldInv, OwnedInv
  <2>13. ASSUME NEW i \in Stages, stages'[i].state = "open"
         PROVE  \/ \E s \in Sources : slot'[s] = i
                \/ \E d \in DOMAIN stack' : Claimed(stack'[d]) /\ stack'[d].stage = i
    <3>1. CASE i = i0 BY <1>2, <2>3, <2>4, <2>9, <3>1
    <3>2. CASE i # i0
      <4>1. stages[i].state = "open" BY <2>5, <2>13, <3>2
      <4>2. CASE \E s \in Sources : slot[s] = i BY <1>5, <4>2
      <4>3. ASSUME NEW d \in DOMAIN stack, Claimed(stack[d]), stack[d].stage = i
            PROVE  \E e \in DOMAIN stack' : Claimed(stack'[e]) /\ stack'[e].stage = i
        <5>1. d # Len(stack) BY <1>2, <1>3, <4>3
        <5>. QED BY <2>9, <4>3, <5>1
      <4>. QED BY <4>1, <4>2, <4>3 DEF ToldInv, OwnedInv
    <3>. QED BY <3>1, <3>2
  <2>14. OwnedInv' BY <2>11, <2>12, <2>13 DEF OwnedInv, Claimed
  <2>. QED BY <2>7, <2>8, <2>14 DEF ToldInv
<1>6. LET free == {i \in In("free") : i > 0 \/ MayWait(Top.src)}
      IN free # {} => Min(free) \in In("free")
  <2>. DEFINE free == {i \in In("free") : i > 0 \/ MayWait(Top.src)}
  <2>1. free \in SUBSET Stages BY DEF In
  <2>2. free # {} => Min(free) \in free BY <2>1, LeastOf
  <2>. QED BY <2>2
<1>7. \/ Printed /\ stages' = stages /\ slot' = [slot EXCEPT ![Top.src] = Refused]
      \/ \E i0 \in In("free") :
           /\ stages' = [stages EXCEPT ![i0].state = "open"] /\ slot' = slot
           /\ Become([Top EXCEPT !.pc = "claimed", !.printed = TRUE, !.stage = i0, !.line = begun + 1])
  BY <1>6 DEF Claim
<1>. QED BY <1>4, <1>5, <1>7

\* A stage made the caller's was its caller's already.
LEMMA ComposeTold == ASSUME LinesInv, ToldInv, Compose PROVE ToldInv'
<1>. USE DEF LinesInv
<1>1. /\ Output' = Output /\ completed' = completed /\ marked' = marked /\ refused' = refused
      /\ Top.pc = "claimed" /\ slot' = [slot EXCEPT ![Top.src] = Top.stage]
  BY RingSame DEF Compose, At
<1>2. /\ Top \in FrameT /\ Top.src \in Sources /\ Top.stage \in Stages /\ stages \in [Stages -> StageT]
      /\ Top = stack[Len(stack)] /\ Len(stack) \in DOMAIN stack /\ DOMAIN stack = 1..Len(stack)
      /\ \A d \in DOMAIN stack : stack[d] \in FrameT /\ stack[d].src \in Sources
      /\ DOMAIN slot = Sources
  BY TopIs DEF FrameT, WriterType
<1>3. PICK i0 \in Stages, src \in Sources : i0 = Top.stage /\ src = Top.src BY <1>2
<1>4. stages[i0].state = "open" /\ slot[src] = NoSlot
  BY <1>1, <1>2, <1>3 DEF PoolInv, Claimed, ToldInv, OwnedInv
<1>5. PICK f \in FrameT : f = [Top EXCEPT !.pc = "run"] BY <1>2 DEF FrameT, Stops
<1>6. f.src = Top.src /\ f.pc = "run" /\ Become(f) BY <1>2, <1>5 DEF FrameT, Compose, GoTo
<1>7. ~Claimed(f) /\ ~Marking(f) /\ ~Marking(Top) BY <1>1, <1>6 DEF Claimed, Marking, Underway
<1>8. \A i \in Stages : i # i0 => stages'[i] = stages[i] BY <1>2, <1>3 DEF Compose
<1>9. AccountInv' BY <1>1, <1>4, <1>8, PlacesSame, AccountKept DEF ToldInv
<1>10. MarkInv' BY <1>1, <1>6, <1>7, PlacesSame, MarkBecame DEF ToldInv
<1>11. /\ DOMAIN stack' = DOMAIN stack /\ stack'[Len(stack)] = f
       /\ \A d \in DOMAIN stack : d # Len(stack) => stack'[d] = stack[d]
  BY <1>6, Becomes
<1>12. \A d \in DOMAIN stack : stack'[d].src = stack[d].src BY <1>2, <1>6, <1>11
<1>13. \A d, e \in DOMAIN stack' : d < e => stack'[d].src < stack'[e].src
  BY <1>11, <1>12 DEF ToldInv, OwnedInv
<1>14. slot'[src] = i0 /\ \A s \in Sources : s # src => slot'[s] = slot[s] BY <1>1, <1>2, <1>3
<1>15. ASSUME NEW d \in DOMAIN stack', Claimed(stack'[d])
       PROVE  slot'[stack'[d].src] = NoSlot
  <2>1. d \in DOMAIN stack /\ d # Len(stack) /\ Claimed(stack[d]) BY <1>7, <1>11, <1>15
  <2>2. d < Len(stack) BY <1>2, <2>1
  <2>3. stack[d].src < src BY <1>2, <1>3, <2>1, <2>2 DEF ToldInv, OwnedInv
  <2>4. stack[d].src # src BY <1>2, <2>1, <2>3, WriterConstants DEF Sources, Main, Handler
  <2>. QED BY <1>2, <1>12, <1>14, <2>1, <2>4 DEF ToldInv, OwnedInv
<1>16. ASSUME NEW i \in Stages, stages'[i].state = "open"
       PROVE  \/ \E s \in Sources : slot'[s] = i
              \/ \E d \in DOMAIN stack' : Claimed(stack'[d]) /\ stack'[d].stage = i
  <2>1. CASE i = i0 BY <1>14, <2>1
  <2>2. CASE i # i0
    <3>1. stages[i].state = "open" BY <1>8, <1>16, <2>2
    <3>2. CASE \E s \in Sources : slot[s] = i
      <4>1. PICK s \in Sources : slot[s] = i BY <3>2
      <4>2. s # src BY <1>4, <4>1, WriterConstants
      <4>. QED BY <1>14, <4>1, <4>2
    <3>3. ASSUME NEW d \in DOMAIN stack, Claimed(stack[d]), stack[d].stage = i
          PROVE  \E e \in DOMAIN stack' : Claimed(stack'[e]) /\ stack'[e].stage = i
      <4>1. d # Len(stack) BY <1>2, <1>3, <2>2, <3>3
      <4>. QED BY <1>11, <3>3, <4>1
    <3>. QED BY <3>1, <3>2, <3>3 DEF ToldInv, OwnedInv
  <2>. QED BY <2>1, <2>2
<1>17. OwnedInv' BY <1>13, <1>15, <1>16 DEF OwnedInv, Claimed
<1>. QED BY <1>9, <1>10, <1>17 DEF ToldInv

\* A line ended without being published: refused from the start, or outgrown.
LEMMA EndTold == ASSUME LinesInv, ToldInv, EndRefused \/ EndOverflow PROVE ToldInv'
<1>. USE DEF LinesInv
<1>1. /\ Output' = Output /\ completed' = completed /\ marked' = marked /\ refused \subseteq refused'
      /\ Top.pc = "run" /\ slot' = [slot EXCEPT ![Top.src] = NoSlot] /\ Printed
  BY RingSame DEF EndRefused, EndOverflow, At
<1>2. /\ Top \in FrameT /\ Top.src \in Sources /\ stages \in [Stages -> StageT]
      /\ \A i \in Stages : stages[i] \in StageT
  BY TopIs DEF FrameT, WriterType
<1>3. PICK f \in FrameT : f = [Top EXCEPT !.printed = TRUE] BY <1>2 DEF FrameT
<1>4. f.src = Top.src /\ f.pc = "run" /\ Become(f) BY <1>1, <1>2, <1>3 DEF FrameT, Printed
<1>5. ~Claimed(f) /\ ~Marking(f) /\ ~Claimed(Top) /\ ~Marking(Top) BY <1>1, <1>4 DEF Claimed, Marking, Underway
<1>6. PICK i0 : i0 = slot[Top.src] OBVIOUS
<1>7. /\ \A i \in Stages : i # i0 => stages'[i] = stages[i]
      /\ i0 \in Stages => stages[i0].state = "open" /\ stages'[i0].state = "free"
  <2>1. CASE EndRefused BY <1>6, <2>1, WriterConstants DEF EndRefused
  <2>2. CASE EndOverflow BY <1>2, <1>6, <2>2 DEF EndOverflow, PoolInv, StageT
  <2>. QED BY <2>1, <2>2
<1>8. AccountInv' BY <1>1, <1>7, PlacesSame, AccountKept DEF ToldInv
<1>9. OwnedInv'
  <2>1. \A s \in Sources : s # Top.src => slot'[s] = slot[s] BY <1>1
  <2>2. \A i \in Stages : stages'[i].state = "open" =>
          stages[i].state = "open" /\ (slot[Top.src] = i => slot'[Top.src] = i)
    BY <1>6, <1>7
  <2>. QED BY <1>4, <1>5, <2>1, <2>2, OwnedKept DEF ToldInv
<1>10. MarkInv' BY <1>1, <1>4, <1>5, PlacesSame, MarkBecame DEF ToldInv
<1>. QED BY <1>8, <1>9, <1>10 DEF ToldInv

\* A line completed waits, or is being published.
LEMMA EndLineTold == ASSUME LinesInv, ToldInv, EndLine PROVE ToldInv'
<1>. USE DEF LinesInv
<1>1. /\ Top \in FrameT /\ Top.pc = "run" /\ stages \in [Stages -> StageT] /\ Output' = Output
      /\ \A i \in Stages : stages[i] \in StageT
      /\ marked' = marked /\ refused' = refused /\ slot' = [slot EXCEPT ![Top.src] = NoSlot]
  BY TopIs, RingSame DEF EndLine, At, WriterType
<1>2. PICK src \in Sources : src = Top.src BY <1>1 DEF FrameT
<1>3. PICK i0 \in Stages : i0 = slot[src] BY <1>2 DEF EndLine
<1>4. stages[i0].state = "open" /\ ~Claimed(Top) /\ ~Marking(Top)
  BY <1>1, <1>2, <1>3 DEF PoolInv, Claimed, Marking, Underway
<1>5. PICK l : l = stages[i0].line OBVIOUS
<1>6. /\ completed' = Append(completed, l) /\ completed \in Seq(1..begun) /\ Len(completed) \in Nat
  BY <1>2, <1>3, <1>5 DEF EndLine, WriterType
<1>7. ASSUME stages'[i0].state \in {"pending", "publishing"}, stages'[i0].line = l,
             \A i \in Stages : i # i0 => stages'[i] = stages[i],
             NEW f \in FrameT, f.src = Top.src, Become(f), ~Claimed(f), ~Underway(f)
      PROVE  ToldInv'
  <2>1. ASSUME NEW k \in 1..Len(completed'), NEW c, c = completed'[k]
        PROVE  c \in refused' \/ Waiting(c)' \/ SentWhole(c)'
    <3>1. CASE k = Len(completed) + 1
      <4>1. c = l BY <1>6, <2>1, <3>1
      <4>. QED BY <1>7, <4>1 DEF Waiting
    <3>2. CASE k # Len(completed) + 1
      <4>1. k \in 1..Len(completed) /\ c = completed[k] BY <1>6, <2>1, <3>2
      <4>2. c \in refused \/ Waiting(c) \/ SentWhole(c) BY <4>1 DEF ToldInv, AccountInv
      <4>3. Waiting(c) => Waiting(c)' BY <1>4, <1>7 DEF Waiting
      <4>4. SentWhole(c) => SentWhole(c)' BY <1>1 DEF SentWhole
      <4>. QED BY <1>1, <4>2, <4>3, <4>4
    <3>. QED BY <3>1, <3>2
  <2>2. AccountInv' BY <2>1 DEF AccountInv, Waiting, SentWhole
  <2>3. \A s \in Sources : s # Top.src => slot'[s] = slot[s] BY <1>1
  <2>4. \A i \in Stages : stages'[i].state = "open" =>
          stages[i].state = "open" /\ (slot[Top.src] = i => slot'[Top.src] = i)
    BY <1>2, <1>3, <1>7
  <2>5. OwnedInv' BY <1>4, <1>7, <2>3, <2>4, OwnedKept DEF ToldInv
  <2>6. ~Marking(f) BY <1>7 DEF Marking
  <2>7. MarkInv' BY <1>1, <1>4, <1>7, <2>6, PlacesSame, MarkBecame DEF ToldInv
  <2>. QED BY <2>2, <2>5, <2>7 DEF ToldInv
<1>8. CASE Printed /\ stages' = [stages EXCEPT ![i0].state = "pending", ![i0].seq = seqNo]
  <2>1. PICK f \in FrameT : f = [Top EXCEPT !.printed = TRUE] BY <1>1 DEF FrameT
  <2>2. f.src = Top.src /\ f.pc = "run" /\ Become(f) BY <1>1, <1>8, <2>1 DEF FrameT, Printed
  <2>3. ~Claimed(f) /\ ~Underway(f) BY <2>2 DEF Claimed, Underway
  <2>4. stages'[i0].state = "pending" /\ stages'[i0].line = l /\ \A i \in Stages : i # i0 => stages'[i] = stages[i]
    BY <1>1, <1>5, <1>8 DEF StageT
  <2>. QED BY <1>7, <2>2, <2>3, <2>4
<1>9. CASE /\ stages' = [stages EXCEPT ![i0].state = "publishing"]
           /\ Become([Top EXCEPT !.pc = IF lostLines # marked THEN "mark" ELSE "line", !.printed = TRUE,
                                 !.stage = i0, !.now = lostLines])
  <2>0. lostLines \in Nat BY CountNat DEF WriterType
  <2>1. PICK f \in FrameT : f = [Top EXCEPT !.pc = IF lostLines # marked THEN "mark" ELSE "line", !.printed = TRUE,
                                            !.stage = i0, !.now = lostLines]
    BY <1>1, <2>0 DEF FrameT, Stops
  <2>2. f.src = Top.src /\ f.pc \in {"mark", "line"} /\ Become(f) BY <1>1, <1>9, <2>1 DEF FrameT
  <2>3. ~Claimed(f) /\ ~Underway(f) BY <2>2 DEF Claimed, Underway
  <2>4. stages'[i0].state = "publishing" /\ stages'[i0].line = l /\ \A i \in Stages : i # i0 => stages'[i] = stages[i]
    BY <1>1, <1>5, <1>9 DEF StageT
  <2>. QED BY <1>7, <2>2, <2>3, <2>4
<1>10. (<1>8!1 \/ <1>9!1) BY <1>2, <1>3 DEF EndLine
<1>. QED BY <1>8, <1>9, <1>10

\* A line ended by its holder is out whole, or refused; the next waits no more.
LEMMA RelayTold == ASSUME LinesInv, ToldInv, Relay PROVE ToldInv'
<1>. USE DEF LinesInv
<1>1. /\ Top \in FrameT /\ stages \in [Stages -> StageT] /\ Output' = Output /\ Holds(Top)
      /\ \A i \in Stages : stages[i] \in StageT
      /\ completed' = completed /\ marked' = marked /\ slot' = slot /\ refused \subseteq refused'
      /\ Top.pc \in {"written", "refuse"}
  BY TopIs, RingSame DEF Relay, At, WriterType, Holds, Stops
<1>2. PICK pub \in Stages : pub = Top.stage BY <1>1 DEF FrameT
<1>3. pub \in In("publishing") /\ \A i \in Stages : stages[i].state = "publishing" <=> i = pub
  BY <1>1, <1>2, OneHolder
<1>4. PICK l : l = stages[pub].line OBVIOUS
<1>5. ~Claimed(Top) /\ ~Marking(Top) BY <1>1 DEF Claimed, Marking, Underway, Relay, At
<1>6. l \in refused' \/ SentWhole(l)
  <2>1. CASE Top.pc = "refuse" BY <1>2, <1>4, <2>1 DEF Relay, Publishing
  <2>2. CASE Top.pc = "written"
    <3>1. Ending(Top) /\ ~Top.mark BY <2>2, TopIs DEF WireInv, Underway, Relay, At
    <3>. DEFINE c == Min({stages[pub].size, Capacity(pub)})
    <3>2. PICK line \in Nat, size \in Nat \ {0}, owed \in Int :
            Run(Top) = Bytes(line, size, owed) /\ Len(Run(Top)) = size
      BY <1>1, <1>2, <1>3, RunIs DEF In
    <3>3. Len(Output) \in Nat /\ Len(Output) > 0 /\ Output[Len(Output)] = Run(Top)[size] /\ size \in 1..size
      BY <2>2, <3>1, <3>2, OutputIs DEF Ending
    <3>4. Run(Top)[size].k = size /\ Run(Top)[size].size = size BY <3>2, <3>3 DEF Bytes
    <3>5. Run(Top)[size].line = l BY <1>2, <1>4, <3>1, <3>2, <3>3, RunByte
    <3>6. Len(Output) \in 1..Len(Output) BY <3>3
    <3>. QED BY <3>3, <3>4, <3>5, <3>6 DEF SentWhole
  <2>. QED BY <1>1, <2>1, <2>2
<1>7. ASSUME \A i \in Stages : stages'[i].line = stages[i].line,
             \A i \in Stages : stages[i].state = "pending" => stages'[i].state \in {"pending", "publishing"},
             \A i \in Stages : stages'[i].state = "open" => stages[i].state = "open",
             NEW f \in FrameT, f.src = Top.src, Become(f), ~Claimed(f), ~Marking(f)
      PROVE  ToldInv'
  <2>1. ASSUME NEW k \in 1..Len(completed), NEW c, c = completed[k]
        PROVE  c \in refused' \/ Waiting(c)' \/ SentWhole(c)'
    <3>1. c \in refused \/ Waiting(c) \/ SentWhole(c) BY <2>1 DEF ToldInv, AccountInv
    <3>2. SentWhole(c) => SentWhole(c)' BY <1>1 DEF SentWhole
    <3>3. Waiting(c) => Waiting(c)' \/ c = l BY <1>3, <1>4, <1>7 DEF Waiting
    <3>. QED BY <1>1, <1>6, <3>1, <3>2, <3>3
  <2>2. AccountInv' BY <1>1, <2>1 DEF AccountInv, Waiting, SentWhole
  <2>3. OwnedInv' BY <1>1, <1>5, <1>7, OwnedKept DEF ToldInv
  <2>4. MarkInv' BY <1>1, <1>5, <1>7, PlacesSame, MarkBecame DEF ToldInv
  <2>. QED BY <2>2, <2>3, <2>4 DEF ToldInv
<1>8. CASE /\ stages' = [stages EXCEPT ![pub].state = "free"] /\ In("pending") = {}
           /\ Become([Frame(Top.src) EXCEPT !.printed = TRUE])
  <2>0. PICK src \in Sources : src = Top.src BY <1>1 DEF FrameT
  <2>1. PICK f \in FrameT : f = [Frame(Top.src) EXCEPT !.printed = TRUE]
    <3>1. Frame(src) \in FrameT BY WriterConstants DEF Frame, FrameT, Stops
    <3>2. [Frame(src) EXCEPT !.printed = TRUE] \in FrameT BY <3>1 DEF FrameT
    <3>. QED BY <2>0, <3>2
  <2>2. f.src = Top.src /\ f.pc = "run" /\ Become(f) BY <1>8, <2>1 DEF Frame
  <2>3. ~Claimed(f) /\ ~Marking(f) BY <2>2 DEF Claimed, Marking, Underway
  <2>4. /\ \A i \in Stages : stages'[i].line = stages[i].line
        /\ \A i \in Stages : stages[i].state = "pending" => stages'[i].state \in {"pending", "publishing"}
        /\ \A i \in Stages : stages'[i].state = "open" => stages[i].state = "open"
    BY <1>1, <1>8 DEF StageT, In
  <2>. QED BY <1>7, <2>2, <2>3, <2>4
<1>9. CASE /\ In("pending") # {}
           /\ stages' = [stages EXCEPT ![pub].state = "free", ![Oldest(In("pending"))].state = "publishing"]
           /\ Become([Top EXCEPT !.pc = "line", !.stage = Oldest(In("pending")), !.at = 0])
  <2>1. Oldest(In("pending")) \in In("pending") BY <1>3, <1>9, OldestIs
  <2>2. PICK heir \in Stages : heir = Oldest(In("pending")) BY <2>1 DEF In
  <2>3. PICK f \in FrameT : f = [Top EXCEPT !.pc = "line", !.stage = heir, !.at = 0]
    BY <1>1 DEF FrameT, Stops
  <2>4. f.src = Top.src /\ f.pc = "line" /\ Become(f) BY <1>1, <1>9, <2>2, <2>3 DEF FrameT
  <2>5. ~Claimed(f) /\ ~Marking(f) BY <2>4 DEF Claimed, Marking, Underway
  <2>6. stages[heir].state = "pending" /\ heir # pub BY <1>3, <2>1, <2>2 DEF In
  <2>7. /\ \A i \in Stages : stages'[i].line = stages[i].line
        /\ stages'[pub].state = "free" /\ stages'[heir].state = "publishing"
        /\ \A i \in Stages : i # pub /\ i # heir => stages'[i] = stages[i]
    BY <1>1, <1>9, <2>2, <2>6 DEF StageT
  <2>8. /\ \A i \in Stages : stages[i].state = "pending" => stages'[i].state \in {"pending", "publishing"}
        /\ \A i \in Stages : stages'[i].state = "open" => stages[i].state = "open"
    BY <1>3, <2>7 DEF In
  <2>. QED BY <1>7, <2>4, <2>5, <2>7, <2>8
<1>10. (<1>8!1 \/ <1>9!1) BY <1>2 DEF Relay
<1>. QED BY <1>8, <1>9, <1>10

\* The holder between two sendings.
LEMMA HolderStepsTold ==
  ASSUME LinesInv, ToldInv, WriteMark \/ WriteLine \/ ArmTransmitter \/ CopyRest
  PROVE  ToldInv'
<1>. USE DEF LinesInv
<1>1. Top \in FrameT BY TopIs
<1>2. Top.pc \in {"mark", "line", "arm", "copy"}
  BY DEF WriteMark, WriteLine, ArmTransmitter, CopyRest, At
<1>3. ~Claimed(Top) /\ Holds(Top) BY <1>2 DEF Claimed, Holds, Stops
<1>4. /\ stages' = stages /\ completed' = completed /\ refused' = refused /\ marked' = marked /\ slot' = slot
  BY DEF WriteMark, WriteLine, ArmTransmitter, CopyRest, poolVars
<1>5. ASSUME NEW f \in FrameT, f.src = Top.src, f.pc # "claimed", Become(f), Output' = Output,
             Marking(f) <=> Marking(Top), f.now = Top.now
      PROVE  ToldInv'
  BY <1>3, <1>4, <1>5, GoesOn DEF Claimed
<1>6. CASE WriteMark \/ WriteLine
  <2>1. ~Underway(Top) /\ Output' = Output BY <1>6, RingSame DEF WriteMark, WriteLine, At, Underway
  <2>2. \/ Become([Top EXCEPT !.pc = "push", !.mark = TRUE]) \/ Become([Top EXCEPT !.pc = "line"])
        \/ Become([Top EXCEPT !.pc = "push", !.mark = FALSE]) \/ Become([Top EXCEPT !.pc = "refuse"])
    BY <1>6 DEF WriteMark, WriteLine, GoTo
  <2>3. ASSUME NEW p \in {"push", "line", "refuse"}, NEW m \in BOOLEAN, NEW f,
               f = [Top EXCEPT !.pc = p, !.mark = m] \/ f = [Top EXCEPT !.pc = p], Become(f)
        PROVE  ToldInv' BY <1>1, <1>5, <2>1, <2>3 DEF FrameT, Stops, Marking, Underway
  <2>. QED BY <2>2, <2>3
<1>7. CASE ArmTransmitter
  <2>1. Output' = Output BY <1>7, ArmedOut DEF ArmTransmitter
  <2>2. PICK p \in {"copy", "written"} : Become([Top EXCEPT !.pc = p])
    BY <1>7 DEF ArmTransmitter, GoTo
  <2>3. PICK f \in FrameT : f = [Top EXCEPT !.pc = p] BY <1>1, <2>2 DEF FrameT, Stops
  <2>4. f.src = Top.src /\ f.mark = Top.mark /\ f.now = Top.now /\ f.pc = p /\ Become(f)
    BY <1>1, <2>2, <2>3 DEF FrameT
  <2>5. Marking(f) <=> Marking(Top) BY <1>7, <2>4 DEF Marking, Underway, ArmTransmitter, At
  <2>. QED BY <1>5, <2>1, <2>4, <2>5
<1>8. CASE CopyRest
  <2>. DEFINE rest == SubSeq(Run(Top), Top.at + 1, Len(Run(Top)))
  <2>0. Ending(Top) BY <1>8, TopIs DEF WireInv, Underway, CopyRest, At
  <2>1. PICK line \in Nat, size \in Nat \ {0}, owed \in Int :
          /\ Run(Top) = Bytes(line, size, owed) /\ Run(Top) \in Seq(Byte) /\ Len(Run(Top)) = size
    BY <1>1, <1>3, OneHolder, RunIs DEF FrameT
  <2>2. rest \in Seq(Byte) /\ Len(rest) \in Nat BY <2>0, <2>1 DEF Ending
  <2>3. Output' = Output /\ Part(rest) \in Nat
    <3>1. TxCopy(rest) BY <1>8 DEF CopyRest
    <3>. HIDE DEF rest
    <3>2. Output' = Output /\ Part(rest) \in 1..Len(rest) BY <2>2, <3>1, CopiedOut
    <3>. QED BY <2>2, <3>2
  <2>4. PICK n \in Nat : n = Part(rest) BY <2>3
  <2>5. PICK f \in FrameT : f = [Top EXCEPT !.pc = "publish", !.part = n] BY <1>1 DEF FrameT, Stops
  <2>6. f.src = Top.src /\ f.mark = Top.mark /\ f.now = Top.now /\ f.pc = "publish" /\ Become(f)
    BY <1>1, <1>8, <2>4, <2>5 DEF FrameT, CopyRest
  <2>7. Marking(f) <=> Marking(Top) BY <1>8, <2>6 DEF Marking, Underway, CopyRest, At
  <2>. QED BY <1>5, <2>3, <2>6, <2>7
<1>. QED BY <1>6, <1>7, <1>8

\* A mark written counts as told what it tells.
LEMMA MarkWrittenTold == ASSUME LinesInv, ToldInv, MarkWritten PROVE ToldInv'
<1>. USE DEF LinesInv
<1>1. /\ Top \in FrameT /\ Top.pc = "written" /\ Top.mark /\ Output' = Output
      /\ Top = stack[Len(stack)] /\ Len(stack) \in DOMAIN stack
  BY TopIs, RingSame DEF MarkWritten, At
<1>2. /\ stages' = stages /\ completed' = completed /\ refused' = refused /\ slot' = slot /\ marked' = Top.now
  BY DEF MarkWritten, poolVars
<1>3. Marking(Top) /\ ~Claimed(Top) /\ Holds(Top) BY <1>1 DEF Marking, Underway, Claimed, Holds, Stops
<1>4. PICK f \in FrameT : f = [Top EXCEPT !.pc = "line", !.mark = FALSE, !.at = 0] BY <1>1 DEF FrameT, Stops
<1>5. f.src = Top.src /\ f.pc = "line" /\ Become(f) BY <1>1, <1>4 DEF FrameT, MarkWritten
<1>6. ~Claimed(f) /\ ~Marking(f) BY <1>5 DEF Claimed, Marking, Underway
<1>7. AccountInv' BY <1>1, <1>2, PlacesSame, AccountKept DEF ToldInv
<1>8. OwnedInv' BY <1>2, <1>3, <1>5, <1>6, OwnedKept DEF ToldInv
<1>9. MarkInv'
  <2>1. PICK t : t = Top.now OBVIOUS
  <2>2. MarksTell(t) BY <1>1, <1>3, <2>1 DEF ToldInv, MarkInv
  <2>3. MarksTell(t)' BY <1>1, <2>2, PlacesSame, MarksSame
  <2>4. \A d \in DOMAIN stack' : ~Marking(stack'[d]) BY <1>3, <1>5, <1>6, Becomes, OneHolder DEF Marking
  <2>5. MarksTell(marked)' BY <1>2, <2>1, <2>3 DEF MarksTell
  <2>. QED BY <2>4, <2>5 DEF MarkInv, Marking, Underway
<1>. QED BY <1>7, <1>8, <1>9 DEF ToldInv

\* The first byte of a run: a mark's begins to tell what its holder found.
LEMMA PushFirstTold == ASSUME LinesInv, ToldInv, PushFirst PROVE ToldInv'
<1>. USE DEF LinesInv
<1>1. /\ Top \in FrameT /\ Top.pc = "push" /\ Top.stage \in Stages
      /\ Top = stack[Len(stack)] /\ Len(stack) \in DOMAIN stack
  BY TopIs DEF PushFirst, At, FrameT
<1>2. PICK f \in FrameT : f = [Top EXCEPT !.pc = "arm", !.at = 1] BY <1>1 DEF FrameT, Stops
<1>3. f.pc = "arm" /\ f.src = Top.src /\ f.mark = Top.mark /\ f.now = Top.now BY <1>1, <1>2 DEF FrameT
<1>4. /\ Holds(Top) /\ ~Underway(Top) /\ ~Marking(Top) /\ ~Claimed(Top) /\ ~Claimed(f)
      /\ (Marking(f) <=> Top.mark)
  BY <1>1, <1>3 DEF Holds, Underway, Stops, Claimed, Marking
<1>5. /\ Become(f) /\ TxPush(Run(Top)[1]) /\ stages' = stages /\ completed' = completed /\ refused' = refused
      /\ marked' = marked /\ slot' = slot
  BY <1>2 DEF PushFirst, poolVars
<1>6. PICK line \in Nat, size \in Nat \ {0}, owed \in Int :
        Run(Top) = Bytes(line, size, owed) /\ Run(Top) \in Seq(Byte) /\ Len(Run(Top)) = size
  BY <1>1, <1>4, OneHolder, RunIs
<1>7. PICK b \in Byte : b = Run(Top)[1]
  <2>1. 1 \in 1..size BY <1>6
  <2>. QED BY <1>6, <2>1
<1>8. b.k = 1 /\ b.line = IF Top.mark THEN 0 ELSE stages[Top.stage].line BY <1>6, <1>7, RunByte
<1>9. PICK m \in Nat : m = Len(Output) BY OutputIs
<1>10. /\ Len(Output') = m + 1 /\ Output'[m + 1] = b
       /\ \A j \in 1..m : Output'[j] = Output[j] /\ Output[j] \in Byte
  <2>1. Output' = Append(Output, b) /\ Output \in Seq(Byte) BY <1>5, <1>7, PushedOut, OutputIs
  <2>. QED BY <1>9, <2>1, AppendProperties
<1>11. AccountInv' BY <1>5, <1>9, <1>10, AccountKept DEF ToldInv
<1>12. OwnedInv' BY <1>3, <1>4, <1>5, OwnedKept DEF ToldInv
<1>13. \A j \in 1..m + 1 : j \in 1..m \/ j = m + 1 BY <1>9
<1>14. MarkInv'
  <2>1. CASE ~Top.mark
    <3>1. stages[Top.stage].line # 0 BY <1>4, OneHolder DEF LineInv, Done, WriterType
    <3>2. MarkPlaces' = MarkPlaces
      <4>1. \A j \in 1..m + 1 : Output'[j].line = 0 /\ Output'[j].k = 1 <=> j \in 1..m /\ Output[j].line = 0 /\ Output[j].k = 1
        BY <1>8, <1>9, <1>10, <1>13, <2>1, <3>1
      <4>2. MarkPlaces' = {j \in 1..m + 1 : Output'[j].line = 0 /\ Output'[j].k = 1} BY <1>10 DEF MarkPlaces
      <4>3. MarkPlaces = {j \in 1..m : Output[j].line = 0 /\ Output[j].k = 1} BY <1>9 DEF MarkPlaces
      <4>4. 1..m \subseteq 1..m + 1 BY <1>9
      <4>. QED BY <4>1, <4>2, <4>3, <4>4
    <3>3. \A j \in MarkPlaces : Output'[j] = Output[j] BY <1>9, <1>10 DEF MarkPlaces
    <3>. QED BY <1>3, <1>4, <1>5, <2>1, <3>2, <3>3, MarkBecame DEF ToldInv
  <2>2. CASE Top.mark
    <3>1. /\ DOMAIN stack' = DOMAIN stack /\ stack'[Len(stack)] = f
          /\ \A d \in DOMAIN stack : d # Len(stack) => stack'[d] = stack[d]
      BY <1>3, <1>5, Becomes
    <3>2. \A d \in DOMAIN stack : d # Len(stack) => ~Marking(stack[d]) BY <1>4, OneHolder DEF Marking
    <3>3. MarksTell(marked) BY <1>1, <1>4, <3>2 DEF ToldInv, MarkInv
    <3>4. PICK S : S = MarkPlaces OBVIOUS
    <3>5. PICK A : Adds(A, Output, S) /\ A[S] = marked BY <3>3, <3>4 DEF MarksTell
    <3>6. b.owed = Top.now - marked /\ b.owed \in Int /\ b.line = 0 /\ b.k = 1
      BY <1>7, <1>8, <2>2, WriterConstants DEF Run, Bytes, Byte
    <3>7. MarkPlaces' = S \cup {m + 1} /\ m + 1 \notin S BY <1>9, <1>10, <1>13, <3>4, <3>6 DEF MarkPlaces
    <3>8. PICK v : v = Output' OBVIOUS
    <3>9. PICK w : w = Output OBVIOUS
    <3>10. \A x \in S : v[x] = w[x] /\ w[x].owed \in Int
      BY <1>9, <1>10, <3>4, <3>8, <3>9 DEF MarkPlaces, Byte
    <3>11. v[m + 1].owed = Top.now - marked /\ \A x \in S \cup {m + 1} : v[x].owed \in Int
      BY <1>10, <3>6, <3>8, <3>10
    <3>12. PICK C : Adds(C, v, S \cup {m + 1}) /\ C[S \cup {m + 1}] = A[S] + v[m + 1].owed
      <4>1. PICK y : y = m + 1 OBVIOUS
      <4>2. Adds(A, w, S) /\ y \notin S /\ \A x \in S : v[x] = w[x] BY <3>5, <3>7, <3>9, <3>10, <4>1
      <4>3. \A x \in S \cup {y} : v[x].owed \in Int BY <3>11, <4>1
      <4>4. \E C : Adds(C, v, S \cup {y}) /\ C[S \cup {y}] = A[S] + v[y].owed BY <4>2, <4>3, AddsMore
      <4>. QED BY <4>1, <4>4
    <3>13. PICK t \in Nat : t = Top.now BY <1>1 DEF FrameT
    <3>14. C[S \cup {m + 1}] = t
      <4>1. marked \in Nat BY DEF WriterType
      <4>. QED BY <3>5, <3>11, <3>12, <3>13, <4>1
    <3>15. MarksTell(t)' BY <3>7, <3>8, <3>12, <3>14 DEF MarksTell
    <3>16. ASSUME NEW d \in DOMAIN stack', Marking(stack'[d])
           PROVE  stack'[d].now = t
      BY <1>3, <3>1, <3>2, <3>13, <3>16
    <3>17. Marking(stack'[Len(stack)]) /\ Len(stack) \in DOMAIN stack' BY <1>1, <1>4, <2>2, <3>1
    <3>18. ~(\A d \in DOMAIN stack' : ~Marking(stack'[d])) BY <3>17
    <3>. QED BY <3>15, <3>16, <3>18 DEF MarkInv, Marking, Underway, MarksTell
  <2>. QED BY <2>1, <2>2
<1>. QED BY <1>11, <1>12, <1>14 DEF ToldInv

\* A part of a run: no mark begins in it.
LEMMA PublishPartTold == ASSUME LinesInv, ToldInv, PublishPart PROVE ToldInv'
<1>. USE DEF LinesInv
<1>1. Top \in FrameT /\ Top.pc = "publish" /\ Top.stage \in Stages BY TopIs DEF PublishPart, At, FrameT
<1>2. Ending(Top) /\ Holds(Top) BY <1>1, TopIs DEF WireInv, Underway, Holds, Stops
<1>3. PICK line \in Nat, size \in Nat \ {0}, owed \in Int :
        Run(Top) = Bytes(line, size, owed) /\ Run(Top) \in Seq(Byte) /\ Len(Run(Top)) = size
  BY <1>1, <1>2, OneHolder, RunIs
<1>4. PICK n \in Nat, at \in Nat : n = Top.part /\ at = Top.at BY <1>1 DEF FrameT
<1>5. /\ at \in 1..size /\ n \in 1..size - at /\ n <= Room /\ txHead + n <= TxSize
      /\ \A i \in 1..n : txSlots[txHead + i - 1] = Run(Top)[at + i]
  BY <1>1, <1>2, <1>3, <1>4 DEF Ending
<1>6. n \in Nat \ {0} /\ \A i \in 1..n : at + i \in 1..size /\ at + i # 1 BY <1>3, <1>5
<1>7. PICK f \in FrameT : f = [Top EXCEPT !.pc = "arm", !.at = at + n, !.part = 0]
  <2>1. at + n \in Nat /\ 0 \in Nat /\ "arm" \in Stops BY <1>4 DEF Stops
  <2>. QED BY <1>1, <2>1 DEF FrameT
<1>8. f.pc = "arm" /\ f.src = Top.src /\ f.mark = Top.mark /\ f.now = Top.now BY <1>1, <1>7 DEF FrameT
<1>9. /\ Become(f) /\ TxPublish(n) /\ stages' = stages /\ completed' = completed /\ refused' = refused
      /\ marked' = marked /\ slot' = slot /\ ~Claimed(f) /\ ~Claimed(Top) /\ (Marking(f) <=> Marking(Top))
  BY <1>1, <1>4, <1>7, <1>8 DEF PublishPart, poolVars, Underway, Claimed, Marking
<1>10. \A i \in 1..n : txSlots[txHead + i - 1] \in Byte /\ txSlots[txHead + i - 1].k # 1
  <2>. TAKE i \in 1..n
  <2>1. at + i \in 1..size /\ at + i # 1 BY <1>6
  <2>2. Run(Top)[at + i] \in Byte /\ Run(Top)[at + i].k = at + i BY <1>3, <2>1, RunByte
  <2>. QED BY <1>5, <2>1, <2>2
<1>11. PICK m \in Nat : m = Len(Output) BY OutputIs
<1>12. /\ Len(Output') = m + n
       /\ \A j \in 1..m : Output'[j] = Output[j]
       /\ \A i \in 1..n : Output'[m + i].k # 1
  BY <1>5, <1>6, <1>9, <1>10, <1>11, PublishedOut
<1>13. AccountInv' BY <1>9, <1>11, <1>12, AccountKept DEF ToldInv
<1>14. OwnedInv' BY <1>8, <1>9, OwnedKept DEF ToldInv
<1>15. MarkPlaces' = MarkPlaces
  <2>1. \A j \in 1..m + n : j \in 1..m \/ (j - m \in 1..n /\ m + (j - m) = j) BY <1>11
  <2>2. \A j \in 1..m + n : ~(j \in 1..m) => Output'[j].k # 1 BY <1>12, <2>1
  <2>3. MarkPlaces' = {j \in 1..m + n : Output'[j].line = 0 /\ Output'[j].k = 1} BY <1>12 DEF MarkPlaces
  <2>4. MarkPlaces = {j \in 1..m : Output[j].line = 0 /\ Output[j].k = 1} BY <1>11 DEF MarkPlaces
  <2>5. 1..m \subseteq 1..m + n BY <1>11
  <2>. QED BY <1>12, <2>2, <2>3, <2>4, <2>5
<1>16. MarkInv'
  <2>1. \A j \in MarkPlaces : Output'[j] = Output[j] BY <1>11, <1>12 DEF MarkPlaces
  <2>. QED BY <1>8, <1>9, <1>15, <2>1, MarkBecame DEF ToldInv
<1>. QED BY <1>13, <1>14, <1>16 DEF ToldInv

\* Nothing is completed, open or out at the start.
LEMMA InitTold == Init => ToldInv
<1>. SUFFICES ASSUME Init PROVE ToldInv OBVIOUS
<1>1. (0 - 0) % TxSize = 0 BY TransmitAssumption, TurnedBack
<1>2. InRing = <<>> BY <1>1 DEF InRing, Init, TxInit
<1>3. Len(Output) = 0 BY <1>2 DEF Output, Init, TxInit
<1>4. stack = <<Frame(Main)>> /\ DOMAIN stack = {1} /\ stack[1].pc = "run" BY DEF Init, Frame
<1>5. AccountInv BY DEF AccountInv, Init
<1>6. OwnedInv BY <1>4 DEF Init, NoLine, OwnedInv, Claimed
<1>7. MarkInv
  <2>1. MarkPlaces = {} BY <1>3 DEF MarkPlaces
  <2>2. PICK A : A = [T \in SUBSET {} |-> 0] OBVIOUS
  <2>3. Adds(A, Output, {}) /\ A[{}] = 0 BY <2>2 DEF Adds
  <2>4. MarksTell(marked) BY <2>1, <2>3 DEF MarksTell, Init
  <2>. QED BY <1>4, <2>4 DEF MarkInv, Marking, Underway
<1>. QED BY <1>5, <1>6, <1>7 DEF ToldInv

\* Every step accounts for the lines it ends.
LEMMA NextTold == LinesInv /\ ToldInv /\ [Next]_vars => ToldInv'
<1>. SUFFICES ASSUME LinesInv, ToldInv, [Next]_vars PROVE ToldInv' OBVIOUS
<1>1. CASE (\E src \in Sources : Enter(src)) \/ Leave \/ Transmit BY <1>1, ContextsTold
<1>2. CASE Claim \/ Compose \/ EndRefused \/ EndOverflow BY <1>2, ClaimTold, ComposeTold, EndTold
<1>3. CASE EndLine \/ Relay BY <1>3, EndLineTold, RelayTold
<1>4. CASE WriteMark \/ WriteLine \/ ArmTransmitter \/ CopyRest \/ MarkWritten
  BY <1>4, HolderStepsTold, MarkWrittenTold
<1>5. CASE PushFirst \/ PublishPart BY <1>5, PushFirstTold, PublishPartTold
<1>6. CASE UNCHANGED vars
  <2>1. /\ Output' = Output /\ stack' = stack /\ stages' = stages /\ slot' = slot /\ marked' = marked
        /\ refused' = refused /\ completed' = completed
    BY <1>6, RingSame DEF vars, poolVars, LinesInv
  <2>2. AccountInv' BY <2>1, PlacesSame, AccountKept DEF ToldInv
  <2>3. MarkInv' BY <2>1, PlacesSame, MarkKept DEF ToldInv
  <2>4. OwnedInv' BY <2>1 DEF ToldInv, OwnedInv, Claimed
  <2>. QED BY <2>2, <2>3, <2>4 DEF ToldInv
<1>. QED BY <1>1, <1>2, <1>3, <1>4, <1>5, <1>6 DEF Next, Step

-----------------------------------------------------------------------------
(* What a panic's drain shows.                                              *)
\* The bytes of a stage, the last of them its line's end.
LEMMA StageBytesAre ==
  ASSUME WriterType, NEW i \in Stages
  PROVE  /\ StageBytes(i) \in Seq(Byte)
         /\ stages[i].size > 0 =>
              \E k \in 1..Len(StageBytes(i)) :
                StageBytes(i)[k].line = stages[i].line /\ StageBytes(i)[k].k = StageBytes(i)[k].size
<1>1. PICK size \in Nat : size = stages[i].size BY DEF WriterType, StageT
<1>2. PICK l \in Nat : l = stages[i].line BY DEF WriterType, StageT
<1>3. PICK room \in Nat \ {0} : room = Capacity(i) BY WriterConstants
<1>4. PICK c : c = Min({size, room}) OBVIOUS
<1>5. c \in Nat /\ (size > 0 => c > 0) BY <1>1, <1>3, <1>4 DEF Min
<1>6. StageBytes(i) = [k \in 1..c |-> [line |-> l, size |-> c, k |-> k, owed |-> 0]]
  BY <1>1, <1>2, <1>3, <1>4 DEF StageBytes, Bytes
<1>7. StageBytes(i) \in [1..c -> Byte] BY <1>2, <1>5, <1>6 DEF Byte
<1>8. StageBytes(i) \in Seq(Byte) /\ Len(StageBytes(i)) = c BY <1>5, <1>6, <1>7
<1>9. ASSUME size > 0
      PROVE  /\ c \in 1..Len(StageBytes(i)) /\ StageBytes(i)[c].line = l
             /\ StageBytes(i)[c].k = StageBytes(i)[c].size
  BY <1>5, <1>6, <1>8, <1>9
<1>. QED BY <1>1, <1>2, <1>8, <1>9

\* The stages a drain goes through, those that hold a line completed among them.
DrainOrder == SetToSeq(In("publishing")) \o InOrder(In("pending")) \o SetToSeq(In("open"))

LEMMA DrainOrderIs ==
  ASSUME LinesInv
  PROVE  /\ DrainOrder \in Seq(Stages)
         /\ \A i \in In("publishing") \cup In("pending") : \E n \in 1..Len(DrainOrder) : DrainOrder[n] = i
<1>. USE DEF LinesInv
<1>1. \A T \in SUBSET Stages : IsFiniteSet(T)
  <2>1. IsFiniteSet(Stages) BY WriterConstants, FS_Interval
  <2>. QED BY <2>1, FS_Subset
<1>2. PICK P \in SUBSET Stages : P = In("pending") BY DEF In
<1>3. PICK a : a = SetToSeq(In("publishing")) OBVIOUS
<1>4. PICK b : b = InOrder(P) OBVIOUS
<1>5. PICK c : c = SetToSeq(In("open")) OBVIOUS
<1>6. a \in Seq(Stages) /\ \A i \in In("publishing") : \E n \in 1..Len(a) : a[n] = i
  <2>1. In("publishing") \in SUBSET Stages BY DEF In
  <2>2. a \in Seq(In("publishing")) /\ \A i \in In("publishing") : \E n \in 1..Len(a) : a[n] = i
    BY <1>1, <1>3, <2>1, ListIs
  <2>. QED BY <2>1, <2>2
<1>7. c \in Seq(Stages) BY <1>1, <1>5, ListIs DEF In
<1>8. PICK t : t = [p \in P |-> TurnAt(p)] OBVIOUS
<1>9. /\ t \in [P -> Int]
      /\ \A p, q \in P : t[p] = t[q] => p = q
      /\ \A p, q \in P : p # q => (Before(q, p) <=> t[q] < t[p])
  <2>1. CASE P = {} BY <1>8, <2>1
  <2>2. CASE P # {}
    <3>1. PICK d \in DOMAIN stack : Holds(stack[d]) BY <1>2, <2>2 DEF LockInv
    <3>2. stack[d].stage \in In("publishing") BY <3>1, TopIs DEF LockInv, In, FrameT
    <3>3. PICK pub \in In("publishing") : TRUE BY <3>2
    <3>4. \A p, q \in P :
            /\ TurnAt(p) \in 1..Len(completed) /\ TurnAt(pub) < TurnAt(p)
            /\ p # q => TurnAt(p) # TurnAt(q) /\ (Before(p, q) <=> TurnAt(p) < TurnAt(q))
      BY <1>2, <3>3, BeforeIs
    <3>5. \A p \in P : t[p] = TurnAt(p) /\ t[p] \in Int BY <1>8, <3>4
    <3>. QED BY <1>8, <3>4, <3>5
  <2>. QED BY <2>1, <2>2
<1>10. b \in Seq(P) /\ \A i \in P : \E n \in 1..Len(b) : b[n] = i BY <1>1, <1>4, <1>9, InOrderIs
<1>11. b \in Seq(Stages) BY <1>2, <1>10
<1>12. PICK ab : ab = a \o b OBVIOUS
<1>13. /\ ab \in Seq(Stages) /\ Len(ab) = Len(a) + Len(b) /\ Len(a) \in Nat /\ Len(b) \in Nat
       /\ \A n \in 1..Len(a) + Len(b) : ab[n] = IF n <= Len(a) THEN a[n] ELSE b[n - Len(a)]
  BY <1>6, <1>11, <1>12, ConcatProperties
<1>14. \A i \in In("publishing") \cup P : \E n \in 1..Len(ab) : ab[n] = i
  <2>1. ASSUME NEW i \in P PROVE \E n \in 1..Len(ab) : ab[n] = i
    <3>1. PICK n \in 1..Len(b) : b[n] = i BY <1>10
    <3>2. Len(a) + n \in 1..Len(ab) /\ ~(Len(a) + n <= Len(a)) /\ (Len(a) + n) - Len(a) = n BY <1>13
    <3>. QED BY <1>13, <3>1, <3>2
  <2>2. ASSUME NEW i \in In("publishing") PROVE \E n \in 1..Len(ab) : ab[n] = i
    <3>1. PICK n \in 1..Len(a) : a[n] = i BY <1>6
    <3>2. n \in 1..Len(ab) /\ n <= Len(a) BY <1>13
    <3>. QED BY <1>13, <3>1, <3>2
  <2>. QED BY <2>1, <2>2
<1>15. PICK all : all = ab \o c OBVIOUS
<1>16. /\ all \in Seq(Stages) /\ Len(all) = Len(ab) + Len(c) /\ Len(ab) \in Nat /\ Len(c) \in Nat
       /\ \A n \in 1..Len(ab) + Len(c) : all[n] = IF n <= Len(ab) THEN ab[n] ELSE c[n - Len(ab)]
  <2>1. ab \in Seq(Stages) BY <1>13
  <2>. QED BY <1>7, <1>15, <2>1, ConcatProperties
<1>17. \A i \in In("publishing") \cup P : \E n \in 1..Len(all) : all[n] = i BY <1>14, <1>16
<1>18. DrainOrder = all BY <1>2, <1>3, <1>4, <1>5, <1>12, <1>15 DEF DrainOrder
<1>. QED BY <1>2, <1>16, <1>17, <1>18

\* A drain shows what is out, and every line that waits from its start to its end.
LEMMA DrainedShows ==
  ASSUME LinesInv
  PROVE  /\ \A l : SentWhole(l) => \E j \in DOMAIN Drained : Drained[j].line = l /\ Drained[j].k = Drained[j].size
         /\ \A l : Waiting(l) => \E j \in DOMAIN Drained : Drained[j].line = l /\ Drained[j].k = Drained[j].size
<1>. USE DEF LinesInv
<1>1. PICK o \in Seq(Stages) : /\ o = DrainOrder
                               /\ \A i \in In("publishing") \cup In("pending") : \E n \in 1..Len(o) : o[n] = i
  BY DrainOrderIs
<1>2. Len(o) \in Nat /\ DOMAIN o = 1..Len(o) /\ \A n \in 1..Len(o) : o[n] \in Stages BY <1>1
<1>3. PICK parts : parts = [n \in 1..Len(o) |-> StageBytes(o[n])] OBVIOUS
<1>4. Len(parts) = Len(o) /\ \A n \in 1..Len(o) : parts[n] = StageBytes(o[n]) /\ parts[n] \in Seq(Byte)
  BY <1>2, <1>3, StageBytesAre
<1>5. PICK rest : rest = FlattenSeq(parts) OBVIOUS
<1>6. /\ rest \in Seq(Byte)
      /\ \A n \in 1..Len(o) : \A k \in 1..Len(parts[n]) : \E m \in 1..Len(rest) : rest[m] = parts[n][k]
  <2>1. CASE Len(o) # 0
    <3>1. Len(parts) # 0 /\ Len(parts) \in Nat /\ \A n \in 1..Len(parts) : parts[n] \in Seq(Byte) BY <1>2, <1>4, <2>1
    <3>2. /\ FlattenSeq(parts) \in Seq(Byte)
          /\ \A n \in 1..Len(parts) : \A k \in 1..Len(parts[n]) :
               \E m \in 1..Len(FlattenSeq(parts)) : FlattenSeq(parts)[m] = parts[n][k]
      BY <3>1, FlattenHas
    <3>. QED BY <1>4, <1>5, <3>2
  <2>2. CASE Len(o) = 0
    <3>1. rest = parts BY Zenon, <1>4, <1>5, <2>2 DEF FlattenSeq
    <3>2. parts = <<>> BY <1>3, <2>2
    <3>. QED BY <2>2, <3>1, <3>2
  <2>. QED BY <2>1, <2>2
<1>7. Drained = Output \o rest BY <1>1, <1>2, <1>3, <1>5 DEF Drained, DrainOrder, Output
<1>8. PICK d : d = Drained OBVIOUS
<1>9. /\ d \in Seq(Byte) /\ Len(d) = Len(Output) + Len(rest) /\ Len(Output) \in Nat /\ Len(rest) \in Nat
      /\ \A j \in 1..Len(Output) + Len(rest) : d[j] = IF j <= Len(Output) THEN Output[j] ELSE rest[j - Len(Output)]
  BY <1>6, <1>7, <1>8, OutputIs, ConcatProperties
<1>10. DOMAIN d = 1..Len(d) BY <1>9
<1>11. ASSUME NEW l, SentWhole(l)
       PROVE  \E j \in DOMAIN d : d[j].line = l /\ d[j].k = d[j].size
  <2>1. PICK j \in 1..Len(Output) : Output[j].line = l /\ Output[j].k = Output[j].size BY <1>11 DEF SentWhole
  <2>2. j \in 1..Len(d) /\ j <= Len(Output) BY <1>9
  <2>. QED BY <1>9, <1>10, <2>1, <2>2
<1>12. ASSUME NEW l, Waiting(l)
       PROVE  \E j \in DOMAIN d : d[j].line = l /\ d[j].k = d[j].size
  <2>1. PICK i \in Stages : stages[i].state \in {"pending", "publishing"} /\ stages[i].line = l BY <1>12 DEF Waiting
  <2>2. i \in In("publishing") \cup In("pending") BY <2>1 DEF In
  <2>3. stages[i].size > 0 BY <2>2, WriterConstants DEF LineInv
  <2>4. PICK k \in 1..Len(StageBytes(i)) :
          StageBytes(i)[k].line = stages[i].line /\ StageBytes(i)[k].k = StageBytes(i)[k].size
    BY <2>3, StageBytesAre
  <2>5. PICK n \in 1..Len(o) : o[n] = i BY <1>1, <2>2
  <2>6. parts[n] = StageBytes(i) BY <1>4, <2>5
  <2>7. PICK m \in 1..Len(rest) : rest[m] = StageBytes(i)[k] BY <1>6, <2>6
  <2>8. Len(Output) + m \in 1..Len(d) /\ ~(Len(Output) + m <= Len(Output)) /\ (Len(Output) + m) - Len(Output) = m
    BY <1>9
  <2>9. d[Len(Output) + m] = StageBytes(i)[k] BY <1>9, <2>7, <2>8
  <2>. QED BY <1>10, <2>1, <2>4, <2>8, <2>9
<1>. QED BY <1>8, <1>11, <1>12

\* With the lock free nothing waits, and the marks tell what is counted as told.
LEMMA ToldAtRest ==
  ASSUME LinesInv, ToldInv, ~busy
  PROVE  /\ MapThenSumSet(LAMBDA j : Output[j].owed, MarkPlaces) = marked
         /\ In("pending") \cup In("publishing") = {}
         /\ \A i \in In("open") :
              \/ \E s \in Sources : slot[s] = i
              \/ \E d \in DOMAIN stack : stack[d].pc = "claimed" /\ stack[d].stage = i
<1>. USE DEF LinesInv
<1>1. \A d \in DOMAIN stack : ~Holds(stack[d]) BY DEF LockInv
<1>2. In("pending") \cup In("publishing") = {} BY <1>1 DEF LockInv
<1>3. \A i \in In("open") :
        \/ \E s \in Sources : slot[s] = i
        \/ \E d \in DOMAIN stack : stack[d].pc = "claimed" /\ stack[d].stage = i
  BY DEF ToldInv, OwnedInv, In, Claimed
<1>4. \A d \in DOMAIN stack : ~Marking(stack[d]) BY <1>1 DEF Marking, Underway, Holds, Stops
<1>5. PICK A : Adds(A, Output, MarkPlaces) /\ A[MarkPlaces] = marked
  BY <1>4 DEF ToldInv, MarkInv, MarksTell
<1>6. IsFiniteSet(MarkPlaces)
  <2>1. IsFiniteSet(1..Len(Output)) /\ MarkPlaces \in SUBSET (1..Len(Output)) BY OutputIs, FS_Interval DEF MarkPlaces
  <2>. QED BY <2>1, FS_Subset
<1>7. (CHOOSE it : Iter(Output, MarkPlaces, it))[MarkPlaces] = marked
  <2>1. PICK w : w = Output OBVIOUS
  <2>2. PICK S : S = MarkPlaces OBVIOUS
  <2>3. (CHOOSE it : Iter(w, S, it))[S] = A[S] BY <1>5, <1>6, <2>1, <2>2, SumAdds
  <2>. QED BY <1>5, <2>1, <2>2, <2>3
<1>8. MapThenSumSet(LAMBDA j : Output[j].owed, MarkPlaces) = (CHOOSE it : Iter(Output, MarkPlaces, it))[MarkPlaces]
  BY Zenon DEF MapThenSumSet, MapThenFoldSet, Iter
<1>. QED BY <1>2, <1>3, <1>7, <1>8

\* What the invariants say of the lines lost.
LEMMA AllTold == ASSUME LinesInv, ToldInv PROVE NothingLostUntold
<1>1. {j \in DOMAIN Output : Output[j].line = 0 /\ Output[j].k = 1} = MarkPlaces
  <2>1. DOMAIN Output = 1..Len(Output) BY OutputIs DEF LinesInv
  <2>. QED BY <2>1 DEF MarkPlaces
<1>2. lostLines = Cardinality(refused) BY DEF LinesInv, CountInv
<1>3. ASSUME NEW line \in ToSet(completed) \ refused
      PROVE  \E j \in DOMAIN Drained : Drained[j].line = line /\ Drained[j].k = Drained[j].size
  <2>1. DOMAIN completed = 1..Len(completed) BY DEF LinesInv, WriterType
  <2>2. PICK k \in 1..Len(completed) : completed[k] = line BY <2>1 DEF ToSet
  <2>3. Waiting(line) \/ SentWhole(line) BY <2>2 DEF ToldInv, AccountInv
  <2>. QED BY <2>3, DrainedShows
<1>4. ~busy =>
        /\ MapThenSumSet(LAMBDA j : Output[j].owed, MarkPlaces) = marked
        /\ In("pending") \cup In("publishing") = {}
        /\ \A i \in In("open") :
             \/ \E s \in Sources : slot[s] = i
             \/ \E d \in DOMAIN stack : stack[d].pc = "claimed" /\ stack[d].stage = i
  BY ToldAtRest
<1>. QED BY Zenon, <1>1, <1>2, <1>3, <1>4 DEF NothingLostUntold

\* The account of the lines holds in every behaviour.
THEOREM LinesAccountedFor == Spec => []ToldInv
<1>1. Spec => []LinesInv BY LinesKept, PTL
<1>. QED BY <1>1, InitTold, NextTold, PTL DEF Spec

(* Nothing is lost in silence, for every number of objects and stages, every  *)
(* size of the ring and of its parts and any number of lines: a line          *)
(* completed is out, refused and counted, or held where a panic's drain       *)
(* shows it whole; the marks out tell every loss but those still owed; and a  *)
(* stage not free is a source's, or waits under the lock (take(), publish(),  *)
(* write_mark(), drain_to_port()).                                          *)
THEOREM NothingIsLostUntold == Spec => []NothingLostUntold
<1>1. Spec => []LinesInv BY LinesKept, PTL
<1>. QED BY <1>1, LinesAccountedFor, AllTold, PTL

-----------------------------------------------------------------------------
(* The ends of line.                                                         *)
\* A set of numbers under a bound has a largest one, if it has one.
LEMMA GreatestOf ==
  ASSUME NEW S \in SUBSET Nat, NEW e \in Nat, S # {}, \A q \in S : q <= e
  PROVE  Max(S) \in S /\ \A q \in S : q <= Max(S)
<1>. DEFINE D == {d \in Nat : e - d \in S}
<1>1. PICK s \in S : TRUE OBVIOUS
<1>2. e - s \in D BY <1>1
<1>3. PICK d \in D : \A x \in D : ~(x < d)
  <2>1. PICK d \in D : \A x \in D : <<x, d>> \notin {p \in Nat \X Nat : p[1] < p[2]}
    BY <1>2, Less, WFMin
  <2>. QED BY <2>1
<1>4. \A q \in S : q <= e - d
  <2>. TAKE q \in S
  <2>1. e - q \in D OBVIOUS
  <2>2. ~(e - q < d) BY <1>3, <2>1
  <2>. QED BY <1>3, <2>2
<1>5. e - d \in S BY <1>3
<1>. HIDE DEF D
<1>6. \E x \in S : \A y \in S : x >= y BY <1>3, <1>4, <1>5
<1>7. Max(S) \in S /\ \A y \in S : Max(S) >= y BY <1>6 DEF Max
<1>. QED BY <1>7

\* The end of line before a place.
LEMMA LineBeforeIs ==
  ASSUME script \subseteq Nat \ {0}, NEW e \in Nat
  PROVE  /\ LineBefore(e) \in Nat /\ LineBefore(e) <= e /\ (e > 0 => LineBefore(e) < e)
         /\ LineStart(LineBefore(e))
         /\ \A q \in script : q < e => q <= LineBefore(e)
<1>. DEFINE S == {0} \cup {p \in script : p < e}
<1>1. S \in SUBSET Nat /\ S # {} /\ \A q \in S : q <= e
  <2>1. \A q \in S : q \in Nat /\ q <= e OBVIOUS
  <2>. QED BY <2>1
<1>2. Max(S) \in S /\ \A q \in S : q <= Max(S) BY <1>1, GreatestOf
<1>3. LineBefore(e) = Max(S) BY DEF LineBefore
<1>. QED BY <1>1, <1>2, <1>3 DEF LineStart

\* The beginning of the line a place is in or ends.
LEMMA BeginsIs ==
  ASSUME script \subseteq Nat \ {0}, NEW k \in Nat
  PROVE  /\ Begins(k) \in Nat /\ Begins(k) <= k /\ LineStart(Begins(k))
         /\ \A q \in script : q <= k => q <= Begins(k)
         /\ LineStart(k) => Begins(k) = k
         /\ k + 1 \notin script => Begins(k + 1) = Begins(k)
<1>1. /\ Begins(k) \in Nat /\ Begins(k) <= k /\ LineStart(Begins(k))
      /\ \A q \in script : q <= k => q <= Begins(k)
  BY LineBeforeIs, k + 1 \in Nat DEF Begins
<1>2. LineStart(k) => Begins(k) = k BY <1>1 DEF LineStart
<1>3. ASSUME k + 1 \notin script PROVE Begins(k + 1) = Begins(k)
  <2>1. \A p \in script : p < k + 1 + 1 <=> p < k + 1 BY <1>3
  <2>2. {p \in script : p < k + 1 + 1} = {p \in script : p < k + 1} BY <2>1
  <2>. QED BY <2>2 DEF Begins, LineBefore
<1>. QED BY <1>1, <1>2, <1>3

-----------------------------------------------------------------------------
(* Positions and laps.                                                       *)
\* A position's place in its lap, the laps before it known.
LEMMA InLap ==
  ASSUME NEW n \in Nat \ {0}, NEW q \in Nat, NEW s \in Nat, s = q * n, NEW m \in Nat, s <= m, m < s + n
  PROVE  m % n = m - s
<1>2. PICK r \in Int : r = m - s OBVIOUS
<1>3. r >= 0 /\ r < n /\ m = q * n + r BY <1>2
<1>4. (q * n + r) % n = r BY <1>3, Z3
<1>. QED BY <1>2, <1>3, <1>4

\* Every position is in a lap.
LEMMA LapOf ==
  ASSUME NEW n \in Nat \ {0}, NEW m \in Nat
  PROVE  \E q, s \in Nat : s = q * n /\ s <= m /\ m < s + n /\ m % n = m - s
<1>. DEFINE q == m \div n
<1>1. q \in Int /\ q * n <= m /\ m < q * n + n BY Z3
<1>2. q \in Nat /\ q * n \in Nat BY <1>1
<1>. HIDE DEF q
<1>3. PICK s \in Nat : s = q * n BY <1>2
<1>4. m % n = m - s BY <1>1, <1>2, <1>3, InLap
<1>. QED BY <1>1, <1>2, <1>3, <1>4

\* The laps after one.
LEMMA NextLap ==
  ASSUME NEW n \in Nat \ {0}, NEW q \in Nat
  PROVE  (q + 1) * n = q * n + n /\ (q + 2) * n = q * n + n + n /\ q * n \in Nat
OBVIOUS

\* A position's place is one of the storage's.
LEMMA InPlace ==
  ASSUME NEW n \in Nat \ {0}, NEW m \in Nat
  PROVE  m % n \in 0..n - 1
<1>1. PICK q, s \in Nat : s = q * n /\ s <= m /\ m < s + n /\ m % n = m - s BY LapOf
<1>. QED BY <1>1

\* A step within a lap.
LEMMA LapStep ==
  ASSUME NEW n \in Nat \ {0}, NEW m \in Nat, NEW i \in Nat, (m % n) + i < n
  PROVE (m + i) % n = (m % n) + i /\ m % n \in 0..n - 1
<1>1. PICK q, s \in Nat : s = q * n /\ s <= m /\ m < s + n /\ m % n = m - s BY LapOf
<1>4. m + i \in Nat /\ s <= m + i /\ m + i < s + n BY <1>1
<1>5. (m + i) % n = (m + i) - s BY <1>1, <1>4, InLap
<1>. QED BY <1>1, <1>5

\* The last step of a lap.
LEMMA LapWrap ==
  ASSUME NEW n \in Nat \ {0}, NEW q \in Nat, NEW m \in Nat, q * n <= m, m < q * n + n
  PROVE  (m + 1) % n = 0 <=> m + 1 = (q + 1) * n
<1>1. PICK s, t \in Nat : s = q * n /\ t = (q + 1) * n /\ t = s + n BY NextLap
<1>4. PICK m1 \in Nat : m1 = m + 1 OBVIOUS
<1>5. q + 1 \in Nat OBVIOUS
<1>2. CASE m1 = t
  <2>1. t <= m1 /\ m1 < t + n BY <1>2
  <2>2. m1 % n = m1 - t BY <1>1, <1>5, <2>1, InLap
  <2>. QED BY <1>1, <1>2, <1>4, <2>2
<1>3. CASE m1 # t
  <2>1. s <= m1 /\ m1 < s + n BY <1>1, <1>3, <1>4
  <2>2. m1 % n = m1 - s BY <1>1, <2>1, InLap
  <2>. QED BY <1>1, <1>3, <1>4, <2>2
<1>. QED BY <1>2, <1>3

\* Positions less than a lap apart are in different places.
LEMMA LapApart ==
  ASSUME NEW n \in Nat \ {0}, NEW a \in Nat, NEW b \in Nat, a < b, b - a < n
  PROVE  a % n # b % n
<1>1. PICK q, s \in Nat : s = q * n /\ s <= a /\ a < s + n /\ a % n = a - s BY LapOf
<1>2. PICK t \in Nat : t = (q + 1) * n /\ t = s + n BY <1>1, NextLap
<1>4. CASE b < s + n BY <1>1, <1>4, InLap
<1>5. CASE b >= s + n
  <2>1. t <= b /\ b < t + n /\ q + 1 \in Nat BY <1>1, <1>2, <1>5
  <2>2. b % n = b - t BY <1>2, <2>1, InLap
  <2>. QED BY <1>1, <1>2, <2>2
<1>. QED BY <1>1, <1>4, <1>5
-----------------------------------------------------------------------------
(* The channel's ring.                                                       *)
\* A look at the channel tells its position.
LEMMA HeadIsExact ==
  ASSUME ReaderTypes, ChannelInv, OnHardware
  PROVE  /\ HeadFrom(InUse) = written
         /\ pc \in {"look_count", "gap_verdict", "verdict"} => HeadFrom(read1) = written
<1>1. Lap \in Nat \ {0} /\ written \in Nat /\ headAt \in Nat BY LapAssumption DEF ReaderTypes
<1>2. PICK u \in Nat : u = InUse BY DEF ReaderTypes, InUse
<1>3. PICK s, t \in Nat : s = u * Lap /\ t = (u + 1) * Lap /\ t = s + Lap /\ (u + 2) * Lap = t + Lap
  BY <1>1, NextLap
<1>4. /\ headAt <= written /\ s <= written /\ written < t + Lap
      /\ written >= t => written - headAt < Lap
  BY <1>2, <1>3 DEF ChannelInv
<1>5. HeadFrom(u) = written
  <2>1. CASE written < t
    <3>1. written % Lap = written - s
      <4>1. s <= written /\ written < s + Lap BY <1>3, <1>4, <2>1
      <4>. QED BY <1>1, <1>2, <1>3, <4>1, InLap
    <3>. QED BY <1>1, <1>3, <1>4, <3>1 DEF HeadFrom
  <2>2. CASE t <= written
    <3>1. written % Lap = written - t BY <1>1, <1>3, <1>4, <2>2, u + 1 \in Nat, InLap
    <3>. QED BY <1>1, <1>3, <1>4, <2>2, <3>1 DEF HeadFrom
  <2>. QED BY <1>1, <2>1, <2>2
<1>. QED BY <1>2, <1>5 DEF InUse

\* A step that leaves the channel alone.
LEMMA ChannelKept ==
  ASSUME ReaderTypes, ChannelInv, UNCHANGED <<ring, sent, hardwareVars>>, InUse' = InUse,
         InHand' => InHand /\ run' = run
  PROVE  ChannelInv'
BY DEF ChannelInv, OnHardware, Counted, hardwareVars

\* The channel writes an element.
LEMMA ChannelWrites ==
  ASSUME ReaderTypes, ChannelInv, DmaReceive
  PROVE  ChannelInv'
<1>1. OnHardware /\ ring' = ring /\ UNCHANGED <<laps, tailAt, headAt, skips, pc, run, read1>>
  BY DEF DmaReceive, DmaWrite, drainVars, streamVars
<1>2. /\ written' = written + 1 /\ sent' = sent + 1
      /\ written + 1 < (InUse + 2) * Lap
      /\ written + 1 >= (InUse + 1) * Lap => written + 1 - headAt < Lap
      /\ storage' = [storage EXCEPT ![written % Lap] = sent + 1]
      /\ uncounted' = (uncounted \/ (written + 1) % Lap = 0)
  BY DEF DmaReceive, DmaWrite, InUse
<1>3. Lap \in Nat \ {0} /\ written \in Nat /\ headAt \in Nat /\ tailAt \in Nat /\ laps \in Nat /\ sent \in Nat
  BY LapAssumption DEF ReaderTypes
<1>4. PICK u \in Nat : u = InUse /\ InUse' = u BY <1>1 DEF ReaderTypes, InUse
<1>5. /\ written = sent /\ tailAt <= headAt /\ headAt <= written /\ u <= laps /\ u * Lap <= written
      /\ Counted <= written /\ written < Counted + Lap
      /\ \A p \in 1..written : written - p < Lap => storage[(p - 1) % Lap] = p
      /\ InHand => run.at = tailAt % Lap /\ run.at + run.n <= Lap /\ tailAt + run.n <= headAt
  BY <1>1, <1>4 DEF ChannelInv
<1>6. Counted' <= written' /\ written' < Counted' + Lap
  <2>1. PICK s, t, v \in Nat : /\ s = laps * Lap /\ t = (laps + 1) * Lap /\ t = s + Lap
                             /\ v = (laps + 2) * Lap /\ v = t + Lap
    BY <1>3, NextLap, laps + 2 \in Nat, laps + 1 \in Nat
  <2>2. CASE uncounted
    <3>1. t <= written /\ written < t + Lap BY <1>5, <2>1, <2>2 DEF Counted
    <3>2. written + 1 < t + Lap
      <4>1. (u + 2) * Lap <= v BY <1>3, <1>5, <2>1
      <4>2. (u + 2) * Lap \in Int BY <1>3
      <4>. QED BY <1>2, <1>3, <1>4, <2>1, <4>1, <4>2
    <3>3. uncounted' = TRUE BY <1>2, <2>2
    <3>4. Counted' = t BY <1>1, <2>1, <3>3 DEF Counted
    <3>. QED BY <1>2, <1>3, <2>1, <3>1, <3>2, <3>4
  <2>3. CASE ~uncounted
    <3>1. s <= written /\ written < s + Lap
      <4>1. Counted = s BY <1>3, <2>1, <2>3 DEF Counted
      <4>. QED BY <1>5, <4>1
    <3>2. (written + 1) % Lap = 0 <=> written + 1 = t BY <1>3, <2>1, <3>1, LapWrap
    <3>3. CASE written + 1 = t
      <4>1. Counted' = t BY <1>1, <1>2, <2>1, <3>2, <3>3 DEF Counted
      <4>. QED BY <1>2, <1>3, <2>1, <3>3, <4>1
    <3>4. CASE written + 1 # t
      <4>1. Counted' = s
        <5>1. uncounted' = FALSE BY <1>2, <2>3, <3>2, <3>4
        <5>. QED BY <1>1, <1>3, <2>1, <5>1 DEF Counted
      <4>. QED BY <1>2, <1>3, <2>1, <3>1, <3>4, <4>1
    <3>. QED BY <3>3, <3>4
  <2>. QED BY <2>2, <2>3 DEF ReaderTypes
<1>7. /\ u <= laps /\ u * Lap <= written' /\ written' < (u + 2) * Lap
      /\ written' >= (u + 1) * Lap => written' - headAt < Lap
  <2>1. PICK s, t, v \in Nat : s = u * Lap /\ t = (u + 1) * Lap /\ v = (u + 2) * Lap
    BY <1>3, NextLap
  <2>2. written + 1 < v /\ (written + 1 >= t => written + 1 - headAt < Lap) BY <1>2, <1>4, <2>1
  <2>3. s <= written' /\ written' < v /\ (written' >= t => written' - headAt < Lap)
    BY <1>2, <1>3, <1>5, <2>1, <2>2
  <2>. QED BY <1>5, <2>1, <2>3
<1>8. ASSUME NEW p \in 1..written', written' - p < Lap
      PROVE  storage'[(p - 1) % Lap] = p
  <2>1. written % Lap \in 0..Lap - 1 BY <1>3, LapOf
  <2>2. storage \in [0..Lap - 1 -> Nat] BY DEF ReaderTypes
  <2>3. CASE p = written + 1
    <3>1. p - 1 = written BY <1>3, <2>3
    <3>. QED BY <1>2, <1>5, <2>1, <2>2, <2>3, <3>1
  <2>4. CASE p # written + 1
    <3>1. p \in 1..written /\ written - p < Lap BY <1>2, <1>3, <1>8, <2>4
    <3>2. PICK a \in Nat : a = p - 1 /\ a < written /\ written - a < Lap BY <1>2, <1>3, <1>8, <2>4, <3>1
    <3>3. a % Lap # written % Lap BY <1>3, <3>2, LapApart
    <3>4. storage[a % Lap] = p BY <1>5, <3>1, <3>2
    <3>5. a % Lap \in 0..Lap - 1 BY <1>3, <3>2, LapOf
    <3>. QED BY <1>2, <2>2, <3>2, <3>3, <3>4, <3>5
  <2>. QED BY <2>3, <2>4
<1>9. InHand' => run'.at = tailAt' % Lap /\ run'.at + run'.n <= Lap /\ tailAt' + run'.n <= headAt'
  BY <1>1, <1>5 DEF InHand, InRun
<1>. QED BY <1>1, <1>2, <1>3, <1>4, <1>5, <1>6, <1>7, <1>8, <1>9 DEF ChannelInv

\* The wraps counted, against the position.
LEMMA LapsBound ==
  ASSUME ReaderTypes, ChannelInv, OnHardware
  PROVE  /\ laps * Lap <= written /\ written < (laps + 2) * Lap
         /\ uncounted => (laps + 1) * Lap <= written
<1>1. Lap \in Nat \ {0} /\ written \in Nat /\ laps \in Nat /\ uncounted \in BOOLEAN
  BY LapAssumption DEF ReaderTypes
<1>2. PICK s, t, v \in Nat : /\ s = laps * Lap /\ t = (laps + 1) * Lap /\ t = s + Lap
                           /\ v = (laps + 2) * Lap /\ v = t + Lap
  BY <1>1, NextLap, laps + 2 \in Nat, laps + 1 \in Nat
<1>3. Counted <= written /\ written < Counted + Lap BY DEF ChannelInv
<1>4. CASE uncounted
  <2>1. Counted = t BY <1>1, <1>2, <1>4 DEF Counted
  <2>. QED BY <1>1, <1>2, <1>3, <2>1
<1>5. CASE ~uncounted
  <2>1. Counted = s BY <1>1, <1>2, <1>5 DEF Counted
  <2>. QED BY <1>1, <1>2, <1>3, <1>5, <2>1
<1>. QED BY <1>1, <1>4, <1>5

\* The completion handler counts a wrap.
LEMMA ChannelCounts ==
  ASSUME ReaderTypes, ChannelInv, Completion
  PROVE  ChannelInv'
<1>. SUFFICES ASSUME OnHardware PROVE ChannelInv'
  BY DEF ChannelInv, OnHardware, Completion, streamVars
<1>1. /\ uncounted /\ uncounted' = FALSE /\ laps' = laps + 1
      /\ UNCHANGED <<storage, written, tailAt, headAt, ring, sent, pc, run, read1>>
  BY DEF Completion, CountLap, streamVars, drainVars
<1>2. Lap \in Nat \ {0} /\ written \in Nat /\ headAt \in Nat /\ laps \in Nat
  BY LapAssumption DEF ReaderTypes
<1>3. PICK t, v, w \in Nat : /\ t = (laps + 1) * Lap /\ v = (laps + 2) * Lap /\ v = t + Lap
                           /\ w = (laps + 3) * Lap /\ w = v + Lap
  BY <1>2
<1>4. t <= written /\ written < v BY <1>1, <1>3, LapsBound
<1>5. Counted' = t BY <1>1, <1>2, <1>3 DEF Counted
<1>6. CASE pc \in {"look_count", "gap_verdict", "verdict"}
  <2>1. InUse' = InUse /\ InUse = read1 /\ InUse <= laps BY <1>1, <1>6 DEF InUse, ChannelInv
  <2>2. InUse' <= laps' BY <1>1, <1>2, <2>1 DEF ReaderTypes
  <2>. QED BY <1>1, <1>2, <1>3, <1>4, <1>5, <2>1, <2>2 DEF ChannelInv, InHand, InRun
<1>7. CASE pc \notin {"look_count", "gap_verdict", "verdict"}
  <2>1. InUse' = laps + 1 BY <1>1, <1>7 DEF InUse
  <2>2. InUse' <= laps' /\ InUse' * Lap = t /\ (InUse' + 1) * Lap = v /\ (InUse' + 2) * Lap = w
    BY <1>1, <1>2, <1>3, <2>1
  <2>. QED BY <1>1, <1>2, <1>3, <1>4, <1>5, <2>2 DEF ChannelInv, InHand, InRun
<1>. QED BY <1>6, <1>7

\* A look, whether it begins a run or judges one.
LEMMA ChannelLooked ==
  ASSUME ReaderTypes, ChannelInv, OnHardware, UNCHANGED <<ring, sent, storage, written, laps, uncounted>>,
         headAt' = written, tailAt' \in Nat, tailAt' <= written,
         pc' \notin {"look_count", "gap_verdict", "verdict"},
         InHand' => run'.at = tailAt' % Lap /\ run'.at + run'.n <= Lap /\ tailAt' + run'.n <= written
  PROVE  ChannelInv'
<1>1. Lap \in Nat \ {0} /\ written \in Nat /\ laps \in Nat BY LapAssumption DEF ReaderTypes
<1>2. laps * Lap <= written /\ written < (laps + 2) * Lap BY LapsBound
<1>3. InUse' = laps /\ laps' = laps BY DEF InUse
<1>4. Counted' = Counted BY DEF Counted
<1>5. /\ InUse' <= laps' /\ InUse' * Lap <= written' /\ written' < (InUse' + 2) * Lap
      /\ written' - headAt' < Lap
  BY <1>1, <1>2, <1>3
<1>. QED BY <1>1, <1>4, <1>5 DEF ChannelInv

\* look_unread() over the channel's ring: a lap behind, the tail jumps to the head;
\* otherwise the run is what is unread up to the end of the storage.
LEMMA ChannelLooks ==
  ASSUME ReaderTypes, ChannelInv, DrainInv, LookCount
  PROVE  /\ ChannelInv' /\ tailAt' \in Nat /\ headAt' \in Nat /\ skips' \in Nat /\ run' \in [at : Nat, n : Nat]
         /\ IF written - tailAt >= Lap
            THEN tailAt' = written /\ skips' = skips + 1 /\ run'.n = 0
            ELSE /\ tailAt' = tailAt /\ skips' = skips /\ (run'.n = 0 => written = tailAt)
<1>1. OnHardware /\ pc = "look_count" BY DEF LookCount, DrainInv
<1>2. HeadFrom(read1) = written BY <1>1, HeadIsExact
<1>3. /\ Lap \in Nat \ {0} /\ written \in Nat /\ tailAt \in Nat /\ skips \in Nat /\ tailAt <= written
      /\ tailAt <= headAt /\ headAt <= written /\ headAt \in Nat
  BY <1>1, LapAssumption DEF ReaderTypes, ChannelInv
<1>4. /\ headAt' = written
      /\ IF written - tailAt >= Lap THEN tailAt' = written /\ skips' = skips + 1
                                    ELSE tailAt' = tailAt /\ skips' = skips
      /\ run' = IF tailAt' # tailAt THEN NoRun ELSE HardwareSpan(headAt' - tailAt)
      /\ UNCHANGED <<ring, sent, storage, written, laps, uncounted>> /\ pc' = "looked"
  BY <1>2 DEF LookCount, LookUnread, DrainTo, streamVars
<1>5. tailAt % Lap \in 0..Lap - 1 BY <1>3, LapOf
<1>6. CASE written - tailAt >= Lap BY <1>1, <1>3, <1>4, <1>6, ChannelLooked DEF InHand, NoRun
<1>7. CASE ~(written - tailAt >= Lap)
  <2>1. PICK at \in 0..Lap - 1 : at = tailAt % Lap BY <1>5
  <2>2. run' = [at |-> at, n |-> IF written - tailAt < Lap - at THEN written - tailAt ELSE Lap - at]
    BY <1>3, <1>4, <1>7, <2>1 DEF HardwareSpan
  <2>3. /\ run'.at = at /\ run'.n \in Nat /\ at + run'.n <= Lap /\ tailAt + run'.n <= written
        /\ run' \in [at : Nat, n : Nat] /\ (run'.n = 0 => written = tailAt)
    BY <1>3, <2>1, <2>2
  <2>4. ChannelInv' BY <1>1, <1>3, <1>4, <1>7, <2>1, <2>3, ChannelLooked
  <2>. QED BY <1>3, <1>4, <1>7, <2>3, <2>4
<1>. QED BY <1>6, <1>7

\* The verdict on a run: written over if the channel is more than a lap ahead.
LEMMA ChannelJudges ==
  ASSUME ReaderTypes, ChannelInv, DrainInv, Verdict
  PROVE  /\ ChannelInv' /\ tailAt' \in Nat /\ headAt' \in Nat /\ skips' \in Nat /\ OnHardware
         /\ Torn(read1) <=> written - tailAt > Lap
         /\ IF Torn(read1) THEN tailAt' = written /\ skips' = skips + 1
                           ELSE tailAt' = tailAt + next /\ skips' = skips /\ tailAt + next <= written
<1>1. OnHardware /\ pc \in {"gap_verdict", "verdict"} BY DEF Verdict, DrainInv
<1>2. HeadFrom(read1) = written BY <1>1, HeadIsExact
<1>3. /\ Lap \in Nat \ {0} /\ written \in Nat /\ tailAt \in Nat /\ skips \in Nat /\ tailAt <= written
      /\ tailAt <= headAt /\ headAt <= written /\ headAt \in Nat /\ next \in Nat /\ run.n \in Nat
  BY <1>1, LapAssumption DEF ReaderTypes, ChannelInv
<1>4. Torn(read1) <=> written - tailAt > Lap BY <1>2 DEF Torn
<1>5. /\ headAt' = written
      /\ IF Torn(read1) THEN tailAt' = written /\ skips' = skips + 1
                        ELSE /\ tailAt' = tailAt + (IF next < written - tailAt THEN next ELSE written - tailAt)
                             /\ skips' = skips
      /\ UNCHANGED <<ring, sent, storage, written, laps, uncounted>>
  BY <1>2 DEF Verdict, ReleaseRun, streamVars
<1>6. pc' \in {"read", "look", "end"} /\ (pc' = "read" => run' = NoRun) BY <1>1 DEF Verdict, Deliver
<1>7. ~InHand' BY <1>6 DEF InHand, InRun, NoRun
<1>8. tailAt + next <= written BY <1>1, <1>3 DEF DrainInv, ChannelInv, InHand, InRun
<1>9. IF Torn(read1) THEN tailAt' = written /\ skips' = skips + 1
                     ELSE tailAt' = tailAt + next /\ skips' = skips
  BY <1>3, <1>5, <1>8
<1>10. tailAt' \in Nat /\ tailAt' <= written /\ skips' \in Nat BY <1>3, <1>8, <1>9
<1>11. ChannelInv'
  <2>1. pc' \notin {"look_count", "gap_verdict", "verdict"} BY <1>6
  <2>. QED BY <1>1, <1>5, <1>7, <1>10, <2>1, ChannelLooked
<1>. QED BY <1>1, <1>3, <1>4, <1>5, <1>8, <1>9, <1>10, <1>11

\* Every step keeps the channel's position, its laps and the run in hand.
LEMMA ChannelNext ==
  ASSUME ReaderTypes, DrainInv, ChannelInv, ReaderNext
  PROVE  ChannelInv'
<1>. SUFFICES ASSUME OnHardware PROVE ChannelInv'
  <2>1. ring' = ring
    BY DEF ReaderNext, Drain, Receive, DmaReceive, Completion, EngineEdge, Silence, SinkDispatch, Dispatch,
           Look, LookCount, LookEpoch, SkipHead, SkipTail, FoundEmpty, FoundRun, SkipByte, ReadByte, Release,
           ReleaseLaps, Verdict, EndDrain, streamVars
  <2>. QED BY <2>1 DEF ChannelInv, OnHardware
<1>1. CASE DmaReceive BY <1>1, ChannelWrites
<1>2. CASE Completion BY <1>2, ChannelCounts
<1>3. CASE LookCount BY <1>3, ChannelLooks
<1>4. CASE Verdict BY <1>4, ChannelJudges
<1>5. CASE EngineEdge \/ Silence \/ SinkDispatch
  BY <1>5, ChannelKept DEF EngineEdge, Silence, SinkDispatch, InUse, InHand, InRun, hardwareVars, streamVars, drainVars
<1>6. CASE Dispatch \/ Look \/ FoundEmpty \/ EndDrain
  BY <1>6, ChannelKept
     DEF Dispatch, Look, FoundEmpty, EndDrain, InUse, InHand, InRun, hardwareVars, streamVars, drainVars, DrainTo, InDispatch
<1>7. CASE FoundRun \/ SkipByte \/ ReadByte \/ ReleaseLaps
  BY <1>7, ChannelKept
     DEF FoundRun, SkipByte, ReadByte, ReleaseLaps, GapOver, RunOver, InUse, InHand, InRun, hardwareVars, streamVars, drainVars
<1>. QED BY <1>1, <1>2, <1>3, <1>4, <1>5, <1>6, <1>7
     DEF ReaderNext, Drain, Receive, Release, LookEpoch, SkipHead, SkipTail, DrainInv
-----------------------------------------------------------------------------
(* The frame: what the variables hold, the drain's places, the loans.        *)
LEMMA PostedIs ==
  ASSUME ReaderTypes, NEW more
  PROVE  Posted(more) \in 0..QueueSlots
BY ReaderAssumption DEF Posted, ReaderTypes, InDispatch

\* How many bytes the interrupt's ring holds.
LEMMA QueuedIs ==
  ASSUME ReaderTypes
  PROVE  /\ Size \in Nat \ {0} /\ Size > 1
         /\ Queued = (IF tail <= head THEN head - tail ELSE head - tail + Size) /\ Queued \in 0..Size - 1
<1>1. Size \in Nat \ {0} /\ Size > 1 BY RingAssumption
<1>2. Queued = (IF tail <= head THEN head - tail ELSE head - tail + Size)
  BY <1>1, TurnedBack DEF Queued, ReaderTypes
<1>. QED BY <1>1, <1>2 DEF ReaderTypes

\* A byte read is one of the storage's.
LEMMA ByteAtIs ==
  ASSUME ReaderTypes
  PROVE  ByteAt(run, next) \in Nat
<1>1. Size \in Nat \ {0} /\ Lap \in Nat \ {0} BY RingAssumption, LapAssumption
<1>2. PICK m \in Nat : m = run.at + next BY DEF ReaderTypes
<1>3. m % Size \in 0..Size - 1 /\ m % Lap \in 0..Lap - 1 BY <1>1, InPlace
<1>. QED BY <1>2, <1>3 DEF ByteAt, ReaderTypes

\* The frame at the start.
LEMMA FrameInit ==
  ASSUME ReaderInit
  PROVE  FrameInv
<1>. USE DEF ReaderInit, RingInit, HardwareInit
<1>1. script \subseteq Nat \ {0} BY ReaderAssumption
<1>2. ReaderTypes
  <2>1. Size \in Nat /\ Size > 1 /\ EpochMod \in Nat /\ EpochMod > 1 BY RingAssumption
  <2>2. /\ head \in 0..Size - 1 /\ tail \in 0..Size - 1
        /\ epoch \in 0..EpochMod - 1 /\ seen \in 0..EpochMod - 1
    BY <2>1
  <2>3. slots \in [0..Size - 1 -> Nat] /\ storage \in [0..Lap - 1 -> Nat] OBVIOUS
  <2>4. assembler \in [Buffers -> Assembler]
    <3>1. Empty \in Assembler BY DEF Empty, Assembler
    <3>. QED BY <3>1
  <2>5. run \in [at : Nat, n : Nat] BY DEF NoRun
  <2>6. held \in Seq(Completed) /\ lent \in Seq(Completed) /\ got \in Seq(Nat) OBVIOUS
  <2>7. heard \subseteq 0..sent OBVIOUS
  <2>8. pc \in ReaderPlace BY DEF ReaderPlace
  <2>9. active \in Buffers /\ activeAtRun \in Buffers BY DEF Buffers
  <2>10. queue \in 0..QueueSlots BY ReaderAssumption
  <2>11. /\ written \in Nat /\ laps \in Nat /\ tailAt \in Nat /\ headAt \in Nat /\ skips \in Nat
         /\ sent \in Nat /\ next \in Nat /\ read1 \in Nat /\ inFlight \in 0..2 /\ seenSkips \in Nat
    OBVIOUS
  <2>12. /\ ring \in Rings /\ script \in Scripts
         /\ uncounted \in BOOLEAN /\ resync \in BOOLEAN /\ quiet \in BOOLEAN /\ silent \in BOOLEAN
    OBVIOUS
  <2>. HIDE DEF ReaderInit, RingInit, HardwareInit
  <2>. QED BY <1>1, <2>2, <2>3, <2>4, <2>5, <2>6, <2>7, <2>8, <2>9, <2>10, <2>11, <2>12 DEF ReaderTypes
<1>3. DrainInv /\ LoansInv /\ SilenceInv
  BY DEF DrainInv, LoansInv, SilenceInv, InRun, NoRun, Pending, Skips, InDispatch, Skipping
<1>. QED BY <1>2, <1>3 DEF FrameInv

\* The interrupt's byte, kept or dropped.
LEMMA FrameReceive ==
  ASSUME FrameInv, Receive
  PROVE  FrameInv'
<1>1. /\ ~OnHardware /\ sent' = sent + 1
      /\ UNCHANGED <<tail, seen, hardwareVars, ring, script, drainVars, lineVars, gapVars, inFlight, lent, got>>
  BY DEF Receive
<1>. USE <1>1 DEF FrameInv, hardwareVars, drainVars, lineVars, gapVars
<1>2. ReaderTypes'
  <2>1. slots' \in [0..Size - 1 -> Nat] /\ head' \in 0..Size - 1
    <3>1. CASE PushElement(sent + 1)
      <4>1. (head + 1) % Size \in 0..Size - 1
        <5>1. PICK m \in Nat : m = head + 1 BY RingAssumption DEF ReaderTypes
        <5>2. Size \in Nat \ {0} BY RingAssumption
        <5>. QED BY <5>1, <5>2, InPlace
      <4>. QED BY <3>1, <4>1 DEF PushElement, ReaderTypes
    <3>2. CASE UNCHANGED <<slots, head, queue>> BY <3>2 DEF ReaderTypes
    <3>. QED BY <3>1, <3>2 DEF Receive
  <2>2. epoch' \in 0..EpochMod - 1
    <3>1. (seen + 1) % EpochMod \in 0..EpochMod - 1
      <4>1. PICK m \in Nat : m = seen + 1 BY RingAssumption DEF ReaderTypes
      <4>2. EpochMod \in Nat \ {0} BY RingAssumption
      <4>. QED BY <4>1, <4>2, InPlace
    <3>. QED BY <3>1 DEF Receive, Lost, ReaderTypes
  <2>3. queue' \in 0..QueueSlots BY PostedIs DEF Receive, ReaderTypes
  <2>4. heard' \subseteq 0..sent' BY DEF ReaderTypes
  <2>. QED BY <2>1, <2>2, <2>3, <2>4 DEF ReaderTypes
<1>3. DrainInv' /\ LoansInv'
  BY DEF DrainInv, LoansInv, InRun, Pending, Skips, InDispatch, Skipping, OnHardware
<1>4. SilenceInv' BY DEF SilenceInv, ReaderTypes, InRun
<1>. QED BY <1>2, <1>3, <1>4

\* The channel's byte.
LEMMA FrameDma ==
  ASSUME FrameInv, DmaReceive
  PROVE  FrameInv'
<1>1. /\ sent' = sent + 1 /\ written' = written + 1 /\ uncounted' \in BOOLEAN
      /\ storage' = [storage EXCEPT ![written % Lap] = sent + 1]
      /\ UNCHANGED <<laps, tailAt, headAt, skips, ringVars, ring, script, drainVars, lineVars, gapVars, loanVars>>
  BY DEF DmaReceive, DmaWrite, FrameInv, ReaderTypes
<1>. USE <1>1 DEF FrameInv, ringVars, drainVars, lineVars, gapVars, loanVars
<1>2. ReaderTypes'
  <2>1. storage' \in [0..Lap - 1 -> Nat]
    <3>1. written % Lap \in 0..Lap - 1
      <4>1. Lap \in Nat \ {0} /\ written \in Nat BY LapAssumption DEF ReaderTypes
      <4>. QED BY <4>1, InPlace
    <3>. QED BY <3>1 DEF ReaderTypes
  <2>2. heard' \subseteq 0..sent' BY DEF ReaderTypes
  <2>. QED BY <2>1, <2>2 DEF ReaderTypes
<1>3. DrainInv' /\ LoansInv'
  BY DEF DrainInv, LoansInv, InRun, Pending, Skips, InDispatch, Skipping, OnHardware
<1>4. SilenceInv' BY DEF SilenceInv, ReaderTypes, InRun
<1>. QED BY <1>2, <1>3, <1>4

\* A lap counted, and the engine's edge.
LEMMA FrameBelow ==
  ASSUME FrameInv, Completion \/ EngineEdge
  PROVE  FrameInv'
<1>1. UNCHANGED <<ringVars, storage, written, tailAt, headAt, skips, streamVars, drainVars, lineVars, gapVars,
                  inFlight, lent, got>>
  BY DEF Completion, EngineEdge, CountLap, hardwareVars, loanVars
<1>2. laps' \in Nat /\ uncounted' \in BOOLEAN
  <2>1. laps \in Nat /\ uncounted \in BOOLEAN BY DEF FrameInv, ReaderTypes
  <2>2. \/ UNCHANGED <<laps, uncounted>>
        \/ laps' = laps + 1 /\ uncounted' = FALSE
    BY DEF Completion, EngineEdge, CountLap, hardwareVars
  <2>3. laps' = laps \/ laps' = laps + 1 BY <2>2
  <2>4. uncounted' = uncounted \/ uncounted' = FALSE BY <2>2
  <2>5. laps' \in Nat BY <2>1, <2>3
  <2>6. uncounted' \in BOOLEAN BY <2>1, <2>4
  <2>. QED BY <2>5, <2>6
<1>3. queue' = queue \/ (OnHardware /\ Unread > 0) BY DEF Completion, EngineEdge, loanVars
<1>4. queue' \in 0..QueueSlots
  <2>1. queue \in 0..QueueSlots BY DEF FrameInv, ReaderTypes
  <2>2. CASE Completion
    <3>1. queue' = queue BY <2>2 DEF Completion, loanVars
    <3>. QED BY <2>1, <3>1
  <2>3. CASE EngineEdge BY <2>1, <2>3, ReaderAssumption DEF EngineEdge, Posted, InDispatch
  <2>. QED BY <2>2, <2>3
<1>. USE <1>1, <1>2, <1>3 DEF FrameInv, ringVars, streamVars, drainVars, lineVars, gapVars
<1>7. ReaderTypes' BY <1>4 DEF ReaderTypes
<1>5. DrainInv' /\ LoansInv'
  BY DEF DrainInv, LoansInv, InRun, Pending, Skips, InDispatch, Skipping, OnHardware
<1>6. SilenceInv' BY DEF SilenceInv, InRun, InDispatch, OnHardware, Unread
<1>. QED BY <1>5, <1>6, <1>7

\* A silence marked: there is nothing left to read and no drain to come.
LEMMA FrameSilence ==
  ASSUME FrameInv, Silence
  PROVE  FrameInv'
<1>1. /\ silent' = TRUE /\ heard' = heard \cup {sent} /\ quiet /\ ~InDispatch /\ Unread = 0 /\ queue = 0
      /\ sent = 0 \/ sent \in script
      /\ UNCHANGED <<ringVars, hardwareVars, streamVars, drainVars, lineVars, loanVars,
                     resync, torn, seenSkips, quiet>>
  BY DEF Silence, EndOfLine
<1>. USE <1>1 DEF FrameInv, ringVars, hardwareVars, streamVars, drainVars, lineVars, loanVars
<1>4. ReaderTypes' BY DEF ReaderTypes
<1>5. DrainInv' /\ LoansInv'
  BY DEF DrainInv, LoansInv, InRun, Pending, Skips, InDispatch, Skipping, OnHardware
<1>6. SilenceInv' BY DEF SilenceInv, InRun, InDispatch, OnHardware, Unread
<1>. QED BY <1>4, <1>5, <1>6

\* A dispatch of the sink gives a buffer back, one of the reader takes both.
LEMMA FrameKernel ==
  ASSUME FrameInv, SinkDispatch \/ Dispatch
  PROVE  FrameInv'
<1>1. UNCHANGED <<ringVars, hardwareVars, streamVars, lineVars, gapVars, got, run, next, read1, held>>
  BY DEF SinkDispatch, Dispatch, drainVars
<1>. USE DEF FrameInv, ringVars, hardwareVars, streamVars, lineVars, gapVars
<1>2. lent' \in Seq(Completed) /\ Len(lent') <= Len(lent)
  <2>1. lent \in Seq(Completed) BY DEF ReaderTypes
  <2>2. lent' = lent \/ (lent # <<>> /\ lent' = Tail(lent)) BY DEF SinkDispatch, Dispatch
  <2>. QED BY <2>1, <2>2
<1>3. CASE SinkDispatch
  <2>1. UNCHANGED <<pc, inFlight, queue>> BY <1>3 DEF SinkDispatch, drainVars
  <2>2. ReaderTypes' BY <1>1, <1>2, <2>1 DEF ReaderTypes
  <2>3. DrainInv' BY <1>1, <2>1 DEF DrainInv, InRun, Pending, Skips, Skipping, OnHardware
  <2>4. LoansInv' BY <1>1, <1>2, <1>3, <2>1 DEF LoansInv, InDispatch, SinkDispatch, ReaderTypes
  <2>5. SilenceInv' BY <1>1, <2>1 DEF SilenceInv, InRun, InDispatch, OnHardware, Unread
  <2>. QED BY <2>2, <2>3, <2>4, <2>5
<1>4. CASE Dispatch
  <2>1. /\ pc = "idle" /\ pc' = "look" /\ queue' = queue - 1 /\ queue > 0 /\ inFlight' = 0 /\ lent = <<>>
        /\ lent' = <<>>
    BY <1>4 DEF Dispatch, InDispatch
  <2>2. ReaderTypes' BY <1>1, <1>2, <2>1, ReaderAssumption DEF ReaderTypes, ReaderPlace
  <2>3. DrainInv' BY <1>1, <2>1 DEF DrainInv, InRun, Pending, Skips, Skipping, OnHardware
  <2>4. LoansInv'
    <3>1. held = <<>> BY <2>1 DEF DrainInv, InRun
    <3>. QED BY <1>1, <2>1, <3>1 DEF LoansInv, InDispatch
  <2>5. SilenceInv' BY <1>1, <2>1 DEF SilenceInv, InRun, InDispatch, OnHardware, Unread
  <2>. QED BY <2>2, <2>3, <2>4, <2>5
<1>. QED BY <1>3, <1>4

\* A step of the drain up to the run found.
LEMMA FrameLook ==
  ASSUME FrameInv, Look
  PROVE  FrameInv'
<1>1. /\ pc = "look"
      /\ IF OnHardware THEN read1' = laps /\ pc' = "look_count" /\ run' = run
                       ELSE run' = Span /\ pc' = "look_epoch" /\ read1' = read1
      /\ UNCHANGED <<ringVars, hardwareVars, streamVars, lineVars, gapVars, loanVars, next, held>>
  BY DEF Look, DrainTo
<1>. USE DEF FrameInv, ringVars, hardwareVars, streamVars, lineVars, gapVars, loanVars
<1>2. Span \in [at : Nat, n : Nat] BY RingAssumption DEF Span, ReaderTypes
<1>3. ReaderTypes' BY <1>1, <1>2 DEF ReaderTypes, ReaderPlace
<1>4. run' \in [at : Nat, n : Nat] BY <1>3 DEF ReaderTypes
<1>5. DrainInv' BY <1>1, <1>4 DEF DrainInv, InRun, Pending, Skips, Skipping, OnHardware
<1>6. LoansInv' BY <1>1 DEF LoansInv, InDispatch
<1>7. SilenceInv' BY <1>1 DEF SilenceInv, InRun, InDispatch, OnHardware, Unread
<1>. QED BY <1>3, <1>5, <1>6, <1>7

\* The look at the channel's count.
LEMMA FrameLookCount ==
  ASSUME FrameInv, ChannelInv, LookCount
  PROVE  FrameInv'
<1>. USE DEF FrameInv
<1>1. /\ pc = "look_count" /\ pc' = "looked" /\ UNCHANGED <<storage, written, laps, uncounted>>
      /\ UNCHANGED <<ringVars, streamVars, lineVars, gapVars, loanVars, read1, next, held>>
  BY DEF LookCount, LookUnread, DrainTo
<1>2. /\ tailAt' \in Nat /\ headAt' \in Nat /\ skips' \in Nat /\ run' \in [at : Nat, n : Nat]
      /\ skips' = skips \/ (skips' = skips + 1 /\ run'.n = 0)
  BY ChannelLooks
<1>. USE <1>1, <1>2 DEF ringVars, streamVars, lineVars, gapVars, loanVars
<1>3. ReaderTypes' BY DEF ReaderTypes, ReaderPlace
<1>4. OnHardware /\ OnHardware' BY DEF DrainInv, OnHardware
<1>8. seenSkips' <= skips' BY <1>4 DEF DrainInv, ReaderTypes
<1>5. DrainInv' BY <1>4, <1>8 DEF DrainInv, InRun, Pending, Skips, Skipping
<1>6. LoansInv' BY DEF LoansInv, InDispatch
<1>7. SilenceInv' BY DEF SilenceInv, InRun, InDispatch
<1>. QED BY <1>3, <1>5, <1>6, <1>7

\* The look at the epoch: a drop is a gap from here on.
LEMMA FrameLookEpoch ==
  ASSUME FrameInv, LookEpoch
  PROVE  FrameInv'
<1>. USE DEF FrameInv
<1>1. /\ pc = "look_epoch"
      /\ IF Dropped THEN seen' = epoch /\ run' = NoRun /\ pc' = "skip"
                    ELSE seen' = seen /\ run' = run /\ pc' = "looked"
      /\ UNCHANGED <<slots, head, tail, epoch, hardwareVars, streamVars, lineVars, gapVars, loanVars, read1, next, held>>
  BY DEF LookEpoch, DrainTo
<1>. USE DEF hardwareVars, streamVars, lineVars, gapVars, loanVars
<1>2. run' \in [at : Nat, n : Nat] BY <1>1 DEF NoRun, ReaderTypes
<1>3. ReaderTypes' BY <1>1, <1>2 DEF ReaderTypes, ReaderPlace
<1>4. ~OnHardware /\ OnHardware' = OnHardware BY <1>1 DEF DrainInv, OnHardware
<1>5. DrainInv'
  <2>1. CASE Dropped
    <3>2. Pending' BY <1>1, <1>4, <2>1 DEF DrainInv, Pending, Skips, Dropped
    <3>. QED BY <1>1, <1>4, <2>1, <3>2 DEF DrainInv, InRun, Skipping, NoRun, OnHardware
  <2>2. CASE ~Dropped
    <3>. QED BY <1>1, <1>2, <1>4, <2>2 DEF DrainInv, InRun, Pending, Skips, Skipping
  <2>. QED BY <2>1, <2>2
<1>6. LoansInv' BY <1>1 DEF LoansInv, InDispatch
<1>7. SilenceInv' BY <1>1, <1>4 DEF SilenceInv, InRun, InDispatch
<1>. QED BY <1>3, <1>5, <1>6, <1>7

\* The two steps of the skip.
LEMMA FrameSkip ==
  ASSUME FrameInv, SkipHead \/ SkipTail
  PROVE  FrameInv'
<1>. USE DEF FrameInv
<1>1. /\ pc \in {"skip", "jump"} /\ pc' \in {"jump", "looked"} /\ (pc' = "jump" => ring = "skip")
      /\ UNCHANGED <<slots, head, epoch, seen, hardwareVars, streamVars, lineVars, gapVars, loanVars, run, next, held>>
  BY DEF SkipHead, SkipTail, DrainTo, ringVars
<1>. USE <1>1 DEF hardwareVars, streamVars, lineVars, gapVars, loanVars
<1>2. tail' \in 0..Size - 1 /\ read1' \in Nat
  <2>1. Size \in Nat \ {0} /\ Size > 1 /\ Queued \in 0..Size - 1 BY QueuedIs
  <2>2. CASE SkipHead BY <2>1, <2>2 DEF SkipHead, ReaderTypes, ringVars
  <2>3. CASE SkipTail
    <3>1. PICK q \in Nat : q = (IF ring = "skip" THEN read1 ELSE Queued) BY <2>1 DEF ReaderTypes
    <3>2. PICK m \in Nat : m = tail + (IF Size - 1 < q THEN Size - 1 ELSE q) BY <2>1 DEF ReaderTypes
    <3>3. m % Size \in 0..Size - 1 BY <2>1, InPlace
    <3>. QED BY <2>3, <3>1, <3>2, <3>3 DEF SkipTail, Consume, ReaderTypes
  <2>. QED BY <2>2, <2>3
<1>3. ReaderTypes' BY <1>2 DEF ReaderTypes, ReaderPlace
<1>4. ~OnHardware /\ OnHardware' = OnHardware BY DEF DrainInv, OnHardware
<1>5. DrainInv' BY <1>4 DEF DrainInv, InRun, Skipping, Pending, Skips
<1>6. LoansInv' BY DEF LoansInv, InDispatch
<1>7. SilenceInv' BY <1>4 DEF SilenceInv, InRun, InDispatch
<1>. QED BY <1>3, <1>5, <1>6, <1>7
-----------------------------------------------------------------------------
\* A byte pushed to an assembler.
LEMMA PushedIs ==
  ASSUME NEW a \in Assembler, NEW b \in Nat, NEW eol \in BOOLEAN, a.dropping => a.done
  PROVE  LET p == Pushed(a, b, eol)
             text == IF a.done THEN <<>> ELSE a.text
         IN /\ p \in Assembler /\ (p.dropping => p.done)
            /\ eol => Rests(p) /\ (~a.dropping => p.text = text)
            /\ a.dropping => p.done /\ (p.dropping <=> ~eol)
            /\ ~a.dropping /\ ~eol =>
                 IF Len(text) = MaxChars THEN p.done /\ p.dropping
                 ELSE ~p.done /\ ~p.dropping /\ p.text = Append(text, b)
            /\ a.done /\ eol /\ a.dropping => p.text = a.text
<1>. DEFINE text == IF a.done THEN <<>> ELSE a.text
            p == Pushed(a, b, eol)
<1>1. text \in Seq(Nat) /\ a.text \in Seq(Nat) /\ a.done \in BOOLEAN /\ a.dropping \in BOOLEAN BY DEF Assembler
<1>2. CASE a.dropping BY <1>2 DEF Pushed, Assembler, Rests
<1>3. CASE ~a.dropping /\ eol BY <1>1, <1>3 DEF Pushed, Assembler, Rests
<1>4. CASE ~a.dropping /\ ~eol /\ Len(text) = MaxChars BY <1>1, <1>4 DEF Pushed, Assembler
<1>5. CASE ~a.dropping /\ ~eol /\ Len(text) # MaxChars
  <2>1. p = [a EXCEPT !.text = Append(text, b), !.done = FALSE] BY <1>5 DEF Pushed
  <2>6. PICK t0 \in Seq(Nat) : t0 = text BY <1>1
  <2>7. Append(t0, b) \in Seq(Nat) OBVIOUS
  <2>2. PICK t \in Seq(Nat) : t = Append(text, b) BY <2>6, <2>7
  <2>3. p = [text |-> t, done |-> FALSE, dropping |-> a.dropping] BY <2>1, <2>2 DEF Assembler
  <2>4. p \in Assembler BY <1>1, <2>2, <2>3 DEF Assembler
  <2>5. p.text = Append(text, b) /\ ~p.done /\ ~p.dropping BY <1>5, <2>2, <2>3
  <2>. QED BY <1>5, <2>4, <2>5
<1>. QED BY <1>2, <1>3, <1>4, <1>5

\* Lines ended where they are.
LEMMA EndedIs ==
  ASSUME ReaderTypes, AssemblersInv, NEW bs \in SUBSET Buffers
  PROVE  /\ Ended(bs) \in [Buffers -> Assembler]
         /\ \A b \in bs : Rests(Ended(bs)[b])
         /\ \A b \in Buffers : Rests(assembler[b]) => Rests(Ended(bs)[b])
         /\ \A b \in Buffers : b \notin bs => Ended(bs)[b] = assembler[b]
         /\ \A b \in Buffers : Ended(bs)[b].dropping => Ended(bs)[b].done
<1>1. \A b \in Buffers : assembler[b] \in Assembler /\ (assembler[b].dropping => assembler[b].done)
  BY DEF ReaderTypes, AssemblersInv
<1>2. \A b \in Buffers : LET p == Pushed(assembler[b], 0, TRUE) IN p \in Assembler /\ Rests(p)
  BY <1>1, PushedIs
<1>3. \A b \in Buffers : Ended(bs)[b] = IF b \in bs THEN Pushed(assembler[b], 0, TRUE) ELSE assembler[b]
  BY DEF Ended
<1>4. Ended(bs) \in [Buffers -> Assembler] BY <1>1, <1>2, <1>3 DEF Ended
<1>. QED BY <1>1, <1>2, <1>3, <1>4 DEF Rests

\* A gap seen or not, what a look at the ring leaves.
LEMMA GapIs ==
  ASSUME ReaderTypes, AssemblersInv, SeeGap \/ UNCHANGED <<seenSkips, assembler>>
  PROVE  seenSkips' \in Nat /\ assembler' \in [Buffers -> Assembler]
<1>1. {active} \in SUBSET Buffers BY DEF ReaderTypes
<1>2. Ended({active}) \in [Buffers -> Assembler] BY <1>1, EndedIs
<1>3. Skips \in Nat BY RingAssumption DEF Skips, ReaderTypes
<1>4. seenSkips' = seenSkips \/ seenSkips' = Skips BY DEF SeeGap
<1>5. assembler' = assembler \/ assembler' = Ended({active}) BY DEF SeeGap
<1>. QED BY <1>2, <1>3, <1>4, <1>5 DEF ReaderTypes

\* The ring found empty.
LEMMA FrameFoundEmpty ==
  ASSUME FrameInv, AssemblersInv, FoundEmpty
  PROVE  FrameInv'
<1>. USE DEF FrameInv
<1>1. /\ pc = "looked" /\ run.n = 0 /\ pc' = "end" /\ UNCHANGED <<next, held>>
      /\ UNCHANGED <<ringVars, hardwareVars, streamVars, loanVars, active, activeAtRun, heard, run, read1>>
  BY DEF FoundEmpty, DrainTo
<1>2. IF Pending THEN SeeGap ELSE UNCHANGED <<seenSkips, torn, assembler, resync>>
  BY DEF FoundEmpty, GapSeen, Pending
<1>3. /\ quiet' = IF resync \/ Pending THEN TRUE ELSE quiet
      /\ silent' = IF resync \/ Pending THEN FALSE ELSE silent
  BY DEF FoundEmpty, GapSeen, Pending
<1>. USE DEF ringVars, hardwareVars, streamVars, loanVars
<1>4. seenSkips' \in Nat /\ assembler' \in [Buffers -> Assembler] BY <1>2, GapIs
<1>5. resync' = (resync \/ Pending) /\ resync' \in BOOLEAN BY <1>2 DEF SeeGap, ReaderTypes
<1>6. quiet' \in BOOLEAN /\ silent' \in BOOLEAN /\ (quiet' => resync')
  BY <1>3, <1>5 DEF ReaderTypes, SilenceInv
<1>7. ~Pending' BY <1>1, <1>2 DEF Pending, Skips, SeeGap, OnHardware
<1>8. ReaderTypes' BY <1>1, <1>4, <1>5, <1>6 DEF ReaderTypes, ReaderPlace
<1>12. OnHardware => seenSkips' <= skips BY <1>2 DEF SeeGap, Skips, DrainInv, ReaderTypes
<1>9. DrainInv' BY <1>1, <1>7, <1>12 DEF DrainInv, InRun, Skipping, OnHardware
<1>10. LoansInv' BY <1>1 DEF LoansInv, InDispatch
<1>11. SilenceInv' BY <1>1, <1>6 DEF SilenceInv, InRun, InDispatch, OnHardware, Unread
<1>. QED BY <1>8, <1>9, <1>10, <1>11

\* A run found is read, unless a gap is before it.
LEMMA FrameFoundRun ==
  ASSUME FrameInv, AssemblersInv, FoundRun
  PROVE  FrameInv' /\ ~Pending' /\ quiet' = FALSE /\ (pc' = "read" <=> ~resync')
<1>. USE DEF FrameInv
<1>1. /\ pc = "looked" /\ run.n > 0 /\ next' = 0 /\ held' = <<>> /\ activeAtRun' = active
      /\ UNCHANGED <<ringVars, hardwareVars, streamVars, loanVars, active, silent, heard, run, read1>>
  BY DEF FoundRun
<1>2. IF Pending THEN SeeGap
      ELSE resync' = (resync /\ ~(quiet /\ silent)) /\ UNCHANGED <<seenSkips, torn, assembler>>
  BY DEF FoundRun, GapSeen, Pending, ReaderTypes
<1>3. quiet' = (quiet /\ ~Pending /\ ~resync) BY DEF FoundRun, GapSeen, Pending
<1>. USE DEF ringVars, hardwareVars, streamVars, loanVars
<1>4. seenSkips' \in Nat /\ assembler' \in [Buffers -> Assembler] BY <1>2, GapIs
<1>5. resync' \in BOOLEAN /\ resync' = (Pending \/ (resync /\ ~(quiet /\ silent)))
  BY <1>2 DEF SeeGap, ReaderTypes
<1>6. quiet' = FALSE BY <1>3 DEF SilenceInv, ReaderTypes
<1>7. ~Pending' BY <1>1, <1>2 DEF Pending, Skips, SeeGap, OnHardware
<1>12. pc' = IF resync' THEN "gap" ELSE "read" BY <1>5 DEF FoundRun, GapSeen, Pending
<1>13. pc' \in ReaderPlace /\ silent' \in BOOLEAN BY <1>1, <1>12 DEF ReaderTypes, ReaderPlace
<1>14. next' \in Nat /\ held' \in Seq(Completed) BY <1>1
<1>15. quiet' \in BOOLEAN BY <1>6
<1>8. ReaderTypes' BY <1>1, <1>4, <1>5, <1>13, <1>14, <1>15 DEF ReaderTypes
<1>16. OnHardware => seenSkips' <= skips BY <1>2 DEF SeeGap, Skips, DrainInv, ReaderTypes
<1>9. DrainInv' BY <1>1, <1>7, <1>12, <1>16 DEF DrainInv, InRun, Skipping, OnHardware
<1>10. LoansInv' BY <1>1, <1>12 DEF LoansInv, InDispatch
<1>11. SilenceInv' BY <1>1, <1>6, <1>12 DEF SilenceInv, InRun, InDispatch, OnHardware, Unread
<1>. QED BY <1>6, <1>7, <1>8, <1>9, <1>10, <1>11, <1>12

\* A byte skipped.
LEMMA FrameSkipByte ==
  ASSUME FrameInv, SkipByte
  PROVE  FrameInv'
<1>. USE DEF FrameInv
<1>1. /\ pc = "gap" /\ next # run.n /\ next' = next + 1 /\ resync
      /\ UNCHANGED <<ringVars, hardwareVars, streamVars, lineVars, loanVars, seenSkips, quiet, silent, heard,
                     pc, run, held, read1>>
  BY DEF SkipByte, GapOver
<1>2. resync' \in BOOLEAN BY DEF SkipByte
<1>. USE DEF ringVars, hardwareVars, streamVars, lineVars, loanVars
<1>3. next \in Nat /\ run.n \in Nat /\ next + 1 <= run.n BY <1>1 DEF ReaderTypes, DrainInv
<1>4. ReaderTypes' BY <1>1, <1>2, <1>3 DEF ReaderTypes
<1>5. DrainInv' BY <1>1, <1>3 DEF DrainInv, InRun, Skipping, Pending, Skips, OnHardware
<1>6. LoansInv' BY <1>1 DEF LoansInv, InDispatch
<1>7. SilenceInv' BY <1>1 DEF SilenceInv, InRun, InDispatch, OnHardware, Unread
<1>. QED BY <1>4, <1>5, <1>6, <1>7

\* A byte is an end of line or it is not.
LEMMA PushedAs ==
  ASSUME NEW a, NEW b
  PROVE  Pushed(a, b, b \in script) = IF b \in script THEN Pushed(a, b, TRUE) ELSE Pushed(a, b, FALSE)
<1>1. CASE b \in script
  <2>1. (b \in script) = TRUE BY <1>1
  <2>. QED BY <1>1, <2>1
<1>2. CASE b \notin script
  <2>1. (b \in script) = FALSE BY <1>2
  <2>. QED BY <1>2, <2>1
<1>. QED BY <1>1, <1>2

\* A byte read: at most two lines are lent and held.
LEMMA FrameReadByte ==
  ASSUME FrameInv, AssemblersInv, ReadByte
  PROVE  FrameInv'
<1>. USE DEF FrameInv
<1>1. /\ pc = "read" /\ next # run.n /\ ~(inFlight + Len(held) >= 2) /\ next' = next + 1
      /\ UNCHANGED <<ringVars, hardwareVars, streamVars, loanVars, gapVars, activeAtRun, pc, run, read1>>
  BY DEF ReadByte, RunOver
<1>2. PICK b \in Nat : b = ByteAt(run, next) BY ByteAtIs
<1>3. /\ assembler' = [assembler EXCEPT ![active] = Pushed(@, b, b \in script)]
      /\ held' = held \/ (b \in script /\ held' = Append(held, [buffer |-> active, eol |-> b]))
      /\ active' = active \/ active' = 1 - active
  BY <1>2 DEF ReadByte, EndOfLine
<1>. USE DEF ringVars, hardwareVars, streamVars, loanVars, gapVars
<1>4. assembler' \in [Buffers -> Assembler]
  <2>1. PICK a \in Assembler : a = assembler[active] /\ (a.dropping => a.done)
    BY DEF ReaderTypes, AssemblersInv
  <2>2. Pushed(a, b, b \in script) \in Assembler
    <3>1. Pushed(a, b, TRUE) \in Assembler /\ Pushed(a, b, FALSE) \in Assembler BY <2>1, PushedIs
    <3>. QED BY <3>1, PushedAs
  <2>3. assembler' = [assembler EXCEPT ![active] = Pushed(a, b, b \in script)] BY <1>3, <2>1
  <2>. QED BY <2>2, <2>3 DEF ReaderTypes
<1>5. active' \in Buffers BY <1>3 DEF Buffers, ReaderTypes
<1>6. held' \in Seq(Completed) /\ Len(held') <= Len(held) + 1
  <2>1. held \in Seq(Completed) /\ [buffer |-> active, eol |-> b] \in Completed
    BY DEF ReaderTypes, Completed
  <2>. QED BY <1>3, <2>1
<1>7. next \in Nat /\ run.n \in Nat /\ next + 1 <= run.n BY <1>1 DEF ReaderTypes, DrainInv
<1>8. ReaderTypes' BY <1>1, <1>4, <1>5, <1>6, <1>7 DEF ReaderTypes
<1>9. DrainInv' BY <1>1, <1>7 DEF DrainInv, InRun, Skipping, Pending, Skips, OnHardware
<1>10. LoansInv' BY <1>1, <1>6 DEF LoansInv, InDispatch, ReaderTypes
<1>11. SilenceInv' BY <1>1 DEF SilenceInv, InRun, InDispatch, OnHardware, Unread
<1>. QED BY <1>8, <1>9, <1>10, <1>11

\* What the sink is lent.
LEMMA DeliverIs ==
  ASSUME ReaderTypes, NEW lines \in Seq(Completed), Deliver(lines), Len(lent) = inFlight, Len(lines) + inFlight <= 2
  PROVE  /\ lent' \in Seq(Completed) /\ got' \in Seq(Nat) /\ inFlight' \in 0..2 /\ queue' = queue
         /\ inFlight' = inFlight + Len(lines) /\ Len(lent') = inFlight'
         /\ Len(lent') = Len(lent) + Len(lines)
         /\ \A i \in 1..Len(lent') : lent'[i] = IF i <= Len(lent) THEN lent[i] ELSE lines[i - Len(lent)]
         /\ Len(got') = Len(got) + Len(lines)
         /\ \A i \in 1..Len(got') : got'[i] = IF i <= Len(got) THEN got[i] ELSE lines[i - Len(got)].eol
         /\ pc' = IF inFlight' < 2 THEN "look" ELSE "end"
<1>1. lent \in Seq(Completed) /\ got \in Seq(Nat) /\ inFlight \in 0..2 /\ Len(lines) \in Nat BY DEF ReaderTypes
<1>2. PICK eols \in Seq(Nat) : /\ eols = [i \in 1..Len(lines) |-> lines[i].eol] /\ Len(eols) = Len(lines)
                               /\ \A i \in 1..Len(lines) : eols[i] = lines[i].eol
  <2>1. \A i \in 1..Len(lines) : lines[i] \in Completed OBVIOUS
  <2>2. \A i \in 1..Len(lines) : lines[i].eol \in Nat BY <2>1 DEF Completed
  <2>3. PICK eols : eols = [i \in 1..Len(lines) |-> lines[i].eol] OBVIOUS
  <2>4. eols \in Seq(Nat) /\ Len(eols) = Len(lines) BY <1>1, <2>2, <2>3
  <2>5. \A i \in 1..Len(lines) : eols[i] = lines[i].eol BY <2>3
  <2>. QED BY <2>3, <2>4, <2>5
<1>3. lent' = lent \o lines /\ got' = got \o eols BY <1>2 DEF Deliver
<1>4. inFlight' = inFlight + Len(lines) /\ queue' = queue /\ pc' = IF inFlight' < 2 THEN "look" ELSE "end"
  BY DEF Deliver
<1>5. /\ lent' \in Seq(Completed) /\ Len(lent') = Len(lent) + Len(lines)
      /\ \A i \in 1..Len(lent') : lent'[i] = IF i <= Len(lent) THEN lent[i] ELSE lines[i - Len(lent)]
  BY <1>1, <1>3
<1>6. /\ got' \in Seq(Nat) /\ Len(got') = Len(got) + Len(lines)
      /\ \A i \in 1..Len(got') : got'[i] = IF i <= Len(got) THEN got[i] ELSE eols[i - Len(got)]
  BY <1>1, <1>2, <1>3
<1>7. ASSUME NEW i \in 1..Len(got')
      PROVE  got'[i] = IF i <= Len(got) THEN got[i] ELSE lines[i - Len(got)].eol
  <2>1. CASE i <= Len(got) BY <1>6, <2>1
  <2>2. CASE ~(i <= Len(got))
    <3>1. Len(got) \in Nat /\ Len(got') = Len(got) + Len(lines) BY <1>1, <1>6
    <3>2. PICK n, m \in Nat : n = Len(got) /\ m = Len(lines) /\ i \in 1..n + m /\ ~(i <= n) BY <1>1, <2>2, <3>1
    <3>3. i - n \in 1..m BY <3>2
    <3>4. got'[i] = eols[i - n] BY <1>6, <2>2, <3>2
    <3>5. eols[i - n] = lines[i - n].eol BY <1>2, <3>2, <3>3
    <3>. QED BY <2>2, <3>2, <3>4, <3>5
  <2>. QED BY <2>1, <2>2
<1>8. inFlight' \in 0..2 /\ Len(lent') = inFlight' BY <1>1, <1>4, <1>5
<1>9. \A i \in 1..Len(got') : got'[i] = IF i <= Len(got) THEN got[i] ELSE lines[i - Len(got)].eol BY <1>7
<1>. QED BY <1>4, <1>5, <1>6, <1>8, <1>9, Zenon

\* A run of the interrupt's ring released, and its lines delivered.
LEMMA FrameRelease ==
  ASSUME FrameInv, Release
  PROVE  FrameInv'
<1>. USE DEF FrameInv
<1>1. /\ ~OnHardware /\ pc \in {"gap", "read"} /\ Deliver(held) /\ held' = <<>> /\ next' = 0
      /\ UNCHANGED <<slots, head, epoch, seen, hardwareVars, streamVars, lineVars, gapVars, run, read1>>
  BY DEF Release, GapOver, RunOver
<1>2. held \in Seq(Completed) /\ Len(lent) = inFlight /\ Len(held) + inFlight <= 2
  BY <1>1 DEF ReaderTypes, LoansInv, InDispatch
<1>. USE DEF hardwareVars, streamVars, lineVars, gapVars
<1>3. /\ lent' \in Seq(Completed) /\ got' \in Seq(Nat) /\ inFlight' \in 0..2 /\ queue' = queue
      /\ Len(lent') = inFlight' /\ pc' = IF inFlight' < 2 THEN "look" ELSE "end"
  BY <1>1, <1>2, DeliverIs
<1>4. tail' \in 0..Size - 1
  <2>1. Size \in Nat \ {0} /\ Queued \in 0..Size - 1 BY QueuedIs
  <2>2. PICK m \in Nat : m = tail + (IF next < Queued THEN next ELSE Queued) BY <2>1 DEF ReaderTypes
  <2>3. m % Size \in 0..Size - 1 BY <2>1, InPlace
  <2>. QED BY <2>2, <2>3 DEF Release, Consume
<1>5. pc' \in {"look", "end"} BY <1>3
<1>6. ReaderTypes' BY <1>1, <1>3, <1>4, <1>5 DEF ReaderTypes, ReaderPlace
<1>7. DrainInv' BY <1>1, <1>5 DEF DrainInv, InRun, Skipping, Pending, Skips, OnHardware, ReaderTypes
<1>8. LoansInv'
  <2>1. Len(held') = 0 /\ (pc' = "end" \/ inFlight' <= 1) BY <1>1, <1>3
  <2>2. PICK n \in 0..2 : n = inFlight' /\ Len(lent') = n BY <1>3
  <2>3. Len(held') + inFlight' <= 2
    <3>2. 0 + n <= 2 OBVIOUS
    <3>3. Len(held') + n <= 2 BY <2>1, <3>2
    <3>. QED BY <2>2, <3>3
  <2>4. Len(lent') <= inFlight' BY <2>2
  <2>5. Len(lent') = inFlight' BY <2>2
  <2>. QED BY <2>1, <2>3, <2>4, <2>5 DEF LoansInv, InDispatch
<1>9. SilenceInv' BY <1>1, <1>3 DEF SilenceInv, InRun, InDispatch, OnHardware, Unread
<1>. QED BY <1>6, <1>7, <1>8, <1>9

\* The first read of a channel's release.
LEMMA FrameReleaseLaps ==
  ASSUME FrameInv, ReleaseLaps
  PROVE  FrameInv'
<1>. USE DEF FrameInv
<1>1. /\ OnHardware /\ read1' = laps
      /\ (pc = "gap" /\ pc' = "gap_verdict") \/ (pc = "read" /\ pc' = "verdict")
      /\ UNCHANGED <<ringVars, hardwareVars, streamVars, lineVars, gapVars, loanVars, run, next, held>>
  BY DEF ReleaseLaps, GapOver, RunOver
<1>. USE DEF ringVars, hardwareVars, streamVars, lineVars, gapVars, loanVars
<1>2. ReaderTypes' BY <1>1 DEF ReaderTypes, ReaderPlace
<1>3. DrainInv' BY <1>1 DEF DrainInv, InRun, Skipping, Pending, Skips, OnHardware
<1>4. LoansInv' BY <1>1 DEF LoansInv, InDispatch
<1>5. SilenceInv' BY <1>1 DEF SilenceInv, InRun, InDispatch, OnHardware, Unread
<1>. QED BY <1>2, <1>3, <1>4, <1>5

\* A delivery of no line.
LEMMA DeliverNone ==
  ASSUME ReaderTypes, Deliver(<<>>), Len(lent) = inFlight, inFlight <= 1
  PROVE  UNCHANGED <<queue, lent, got, inFlight>> /\ pc' = "look"
<1>1. lent \in Seq(Completed) /\ got \in Seq(Nat) /\ inFlight \in 0..2 BY DEF ReaderTypes
<1>2. PICK e \in Seq(Nat) : e = [i \in 1..Len(<<>>) |-> <<>>[i].eol] /\ e = <<>>
  <2>1. PICK e : e = [i \in 1..Len(<<>>) |-> <<>>[i].eol] OBVIOUS
  <2>2. Len(<<>>) = 0 OBVIOUS
  <2>3. e \in [1..0 -> Nat] BY <2>1, <2>2
  <2>4. e \in Seq(Nat) /\ Len(e) = 0 BY <2>3
  <2>5. e = <<>> BY <2>4, EmptySeq
  <2>. QED BY <2>1, <2>4, <2>5
<1>3. lent' = lent \o <<>> /\ got' = got \o e BY <1>2 DEF Deliver
<1>4. lent' = lent /\ got' = got BY <1>1, <1>2, <1>3
<1>5. Len(<<>>) = 0 OBVIOUS
<1>6. inFlight' = inFlight BY <1>1, <1>5 DEF Deliver
<1>7. pc' = "look" BY <1>1, <1>5 DEF Deliver
<1>. QED BY <1>4, <1>6, <1>7 DEF Deliver

\* What a torn run leaves.
LEMMA TearIs ==
  ASSUME ReaderTypes, AssemblersInv, Tear
  PROVE  /\ assembler' \in [Buffers -> Assembler] /\ active' \in Buffers /\ resync' = TRUE
         /\ UNCHANGED <<seenSkips, quiet, silent, heard>>
<1>1. {activeAtRun} \in SUBSET Buffers BY DEF ReaderTypes
<1>2. Ended(IF inFlight = 0 THEN Buffers ELSE {activeAtRun}) \in [Buffers -> Assembler] BY <1>1, EndedIs
<1>. QED BY <1>2 DEF Tear, ReaderTypes

\* The verdict on a channel's run: delivered, or refused and torn.
LEMMA FrameVerdict ==
  ASSUME FrameInv, AssemblersInv, ChannelInv, Verdict
  PROVE  FrameInv'
<1>. USE DEF FrameInv
<1>1. /\ pc \in {"gap_verdict", "verdict"} /\ held' = <<>> /\ next' = 0
      /\ UNCHANGED <<storage, written, laps, uncounted>>
      /\ UNCHANGED <<ringVars, streamVars, activeAtRun, read1>>
      /\ IF Torn(read1) THEN Tear ELSE UNCHANGED <<active, assembler, gapVars>>
      /\ IF pc = "gap_verdict"
         THEN pc' = "read" /\ run' = NoRun /\ UNCHANGED <<queue, lent, got, inFlight>>
         ELSE Deliver(IF Torn(read1) THEN <<>> ELSE held) /\ UNCHANGED run
  BY DEF Verdict, ReleaseRun
<1>2. /\ tailAt' \in Nat /\ headAt' \in Nat /\ skips' \in Nat /\ OnHardware
      /\ skips' = (IF Torn(read1) THEN skips + 1 ELSE skips)
  BY ChannelJudges
<1>. USE DEF ringVars, streamVars
<1>3. /\ assembler' \in [Buffers -> Assembler] /\ active' \in Buffers /\ resync' \in BOOLEAN
      /\ (Torn(read1) => resync' = TRUE) /\ (~Torn(read1) => resync' = resync)
      /\ UNCHANGED <<seenSkips, quiet, silent, heard>>
  <2>1. CASE Torn(read1) BY <1>1, <2>1, TearIs
  <2>2. CASE ~Torn(read1) BY <1>1, <2>2 DEF gapVars, ReaderTypes
  <2>. QED BY <2>1, <2>2
<1>4. /\ lent' \in Seq(Completed) /\ got' \in Seq(Nat) /\ inFlight' \in 0..2 /\ queue' = queue
      /\ Len(lent') = inFlight' /\ pc' \in {"read", "look", "end"} /\ run' \in [at : Nat, n : Nat]
      /\ pc' # "end" => inFlight' <= 1
      /\ pc' = "read" => run'.n = 0
      /\ pc' = "end" => ~Torn(read1) /\ ~Pending
  <2>1. Len(lent) = inFlight /\ Len(held) + inFlight <= 2 /\ inFlight <= 1 /\ inFlight \in 0..2
    BY <1>1 DEF LoansInv, InDispatch, ReaderTypes
  <2>2. CASE pc = "gap_verdict" BY <1>1, <2>1, <2>2 DEF NoRun, ReaderTypes
  <2>3. CASE pc = "verdict"
    <3>1. run' = run /\ Deliver(IF Torn(read1) THEN <<>> ELSE held) BY <1>1, <2>3
    <3>2. run' \in [at : Nat, n : Nat] BY <3>1 DEF ReaderTypes
    <3>3. CASE Torn(read1) BY <2>1, <3>1, <3>2, <3>3, DeliverNone DEF ReaderTypes
    <3>4. CASE ~Torn(read1)
      <4>1. Deliver(held) /\ held \in Seq(Completed) BY <3>1, <3>4 DEF ReaderTypes
      <4>2. /\ lent' \in Seq(Completed) /\ got' \in Seq(Nat) /\ inFlight' \in 0..2 /\ queue' = queue
            /\ Len(lent') = inFlight' /\ pc' = (IF inFlight' < 2 THEN "look" ELSE "end")
            /\ inFlight' = inFlight + Len(held)
        BY <2>1, <4>1, DeliverIs
      <4>3. ASSUME pc' = "end" PROVE ~Pending BY <2>1, <2>3, <4>2, <4>3 DEF DrainInv, InRun
      <4>. QED BY <3>2, <3>4, <4>2, <4>3
    <3>. QED BY <3>3, <3>4
  <2>. QED BY <1>1, <2>2, <2>3
<1>5. ReaderTypes'
  <2>1. next' \in Nat /\ held' \in Seq(Completed) BY <1>1
  <2>2. quiet' \in BOOLEAN /\ silent' \in BOOLEAN BY <1>3 DEF ReaderTypes
  <2>3. UNCHANGED <<slots, head, tail, epoch, seen, storage, written, laps, uncounted, ring, script, sent, activeAtRun, read1>>
    BY <1>1
  <2>. QED BY <1>2, <1>3, <1>4, <2>1, <2>2, <2>3 DEF ReaderTypes, ReaderPlace
<1>6. DrainInv'
  <2>1. ring' = ring /\ OnHardware' /\ OnHardware BY <1>1, <1>2 DEF OnHardware
  <2>2. Pending' => Torn(read1) \/ Pending BY <1>2, <1>3, <2>1 DEF Pending, Skips
  <2>3. Pending' => pc' \in {"look", "read"} BY <1>4, <2>2
  <2>4. seenSkips' <= skips' BY <1>2, <1>3, <2>1 DEF DrainInv, ReaderTypes
  <2>. QED BY <1>1, <1>4, <2>1, <2>3, <2>4 DEF DrainInv, InRun, Skipping, ReaderTypes
<1>7. LoansInv'
  <2>1. Len(held') = 0 /\ (pc' = "end" \/ inFlight' <= 1) BY <1>1, <1>4
  <2>2. PICK n \in 0..2 : n = inFlight' /\ Len(lent') = n BY <1>4
  <2>3. Len(held') + inFlight' <= 2
    <3>2. 0 + n <= 2 OBVIOUS
    <3>3. Len(held') + n <= 2 BY <2>1, <3>2
    <3>. QED BY <2>2, <3>3
  <2>4. Len(lent') <= inFlight' BY <2>2
  <2>5. Len(lent') = inFlight' BY <2>2
  <2>. QED BY <2>1, <2>3, <2>4, <2>5 DEF LoansInv, InDispatch
<1>8. SilenceInv' BY <1>1, <1>3 DEF SilenceInv, InRun, ReaderTypes, InDispatch
<1>. QED BY <1>5, <1>6, <1>7, <1>8

\* The drain's end.
LEMMA FrameEndDrain ==
  ASSUME FrameInv, EndDrain
  PROVE  FrameInv'
<1>. USE DEF FrameInv
<1>1. /\ pc = "end" /\ pc' = "idle" /\ run' = NoRun /\ read1' = 0
      /\ UNCHANGED <<ringVars, hardwareVars, streamVars, lineVars, gapVars, inFlight, lent, got, next, held>>
  BY DEF EndDrain
<1>2. queue' \in 0..QueueSlots BY ReaderAssumption DEF EndDrain, Posted, ReaderTypes, InDispatch
<1>. USE DEF ringVars, hardwareVars, streamVars, lineVars, gapVars
<1>3. run' \in [at : Nat, n : Nat] /\ run'.n = 0 /\ read1' \in Nat BY <1>1 DEF NoRun
<1>4. ReaderTypes' BY <1>1, <1>2, <1>3 DEF ReaderTypes, ReaderPlace
<1>5. DrainInv' BY <1>1, <1>3 DEF DrainInv, InRun, Skipping, Pending, Skips, OnHardware
<1>6. LoansInv' BY <1>1 DEF LoansInv, InDispatch
<1>7. SilenceInv' BY <1>1 DEF SilenceInv, InRun, InDispatch, OnHardware, Unread
<1>. QED BY <1>4, <1>5, <1>6, <1>7

\* Every step keeps what the variables hold and what the drain holds where.
LEMMA FrameNext ==
  ASSUME FrameInv, AssemblersInv, ChannelInv, ReaderNext
  PROVE  FrameInv'
BY FrameReceive, FrameDma, FrameBelow, FrameSilence, FrameKernel, FrameLook, FrameLookCount, FrameLookEpoch,
   FrameSkip, FrameFoundEmpty, FrameFoundRun, FrameSkipByte, FrameReadByte, FrameRelease, FrameReleaseLaps,
   FrameVerdict, FrameEndDrain DEF ReaderNext, Drain

\* The lines held of the run in hand are whole.
HeldWhole ==
  \A i \in 1..Len(held) :
    held[i].eol \in script /\ IsLine(assembler[held[i].buffer].text, held[i].eol)

\* A buffer whose text stays still holds its line.
LEMMA LineStays ==
  ASSUME script' = script, NEW t, NEW u, NEW e, t = u, IsLine(t, e)
  PROVE  IsLine(u, e)'
<1>1. LineBefore(e)' = LineBefore(e) BY DEF LineBefore
<1>. QED BY <1>1 DEF IsLine

\* A step that touches no line.
LEMMA LoansKept ==
  ASSUME BuffersInv, AssemblersInv, LentInv,
         UNCHANGED <<active, held, assembler, script, lent>>, Base' = Base,
         resync' = resync \/ Rests(assembler[active])
  PROVE  BuffersInv' /\ AssemblersInv' /\ LentInv'
<1>1. BuffersInv' BY DEF BuffersInv
<1>2. AssemblersInv' BY DEF AssemblersInv, Rests
<1>3. BuffersInv' /\ AssemblersInv' BY <1>1, <1>2
<1>4. LentInv' BY LineStays DEF LentInv
<1>. QED BY <1>3, <1>4

\* The sink has read the older line: the one that stays is the last delivered.
LEMMA LoansSinkDispatch ==
  ASSUME FrameInv, BuffersInv, AssemblersInv, LentInv, SinkDispatch
  PROVE  BuffersInv' /\ AssemblersInv' /\ LentInv'
<1>. USE DEF FrameInv
<1>1. /\ lent' = Tail(lent) /\ lent # <<>>
      /\ UNCHANGED <<active, activeAtRun, held, assembler, script, resync, pc>>
  BY DEF SinkDispatch, lineVars, streamVars, gapVars, drainVars
<1>2. /\ lent \in Seq(Completed) /\ Len(lent) \in {1, 2} /\ Len(lent') = Len(lent) - 1
      /\ \A i \in 1..Len(lent') : lent'[i] = lent[i + 1]
  <2>1. lent \in Seq(Completed) /\ Len(lent) <= inFlight /\ inFlight \in 0..2 BY DEF ReaderTypes, LoansInv
  <2>2. Len(lent) \in Nat /\ Len(lent) # 0 BY <1>1, <2>1
  <2>3. Len(lent) \in {1, 2}
    <3>1. PICK n \in Nat, f \in 0..2 : n = Len(lent) /\ f = inFlight /\ n <= f /\ n # 0 BY <2>1, <2>2
    <3>2. n = 1 \/ n = 2 BY <3>1
    <3>. QED BY <3>1, <3>2
  <2>4. Len(lent') = Len(lent) - 1 /\ \A i \in 1..Len(lent') : lent'[i] = lent[i + 1] BY <1>1, <2>1, <2>3
  <2>. QED BY <2>1, <2>3, <2>4
<1>3. BuffersInv'
  <2>1. lent' # <<>> => Len(lent) = 2 /\ Len(lent') = 1 /\ lent'[1] = lent[2] BY <1>2
  <2>2. ~(Len(lent') = 2) BY <1>2
  <2>. QED BY <1>1, <2>1, <2>2 DEF BuffersInv, Base, InRun
<1>4. AssemblersInv'
  <2>1. held \in Seq(Completed) /\ Len(lent') + Len(held) # 2 BY <1>2 DEF ReaderTypes, LoansInv
  <2>. QED BY <1>1, <2>1 DEF AssemblersInv, Rests
<1>5. LentInv'
  <2>. SUFFICES ASSUME NEW i \in 1..Len(lent')
                PROVE  lent'[i].eol \in script' /\ IsLine(assembler[lent[i].buffer].text, lent[i].eol)'
    BY DEF LentInv
  <2>1. i + 1 \in 1..Len(lent) /\ lent'[i] = lent[i + 1] BY <1>2
  <2>2. lent[i + 1].eol \in script /\ IsLine(assembler[lent[i + 1].buffer].text, lent[i + 1].eol)
    BY <2>1 DEF LentInv
  <2>. QED BY <1>1, <2>1, <2>2, LineStays
<1>. QED BY <1>3, <1>4, <1>5

\* A gap seen or a run torn: the sink's lines are in another buffer than the ones ended.
LEMMA LoansEnded ==
  ASSUME FrameInv, BuffersInv, AssemblersInv, LentInv, NEW bs \in SUBSET Buffers, UNCHANGED <<script, lent>>, assembler' = Ended(bs),
         active' \in Buffers, active' \in bs, Rests(assembler[1 - active']) \/ bs = Buffers,
         \A i \in 1..Len(lent) : lent[i].buffer \notin bs
  PROVE  AssemblersInv' /\ LentInv'
<1>. USE DEF FrameInv
<1>1. /\ \A b \in bs : Rests(assembler'[b])
      /\ \A b \in Buffers : Rests(assembler[b]) => Rests(assembler'[b])
      /\ \A b \in Buffers : b \notin bs => assembler'[b] = assembler[b]
      /\ \A b \in Buffers : assembler'[b].dropping => assembler'[b].done
  BY EndedIs
<1>2. Rests(assembler'[active']) BY <1>1
<1>3. 1 - active' \in Buffers BY DEF Buffers
<1>4. Rests(assembler'[1 - active']) BY <1>1, <1>3
<1>5. AssemblersInv' BY <1>1, <1>2, <1>4 DEF AssemblersInv, Rests
<1>6. LentInv'
  <2>. SUFFICES ASSUME NEW i \in 1..Len(lent)
                PROVE  lent[i].eol \in script /\ IsLine(assembler[lent[i].buffer].text, lent[i].eol)'
    BY DEF LentInv
  <2>1. lent[i] \in Completed BY DEF ReaderTypes
  <2>2. assembler'[lent[i].buffer] = assembler[lent[i].buffer] BY <1>1, <2>1 DEF Completed
  <2>3. lent[i].eol \in script /\ IsLine(assembler[lent[i].buffer].text, lent[i].eol) BY DEF LentInv
  <2>. QED BY <2>2, <2>3, LineStays
<1>. QED BY <1>5, <1>6

\* A look that finds a gap ends the line begun in the active buffer, which is not lent.
LEMMA LoansFound ==
  ASSUME FrameInv, FrameInv', BuffersInv, AssemblersInv, LentInv, FoundEmpty \/ FoundRun
  PROVE  BuffersInv' /\ AssemblersInv' /\ LentInv'
<1>. USE DEF FrameInv
<1>1. /\ pc = "looked" /\ held = <<>> /\ held' = <<>> /\ UNCHANGED <<active, script, lent>>
      /\ InRun' => activeAtRun' = active
      /\ IF GapSeen THEN SeeGap ELSE UNCHANGED assembler /\ (resync' => resync)
  BY DEF FoundEmpty, FoundRun, DrainInv, InRun, streamVars, loanVars, DrainTo, ReaderTypes
<1>2. BuffersInv' BY <1>1 DEF BuffersInv, Base, InRun
<1>3. CASE GapSeen
  <2>1. assembler' = Ended({active}) /\ {active} \in SUBSET Buffers BY <1>1, <1>3 DEF SeeGap, ReaderTypes
  <2>2. Rests(assembler[1 - active']) /\ active' \in Buffers BY <1>1 DEF AssemblersInv, ReaderTypes
  <2>3. \A i \in 1..Len(lent) : lent[i].buffer \notin {active}
    <3>1. lent \in Seq(Completed) /\ Len(lent) <= 1
      BY <1>1 DEF LoansInv, ReaderTypes
    <3>2. active \in {0, 1} /\ Base = active BY <1>1 DEF Buffers, ReaderTypes, Base, InRun
    <3>. TAKE i \in 1..Len(lent)
    <3>3. Len(lent) = 1 /\ i = 1
      <4>1. PICK n \in Nat : n = Len(lent) /\ n <= 1 /\ i \in 1..n BY <3>1
      <4>2. n = 1 /\ i = 1 BY <4>1
      <4>. QED BY <4>1, <4>2
    <3>4. lent # <<>> BY <3>3
    <3>5. lent[i].buffer = 1 - active BY <3>2, <3>3, <3>4 DEF BuffersInv
    <3>. QED BY <3>2, <3>5
  <2>. QED BY <1>1, <1>2, <2>1, <2>2, <2>3, LoansEnded
<1>4. CASE ~GapSeen BY <1>1, <1>2, <1>4, LineStays DEF AssemblersInv, Rests, LentInv
<1>. QED BY <1>3, <1>4

\* A byte read goes to the active assembler, and leaves it at rest if it completed its line.
LEMMA ReadIs ==
  ASSUME FrameInv, AssemblersInv, ReadByte, NEW b, b = ByteAt(run, next)
  PROVE  LET a == assembler[active]
             p == assembler'[active]
             eol == b \in script
             text == IF a.done THEN <<>> ELSE a.text
         IN /\ b \in Nat /\ a \in Assembler /\ p \in Assembler /\ (a.dropping => a.done) /\ (p.dropping => p.done)
            /\ assembler' \in [Buffers -> Assembler] /\ assembler'[1 - active] = assembler[1 - active]
            /\ (eol => Rests(p) /\ (~a.dropping => p.text = text))
            /\ (a.dropping => p.done /\ (p.dropping <=> ~eol))
            /\ (~a.dropping /\ ~eol =>
                  IF Len(text) = MaxChars THEN p.done /\ p.dropping
                  ELSE ~p.done /\ ~p.dropping /\ p.text = Append(text, b))
            /\ (IF eol /\ ~a.dropping
                THEN active' = 1 - active /\ held' = Append(held, [buffer |-> active, eol |-> b])
                ELSE active' = active /\ held' = held)
            /\ next' = next + 1 /\ next + 1 <= run.n
            /\ pc = "read" /\ ~resync /\ Len(held) + inFlight <= 1 /\ Len(lent) = inFlight
<1>. USE DEF FrameInv
<1>1. b \in Nat BY ByteAtIs
<1>2. PICK a \in Assembler : a = assembler[active] /\ (a.dropping => a.done)
  BY DEF ReaderTypes, AssemblersInv
<1>3. /\ assembler' = [assembler EXCEPT ![active] = Pushed(a, b, b \in script)]
      /\ held' = IF b \in script /\ ~a.dropping THEN Append(held, [buffer |-> active, eol |-> b]) ELSE held
      /\ active' = IF b \in script /\ ~a.dropping THEN 1 - active ELSE active
      /\ pc = "read" /\ next # run.n /\ ~(inFlight + Len(held) >= 2) /\ next' = next + 1
  BY <1>2 DEF ReadByte, EndOfLine, RunOver
<1>4. /\ assembler \in [Buffers -> Assembler] /\ active \in Buffers /\ 1 - active \in Buffers /\ 1 - active # active
  BY DEF ReaderTypes, Buffers
<1>5. assembler'[active] = Pushed(a, b, b \in script) /\ assembler'[1 - active] = assembler[1 - active]
  BY <1>3, <1>4
<1>6. LET p == assembler'[active]
          eol == b \in script
          text == IF a.done THEN <<>> ELSE a.text
      IN /\ p \in Assembler /\ (p.dropping => p.done)
         /\ (eol => Rests(p) /\ (~a.dropping => p.text = text))
         /\ (a.dropping => p.done /\ (p.dropping <=> ~eol))
         /\ (~a.dropping /\ ~eol =>
               IF Len(text) = MaxChars THEN p.done /\ p.dropping
               ELSE ~p.done /\ ~p.dropping /\ p.text = Append(text, b))
  <2>1. CASE b \in script
    <3>1. assembler'[active] = Pushed(a, b, TRUE) BY <1>5, <2>1, PushedAs
    <3>2. PICK p : p = Pushed(a, b, TRUE) OBVIOUS
    <3>3. /\ p \in Assembler /\ (p.dropping => p.done) /\ Rests(p)
          /\ ~a.dropping => p.text = IF a.done THEN <<>> ELSE a.text
      BY <1>1, <1>2, <3>2, PushedIs
    <3>. QED BY <2>1, <3>1, <3>2, <3>3 DEF Rests
  <2>2. CASE b \notin script
    <3>1. assembler'[active] = Pushed(a, b, FALSE) BY <1>5, <2>2, PushedAs
    <3>2. PICK p : p = Pushed(a, b, FALSE) OBVIOUS
    <3>3. /\ p \in Assembler /\ (p.dropping => p.done)
          /\ a.dropping => p.done /\ p.dropping
          /\ ~a.dropping => IF Len(IF a.done THEN <<>> ELSE a.text) = MaxChars THEN p.done /\ p.dropping
                            ELSE ~p.done /\ ~p.dropping /\ p.text = Append(IF a.done THEN <<>> ELSE a.text, b)
      BY <1>1, <1>2, <3>2, PushedIs
    <3>. QED BY <2>2, <3>1, <3>2, <3>3
  <2>. QED BY <2>1, <2>2
<1>7. assembler' \in [Buffers -> Assembler]
  <2>1. PICK p \in Assembler : p = Pushed(a, b, b \in script) BY <1>5, <1>6
  <2>. QED BY <1>3, <1>4, <2>1
<1>8. next + 1 <= run.n BY <1>3 DEF ReaderTypes, DrainInv
<1>9. ~resync BY <1>3, <1>8 DEF DrainInv, ReaderTypes
<1>10. Len(held) + inFlight <= 1 /\ Len(lent) = inFlight BY <1>3 DEF ReaderTypes, LoansInv, InDispatch
<1>. QED BY <1>1, <1>2, <1>3, <1>5, <1>6, <1>7, <1>8, <1>9, <1>10

\* A sequence with an element.
LEMMA NotEmpty ==
  ASSUME NEW s, Len(s) # 0
  PROVE  s # <<>>
<1>1. Len(<<>>) = 0 OBVIOUS
<1>. QED BY <1>1

\* A byte goes to a buffer that is not lent; a line completed is held and the buffers change.
LEMMA LoansReadByte ==
  ASSUME FrameInv, BuffersInv, AssemblersInv, LentInv, ReadByte
  PROVE  BuffersInv' /\ AssemblersInv' /\ LentInv'
<1>. USE DEF FrameInv
<1>1. PICK b : b = ByteAt(run, next) OBVIOUS
<1>2. /\ assembler'[active] \in Assembler /\ (assembler'[active].dropping => assembler'[active].done)
      /\ assembler'[1 - active] = assembler[1 - active]
      /\ pc = "read" /\ ~resync /\ Len(held) + inFlight <= 1 /\ Len(lent) = inFlight
  BY <1>1, ReadIs
<1>3. \/ /\ active' = 1 - active /\ held' = Append(held, [buffer |-> active, eol |-> b])
         /\ Rests(assembler'[active])
      \/ active' = active /\ held' = held
  BY <1>1, ReadIs
<1>4. UNCHANGED <<lent, activeAtRun, pc, resync, script>>
  BY DEF ReadByte, loanVars, gapVars, streamVars
<1>5. active \in {0, 1} /\ activeAtRun \in {0, 1} BY DEF ReaderTypes, Buffers
<1>6. Base = activeAtRun /\ Base' = activeAtRun BY <1>2, <1>4 DEF Base, InRun
<1>7. PICK n \in Nat, m \in Nat, f \in 0..2 : n = Len(held) /\ m = Len(lent) /\ f = inFlight /\ n + f <= 1 /\ m = f
  <2>1. held \in Seq(Completed) /\ lent \in Seq(Completed) /\ inFlight \in 0..2 BY DEF ReaderTypes
  <2>. QED BY <1>2, <2>1
<1>8. BuffersInv'
  <2>1. CASE active' = active /\ held' = held BY <1>4, <1>6, <2>1 DEF BuffersInv
  <2>2. CASE active' = 1 - active /\ held' = Append(held, [buffer |-> active, eol |-> b])
    <3>1. /\ held \in Seq(Completed) /\ Len(held') = n + 1 /\ held'[n + 1].buffer = active
          /\ n >= 1 => held'[1] = held[1]
      BY <1>7, <2>2 DEF ReaderTypes
    <3>2. n = 0 \/ n = 1 BY <1>7
    <3>3. n = 1 => held # <<>>
      <4>1. n = 1 => Len(held) # 0 BY <1>7
      <4>. QED BY <4>1, NotEmpty
    <3>4. n = 0 => active = activeAtRun BY <1>6, <1>7 DEF BuffersInv
    <3>5. n = 1 => active = 1 - activeAtRun /\ held[1].buffer = activeAtRun BY <1>6, <1>7, <3>3 DEF BuffersInv
    <3>6. active' = IF Len(held') = 1 THEN 1 - activeAtRun ELSE activeAtRun
      BY <1>5, <2>2, <3>1, <3>2, <3>4, <3>5
    <3>7. held'[1].buffer = activeAtRun BY <3>1, <3>2, <3>4, <3>5
    <3>8. Len(held') = 2 => held'[2].buffer = 1 - activeAtRun
      <4>1. Len(held') = 2 => n = 1 BY <3>1, <3>2
      <4>. QED BY <3>1, <3>5, <4>1
    <3>. QED BY <1>4, <1>6, <3>6, <3>7, <3>8 DEF BuffersInv
  <2>. QED BY <1>3, <2>1, <2>2
<1>9. AssemblersInv'
  <2>1. \A d \in Buffers : d = active \/ d = 1 - active BY <1>5 DEF Buffers
  <2>2. \A d \in Buffers : assembler'[d].dropping => assembler'[d].done BY <1>2, <2>1 DEF AssemblersInv
  <2>3. Rests(assembler[1 - active]) BY DEF AssemblersInv
  <2>4. Rests(assembler'[1 - active])  BY <1>2, <2>3 DEF Rests
  <2>5. ~resync' BY <1>2, <1>4
  <2>6. CASE active' = active /\ held' = held
    <3>1. Len(lent') + Len(held') # 2 BY <1>4, <1>7, <2>6
    <3>2. Rests(assembler'[1 - active']) BY <2>4, <2>6
    <3>. QED BY <2>2, <2>5, <3>1, <3>2 DEF AssemblersInv, Rests
  <2>7. CASE active' = 1 - active /\ Rests(assembler'[active])
    BY <1>5, <2>2, <2>4, <2>5, <2>7 DEF AssemblersInv, Rests
  <2>. QED BY <1>3, <2>6, <2>7
<1>10. LentInv'
  <2>. SUFFICES ASSUME NEW i \in 1..Len(lent)
                PROVE  lent[i].eol \in script /\ IsLine(assembler[lent[i].buffer].text, lent[i].eol)'
    BY <1>4 DEF LentInv
  <2>1. i = 1 /\ Len(lent) = 1 /\ n = 0 BY <1>7
  <2>2. lent # <<>> /\ active = Base BY <1>7, <2>1, NotEmpty DEF BuffersInv
  <2>3. lent[i].buffer = 1 - active BY <2>1, <2>2 DEF BuffersInv
  <2>4. assembler'[lent[i].buffer] = assembler[lent[i].buffer] BY <1>2, <2>3
  <2>5. lent[i].eol \in script /\ IsLine(assembler[lent[i].buffer].text, lent[i].eol) BY DEF LentInv
  <2>. QED BY <1>4, <2>4, <2>5, LineStays
<1>. QED BY <1>8, <1>9, <1>10

\* The lines held go to the sink.
LEMMA LoansDelivered ==
  ASSUME FrameInv, BuffersInv, AssemblersInv, LentInv, HeldWhole, InRun, Deliver(held), held' = <<>>,
         UNCHANGED <<active, assembler, script, resync>>
  PROVE  BuffersInv' /\ AssemblersInv' /\ LentInv'
<1>. USE DEF FrameInv
<1>1. held \in Seq(Completed) /\ lent \in Seq(Completed) /\ inFlight \in 0..2 /\ active \in {0, 1} /\ activeAtRun \in {0, 1}
  BY DEF ReaderTypes, Buffers
<1>2. Len(lent) = inFlight /\ Len(held) + inFlight <= 2 BY DEF LoansInv, InDispatch, InRun
<1>3. PICK n \in Nat, m \in Nat : n = Len(held) /\ m = Len(lent) /\ m + n <= 2
  BY <1>1, <1>2
<1>4. /\ Len(lent') = m + n /\ \A i \in 1..Len(lent') : lent'[i] = IF i <= m THEN lent[i] ELSE held[i - m]
      /\ pc' \in {"look", "end"}
  BY <1>1, <1>2, <1>3, DeliverIs
<1>5. Base = activeAtRun /\ Base' = active BY <1>4 DEF Base, InRun
<1>6. n >= 1 => held # <<>>
  <2>1. n >= 1 => Len(held) # 0 BY <1>3
  <2>. QED BY <2>1, NotEmpty
<1>7. m >= 1 => lent # <<>>
  <2>1. m >= 1 => Len(lent) # 0 BY <1>3
  <2>. QED BY <2>1, NotEmpty
<1>8. /\ active = IF n = 1 THEN 1 - activeAtRun ELSE activeAtRun
      /\ m >= 1 => lent[m].buffer = 1 - activeAtRun
      /\ m = 2 => lent[1].buffer = activeAtRun
      /\ n >= 1 => held[1].buffer = activeAtRun
      /\ n = 2 => held[2].buffer = 1 - activeAtRun
  BY <1>3, <1>5, <1>6, <1>7 DEF BuffersInv
<1>9. BuffersInv'
  <2>1. lent' # <<>> => m + n >= 1
    <3>1. m + n = 0 => Len(lent') = 0 BY <1>4
    <3>2. lent' \in Seq(Completed) BY <1>1, <1>2, <1>3, DeliverIs
    <3>3. Len(lent') = 0 => lent' = <<>> BY <3>2, EmptySeq
    <3>. QED BY <1>3, <3>1, <3>3
  <2>2. lent' # <<>> => lent'[m + n].buffer = 1 - active
    <3>1. CASE n = 0 BY <1>3, <1>4, <1>8, <2>1, <3>1
    <3>2. CASE n = 1 BY <1>1, <1>3, <1>4, <1>8, <3>2
    <3>3. CASE n = 2 BY <1>1, <1>3, <1>4, <1>8, <3>3
    <3>4. n \in {0, 1, 2} BY <1>3
    <3>. QED BY <3>1, <3>2, <3>3, <3>4
  <2>3. ASSUME m + n = 2 PROVE lent'[1].buffer = active
    <3>1. CASE n = 0 BY <1>3, <1>4, <1>8, <2>3, <3>1
    <3>2. CASE n = 1 BY <1>3, <1>4, <1>8, <2>3, <3>2
    <3>3. CASE n = 2 BY <1>3, <1>4, <1>8, <2>3, <3>3
    <3>4. n \in {0, 1, 2} BY <1>3, <2>3
    <3>. QED BY <3>1, <3>2, <3>3, <3>4
  <2>4. Len(held') = 0 OBVIOUS
  <2>. QED BY <1>4, <1>5, <2>2, <2>3, <2>4 DEF BuffersInv
<1>10. AssemblersInv' BY <1>3, <1>4 DEF AssemblersInv, Rests
<1>11. LentInv'
  <2>. SUFFICES ASSUME NEW i \in 1..Len(lent')
                PROVE  (lent[i].eol \in script /\ IsLine(assembler[lent[i].buffer].text, lent[i].eol))'
    BY DEF LentInv
  <2>1. CASE i <= m BY <1>3, <1>4, <2>1, LineStays DEF LentInv
  <2>2. CASE ~(i <= m)
    <3>1. i - m \in 1..Len(held) /\ lent'[i] = held[i - m] BY <1>3, <1>4, <2>2
    <3>2. PICK j \in 1..Len(held) : lent'[i] = held[j] BY <3>1
    <3>3. held[j].eol \in script /\ IsLine(assembler[held[j].buffer].text, held[j].eol) BY <3>2 DEF HeldWhole
    <3>. QED BY <3>2, <3>3, LineStays
  <2>. QED BY <2>1, <2>2
<1>. QED BY <1>9, <1>10, <1>11

\* A run torn: the lines held are dropped, in their buffers.
LEMMA LoansTorn ==
  ASSUME FrameInv, BuffersInv, AssemblersInv, LentInv, InRun, Tear, held' = <<>>, activeAtRun' = activeAtRun,
         UNCHANGED <<lent, script>>
  PROVE  BuffersInv' /\ AssemblersInv' /\ LentInv'
<1>. USE DEF FrameInv
<1>1. held \in Seq(Completed) /\ lent \in Seq(Completed) /\ inFlight \in 0..2 /\ active \in {0, 1} /\ activeAtRun \in {0, 1}
  BY DEF ReaderTypes, Buffers
<1>2. Len(lent) = inFlight /\ Len(held) + inFlight <= 2 /\ inFlight <= 1 BY DEF LoansInv, InDispatch, InRun
<1>3. Base = activeAtRun /\ Base' = activeAtRun /\ active' = activeAtRun BY DEF Base, InRun, Tear
<1>4. BuffersInv' BY <1>1, <1>2, <1>3 DEF BuffersInv
<1>5. lent # <<>> => Len(lent) = 1 /\ inFlight = 1 /\ lent[1].buffer = 1 - activeAtRun
  BY <1>1, <1>2, <1>3, EmptySeq DEF BuffersInv
<1>6. PICK bs \in SUBSET Buffers : /\ assembler' = Ended(bs) /\ bs = (IF inFlight = 0 THEN Buffers ELSE {activeAtRun})
  BY <1>1 DEF Tear, Buffers
<1>7. active' \in Buffers /\ active' \in bs BY <1>1, <1>3, <1>6 DEF Buffers
<1>8. \A i \in 1..Len(lent) : lent[i].buffer \notin bs
  <2>. TAKE i \in 1..Len(lent)
  <2>1. Len(lent) # 0 BY <1>1
  <2>2. lent # <<>> BY <2>1, NotEmpty
  <2>3. Len(lent) = 1 /\ inFlight = 1 /\ lent[1].buffer = 1 - activeAtRun BY <1>5, <2>2
  <2>4. i = 1 BY <2>3
  <2>. QED BY <1>1, <1>6, <2>3, <2>4
<1>9. inFlight = 0 \/ Rests(assembler[1 - active'])
  <2>. SUFFICES ASSUME inFlight # 0 PROVE Rests(assembler[1 - activeAtRun]) BY <1>3
  <2>1. inFlight = 1 /\ Len(held) \in {0, 1}
    <3>1. PICK n \in Nat, f \in 0..2 : n = Len(held) /\ f = inFlight /\ n + f <= 2 /\ f <= 1 /\ f # 0 BY <1>1, <1>2
    <3>2. f = 1 /\ (n = 0 \/ n = 1) BY <3>1
    <3>. QED BY <3>1, <3>2
  <2>2. CASE Len(held) = 0 BY <1>3, <2>2 DEF BuffersInv, AssemblersInv
  <2>3. CASE Len(held) = 1 BY <1>2, <1>3, <2>1, <2>3 DEF BuffersInv, AssemblersInv
  <2>. QED BY <2>1, <2>2, <2>3
<1>10. AssemblersInv' /\ LentInv' BY <1>6, <1>7, <1>8, <1>9, LoansEnded
<1>. QED BY <1>4, <1>10

\* The lines of a run released become the sink's; of a run refused none does.
LEMMA LoansReleased ==
  ASSUME FrameInv, BuffersInv, AssemblersInv, LentInv, ChannelInv, Release \/ Verdict, Intact => HeldWhole
  PROVE  BuffersInv' /\ AssemblersInv' /\ LentInv'
<1>. USE DEF FrameInv
<1>1. InRun /\ held' = <<>> /\ UNCHANGED <<activeAtRun, script>>
  BY DEF InRun, Release, Verdict, GapOver, RunOver, lineVars, streamVars
<1>2. CASE Release
  <2>1. HeldWhole BY <1>2 DEF Intact, Release
  <2>. QED BY <1>1, <1>2, <2>1, LoansDelivered DEF Release, lineVars, gapVars
<1>3. CASE Verdict
  <2>1. CASE Torn(read1)
    <3>1. Tear BY <1>3, <2>1 DEF Verdict
    <3>2. lent' = lent
      <4>1. CASE pc = "gap_verdict" BY <1>3, <4>1 DEF Verdict
      <4>2. CASE pc = "verdict" BY <1>3, <2>1, <4>2, DeliverNone DEF Verdict, LoansInv, InDispatch
      <4>. QED BY <1>3, <4>1, <4>2 DEF Verdict
    <3>. QED BY <1>1, <3>1, <3>2, LoansTorn
  <2>2. CASE ~Torn(read1)
    <3>1. HeldWhole BY <1>3, <2>2, ChannelJudges, LapAssumption DEF ReaderTypes, Intact
    <3>2. UNCHANGED <<active, assembler, resync>> BY <1>3, <2>2 DEF Verdict, gapVars
    <3>3. CASE pc = "verdict"
      <4>1. Deliver(held) BY <1>3, <2>2, <3>3 DEF Verdict
      <4>. QED BY <1>1, <3>1, <3>2, <4>1, LoansDelivered
    <3>4. CASE pc = "gap_verdict" BY <1>1, <1>3, <3>2, <3>4, LoansKept DEF Verdict, DrainInv, Base, InRun
    <3>. QED BY <1>3, <3>3, <3>4 DEF Verdict
  <2>. QED BY <2>1, <2>2
<1>. QED BY <1>2, <1>3

\* Every step keeps which line is in which buffer.
LEMMA LoansNext ==
  ASSUME FrameInv, FrameInv', BuffersInv, AssemblersInv, LentInv, ChannelInv, ReaderNext, InRun /\ Intact => HeldWhole
  PROVE  BuffersInv' /\ AssemblersInv' /\ LentInv'
<1>1. CASE Receive \/ DmaReceive \/ Completion \/ EngineEdge \/ Silence
  <2>1. UNCHANGED <<active, activeAtRun, held, assembler, script, lent, pc, resync>>
    BY <1>1 DEF Receive, DmaReceive, Completion, EngineEdge, Silence, drainVars, lineVars, streamVars, loanVars, gapVars
  <2>. QED BY <2>1, LoansKept DEF Base, InRun
<1>2. CASE Look \/ LookCount \/ LookEpoch \/ SkipHead \/ SkipTail \/ Dispatch \/ EndDrain \/ ReleaseLaps
  <2>1. UNCHANGED <<active, activeAtRun, held, assembler, script, lent, resync>> /\ (InRun' <=> InRun)
    BY <1>2 DEF Look, LookCount, LookEpoch, SkipHead, SkipTail, Dispatch, EndDrain, ReleaseLaps, GapOver, RunOver,
                drainVars, lineVars, streamVars, loanVars, gapVars, DrainTo, InRun, InDispatch
  <2>. QED BY <2>1, LoansKept DEF Base
<1>3. CASE SkipByte
  <2>1. UNCHANGED <<active, activeAtRun, held, assembler, script, lent, pc>> /\ resync
    BY <1>3 DEF SkipByte, GapOver, lineVars, streamVars, loanVars
  <2>2. Rests(assembler[active]) BY <2>1 DEF AssemblersInv
  <2>3. Base' = Base BY <2>1 DEF Base, InRun
  <2>4. BuffersInv' BY <2>1, <2>3 DEF BuffersInv
  <2>5. AssemblersInv' BY <2>1, <2>2 DEF AssemblersInv, Rests
  <2>6. LentInv' BY <2>1, LineStays DEF LentInv
  <2>. QED BY <2>4, <2>5, <2>6
<1>4. CASE Release \/ Verdict
  <2>1. InRun BY <1>4 DEF InRun, Release, Verdict, GapOver, RunOver
  <2>. QED BY <1>4, <2>1, LoansReleased
<1>. QED BY <1>1, <1>2, <1>3, <1>4, LoansSinkDispatch, LoansFound, LoansReadByte DEF ReaderNext, Drain

-----------------------------------------------------------------------------
(* The interrupt's ring: a push and a release.                               *)
\* The byte at a distance from the tail.
LEMMA ItemAt ==
  ASSUME ReaderTypes, NEW i \in 0..Size - 1
  PROVE  /\ Item(i) = slots[IF tail + i < Size THEN tail + i ELSE tail + i - Size]
         /\ Item(i) \in Nat
<1>1. Size \in Nat \ {0} /\ tail \in 0..Size - 1 /\ slots \in [0..Size - 1 -> Nat] BY RingAssumption DEF ReaderTypes
<1>2. i \in 0..Size BY <1>1
<1>3. (tail + i) % Size = (IF tail + i < Size THEN tail + i ELSE tail + i - Size) BY <1>1, <1>2, Turned
<1>4. (IF tail + i < Size THEN tail + i ELSE tail + i - Size) \in 0..Size - 1 BY <1>1
<1>5. \A j \in 0..Size - 1 : slots[j] \in Nat BY <1>1
<1>. QED BY <1>3, <1>4, <1>5 DEF Item

\* A byte pushed is the last of the ring, and the others stay in their places.
LEMMA RingPushes ==
  ASSUME ReaderTypes, ~Full, NEW b, PushElement(b), tail' = tail, NEW n \in Nat, n = Queued
  PROVE  Queued' = n + 1 /\ (\A i \in 0..n - 1 : Item(i)' = Item(i)) /\ Item(n)' = b
<1>1. /\ Size \in Nat \ {0} /\ Size > 1 /\ tail \in 0..Size - 1 /\ head \in 0..Size - 1
      /\ slots \in [0..Size - 1 -> Nat]
  BY RingAssumption DEF ReaderTypes
<1>2. (head + 1) % Size = (IF head + 1 < Size THEN head + 1 ELSE 0)
  <2>1. (head + 1) % Size = (IF head + 1 < Size THEN head + 1 ELSE head + 1 - Size) BY <1>1, 1 \in 0..Size, Turned
  <2>. QED BY <1>1, <2>1
<1>3. PICK h \in 0..Size - 1 : h = (IF head + 1 < Size THEN head + 1 ELSE 0) BY <1>1
<1>4. h # tail /\ head' = h /\ slots' = [slots EXCEPT ![head] = b] BY <1>2, <1>3 DEF Full, PushElement
<1>5. n = (IF tail <= head THEN head - tail ELSE head - tail + Size) BY QueuedIs
<1>6. (h - tail) % Size = (IF tail <= h THEN h - tail ELSE h - tail + Size) BY <1>1, TurnedBack
<1>7. Queued' = (h - tail) % Size BY <1>4 DEF Queued
<1>8. (IF tail <= h THEN h - tail ELSE h - tail + Size) = n + 1 BY <1>1, <1>3, <1>4, <1>5
<1>9. n + 1 < Size BY <1>1, <1>3, <1>4, <1>5
<1>10. ASSUME NEW i \in 0..n
       PROVE  Item(i)' = IF i = n THEN b ELSE Item(i)
  <2>1. i \in 0..Size /\ i \in 0..Size - 1 BY <1>1, <1>9
  <2>2. (tail + i) % Size = (IF tail + i < Size THEN tail + i ELSE tail + i - Size) BY <1>1, <2>1, Turned
  <2>6. (IF tail + i < Size THEN tail + i ELSE tail + i - Size) \in 0..Size - 1 BY <1>1, <2>1
  <2>3. PICK j \in 0..Size - 1 : j = (IF tail + i < Size THEN tail + i ELSE tail + i - Size) BY <2>6
  <2>4. Item(i) = slots[j] /\ Item(i)' = slots'[j] BY <2>2, <2>3 DEF Item
  <2>5. j = head <=> i = n BY <1>1, <1>5, <1>9, <2>3
  <2>. QED BY <1>1, <1>4, <2>3, <2>4, <2>5
<1>. QED BY <1>6, <1>7, <1>8, <1>10

\* Bytes consumed are the first of the ring, and the others move up.
LEMMA RingConsumes ==
  ASSUME ReaderTypes, NEW n \in Nat, n = Queued, NEW q \in 0..n, tail' = (tail + q) % Size, UNCHANGED <<slots, head>>
  PROVE  Queued' = n - q /\ \A i \in 0..n - q - 1 : Item(i)' = Item(i + q)
<1>1. /\ Size \in Nat \ {0} /\ Size > 1 /\ tail \in 0..Size - 1 /\ head \in 0..Size - 1
      /\ slots \in [0..Size - 1 -> Nat]
  BY RingAssumption DEF ReaderTypes
<1>2. n = (IF tail <= head THEN head - tail ELSE head - tail + Size) /\ n < Size BY <1>1, QueuedIs
<1>3. (tail + q) % Size = (IF tail + q < Size THEN tail + q ELSE tail + q - Size)
  BY <1>1, <1>2, q \in 0..Size, Turned
<1>10. (IF tail + q < Size THEN tail + q ELSE tail + q - Size) \in 0..Size - 1 BY <1>1, <1>2
<1>4. PICK t \in 0..Size - 1 : t = (IF tail + q < Size THEN tail + q ELSE tail + q - Size) BY <1>10
<1>5. (head - t) % Size = (IF t <= head THEN head - t ELSE head - t + Size) BY <1>1, TurnedBack
<1>6. tail' = t BY <1>3, <1>4
<1>7. Queued' = (head - t) % Size BY <1>6 DEF Queued
<1>8. (IF t <= head THEN head - t ELSE head - t + Size) = n - q BY <1>1, <1>2, <1>4
<1>9. ASSUME NEW i \in 0..n - q - 1
      PROVE  Item(i)' = Item(i + q)
  <2>1. i \in 0..Size /\ i + q \in 0..Size - 1 BY <1>1, <1>2
  <2>2. (t + i) % Size = (IF t + i < Size THEN t + i ELSE t + i - Size) BY <1>1, <1>4, <2>1, Turned
  <2>3. PICK k \in 0..Size - 1 : k = i + q BY <2>1
  <2>4. Item(k) = slots[IF tail + k < Size THEN tail + k ELSE tail + k - Size] BY <2>3, ItemAt
  <2>5. (IF t + i < Size THEN t + i ELSE t + i - Size) = (IF tail + k < Size THEN tail + k ELSE tail + k - Size)
    BY <1>1, <1>2, <1>4, <2>1, <2>3
  <2>6. Item(i)' = slots[(t + i) % Size] BY <1>6 DEF Item
  <2>. QED BY <2>2, <2>3, <2>4, <2>5, <2>6
<1>. QED BY <1>5, <1>7, <1>8, <1>9

\* A step that leaves the ring and the losses alone.
LEMMA RingKept ==
  ASSUME NEW c, NEW g, ByteRingInv(c, g), UNCHANGED <<ringVars, sent, lost, heard>>,
         pc' \notin {"look_epoch", "skip", "jump"}, ~Skipping, InHand' => InHand /\ run' = run
  PROVE  ByteRingInv(c, g)'
<1>. USE DEF ringVars
<1>1. Queued' = Queued /\ (\A i : Item(i)' = Item(i)) /\ (Dropped' <=> Dropped)
  BY DEF Queued, Item, Dropped
<1>2. RingBehind(c)' BY <1>1 DEF ByteRingInv, RingBehind
<1>3. RingWhole(c)' BY <1>1 DEF ByteRingInv, RingWhole
<1>4. RingSpanned(c)' BY <1>1 DEF ByteRingInv, RingSpanned
<1>. QED BY <1>2, <1>3, <1>4 DEF ByteRingInv

\* The receive interrupt.
LEMMA RingReceives ==
  ASSUME FrameInv, NEW c \in Nat, NEW g \in Nat, ByteRingInv(c, g), Receive
  PROVE  ByteRingInv(c, g)'
<1>. USE DEF FrameInv
<1>1. /\ sent' = sent + 1 /\ UNCHANGED <<tail, seen, pc, run, read1, heard>>
      /\ \/ ~Full /\ PushElement(sent + 1) /\ UNCHANGED <<epoch, lost>>
         \/ Lost /\ lost' = lost \cup {sent + 1} /\ UNCHANGED <<slots, head>>
  BY DEF Receive, drainVars, gapVars
<1>2. sent \in Nat /\ run \in [at : Nat, n : Nat] /\ read1 \in Nat /\ heard \subseteq 0..sent BY DEF ReaderTypes
<1>3. PICK n \in Nat : n = Queued BY QueuedIs
<1>4. \A i \in 0..n - 1 : Item(i) \in Nat
  <2>1. n <= Size - 1 BY <1>3, QueuedIs
  <2>. QED BY <2>1, QueuedIs, ItemAt
<1>5. (InHand' <=> InHand) /\ (Skipping' <=> Skipping) BY <1>1 DEF InHand, InRun, Skipping
<1>6. CASE ~Full /\ PushElement(sent + 1) /\ UNCHANGED <<epoch, lost>>
  <2>1. Queued' = n + 1 /\ (\A i \in 0..n - 1 : Item(i)' = Item(i)) /\ Item(n)' = sent + 1
    BY <1>1, <1>3, <1>6, RingPushes
  <2>2. Dropped' <=> Dropped BY <1>1, <1>6 DEF Dropped
  <2>3. RingBehind(c)'
    <3>1. ASSUME NEW i \in 0..n
          PROVE  Item(i)' <= sent + 1 /\ Item(i)' >= c + 1 + i /\ \A h \in heard : h < Item(i)'
      <4>1. c + n <= sent BY <1>3 DEF ByteRingInv, RingBehind
      <4>2. CASE i = n BY <1>2, <2>1, <4>1, <4>2
      <4>3. CASE i \in 0..n - 1 BY <1>2, <1>3, <1>4, <2>1, <4>3 DEF ByteRingInv, RingBehind
      <4>. QED BY <4>2, <4>3
    <3>2. c + (n + 1) <= sent + 1 BY <1>2, <1>3 DEF ByteRingInv, RingBehind
    <3>3. ASSUME NEW p \in c + 1..sent + 1
          PROVE  p \in lost \/ \E i \in 0..n : Item(i)' = p
      <4>1. CASE p = sent + 1 BY <2>1, <4>1
      <4>2. CASE p \in c + 1..sent BY <1>3, <2>1, <4>2 DEF ByteRingInv, RingBehind
      <4>. QED BY <1>2, <4>1, <4>2
    <3>4. (n + 1) - 1 = n OBVIOUS
    <3>. QED BY <1>1, <1>6, <2>1, <3>1, <3>2, <3>3, <3>4 DEF RingBehind
  <2>4. RingWhole(c)'
    <3>1. CASE ~Skipping /\ ~Dropped
      <4>1. c + n = sent /\ \A i \in 0..n - 1 : Item(i) = c + 1 + i
        BY <1>3, <3>1 DEF ByteRingInv, RingWhole
      <4>2. \A i \in 0..(n + 1) - 1 : Item(i)' = c + 1 + i BY <2>1, <4>1
      <4>. QED BY <1>1, <1>2, <2>1, <2>2, <3>1, <4>1, <4>2 DEF RingWhole
    <3>2. CASE ~Skipping /\ Dropped
      <4>1. c + n < sent \/ (c \in lost /\ ~InHand) BY <1>3, <3>2 DEF ByteRingInv, RingWhole
      <4>. QED BY <1>1, <1>2, <1>5, <1>6, <2>1, <2>2, <3>2, <4>1 DEF RingWhole
    <3>. QED BY <1>5, <3>1, <3>2 DEF RingWhole
  <2>5. RingSpanned(c)'
    <3>1. InHand \/ pc = "look_epoch" => run.n <= n /\ run.at = tail /\ run.at + run.n <= Size
      BY <1>3 DEF ByteRingInv, RingSpanned
    <3>2. InHand \/ (pc = "look_epoch" /\ ~Dropped) => \A i \in 0..run.n - 1 : Item(i)' = c + 1 + i
      <4>. SUFFICES ASSUME InHand \/ (pc = "look_epoch" /\ ~Dropped), NEW i \in 0..run.n - 1
                    PROVE  Item(i)' = c + 1 + i
        OBVIOUS
      <4>1. Item(i) = c + 1 + i BY DEF ByteRingInv, RingSpanned
      <4>2. i \in 0..n - 1 BY <1>2, <3>1
      <4>. QED BY <2>1, <4>1, <4>2
    <3>. QED BY <1>1, <1>2, <1>5, <2>1, <2>2, <3>1, <3>2 DEF RingSpanned
  <2>6. ASSUME pc = "jump"
        PROVE  RingLeap(c, read1, g)'
    <3>1. RingLeap(c, read1, g) BY <2>6 DEF ByteRingInv
    <3>2. ASSUME NEW i \in read1..n
          PROVE  Item(i)' >= g + 1 + i - read1 /\ (~Dropped => Item(i)' = g + 1 + i - read1)
      <4>1. CASE i = n BY <1>2, <1>3, <2>1, <3>1, <4>1 DEF RingLeap
      <4>2. CASE i \in read1..n - 1 BY <1>2, <1>3, <2>1, <3>1, <4>2 DEF RingLeap
      <4>. QED BY <1>2, <4>1, <4>2
    <3>3. ASSUME NEW p, \E i \in 0..read1 - 1 : Item(i) = p
          PROVE  \E i \in 0..read1 - 1 : Item(i)' = p
      <4>1. PICK i \in 0..read1 - 1 : Item(i) = p BY <3>3
      <4>2. i \in 0..n - 1 BY <1>2, <1>3, <3>1 DEF RingLeap
      <4>. QED BY <2>1, <4>1, <4>2
    <3>4. /\ c <= g /\ g <= sent' /\ read1 <= n + 1 /\ g \notin heard
          /\ g + (n + 1) <= sent' + read1
          /\ ~Dropped => g + (n + 1) = sent' + read1
      BY <1>1, <1>2, <1>3, <3>1 DEF RingLeap
    <3>5. \A p \in c + 1..g : p \in lost \/ \E i \in 0..read1 - 1 : Item(i)' = p
      BY <3>1, <3>3 DEF RingLeap
    <3>6. g \in lost \/ \E i \in 0..read1 - 1 : Item(i)' = g BY <3>1, <3>3 DEF RingLeap
    <3>7. (n + 1) - 1 = n OBVIOUS
    <3>. QED BY <1>1, <1>6, <2>1, <2>2, <3>2, <3>4, <3>5, <3>6, <3>7 DEF RingLeap
  <2>7. pc = "skip" => c < sent + 1 \/ c \in lost BY <1>2 DEF ByteRingInv
  <2>. QED BY <1>1, <1>6, <2>3, <2>4, <2>5, <2>6, <2>7 DEF ByteRingInv
<1>7. CASE Lost /\ lost' = lost \cup {sent + 1} /\ UNCHANGED <<slots, head>>
  <2>1. Queued' = n /\ (\A i : Item(i)' = Item(i)) BY <1>1, <1>3, <1>7 DEF Queued, Item
  <2>2. Dropped'
    <3>1. EpochMod \in Nat \ {0} /\ EpochMod > 1 /\ seen \in 0..EpochMod - 1 BY RingAssumption DEF ReaderTypes
    <3>2. (seen + 1) % EpochMod = (IF seen + 1 < EpochMod THEN seen + 1 ELSE seen + 1 - EpochMod)
      BY <3>1, 1 \in 0..EpochMod, Turned
    <3>. QED BY <1>1, <1>7, <3>1, <3>2 DEF Lost, Dropped
  <2>3. c + n <= sent BY <1>3 DEF ByteRingInv, RingBehind
  <2>4. RingBehind(c)'
    <3>1. ASSUME NEW i \in 0..n - 1
          PROVE  Item(i) <= sent + 1 /\ Item(i) >= c + 1 + i /\ \A h \in heard : h < Item(i)
      BY <1>2, <1>3, <1>4 DEF ByteRingInv, RingBehind
    <3>2. ASSUME NEW p \in c + 1..sent + 1
          PROVE  p \in lost \cup {sent + 1} \/ \E i \in 0..n - 1 : Item(i) = p
      BY <1>2, <1>3 DEF ByteRingInv, RingBehind
    <3>3. c + n <= sent + 1 BY <1>2, <2>3
    <3>. QED BY <1>1, <1>7, <2>1, <3>1, <3>2, <3>3 DEF RingBehind
  <2>5. RingWhole(c)'
    <3>1. c + n < sent + 1 BY <1>2, <2>3
    <3>. QED BY <1>1, <2>1, <2>2, <3>1 DEF RingWhole
  <2>6. RingSpanned(c)' BY <1>1, <1>3, <1>5, <2>1, <2>2 DEF RingSpanned, ByteRingInv
  <2>7. ASSUME pc = "jump"
        PROVE  RingLeap(c, read1, g)'
    <3>1. RingLeap(c, read1, g) BY <2>7 DEF ByteRingInv
    <3>2. g <= sent + 1 /\ g + n <= sent + 1 + read1 BY <1>2, <1>3, <3>1 DEF RingLeap
    <3>. QED BY <1>1, <1>3, <1>7, <2>1, <2>2, <3>1, <3>2 DEF RingLeap
  <2>8. pc = "skip" => c < sent + 1 \/ c \in lost BY <1>2 DEF ByteRingInv
  <2>. QED BY <1>1, <1>7, <2>4, <2>5, <2>6, <2>7, <2>8 DEF ByteRingInv
<1>. QED BY <1>1, <1>6, <1>7

\* The end of line a silence followed is behind every byte in the ring, that is to say before the ring fills again.
LEMMA RingSilence ==
  ASSUME FrameInv, NEW c \in Nat, NEW g \in Nat, ByteRingInv(c, g), Silence, ~OnHardware
  PROVE  ByteRingInv(c, g)' /\ (Dropped \/ c = sent)
<1>1. /\ pc = "idle" /\ Queued = 0 /\ UNCHANGED <<ringVars, sent, lost, pc, run, read1>>
  BY DEF Silence, InDispatch, Unread, streamVars, drainVars
<1>. USE <1>1 DEF ringVars
<1>2. Queued' = 0 /\ (\A i : Item(i)' = Item(i)) /\ (Dropped' <=> Dropped) BY DEF Queued, Item, Dropped
<1>3. RingBehind(c)'
  <2>1. 0..Queued' - 1 = {} BY <1>2
  <2>. QED BY <1>2, <2>1 DEF ByteRingInv, RingBehind
<1>4. RingWhole(c)' BY <1>2 DEF ByteRingInv, RingWhole, Skipping, InHand, InRun
<1>5. RingSpanned(c)' BY DEF RingSpanned, InHand, InRun
<1>6. Dropped \/ c = sent BY DEF ByteRingInv, RingWhole, Skipping
<1>. QED BY <1>3, <1>4, <1>5, <1>6 DEF ByteRingInv

\* The run a look at the ring gives, and the byte it ends before.
LEMMA RingLooks ==
  ASSUME FrameInv, NEW c \in Nat, NEW g \in Nat, ByteRingInv(c, g), Look, ~OnHardware
  PROVE  ByteRingInv(c, g)' /\ (~Dropped' /\ run'.n = 0 => c = sent)
<1>1. /\ pc = "look" /\ pc' = "look_epoch" /\ run' = Span /\ UNCHANGED <<ringVars, sent, lost, heard>>
  BY DEF Look, DrainTo, streamVars, gapVars
<1>2. Queued' = Queued /\ (\A i : Item(i)' = Item(i)) /\ (Dropped' <=> Dropped)
  BY <1>1 DEF Queued, Item, Dropped, ringVars
<1>3. PICK n \in Nat : n = Queued BY QueuedIs DEF FrameInv
<1>4. /\ run'.at = tail /\ run'.n \in Nat /\ run'.n <= n /\ tail + run'.n <= Size /\ (run'.n = 0 => n = 0)
  <2>1. n = (IF tail <= head THEN head - tail ELSE head - tail + Size) BY <1>3, QueuedIs DEF FrameInv
  <2>2. Size \in Nat /\ tail \in 0..Size - 1 /\ head \in 0..Size - 1 BY RingAssumption DEF FrameInv, ReaderTypes
  <2>3. run'.at = tail /\ run'.n = IF head >= tail THEN head - tail ELSE Size - tail BY <1>1 DEF Span
  <2>. QED BY <2>1, <2>2, <2>3
<1>5. Dropped \/ (c + n = sent /\ \A i \in 0..n - 1 : Item(i) = c + 1 + i)
  BY <1>1, <1>3 DEF ByteRingInv, RingWhole, Skipping
<1>6. RingBehind(c)' BY <1>1, <1>2 DEF ByteRingInv, RingBehind
<1>7. RingWhole(c)' BY <1>1, <1>2 DEF ByteRingInv, RingWhole, Skipping, InHand, InRun
<1>8. RingSpanned(c)'
  <2>1. ~InHand' /\ tail' = tail BY <1>1 DEF InHand, InRun, ringVars
  <2>2. ~Dropped => \A i \in 0..run'.n - 1 : Item(i)' = c + 1 + i BY <1>2, <1>4, <1>5
  <2>. QED BY <1>2, <1>3, <1>4, <2>1, <2>2 DEF RingSpanned
<1>9. ~Dropped' /\ run'.n = 0 => c = sent BY <1>2, <1>4, <1>5
<1>. QED BY <1>1, <1>6, <1>7, <1>8, <1>9 DEF ByteRingInv

\* The epoch compared after the head was read.
LEMMA RingLooksAgain ==
  ASSUME FrameInv, NEW c \in Nat, NEW g \in Nat, ByteRingInv(c, g), LookEpoch
  PROVE  ByteRingInv(c, g)'
<1>1. /\ pc = "look_epoch"
      /\ IF Dropped THEN seen' = epoch /\ run' = NoRun /\ pc' = "skip"
                    ELSE seen' = seen /\ run' = run /\ pc' = "looked"
      /\ UNCHANGED <<slots, head, tail, epoch, sent, lost, heard>>
  BY DEF LookEpoch, DrainTo, streamVars, gapVars
<1>2. Queued' = Queued /\ (\A i : Item(i)' = Item(i)) /\ ~Dropped'
  BY <1>1 DEF Queued, Item, Dropped
<1>3. RingBehind(c)' BY <1>1, <1>2 DEF ByteRingInv, RingBehind
<1>4. CASE Dropped
  <2>1. ~InHand' BY <1>1, <1>4 DEF InHand, InRun
  <2>2. RingWhole(c)' /\ RingSpanned(c)' BY <1>1, <1>4, <2>1 DEF RingWhole, RingSpanned, Skipping
  <2>3. c < sent \/ c \in lost
    <3>1. c + Queued < sent \/ c \in lost BY <1>1, <1>4 DEF ByteRingInv, RingWhole, Skipping
    <3>2. Queued \in Nat /\ sent \in Nat BY QueuedIs DEF FrameInv, ReaderTypes
    <3>. QED BY <3>1, <3>2
  <2>. QED BY <1>1, <1>3, <1>4, <2>2, <2>3 DEF ByteRingInv
<1>5. CASE ~Dropped BY <1>1, <1>2, <1>3, <1>5 DEF ByteRingInv, RingWhole, Skipping, RingSpanned
<1>. QED BY <1>4, <1>5

\* A skip of the whole ring leaps to the last byte sent.
LEMMA RingLeaps ==
  ASSUME FrameInv, NEW c \in Nat, NEW g \in Nat, ByteRingInv(c, g), pc = "skip"
  PROVE  RingLeap(c, Queued, sent)
<1>1. PICK n \in Nat : n = Queued BY QueuedIs DEF FrameInv
<1>2. sent \in Nat BY DEF FrameInv, ReaderTypes
<1>3. c + n <= sent BY <1>1 DEF ByteRingInv, RingBehind
<1>4. sent \notin heard BY DEF FrameInv, SilenceInv, InDispatch
<1>5. \A p \in c + 1..sent : p \in lost \/ \E i \in 0..n - 1 : Item(i) = p BY <1>1 DEF ByteRingInv, RingBehind
<1>6. sent \in lost \/ \E i \in 0..n - 1 : Item(i) = sent BY <1>2, <1>3, <1>5 DEF ByteRingInv
<1>7. n..n - 1 = {} BY <1>1
<1>. QED BY <1>1, <1>2, <1>3, <1>4, <1>5, <1>6, <1>7 DEF RingLeap

\* The head a skip goes to is the last byte sent.
LEMMA RingSkipHead ==
  ASSUME FrameInv, NEW c \in Nat, NEW g \in Nat, ByteRingInv(c, g), SkipHead, NEW s, s = sent
  PROVE  ByteRingInv(c, s)'
<1>1. /\ pc = "skip" /\ pc' = "jump" /\ read1' = Queued /\ UNCHANGED <<ringVars, sent, lost, heard, run>>
  BY DEF SkipHead, DrainTo, streamVars, gapVars
<1>. USE DEF ringVars
<1>2. Queued' = Queued /\ (\A i : Item(i)' = Item(i)) /\ (Dropped' <=> Dropped)
  BY <1>1 DEF Queued, Item, Dropped
<1>3. RingBehind(c)' BY <1>1, <1>2 DEF ByteRingInv, RingBehind
<1>4. RingWhole(c)' BY <1>1 DEF RingWhole, Skipping
<1>5. RingSpanned(c)' BY <1>1 DEF RingSpanned, InHand, InRun
<1>6. RingLeap(c, Queued, s) BY <1>1, RingLeaps
<1>7. RingLeap(c, read1, s)' BY <1>1, <1>2, <1>6 DEF RingLeap
<1>. QED BY <1>1, <1>3, <1>4, <1>5, <1>7 DEF ByteRingInv
\* The skip itself: what it goes over is lost.
LEMMA RingJumps ==
  ASSUME FrameInv, NEW c \in Nat, NEW g \in Nat, ByteRingInv(c, g), SkipTail, NEW t \in Nat,
         t = IF ring = "skip" THEN g ELSE sent
  PROVE  /\ ByteRingInv(t, t)' /\ c <= t /\ t <= sent /\ t \notin heard /\ t \in lost'
         /\ \A p \in c + 1..t : p \in lost'
         /\ lost \subseteq lost' /\ \A p \in lost' : p \in lost \/ p \in 1..sent
<1>. USE DEF FrameInv
<1>1. PICK n \in Nat : n = Queued /\ n <= Size - 1 BY QueuedIs
<1>2. PICK q \in Nat : q = (IF ring = "skip" THEN read1 ELSE n) BY DEF ReaderTypes
<1>3. RingLeap(c, q, t)
  <2>1. CASE ring = "skip" BY <1>2, <2>1 DEF SkipTail, ByteRingInv
  <2>2. CASE ring # "skip"
    <3>1. pc = "skip" BY <2>2 DEF SkipTail
    <3>. QED BY <1>1, <1>2, <2>2, <3>1, RingLeaps
  <2>. QED BY <2>1, <2>2
<1>4. q \in 0..n /\ sent \in Nat /\ Size \in Nat BY <1>1, <1>2, <1>3, RingAssumption DEF RingLeap, ReaderTypes
<1>5. /\ pc \in {"skip", "jump"} /\ pc' = "looked" /\ run' = run
      /\ Consume(Size - 1, q) /\ lost' = lost \cup Discarded(q)
      /\ UNCHANGED <<slots, head, epoch, seen, sent, heard>>
  BY <1>1, <1>2 DEF SkipTail, DrainTo, streamVars, gapVars
<1>6. tail' = (tail + q) % Size BY <1>1, <1>4, <1>5 DEF Consume
<1>7. Queued' = n - q /\ \A i \in 0..n - q - 1 : Item(i)' = Item(i + q)
  BY <1>1, <1>4, <1>5, <1>6, RingConsumes
<1>8. Dropped' <=> Dropped BY <1>5 DEF Dropped
<1>9. Discarded(q) = {Item(i) : i \in 0..q - 1} BY DEF Discarded, Item
<1>10. /\ c <= t /\ t <= sent /\ t \notin heard /\ t \in lost'
       /\ \A p \in c + 1..t : p \in lost'
  BY <1>3, <1>5, <1>9 DEF RingLeap
<1>11. ~InHand'
  <2>1. run.n = 0 BY <1>5 DEF DrainInv, Skipping
  <2>. QED BY <1>5, <2>1 DEF InHand
<1>12. \A i \in 0..n - 1 : Item(i) \in Nat BY <1>1, <1>4, ItemAt
<1>13. \A i \in 0..n - 1 : Item(i) <= sent /\ Item(i) >= c + 1 + i /\ \A h \in heard : h < Item(i)
  BY <1>1 DEF ByteRingInv, RingBehind
<1>14. RingBehind(t)'
  <2>1. ASSUME NEW i \in 0..n - q - 1
        PROVE  Item(i)' <= sent /\ Item(i)' >= t + 1 + i /\ \A h \in heard : h < Item(i)'
    <3>1. PICK j \in q..n - 1 : j = i + q BY <1>4
    <3>2. Item(i)' = Item(j) /\ j \in 0..n - 1 BY <1>4, <1>7, <3>1
    <3>3. Item(j) >= t + 1 + j - q BY <1>1, <1>3, <3>1 DEF RingLeap
    <3>4. t + 1 + j - q = t + 1 + i BY <1>4, <3>1
    <3>. QED BY <1>13, <3>2, <3>3, <3>4
  <2>2. t + (n - q) <= sent BY <1>1, <1>3, <1>4 DEF RingLeap
  <2>3. ASSUME NEW p \in t + 1..sent
        PROVE  p \in lost' \/ \E i \in 0..n - q - 1 : Item(i)' = p
    <3>1. p \in c + 1..sent BY <1>4, <1>10
    <3>2. p \in lost \/ \E j \in 0..n - 1 : Item(j) = p BY <1>1, <3>1 DEF ByteRingInv, RingBehind
    <3>3. ASSUME NEW j \in 0..n - 1, Item(j) = p
          PROVE  p \in lost' \/ \E i \in 0..n - q - 1 : Item(i)' = p
      <4>1. CASE j \in 0..q - 1 BY <1>5, <1>9, <3>3, <4>1
      <4>2. CASE j \in q..n - 1
        <5>1. PICK i \in 0..n - q - 1 : j = i + q BY <1>4, <4>2
        <5>. QED BY <1>7, <3>3, <5>1
      <4>. QED BY <1>4, <4>1, <4>2
    <3>. QED BY <1>5, <3>2, <3>3
  <2>. QED BY <1>5, <1>7, <2>1, <2>2, <2>3 DEF RingBehind
<1>15. RingWhole(t)'
  <2>1. CASE Dropped BY <1>8, <1>10, <1>11, <2>1 DEF RingWhole
  <2>2. CASE ~Dropped
    <3>1. g \in Nat /\ t + n = sent + q /\ \A i \in q..n - 1 : Item(i) = t + 1 + i - q
      BY <1>1, <1>3, <2>2 DEF RingLeap
    <3>2. t + (n - q) = sent BY <1>4, <3>1
    <3>3. ASSUME NEW i \in 0..n - q - 1 PROVE Item(i)' = t + 1 + i
      <4>1. PICK j \in q..n - 1 : j = i + q BY <1>4
      <4>2. t + 1 + j - q = t + 1 + i BY <1>4, <4>1
      <4>. QED BY <1>7, <3>1, <4>1, <4>2
    <3>. QED BY <1>5, <1>7, <1>8, <2>2, <3>2, <3>3 DEF RingWhole
  <2>. QED BY <2>1, <2>2
<1>16. RingSpanned(t)' BY <1>5, <1>11 DEF RingSpanned
<1>17. lost \subseteq lost' /\ \A p \in lost' : p \in lost \/ p \in 1..sent
  <2>1. ASSUME NEW i \in 0..q - 1 PROVE Item(i) \in 1..sent
    <3>1. i \in 0..n - 1 BY <1>4
    <3>. QED BY <1>4, <1>12, <1>13, <3>1
  <2>. QED BY <1>5, <1>9, <2>1
<1>. QED BY <1>5, <1>10, <1>14, <1>15, <1>16, <1>17 DEF ByteRingInv

\* A release of the bytes read.
LEMMA RingReleases ==
  ASSUME FrameInv, NEW c \in Nat, NEW g \in Nat, ByteRingInv(c, g), Release, NEW t \in Nat, t = c + next
  PROVE  ByteRingInv(t, g)'
<1>. USE DEF FrameInv
<1>1. PICK n \in Nat : n = Queued /\ n <= Size - 1 BY QueuedIs
<1>2. /\ ~OnHardware /\ pc \in {"gap", "read"} /\ Consume(next, Queued) /\ pc' \in {"look", "end"}
      /\ UNCHANGED <<slots, head, epoch, seen, sent, heard, lost>>
  BY DEF Release, GapOver, RunOver, streamVars, gapVars, Deliver
<1>3. next \in Nat /\ run.n \in Nat /\ next <= run.n /\ run.n > 0 /\ sent \in Nat
  BY <1>2 DEF ReaderTypes, DrainInv, InRun
<1>4. InHand /\ run.n <= n BY <1>1, <1>2, <1>3 DEF InHand, InRun, ByteRingInv, RingSpanned
<1>5. \A i \in 0..next - 1 : Item(i) = c + 1 + i BY <1>3, <1>4 DEF ByteRingInv, RingSpanned
<1>6. next \in 0..n BY <1>3, <1>4
<1>7. tail' = (tail + next) % Size BY <1>1, <1>2, <1>6 DEF Consume
<1>8. Queued' = n - next /\ \A i \in 0..n - next - 1 : Item(i)' = Item(i + next)
  BY <1>1, <1>2, <1>6, <1>7, RingConsumes
<1>9. (Dropped' <=> Dropped) /\ ~InHand' /\ ~Skipping /\ ~Skipping'
  BY <1>2 DEF Dropped, InHand, InRun, Skipping
<1>10. RingBehind(t)'
  <2>1. ASSUME NEW i \in 0..n - next - 1
        PROVE  Item(i)' <= sent /\ Item(i)' >= t + 1 + i /\ \A h \in heard : h < Item(i)'
    <3>1. PICK j \in 0..n - 1 : j = i + next BY <1>6
    <3>2. Item(j) <= sent /\ Item(j) >= c + 1 + j /\ \A h \in heard : h < Item(j)
      BY <1>1 DEF ByteRingInv, RingBehind
    <3>3. c + 1 + j = t + 1 + i BY <1>3, <3>1
    <3>. QED BY <1>8, <3>1, <3>2, <3>3
  <2>2. t + (n - next) <= sent
    <3>1. c + n <= sent BY <1>1 DEF ByteRingInv, RingBehind
    <3>. QED BY <1>3, <3>1
  <2>3. ASSUME NEW p \in t + 1..sent
        PROVE  p \in lost \/ \E i \in 0..n - next - 1 : Item(i)' = p
    <3>1. p \in c + 1..sent BY <1>3
    <3>2. p \in lost \/ \E j \in 0..n - 1 : Item(j) = p BY <1>1, <3>1 DEF ByteRingInv, RingBehind
    <3>3. ASSUME NEW j \in 0..n - 1, Item(j) = p
          PROVE  \E i \in 0..n - next - 1 : Item(i)' = p
      <4>1. ~(j < next)
        <5>. SUFFICES ASSUME j < next PROVE FALSE OBVIOUS
        <5>1. j \in 0..next - 1 BY <1>3
        <5>2. p = c + 1 + j BY <1>5, <3>3, <5>1
        <5>. QED BY <1>3, <5>1, <5>2
      <4>2. j - next \in 0..n - next - 1 /\ j = (j - next) + next BY <1>6, <4>1
      <4>3. PICK i \in 0..n - next - 1 : j = i + next BY <4>2
      <4>. QED BY <1>8, <3>3, <4>3
    <3>. QED BY <3>2, <3>3
  <2>. QED BY <1>2, <1>8, <2>1, <2>2, <2>3 DEF RingBehind
<1>11. RingWhole(t)'
  <2>1. CASE Dropped
    <3>1. c + n < sent BY <1>1, <1>4, <1>9, <2>1 DEF ByteRingInv, RingWhole
    <3>2. t + (n - next) < sent BY <1>3, <3>1
    <3>. QED BY <1>2, <1>8, <1>9, <2>1, <3>2 DEF RingWhole
  <2>2. CASE ~Dropped
    <3>1. c + n = sent /\ \A i \in 0..n - 1 : Item(i) = c + 1 + i
      BY <1>1, <1>9, <2>2 DEF ByteRingInv, RingWhole
    <3>2. t + (n - next) = sent BY <1>3, <3>1
    <3>3. ASSUME NEW i \in 0..n - next - 1 PROVE Item(i)' = t + 1 + i
      <4>1. PICK j \in 0..n - 1 : j = i + next BY <1>6
      <4>2. c + 1 + j = t + 1 + i BY <1>3, <4>1
      <4>. QED BY <1>8, <3>1, <4>1, <4>2
    <3>. QED BY <1>2, <1>8, <1>9, <2>2, <3>2, <3>3 DEF RingWhole
  <2>. QED BY <2>1, <2>2
<1>12. RingSpanned(t)' BY <1>2, <1>9 DEF RingSpanned
<1>. QED BY <1>2, <1>10, <1>11, <1>12 DEF ByteRingInv

-----------------------------------------------------------------------------
(* The stream, step by step.                                                 *)
\* The bytes of the run in hand are the next ones.
LEMMA BytesInHand ==
  ASSUME FrameInv, ChannelInv, NEW c \in Nat, NEW g \in Nat, Cursor(c, g), pc \in {"gap", "read"}, next < run.n
  PROVE  c + next + 1 <= sent /\ (Intact => ByteAt(run, next) = c + next + 1)
<1>. USE DEF FrameInv
<1>1. InHand BY DEF InHand, InRun, ReaderTypes
<1>2. next \in Nat /\ run.n \in Nat /\ run.at \in Nat /\ sent \in Nat BY DEF ReaderTypes
<1>3. CASE ~OnHardware
  <2>1. PICK n \in Nat : n = Queued /\ n <= Size - 1 /\ Size \in Nat BY QueuedIs
  <2>2. run.n <= n /\ run.at = tail /\ run.at + run.n <= Size /\ \A i \in 0..run.n - 1 : Item(i) = c + 1 + i
    BY <1>1, <1>3, <2>1 DEF Cursor, ByteRingInv, RingSpanned
  <2>3. c + n <= sent BY <1>3, <2>1 DEF Cursor, ByteRingInv, RingBehind
  <2>4. next \in 0..run.n - 1 BY <1>2
  <2>5. Item(next) = c + 1 + next BY <2>2, <2>4
  <2>6. ByteAt(run, next) = Item(next) BY <1>3, <2>2 DEF ByteAt, Item
  <2>. QED BY <1>2, <2>2, <2>3, <2>5, <2>6
<1>4. CASE OnHardware
  <2>1. Lap \in Nat \ {0} /\ tailAt \in Nat /\ headAt \in Nat /\ written \in Nat BY LapAssumption DEF ReaderTypes
  <2>2. /\ written = sent /\ headAt <= written /\ run.at = tailAt % Lap /\ run.at + run.n <= Lap
        /\ tailAt + run.n <= headAt /\ c = tailAt
        /\ \A p \in 1..written : written - p < Lap => storage[(p - 1) % Lap] = p
    BY <1>1, <1>4 DEF ChannelInv, Cursor
  <2>3. c + next + 1 <= sent BY <1>2, <2>1, <2>2
  <2>4. ASSUME Intact PROVE ByteAt(run, next) = c + next + 1
    <3>1. written - tailAt <= Lap BY <1>4, <2>4 DEF Intact
    <3>9. run.at + next < Lap BY <1>2, <2>1, <2>2
    <3>2. (tailAt % Lap) + next < Lap BY <2>2, <3>9
    <3>3. (tailAt + next) % Lap = (tailAt % Lap) + next BY <1>2, <2>1, <3>2, LapStep
    <3>4. PICK p \in 1..written : p = tailAt + next + 1 /\ p - 1 = tailAt + next /\ written - p < Lap
      BY <1>2, <2>1, <2>2, <2>3, <3>1
    <3>5. storage[(p - 1) % Lap] = p BY <2>2, <3>4
    <3>6. (p - 1) % Lap = run.at + next BY <2>2, <3>3, <3>4
    <3>7. (run.at + next) % Lap = run.at + next
      <4>1. PICK r \in Nat : r = run.at + next /\ r < Lap BY <1>2, <3>9
      <4>2. 0 * Lap = 0 /\ 0 <= r /\ r < 0 + Lap BY <2>1, <4>1
      <4>3. r % Lap = r - 0 BY <2>1, <4>1, <4>2, InLap
      <4>. QED BY <4>1, <4>3
    <3>8. ByteAt(run, next) = storage[run.at + next] BY <1>4, <3>7 DEF ByteAt
    <3>. QED BY <2>2, <3>4, <3>5, <3>6, <3>8
  <2>. QED BY <2>3, <2>4
<1>. QED BY <1>3, <1>4

\* What a place is told by is told by the ends of line alone.
LEMMA PlacesStay ==
  ASSUME script' = script
  PROVE  \A e : LineBefore(e)' = LineBefore(e) /\ Begins(e)' = Begins(e)
BY DEF LineBefore, Begins

\* What was lost stays lost.
LEMMA ExcusedStays ==
  ASSUME script' = script, heard' = heard, lost \subseteq lost'
  PROVE  \A e : (Excused(e) => Excused(e)') /\ (SkipExcused(e) => SkipExcused(e)')
<1>1. \A e : LineBefore(e)' = LineBefore(e) /\ Begins(e)' = Begins(e) BY PlacesStay
<1>. TAKE e
<1>2. /\ LineBefore(e)' = LineBefore(e) /\ Begins(e)' = Begins(e)
      /\ LineBefore(LineBefore(e))' = LineBefore(LineBefore(e))
      /\ LineBefore(Begins(e))' = LineBefore(Begins(e))
  BY <1>1 DEF LineBefore, Begins
<1>. QED BY <1>2 DEF Excused, SkipExcused

\* What was delivered or excused stays so as the stream goes on.
LEMMA GotStays ==
  ASSUME NEW c \in Nat, UNCHANGED <<script, got, heard>>, lost \subseteq lost', GotInv(c)
  PROVE  GotInv(c)'
<1>1. \A e : (Excused(e) => Excused(e)') /\ LineBefore(e)' = LineBefore(e) BY ExcusedStays, PlacesStay
<1>2. \A e : Short(e)' <=> Short(e) BY <1>1 DEF Short
<1>3. \A e : Delivered(e)' <=> Delivered(e) BY DEF Delivered
<1>4. \A e \in script : e <= c /\ Short(e)' => Delivered(e)' \/ Excused(e)' BY <1>1, <1>2, <1>3 DEF GotInv
<1>. QED BY <1>4 DEF GotInv

\* A step of the line or the ring that reads no byte leaves what was read as it was.
LEMMA StreamStays ==
  ASSUME NEW c \in Nat, StreamInv(c),
         UNCHANGED <<script, got, held, assembler, active, resync, quiet, silent, heard, next>>,
         sent' >= sent, sent' \in Nat, sent \in Nat, next \in Nat,
         lost \subseteq lost', lost' \subseteq 1..sent', Pending => Pending', Pending' /\ ~Skipping' => Pending /\ ~Skipping,
         Intact' => Intact, DropUnseen => DropUnseen' \/ Pending',
         pc' \in {"look_epoch", "looked"} /\ run'.n = 0 /\ ~Pending' /\ (pc' = "look_epoch" => ~Dropped') => c \notin heard
  PROVE  StreamInv(c)'
<1>1. \A e : /\ (Excused(e) => Excused(e)') /\ (SkipExcused(e) => SkipExcused(e)')
             /\ LineBefore(e)' = LineBefore(e) /\ Begins(e)' = Begins(e)
  BY ExcusedStays, PlacesStay
<1>2. \A e : Short(e)' <=> Short(e) BY <1>1 DEF Short
<1>3. \A e : (HeldNow(e)' <=> HeldNow(e)) /\ (LineStart(e)' <=> LineStart(e)) BY DEF HeldNow, LineStart
<1>4. GotInv(c)' BY GotStays DEF StreamInv
<1>5. ASSUME HeldInv(c) PROVE HeldInv(c)' BY <1>1, <1>2, <1>3, <1>5, LineStays DEF HeldInv
<1>6. ASSUME SyncInv(c) PROVE SyncInv(c)'
  <2>1. Assembled(c + next)' <=> Assembled(c + next)
    <3>1. PICK k : k = c + next OBVIOUS
    <3>2. Assembled(k)' <=> Assembled(k) BY <1>1 DEF Assembled
    <3>. QED BY <3>1, <3>2
  <2>2. SkipExcused(c + next) => SkipExcused(c + next)'
    <3>1. PICK k : k = c + next OBVIOUS
    <3>2. SkipExcused(k) => SkipExcused(k)' BY <1>1
    <3>. QED BY <3>1, <3>2
  <2>3. ~resync' /\ ~Pending' => Assembled(c + next)' BY <1>6, <2>1 DEF SyncInv
  <2>4. resync' => SkipExcused(c + next)' \/ (quiet' /\ silent' /\ c \in heard') BY <1>6, <2>2 DEF SyncInv
  <2>5. Pending' /\ ~Skipping' => SkipExcused(c)' BY <1>1, <1>6 DEF SyncInv
  <2>6. quiet' /\ silent' /\ ~Pending' /\ ~DropUnseen' => LineStart(c)'
    BY <1>3, <1>6 DEF SyncInv, DropUnseen
  <2>7. next' = next OBVIOUS
  <2>. QED BY <2>3, <2>4, <2>5, <2>6, <2>7 DEF SyncInv, DropUnseen
<1>7. c + next <= sent' BY DEF StreamInv
<1>. QED BY <1>4, <1>5, <1>6, <1>7 DEF StreamInv

\* What is skipped up to a byte lost is excused.
LEMMA SkipExcusedAt ==
  ASSUME script \subseteq Nat \ {0}, NEW t \in Nat \ {0}, t \in lost, t \notin heard
  PROVE  SkipExcused(t)
<1>1. Begins(t) \in Nat /\ Begins(t) <= t BY BeginsIs
<1>2. CASE Begins(t) < t BY <1>2 DEF SkipExcused
<1>3. CASE Begins(t) = t
  <2>1. LineBefore(t) < t BY LineBeforeIs
  <2>. QED BY <1>3, <2>1 DEF SkipExcused
<1>. QED BY <1>1, <1>2, <1>3

\* The place in the stream jumps over lost bytes: the line begun and the lines skipped are excused.
LEMMA StreamLost ==
  ASSUME FrameInv, FrameInv', NEW c \in Nat, NEW t \in Nat, StreamInv(c), UNCHANGED <<script, got, heard>>,
         c <= t, t <= sent', t \in lost', t \notin heard, \A p \in c + 1..t : p \in lost',
         lost \subseteq lost', lost' \subseteq 1..sent', next' = 0, held' = <<>>, Pending', ~Skipping'
  PROVE  StreamInv(t)'
<1>. USE DEF FrameInv
<1>1. script \subseteq Nat \ {0} /\ script' = script /\ sent' \in Nat BY DEF ReaderTypes
<1>2. \A e : (Excused(e) => Excused(e)') /\ LineBefore(e)' = LineBefore(e) BY ExcusedStays, PlacesStay
<1>3. \A e : (Short(e)' <=> Short(e)) /\ (Delivered(e)' <=> Delivered(e)) BY <1>2 DEF Short, Delivered
<1>4. GotInv(t)'
  <2>1. GotInv(c) BY DEF StreamInv
  <2>2. \A i \in 1..Len(got) : got[i] \in Nat
    <3>1. got \in Seq(Nat) BY DEF ReaderTypes
    <3>. QED BY <3>1
  <2>3. \A i \in 1..Len(got) : got[i] <= t
    <3>. TAKE i \in 1..Len(got)
    <3>1. got[i] \in Nat /\ got[i] <= c BY <2>1, <2>2 DEF GotInv
    <3>. QED BY <3>1
  <2>4. ASSUME NEW e \in script, e <= t, Short(e)'
        PROVE  Delivered(e)' \/ Excused(e)'
    <3>1. CASE e <= c BY <1>2, <1>3, <2>1, <2>4, <3>1 DEF GotInv
    <3>2. CASE ~(e <= c) BY <1>1, <1>2, <2>4, <3>2, LineBeforeIs DEF Excused
    <3>. QED BY <3>1, <3>2
  <2>. QED BY <2>1, <2>3, <2>4 DEF GotInv
<1>5. SkipExcused(t)'
  <2>1. t > 0 BY DEF StreamInv
  <2>2. /\ script' \subseteq Nat \ {0} /\ t \notin heard' BY <1>1
  <2>3. Begins(t)' \in Nat /\ Begins(t)' <= t BY <1>1, BeginsIs, PlacesStay
  <2>4. CASE Begins(t)' < t BY <2>4 DEF SkipExcused
  <2>5. CASE Begins(t)' = t
    <3>1. LineBefore(t) < t /\ LineBefore(t)' = LineBefore(t) BY <1>1, <1>2, <2>1, LineBeforeIs
    <3>. QED BY <2>2, <2>5, <3>1 DEF SkipExcused
  <2>. QED BY <2>3, <2>4, <2>5
<1>6. Len(held') = 0 /\ t + 0 = t OBVIOUS
<1>7. HeldInv(t)'
  <2>1. \A e \in script : ~(t < e /\ e <= t + next')
    <3>1. \A e \in script : e \in Nat BY <1>1
    <3>. QED BY <3>1
  <2>. QED BY <1>1, <1>6, <2>1 DEF HeldInv
<1>8. SyncInv(t)'
  <2>1. t + next' = t OBVIOUS
  <2>. QED BY <1>5, <2>1 DEF SyncInv
<1>9. t + next' <= sent' OBVIOUS
<1>. QED BY <1>4, <1>7, <1>8, <1>9 DEF StreamInv

\* The place in the stream moves to the end of what was read; the lines held become the lines got.
LEMMA StreamReleased ==
  ASSUME FrameInv, FrameInv', NEW c \in Nat, NEW t \in Nat, t = c + next, StreamInv(c), Intact, InRun,
         UNCHANGED <<script, heard, lost, sent, assembler, active, resync, quiet, silent>>,
         Len(got') = Len(got) + Len(held),
         \A i \in 1..Len(got') : got'[i] = IF i <= Len(got) THEN got[i] ELSE held[i - Len(got)].eol,
         next' = 0, held' = <<>>, Pending' <=> Pending, pc' \notin {"look_epoch", "looked"}
  PROVE  StreamInv(t)'
<1>. USE DEF FrameInv
<1>1. script \subseteq Nat \ {0} /\ script' = script /\ sent' \in Nat /\ next \in Nat /\ ~quiet /\ ~Skipping
  BY DEF ReaderTypes, SilenceInv, Skipping, InRun
<1>2. \A e : /\ (Excused(e) => Excused(e)') /\ (SkipExcused(e) => SkipExcused(e)')
             /\ LineBefore(e)' = LineBefore(e) /\ Begins(e)' = Begins(e)
  BY ExcusedStays, PlacesStay
<1>3. \A e : Short(e)' <=> Short(e) BY <1>2 DEF Short
<1>4. GotInv(c) /\ HeldInv(c) /\ SyncInv(c) BY DEF StreamInv
<1>5. got \in Seq(Nat) /\ held \in Seq(Completed) BY DEF ReaderTypes
<1>6. PICK n \in Nat, m \in Nat : n = Len(got) /\ m = Len(held) /\ m <= 2
  <2>1. Len(held) + inFlight <= 2 /\ inFlight \in 0..2 BY DEF LoansInv, ReaderTypes
  <2>. QED BY <1>5, <2>1
<1>7. \A i \in 1..m : held[i].eol \in script /\ held[i].eol \in Nat /\ c < held[i].eol /\ held[i].eol <= t
  BY <1>1, <1>4, <1>6 DEF HeldInv
<1>8. \A i \in 1..n : got[i] \in Nat /\ got[i] <= c BY <1>4, <1>5, <1>6 DEF GotInv
<1>9. GotInv(t)'
  <2>1. \A i \in 1..n + m : got'[i] = IF i <= n THEN got[i] ELSE held[i - n].eol BY <1>6
  <2>2. ASSUME NEW i \in 1..n + m PROVE got'[i] <= t
    <3>1. CASE i <= n
      <4>1. i \in 1..n BY <3>1
      <4>2. got'[i] = got[i] /\ got[i] \in Nat /\ got[i] <= c BY <1>8, <2>1, <3>1, <4>1
      <4>. QED BY <1>1, <4>2
    <3>2. CASE ~(i <= n)
      <4>1. PICK j \in 1..m : j = i - n BY <3>2
      <4>. QED BY <1>7, <2>1, <3>2, <4>1
    <3>. QED BY <3>1, <3>2
  <2>3. ASSUME NEW i \in 1..n + m - 1 PROVE got'[i] < got'[i + 1]
    <3>0. i \in 1..n + m /\ i + 1 \in 1..n + m OBVIOUS
    <3>1. CASE i < n BY <1>4, <1>6, <2>1, <3>0, <3>1 DEF GotInv
    <3>2. CASE i = n
      <4>1. n \in 1..n /\ 1 \in 1..m /\ (n + 1) - n = 1 BY <3>2
      <4>2. got'[i] = got[n] BY <2>1, <3>0, <3>2
      <4>3. got'[i + 1] = held[(n + 1) - n].eol BY <2>1, <3>0, <3>2
      <4>4. got'[i + 1] = held[1].eol BY <4>1, <4>3
      <4>. QED BY <1>7, <1>8, <4>1, <4>2, <4>4
    <3>3. CASE i > n BY <1>4, <1>6, <2>1, <3>0, <3>3 DEF HeldInv
    <3>. QED BY <3>1, <3>2, <3>3
  <2>4. ASSUME NEW e \in script, e <= t, Short(e)'
        PROVE  Delivered(e)' \/ Excused(e)'
    <3>1. CASE e <= c
      <4>1. Delivered(e) \/ Excused(e) BY <1>3, <1>4, <2>4, <3>1 DEF GotInv
      <4>2. ASSUME Delivered(e) PROVE Delivered(e)'
        <5>1. PICK i \in 1..n : got[i] = e BY <1>6, <4>2 DEF Delivered
        <5>2. i \in 1..n + m /\ got'[i] = e BY <2>1, <5>1
        <5>. QED BY <1>6, <5>2 DEF Delivered
      <4>. QED BY <1>2, <4>1, <4>2
    <3>2. CASE ~(e <= c)
      <4>1. e \in Nat /\ c < e BY <1>1, <3>2
      <4>2. HeldNow(e) \/ Excused(e) BY <1>3, <1>4, <2>4, <4>1 DEF HeldInv
      <4>3. ASSUME HeldNow(e) PROVE Delivered(e)'
        <5>1. PICK j \in 1..m : held[j].eol = e BY <1>6, <4>3 DEF HeldNow
        <5>2. PICK i \in 1..n + m : i = n + j OBVIOUS
        <5>3. i - n = j /\ ~(i <= n) BY <5>2
        <5>4. got'[i] = e BY <2>1, <5>1, <5>3
        <5>. QED BY <1>6, <5>4 DEF Delivered
      <4>. QED BY <1>2, <4>2, <4>3
    <3>. QED BY <3>1, <3>2
  <2>5. Len(got') = n + m BY <1>6
  <2>. QED BY <2>2, <2>3, <2>4, <2>5 DEF GotInv
<1>10. Len(held') = 0 /\ t + next' = t OBVIOUS
<1>11. HeldInv(t)'
  <2>1. \A e \in script : ~(t < e /\ e <= t + next')
    <3>1. \A e \in script : e \in Nat BY <1>1
    <3>. QED BY <3>1
  <2>. QED BY <1>1, <1>10, <2>1 DEF HeldInv
<1>12. SyncInv(t)'
  <2>1. Assembled(t)' <=> Assembled(t) BY <1>2 DEF Assembled
  <2>2. Pending => next = 0 /\ t = c BY <1>1 DEF DrainInv
  <2>3. ~resync' /\ ~Pending' => Assembled(t)' BY <1>4, <2>1 DEF SyncInv
  <2>4. resync' => SkipExcused(t)' BY <1>1, <1>2, <1>4 DEF SyncInv
  <2>5. Pending' => SkipExcused(t)' BY <1>1, <1>2, <1>4, <2>2 DEF SyncInv
  <2>. QED BY <1>1, <1>10, <2>3, <2>4, <2>5 DEF SyncInv
<1>13. t + next' <= sent' BY <1>10 DEF StreamInv
<1>. QED BY <1>9, <1>11, <1>12, <1>13 DEF StreamInv

\* A silence follows the last byte sent: no line is excused by a byte lost before it any more.
LEMMA StreamSilence ==
  ASSUME FrameInv, FrameInv', ChannelInv, NEW c \in Nat, NEW g \in Nat, Cursor(c, g), StreamInv(c), Silence
  PROVE  StreamInv(c)'
<1>. USE DEF FrameInv
<1>1. /\ quiet /\ ~silent /\ pc = "idle" /\ Unread = 0 /\ LineStart(sent) /\ silent' = TRUE
      /\ heard' = heard \cup {sent}
      /\ UNCHANGED <<ringVars, hardwareVars, streamVars, lost, drainVars, lineVars, loanVars, resync, seenSkips, quiet>>
  BY DEF Silence, InDispatch, LineStart, EndOfLine
<1>2. script \subseteq Nat \ {0} /\ sent \in Nat /\ next = 0 /\ held = <<>> /\ resync /\ ~Pending
  BY <1>1 DEF ReaderTypes, DrainInv, SilenceInv, InRun
<1>3. c <= sent /\ lost \subseteq 1..sent /\ GotInv(c) /\ (Intact => SyncInv(c)) BY <1>2 DEF StreamInv
<1>4. c = sent \/ DropUnseen
  <2>1. CASE OnHardware BY <1>1, <2>1 DEF Cursor, ChannelInv, Unread, ReaderTypes
  <2>2. CASE ~OnHardware BY <1>1, <2>2, RingSilence DEF Cursor, DropUnseen, InHand, InRun
  <2>. QED BY <2>1, <2>2
<1>. USE DEF ringVars, hardwareVars, streamVars, drainVars, lineVars, loanVars
<1>5. (Pending' <=> Pending) /\ (DropUnseen' <=> DropUnseen) /\ (Intact' <=> Intact)
  BY <1>1 DEF Pending, Skips, OnHardware, DropUnseen, Dropped, InHand, InRun, Intact
<1>6. \A e : LineBefore(e)' = LineBefore(e) /\ Begins(e)' = Begins(e) BY <1>1, PlacesStay
<1>7. GotInv(c)'
  <2>1. \A e : (Short(e)' <=> Short(e)) /\ (Delivered(e)' <=> Delivered(e)) BY <1>1, <1>6 DEF Short, Delivered
  <2>2. ASSUME NEW e \in script, e <= c, Excused(e)
        PROVE  Excused(e)'
    <3>1. e \in Nat /\ e > 0 BY <1>2
    <3>2. LineBefore(e) < e /\ LineBefore(e) \in Nat BY <1>2, <3>1, LineBeforeIs
    <3>3. LineBefore(e) # sent BY <1>2, <1>3, <2>2, <3>1, <3>2
    <3>4. LineBefore(e)' = LineBefore(e) /\ LineBefore(LineBefore(e))' = LineBefore(LineBefore(e)) BY <1>6
    <3>5. LineBefore(e) \notin heard => LineBefore(e)' \notin heard' BY <1>1, <3>3, <3>4
    <3>. QED BY <1>1, <2>2, <3>4, <3>5 DEF Excused
  <2>. QED BY <1>1, <1>3, <2>1, <2>2 DEF GotInv
<1>8. Len(held') = 0 /\ c + next' = c /\ c + next = c BY <1>1, <1>2
<1>9. HeldInv(c)'
  <2>1. \A e \in script : ~(c < e /\ e <= c + next')
    <3>1. \A e \in script : e \in Nat BY <1>2
    <3>. QED BY <1>8, <3>1
  <2>. QED BY <1>1, <1>8, <2>1 DEF HeldInv
<1>10. ASSUME Intact PROVE SyncInv(c)'
  <2>1. SkipExcused(c)' \/ (quiet' /\ silent' /\ c \in heard')
    <3>1. CASE c = sent BY <1>1, <3>1
    <3>2. CASE c # sent
      <4>1. SkipExcused(c) BY <1>1, <1>2, <1>3, <1>8, <1>10 DEF SyncInv
      <4>2. Begins(c) \in Nat /\ Begins(c) <= c BY <1>2, BeginsIs
      <4>3. Begins(c) # sent BY <1>2, <1>3, <3>2, <4>2
      <4>4. Begins(c)' = Begins(c) /\ LineBefore(Begins(c))' = LineBefore(Begins(c)) BY <1>6
      <4>5. Begins(c) \notin heard => Begins(c)' \notin heard' BY <1>1, <4>3, <4>4
      <4>6. SkipExcused(c)' BY <1>1, <4>1, <4>4, <4>5 DEF SkipExcused
      <4>. QED BY <4>6
    <3>. QED BY <3>1, <3>2
  <2>2. ~DropUnseen' => LineStart(c)' BY <1>1, <1>4, <1>5 DEF LineStart
  <2>. QED BY <1>1, <1>2, <1>5, <1>8, <2>1, <2>2 DEF SyncInv, DropUnseen
<1>11. c + next' <= sent' /\ lost' \subseteq 1..sent' BY <1>1, <1>3, <1>8
<1>12. pc' = "idle" BY <1>1
<1>. QED BY <1>5, <1>7, <1>9, <1>10, <1>11, <1>12 DEF StreamInv

\* A look that found no byte.
LEMMA StreamFoundEmpty ==
  ASSUME FrameInv, FrameInv', NEW c \in Nat, StreamInv(c), FoundEmpty
  PROVE  StreamInv(c)'
<1>. USE DEF FrameInv
<1>1. /\ pc = "looked" /\ run.n = 0 /\ pc' = "end" /\ UNCHANGED <<next, held>>
      /\ UNCHANGED <<ringVars, hardwareVars, streamVars, lost, loanVars, active, heard>>
      /\ IF Pending THEN SeeGap ELSE UNCHANGED <<seenSkips, assembler, resync>>
      /\ quiet' = IF resync \/ Pending THEN TRUE ELSE quiet
      /\ silent' = IF resync \/ Pending THEN FALSE ELSE silent
  BY DEF FoundEmpty, DrainTo, GapSeen, Pending
<1>2. script \subseteq Nat \ {0} /\ next = 0 /\ held = <<>> /\ ~Skipping
  BY <1>1 DEF ReaderTypes, DrainInv, InRun, Skipping
<1>. USE DEF ringVars, hardwareVars, streamVars, loanVars
<1>3. GotInv(c)' BY <1>1, GotStays DEF StreamInv
<1>4. Len(held') = 0 /\ c + next' = c /\ c + next = c BY <1>1, <1>2
<1>5. HeldInv(c)'
  <2>1. \A e \in script : ~(c < e /\ e <= c + next')
    <3>1. \A e \in script : e \in Nat BY <1>2
    <3>. QED BY <1>4, <3>1
  <2>. QED BY <1>1, <1>4, <2>1 DEF HeldInv
<1>6. Intact' <=> Intact BY <1>1 DEF Intact, OnHardware
<1>7. ~Pending' BY <1>1 DEF Pending, Skips, SeeGap, OnHardware
<1>8. \A e : (SkipExcused(e) => SkipExcused(e)') /\ Begins(e)' = Begins(e) BY <1>1, ExcusedStays, PlacesStay
<1>9. ASSUME Intact PROVE SyncInv(c)'
  <2>0. SyncInv(c) BY <1>9 DEF StreamInv
  <2>1. CASE Pending
    <3>1. SkipExcused(c) BY <1>2, <2>0, <2>1 DEF SyncInv
    <3>2. resync' /\ silent' = FALSE BY <1>1, <2>1 DEF SeeGap
    <3>. QED BY <1>4, <1>7, <1>8, <3>1, <3>2 DEF SyncInv
  <2>2. CASE ~Pending /\ resync
    <3>1. c \notin heard BY <1>1, <2>2 DEF StreamInv
    <3>2. SkipExcused(c) BY <1>4, <2>0, <2>2, <3>1 DEF SyncInv
    <3>3. resync' /\ silent' = FALSE BY <1>1, <2>2
    <3>. QED BY <1>4, <1>7, <1>8, <3>2, <3>3 DEF SyncInv
  <2>3. CASE ~Pending /\ ~resync
    <3>1. Assembled(c) BY <1>4, <2>0, <2>3 DEF SyncInv
    <3>2. assembler' = assembler /\ active' = active /\ ~resync' /\ quiet' = quiet /\ ~quiet
      BY <1>1, <2>3 DEF SilenceInv
    <3>3. Assembled(c)' BY <1>8, <3>1, <3>2 DEF Assembled
    <3>. QED BY <1>4, <1>7, <3>2, <3>3 DEF SyncInv
  <2>. QED BY <2>1, <2>2, <2>3
<1>10. c + next' <= sent' /\ lost' \subseteq 1..sent' BY <1>1 DEF StreamInv
<1>. QED BY <1>1, <1>3, <1>5, <1>6, <1>9, <1>10 DEF StreamInv

\* A run found.
LEMMA StreamFoundRun ==
  ASSUME FrameInv, FrameInv', AssemblersInv, NEW c \in Nat, StreamInv(c), FoundRun
  PROVE  StreamInv(c)'
<1>. USE DEF FrameInv
<1>1. /\ pc = "looked" /\ run.n > 0 /\ next' = 0 /\ held' = <<>>
      /\ UNCHANGED <<ringVars, hardwareVars, streamVars, lost, loanVars, active, heard>>
      /\ IF Pending THEN SeeGap
         ELSE resync' = (resync /\ ~(quiet /\ silent)) /\ UNCHANGED <<seenSkips, assembler>>
  BY DEF FoundRun, GapSeen, Pending, ReaderTypes
<1>2. script \subseteq Nat \ {0} /\ next = 0 /\ ~Skipping /\ InHand /\ resync \in BOOLEAN
  BY <1>1 DEF ReaderTypes, DrainInv, InRun, Skipping, InHand
<1>11. ~Pending' /\ quiet' = FALSE /\ pc' \in {"gap", "read"} BY FrameFoundRun DEF FoundRun
<1>. USE DEF ringVars, hardwareVars, streamVars, loanVars
<1>3. GotInv(c)' BY <1>1, GotStays DEF StreamInv
<1>4. Len(held') = 0 /\ c + next' = c /\ c + next = c BY <1>1, <1>2
<1>5. HeldInv(c)'
  <2>1. \A e \in script : ~(c < e /\ e <= c + next')
    <3>1. \A e \in script : e \in Nat BY <1>2
    <3>. QED BY <1>4, <3>1
  <2>. QED BY <1>1, <1>4, <2>1 DEF HeldInv
<1>6. Intact' <=> Intact BY <1>1 DEF Intact, OnHardware
<1>8. \A e : (SkipExcused(e) => SkipExcused(e)') /\ Begins(e)' = Begins(e) BY <1>1, ExcusedStays, PlacesStay
<1>9. ASSUME Intact PROVE SyncInv(c)'
  <2>0. SyncInv(c) BY <1>9 DEF StreamInv
  <2>1. CASE Pending
    <3>1. SkipExcused(c) BY <1>2, <2>0, <2>1 DEF SyncInv
    <3>2. resync' BY <1>1, <2>1 DEF SeeGap
    <3>. QED BY <1>4, <1>8, <1>11, <3>1, <3>2 DEF SyncInv
  <2>2. CASE ~Pending /\ resync /\ quiet /\ silent
    <3>1. LineStart(c) BY <1>2, <2>0, <2>2 DEF SyncInv, DropUnseen
    <3>2. Begins(c) = c BY <1>2, <3>1, BeginsIs
    <3>3. Rests(assembler[active]) BY <2>2 DEF AssemblersInv
    <3>4. assembler' = assembler /\ active' = active /\ resync' = FALSE BY <1>1, <2>2
    <3>5. Assembled(c)' BY <1>8, <3>2, <3>3, <3>4 DEF Assembled, Rests
    <3>. QED BY <1>4, <1>11, <3>4, <3>5 DEF SyncInv
  <2>3. CASE ~Pending /\ resync /\ ~(quiet /\ silent)
    <3>1. SkipExcused(c) BY <1>4, <2>0, <2>3 DEF SyncInv
    <3>2. resync' = TRUE BY <1>1, <1>2, <2>3
    <3>. QED BY <1>4, <1>8, <1>11, <3>1, <3>2 DEF SyncInv
  <2>4. CASE ~Pending /\ ~resync
    <3>1. Assembled(c) BY <1>4, <2>0, <2>4 DEF SyncInv
    <3>2. assembler' = assembler /\ active' = active /\ resync' = FALSE BY <1>1, <1>2, <2>4
    <3>3. Assembled(c)' BY <1>8, <3>1, <3>2 DEF Assembled
    <3>. QED BY <1>4, <1>11, <3>2, <3>3 DEF SyncInv
  <2>. QED BY <2>1, <2>2, <2>3, <2>4
<1>10. c + next' <= sent' /\ lost' \subseteq 1..sent' BY <1>1, <1>4 DEF StreamInv
<1>. QED BY <1>3, <1>5, <1>6, <1>9, <1>10, <1>11 DEF StreamInv

\* A byte skipped after a gap.
LEMMA StreamSkipByte ==
  ASSUME FrameInv, FrameInv', ChannelInv, AssemblersInv, NEW c \in Nat, NEW g \in Nat, Cursor(c, g), StreamInv(c), SkipByte
  PROVE  StreamInv(c)'
<1>. USE DEF FrameInv
<1>1. /\ pc = "gap" /\ pc' = "gap" /\ next # run.n /\ next' = next + 1 /\ resync
      /\ resync' = ~(ByteAt(run, next) \in script)
      /\ UNCHANGED <<ringVars, hardwareVars, streamVars, lost, lineVars, loanVars, seenSkips, quiet, silent, heard, run, held>>
  BY DEF SkipByte, GapOver, EndOfLine
<1>. USE DEF ringVars, hardwareVars, streamVars, lineVars, loanVars
<1>2. /\ script \subseteq Nat \ {0} /\ next \in Nat /\ run.n \in Nat /\ next < run.n /\ held = <<>> /\ ~quiet /\ sent \in Nat
  BY <1>1 DEF ReaderTypes, DrainInv, SilenceInv, InRun
<1>3. ~Pending'
  <2>1. ~Pending BY <1>1, <1>2 DEF DrainInv, InRun
  <2>. QED BY <1>1, <2>1 DEF Pending, Skips, OnHardware
<1>4. PICK k \in Nat, k1 \in Nat : k = c + next /\ k1 = k + 1 /\ c + next' = k1 BY <1>1, <1>2
<1>5. k1 <= sent /\ (Intact => ByteAt(run, next) = k1) BY <1>1, <1>2, <1>4, BytesInHand
<1>6. \A e : /\ (Excused(e) => Excused(e)') /\ (SkipExcused(e) => SkipExcused(e)')
             /\ LineBefore(e)' = LineBefore(e) /\ Begins(e)' = Begins(e)
  BY <1>1, ExcusedStays, PlacesStay
<1>7. GotInv(c)' BY <1>1, GotStays DEF StreamInv
<1>8. Intact' <=> Intact BY <1>1 DEF Intact, OnHardware
<1>9. ASSUME Intact PROVE HeldInv(c)' /\ SyncInv(c)'
  <2>1. SyncInv(c) /\ HeldInv(c) BY <1>9 DEF StreamInv
  <2>2. SkipExcused(k) BY <1>1, <1>2, <1>4, <2>1 DEF SyncInv
  <2>3. /\ LineStart(k1) => Begins(k1) = k1
        /\ k1 \notin script => Begins(k1) = Begins(k)
    BY <1>2, <1>4, BeginsIs
  <2>4. Len(held') = 0 BY <1>1, <1>2
  <2>5. ASSUME NEW e \in script, c < e, e <= c + next', Short(e)'
        PROVE  Excused(e)'
    <3>1. Short(e) BY <1>6, <2>5 DEF Short
    <3>2. CASE e = k1
      <4>1. Begins(k) = LineBefore(e) BY <1>4, <3>2 DEF Begins
      <4>2. Excused(e)
        <5>1. PICK b \in lost : b <= k /\ \/ b > Begins(k)
                                          \/ b > LineBefore(Begins(k)) /\ Begins(k) \notin heard
          BY <2>2 DEF SkipExcused
        <5>2. b \in Nat BY DEF StreamInv
        <5>3. b <= e BY <1>4, <3>2, <5>1, <5>2
        <5>. QED BY <4>1, <5>1, <5>3 DEF Excused
      <4>. QED BY <1>6, <4>2
    <3>3. CASE e # k1
      <4>1. e <= c + next BY <1>2, <1>4, <2>5, <3>3
      <4>2. HeldNow(e) \/ Excused(e) BY <2>1, <2>5, <3>1, <4>1 DEF HeldInv
      <4>3. ~HeldNow(e)
        <5>1. Len(held) = 0 BY <1>2
        <5>. QED BY <5>1 DEF HeldNow
      <4>. QED BY <1>6, <4>2, <4>3
    <3>. QED BY <3>2, <3>3
  <2>6. HeldInv(c)' BY <1>1, <2>4, <2>5 DEF HeldInv
  <2>7. CASE k1 \in script
    <3>1. resync' = FALSE BY <1>1, <1>5, <1>9, <2>7
    <3>2. Rests(assembler[active]) BY <1>1 DEF AssemblersInv
    <3>3. Begins(k1)' = k1 BY <1>6, <2>3, <2>7 DEF LineStart
    <3>4. Assembled(k1)' BY <1>1, <3>2, <3>3 DEF Assembled, Rests
    <3>. QED BY <1>1, <1>2, <1>3, <1>4, <2>6, <3>1, <3>4 DEF SyncInv
  <2>8. CASE k1 \notin script
    <3>1. resync' = TRUE BY <1>1, <1>5, <1>9, <2>8
    <3>2. SkipExcused(k1)
      <4>1. PICK b \in lost : b <= k /\ \/ b > Begins(k)
                                        \/ b > LineBefore(Begins(k)) /\ Begins(k) \notin heard
        BY <2>2 DEF SkipExcused
      <4>2. b \in Nat BY DEF StreamInv
      <4>3. b <= k1 BY <1>4, <4>1, <4>2
      <4>. QED BY <2>3, <2>8, <4>1, <4>3 DEF SkipExcused
    <3>3. SkipExcused(k1)' BY <1>6, <3>2
    <3>. QED BY <1>1, <1>2, <1>3, <1>4, <2>6, <3>1, <3>3 DEF SyncInv
  <2>. QED BY <2>7, <2>8
<1>10. c + next' <= sent' /\ lost' \subseteq 1..sent' BY <1>1, <1>4, <1>5 DEF StreamInv
<1>. QED BY <1>1, <1>7, <1>8, <1>9, <1>10 DEF StreamInv

\* A byte read goes on with the line begun, or ends it.
LEMMA LineGoesOn ==
  ASSUME FrameInv, AssemblersInv, ReadByte, NEW k \in Nat, NEW b \in Nat, b = k + 1, ByteAt(run, next) = b, Assembled(k)
  PROVE  /\ Assembled(b)'
         /\ b \in script => IF assembler[active].dropping THEN ~Short(b) ELSE IsLine(assembler'[active].text, b)
<1>. USE DEF FrameInv
<1>. DEFINE a == assembler[active]
            p == assembler'[active]
            text == IF a.done THEN <<>> ELSE a.text
<1>1. /\ a \in Assembler /\ p \in Assembler /\ (a.dropping => a.done) /\ (p.dropping => p.done)
      /\ assembler'[1 - active] = assembler[1 - active]
      /\ (b \in script => Rests(p) /\ (~a.dropping => p.text = text))
      /\ (a.dropping => p.done /\ (p.dropping <=> ~(b \in script)))
      /\ (~a.dropping /\ ~(b \in script) =>
            IF Len(text) = MaxChars THEN p.done /\ p.dropping
            ELSE ~p.done /\ ~p.dropping /\ p.text = Append(text, b))
      /\ (IF b \in script /\ ~a.dropping THEN active' = 1 - active ELSE active' = active)
  BY ReadIs
<1>2. script \subseteq Nat \ {0} /\ script' = script BY DEF ReaderTypes, ReadByte, streamVars
<1>3. PICK q \in Nat : q = Begins(k) /\ q <= k BY <1>2, BeginsIs
<1>4. LineBefore(b) = q BY <1>3 DEF Begins
<1>5. \A e : Begins(e)' = Begins(e) /\ LineBefore(e)' = LineBefore(e) BY <1>2, PlacesStay
<1>6. (b \in script => Begins(b) = b) /\ (b \notin script => Begins(b) = q)
  BY <1>2, <1>3, BeginsIs DEF LineStart
<1>7. MaxChars \in Nat \ {0} BY ReaderAssumption
<1>8. /\ a.dropping => k - q > MaxChars
      /\ ~a.dropping /\ a.done => k = q
      /\ ~a.dropping /\ ~a.done =>
           /\ k > q /\ k - q <= MaxChars /\ Len(a.text) = k - q /\ \A i \in 1..Len(a.text) : a.text[i] = q + i
  BY <1>3 DEF Assembled
<1>9. a.done \in BOOLEAN /\ a.dropping \in BOOLEAN /\ a.text \in Seq(Nat) BY <1>1 DEF Assembler
<1>. HIDE DEF a, p
<1>10. text \in Seq(Nat) BY <1>9
<1>11. ~a.dropping => Len(text) = k - q /\ \A i \in 1..Len(text) : text[i] = q + i
  <2>1. CASE a.done BY <1>3, <1>8, <2>1
  <2>2. CASE ~a.done BY <1>8, <2>2
  <2>. QED BY <2>1, <2>2
<1>. HIDE DEF text
<1>12. ASSUME b \in script PROVE Assembled(b)'
  <2>1. Begins(b)' = b BY <1>5, <1>6, <1>12
  <2>2. Rests(assembler'[active'])
    <3>1. Rests(assembler[1 - active]) BY DEF AssemblersInv
    <3>2. CASE a.dropping BY <1>1, <1>12, <3>2 DEF p
    <3>3. CASE ~a.dropping BY <1>1, <1>12, <3>1, <3>3 DEF Rests
    <3>. QED BY <3>2, <3>3
  <2>. QED BY <2>1, <2>2 DEF Assembled, Rests
<1>13. ASSUME b \notin script PROVE Assembled(b)'
  <2>1. Begins(b)' = q /\ active' = active BY <1>1, <1>5, <1>6, <1>13
  <2>2. PICK r : r = p OBVIOUS
  <2>3. assembler'[active'] = r BY <2>1, <2>2 DEF p
  <2>4. /\ r.dropping => b - q > MaxChars
        /\ ~r.dropping /\ r.done => b = q
        /\ ~r.dropping /\ ~r.done =>
             /\ b > q /\ b - q <= MaxChars /\ Len(r.text) = b - q
             /\ \A i \in 1..Len(r.text) : r.text[i] = q + i
    <3>1. CASE a.dropping
      <4>1. r.dropping /\ r.done BY <1>1, <1>13, <2>2, <3>1
      <4>2. b - q > MaxChars BY <1>3, <1>7, <1>8, <3>1
      <4>. QED BY <4>1, <4>2
    <3>2. CASE ~a.dropping /\ Len(text) = MaxChars
      <4>1. r.dropping /\ r.done BY <1>1, <1>13, <2>2, <3>2
      <4>2. b - q > MaxChars BY <1>3, <1>7, <1>11, <3>2
      <4>. QED BY <4>1, <4>2
    <3>3. CASE ~a.dropping /\ Len(text) # MaxChars
      <4>1. ~r.dropping /\ ~r.done /\ r.text = Append(text, b) BY <1>1, <1>13, <2>2, <3>3
      <4>2. PICK n \in Nat : n = Len(text) /\ n = k - q BY <1>10, <1>11, <3>3
      <4>3. n <= MaxChars BY <1>7, <1>8, <3>3, <4>2
      <4>4. Len(r.text) = n + 1 /\ r.text[n + 1] = b /\ \A i \in 1..n : r.text[i] = text[i]
        <5>1. PICK t \in Seq(Nat) : t = text BY <1>10
        <5>2. PICK u : u = Append(t, b) OBVIOUS
        <5>4. Len(t) = n BY <4>2, <5>1
        <5>5. Len(u) = Len(t) + 1 /\ u[Len(t) + 1] = b /\ \A i \in 1..Len(t) : u[i] = t[i] BY <5>2
        <5>3. Len(u) = n + 1 /\ u[n + 1] = b /\ \A i \in 1..n : u[i] = t[i] BY <5>4, <5>5
        <5>. QED BY <4>1, <5>1, <5>2, <5>3
      <4>5. b - q = n + 1 /\ b > q /\ b - q <= MaxChars /\ b = q + (n + 1)
        BY <1>3, <1>7, <3>3, <4>2, <4>3
      <4>6. ASSUME NEW i \in 1..n + 1 PROVE r.text[i] = q + i BY <1>11, <3>3, <4>2, <4>4, <4>5
      <4>. QED BY <4>1, <4>4, <4>5, <4>6
    <3>. QED BY <3>1, <3>2, <3>3
  <2>. QED BY <2>1, <2>3, <2>4 DEF Assembled
<1>14. ASSUME b \in script, a.dropping PROVE ~Short(b) BY <1>3, <1>4, <1>7, <1>8, <1>14 DEF Short
<1>15. ASSUME b \in script, ~a.dropping PROVE IsLine(p.text, b) BY <1>1, <1>3, <1>4, <1>11, <1>15 DEF IsLine
<1>. QED BY <1>12, <1>13, <1>14, <1>15 DEF a, p

\* A byte read.
LEMMA StreamReadByte ==
  ASSUME FrameInv, FrameInv', ChannelInv, BuffersInv, AssemblersInv, NEW c \in Nat, NEW g \in Nat, Cursor(c, g),
         StreamInv(c), ReadByte
  PROVE  StreamInv(c)'
<1>. USE DEF FrameInv
<1>1. /\ pc = "read" /\ pc' = "read" /\ next # run.n /\ next' = next + 1
      /\ UNCHANGED <<ringVars, hardwareVars, streamVars, lost, loanVars, resync, seenSkips, quiet, silent, heard, run>>
  BY DEF ReadByte, RunOver, gapVars
<1>2. PICK b : b = ByteAt(run, next) OBVIOUS
<1>3. /\ assembler'[1 - active] = assembler[1 - active]
      /\ IF b \in script /\ ~assembler[active].dropping
         THEN active' = 1 - active /\ held' = Append(held, [buffer |-> active, eol |-> b])
         ELSE active' = active /\ held' = held
      /\ ~resync /\ Len(held) + inFlight <= 1
  BY <1>2, ReadIs
<1>. USE DEF ringVars, hardwareVars, streamVars, loanVars
<1>4. /\ script \subseteq Nat \ {0} /\ next \in Nat /\ run.n \in Nat /\ next < run.n /\ ~quiet /\ sent \in Nat
      /\ held \in Seq(Completed) /\ active \in {0, 1} /\ inFlight \in 0..2
  BY <1>1 DEF ReaderTypes, DrainInv, SilenceInv, InRun, Buffers
<1>5. ~Pending /\ ~Pending'
  <2>1. ~Pending BY <1>1, <1>4 DEF DrainInv, InRun
  <2>. QED BY <1>1, <2>1 DEF Pending, Skips, OnHardware
<1>6. PICK k \in Nat, k1 \in Nat : k = c + next /\ k1 = k + 1 /\ c + next' = k1 BY <1>1, <1>4
<1>7. k1 <= sent /\ (Intact => b = k1) BY <1>1, <1>2, <1>4, <1>6, BytesInHand
<1>8. \A e : /\ (Excused(e) => Excused(e)') /\ LineBefore(e)' = LineBefore(e)
  BY <1>1, ExcusedStays, PlacesStay
<1>9. GotInv(c)' BY <1>1, GotStays DEF StreamInv
<1>10. Intact' <=> Intact BY <1>1 DEF Intact, OnHardware
<1>11. ASSUME Intact PROVE HeldInv(c)' /\ SyncInv(c)'
  <2>1. SyncInv(c) /\ HeldInv(c) /\ b = k1 /\ b \in Nat /\ b = k + 1 BY <1>6, <1>7, <1>11 DEF StreamInv
  <2>2. Assembled(k) BY <1>3, <1>5, <1>6, <2>1 DEF SyncInv
  <2>3. Assembled(b)' /\ (b \in script => IF assembler[active].dropping THEN ~Short(b) ELSE IsLine(assembler'[active].text, b))
    BY <1>2, <2>1, <2>2, LineGoesOn
  <2>4. SyncInv(c)'
    <3>1. ~resync' /\ ~quiet' BY <1>1, <1>3, <1>4
    <3>. QED BY <1>5, <1>6, <2>1, <2>3, <3>1 DEF SyncInv
  <2>5. PICK n \in Nat : n = Len(held) /\ n <= 1 BY <1>3, <1>4
  <2>6. \A i \in 1..n : held[i].buffer = 1 - active
    <3>. TAKE i \in 1..n
    <3>1. i = 1 /\ n = 1 BY <2>5
    <3>5. Len(held) # 0 BY <2>5, <3>1
    <3>2. held # <<>> BY <3>5, NotEmpty
    <3>3. active = 1 - Base /\ held[1].buffer = Base BY <2>5, <3>1, <3>2 DEF BuffersInv
    <3>4. Base \in {0, 1} BY <1>4 DEF Base, ReaderTypes, Buffers
    <3>. QED BY <3>1, <3>3, <3>4
  <2>7. ASSUME NEW i \in 1..n
        PROVE  /\ held[i].eol \in script /\ c < held[i].eol /\ held[i].eol <= k /\ held[i].eol \in Nat
               /\ IsLine(assembler'[held[i].buffer].text, held[i].eol)
    <3>1. /\ held[i].eol \in script /\ c < held[i].eol /\ held[i].eol <= c + next
          /\ IsLine(assembler[held[i].buffer].text, held[i].eol)
      BY <2>1, <2>5 DEF HeldInv
    <3>2. assembler'[held[i].buffer] = assembler[held[i].buffer] BY <1>3, <2>6
    <3>. QED BY <1>4, <1>6, <3>1, <3>2
  <2>8. \A t, e : IsLine(t, e) => IsLine(t, e)' BY <1>1, LineStays
  <2>9. \A e : (Short(e)' <=> Short(e)) BY <1>8 DEF Short
  <2>10. \A e \in script : c < e /\ e <= k /\ Short(e) => HeldNow(e) \/ Excused(e)
    BY <1>6, <2>1 DEF HeldInv
  <2>11. \A e \in script : e <= k1 => e <= k \/ e = b BY <1>4, <1>6, <2>1
  <2>13. CASE ~(b \in script /\ ~assembler[active].dropping)
    <3>1. held' = held /\ (b \in script => ~Short(b)) BY <1>3, <2>3, <2>13
    <3>2. \A e : HeldNow(e)' <=> HeldNow(e) BY <3>1 DEF HeldNow
    <3>3. \A e \in script : c < e /\ e <= k1 /\ Short(e)' => HeldNow(e)' \/ Excused(e)'
      BY <1>8, <2>9, <2>10, <2>11, <3>1, <3>2
    <3>4. ASSUME NEW i \in 1..n
          PROVE  /\ held'[i].eol \in script /\ c < held'[i].eol /\ held'[i].eol <= k1
                 /\ IsLine(assembler[held[i].buffer].text, held[i].eol)'
      BY <1>6, <2>7, <2>8, <3>1
    <3>5. Len(held') # 2 BY <2>5, <3>1
    <3>. QED BY <1>1, <1>6, <2>4, <2>5, <3>1, <3>3, <3>4, <3>5 DEF HeldInv
  <2>14. CASE b \in script /\ ~assembler[active].dropping
    <3>1. held' = Append(held, [buffer |-> active, eol |-> b]) /\ IsLine(assembler'[active].text, b)
      BY <1>3, <2>3, <2>14
    <3>2. /\ Len(held') = n + 1 /\ held'[n + 1] = [buffer |-> active, eol |-> b]
          /\ \A i \in 1..n : held'[i] = held[i]
      <4>1. PICK s \in Seq(Completed) : s = held BY <1>4
      <4>5. PICK x : x = [buffer |-> active, eol |-> b] OBVIOUS
      <4>2. PICK u : u = Append(s, x) OBVIOUS
      <4>3. Len(u) = Len(s) + 1 /\ u[Len(s) + 1] = x /\ \A i \in 1..Len(s) : u[i] = s[i] BY <4>2
      <4>4. u = held' /\ Len(s) = n BY <2>5, <3>1, <4>1, <4>2, <4>5
      <4>. QED BY <4>1, <4>3, <4>4, <4>5
    <3>3. ASSUME NEW e \in script, c < e, e <= k1, Short(e)'
          PROVE  HeldNow(e)' \/ Excused(e)'
      <4>1. CASE e = b BY <3>2, <4>1 DEF HeldNow
      <4>2. CASE e # b
        <5>1. HeldNow(e) \/ Excused(e) BY <2>9, <2>10, <2>11, <3>3, <4>2
        <5>2. ASSUME HeldNow(e) PROVE HeldNow(e)'
          <6>1. PICK i \in 1..n : held[i].eol = e BY <2>5, <5>2 DEF HeldNow
          <6>2. i \in 1..Len(held') /\ held'[i].eol = e BY <3>2, <6>1
          <6>. QED BY <6>2 DEF HeldNow
        <5>. QED BY <1>8, <5>1, <5>2
      <4>. QED BY <4>1, <4>2
    <3>4. ASSUME NEW i \in 1..n + 1
          PROVE  /\ held'[i].eol \in script /\ c < held'[i].eol /\ held'[i].eol <= k1
                 /\ IsLine(assembler[held[i].buffer].text, held[i].eol)'
      <4>1. CASE i = n + 1
        <5>1. held'[i].eol = b /\ held'[i].buffer = active BY <3>2, <4>1
        <5>2. IsLine(assembler'[held'[i].buffer].text, held'[i].eol) BY <3>1, <5>1
        <5>3. c < b BY <1>4, <1>6, <2>1
        <5>. QED BY <1>6, <2>1, <2>8, <2>14, <5>1, <5>2, <5>3
      <4>2. CASE i # n + 1 BY <1>6, <2>7, <2>8, <3>2, <4>2
      <4>. QED BY <4>1, <4>2
    <3>6. Len(held') = 2 => n = 1
      <4>1. Len(held') = n + 1 BY <3>2
      <4>2. n + 1 = 2 => n = 1 OBVIOUS
      <4>. QED BY <4>1, <4>2
    <3>5. ASSUME n = 1 PROVE held'[1].eol < held'[2].eol BY <2>1, <2>7, <3>2, <3>5
    <3>. QED BY <1>1, <1>6, <2>4, <3>2, <3>3, <3>4, <3>5, <3>6 DEF HeldInv
  <2>. QED BY <2>13, <2>14
<1>12. c + next' <= sent' /\ lost' \subseteq 1..sent' BY <1>1, <1>6, <1>7 DEF StreamInv
<1>. QED BY <1>1, <1>9, <1>10, <1>11, <1>12 DEF StreamInv

\* A step that leaves all of the ring alone.
LEMMA RingUntouched ==
  ASSUME NEW c, NEW g, ByteRingInv(c, g), UNCHANGED <<ringVars, sent, lost, heard, pc, run, read1, ring>>
  PROVE  ByteRingInv(c, g)'
<1>1. Queued' = Queued /\ (\A i : Item(i)' = Item(i)) /\ (Dropped' <=> Dropped)
  BY DEF Queued, Item, Dropped, ringVars
<1>2. RingBehind(c)' BY <1>1 DEF ByteRingInv, RingBehind
<1>3. RingWhole(c)' BY <1>1 DEF ByteRingInv, RingWhole, Skipping, InHand, InRun
<1>4. RingSpanned(c)' BY <1>1 DEF ByteRingInv, RingSpanned, InHand, InRun, ringVars
<1>5. pc = "jump" => RingLeap(c, read1, g)' BY <1>1 DEF ByteRingInv, RingLeap
<1>. QED BY <1>2, <1>3, <1>4, <1>5 DEF ByteRingInv

\* What the stream is read by, in a step.
StreamKept ==
  /\ UNCHANGED <<ring, script, got, held, assembler, active, resync, quiet, silent, heard, next, seenSkips>>

\* The interrupt's byte.
LEMMA CursorReceive ==
  ASSUME FrameInv, FrameInv', NEW c \in Nat, NEW g \in Nat, Cursor(c, g), StreamInv(c), Receive
  PROVE  CursorInv'
<1>. USE DEF FrameInv
<1>1. /\ ~OnHardware /\ sent' = sent + 1 /\ StreamKept /\ UNCHANGED <<pc, run, seen, hardwareVars>>
      /\ (epoch' = epoch /\ lost' = lost) \/ (Lost /\ lost' = lost \cup {sent + 1})
  BY DEF Receive, drainVars, lineVars, gapVars, StreamKept
<1>2. sent \in Nat /\ next \in Nat BY DEF ReaderTypes
<1>. USE DEF StreamKept
<1>3. ~OnHardware' BY <1>1 DEF OnHardware
<1>4. Cursor(c, g)' BY <1>1, <1>3, RingReceives DEF Cursor
<1>5. Dropped => Dropped'
  <2>1. CASE epoch' = epoch BY <1>1, <2>1 DEF Dropped
  <2>2. CASE Lost
    <3>1. EpochMod \in Nat \ {0} /\ EpochMod > 1 /\ seen \in 0..EpochMod - 1 BY RingAssumption DEF ReaderTypes
    <3>2. (seen + 1) % EpochMod = (IF seen + 1 < EpochMod THEN seen + 1 ELSE seen + 1 - EpochMod)
      BY <3>1, 1 \in 0..EpochMod, Turned
    <3>. QED BY <1>1, <2>2, <3>1, <3>2 DEF Lost, Dropped
  <2>. QED BY <1>1, <2>1, <2>2
<1>6. (Pending' <=> Pending) /\ (Skipping' <=> Skipping) /\ (InHand' <=> InHand) /\ (Intact' <=> Intact)
  BY <1>1, <1>3 DEF Pending, Skips, Skipping, InHand, InRun, Intact
<1>7. lost \subseteq lost' /\ lost' \subseteq 1..sent'
  <2>1. lost \subseteq 1..sent BY DEF StreamInv
  <2>2. 1..sent \subseteq 1..sent + 1 /\ sent + 1 \in 1..sent + 1 BY <1>2
  <2>3. lost' \subseteq lost \cup {sent + 1} /\ lost \subseteq lost' /\ sent' = sent + 1 BY <1>1
  <2>. QED BY <2>1, <2>2, <2>3
<1>8. StreamInv(c)'
  <2>1. sent' >= sent /\ sent' \in Nat BY <1>1, <1>2
  <2>2. DropUnseen => DropUnseen' BY <1>1, <1>3, <1>5, <1>6 DEF DropUnseen
  <2>3. pc' \in {"look_epoch", "looked"} /\ run'.n = 0 /\ ~Pending' /\ (pc' = "look_epoch" => ~Dropped') => c \notin heard
    BY <1>1, <1>5, <1>6 DEF StreamInv
  <2>. QED BY <1>1, <1>2, <1>6, <1>7, <2>1, <2>2, <2>3, StreamStays
<1>. QED BY <1>4, <1>8 DEF CursorInv

\* The channel's byte and its lap, the engine's edge, the sink.
LEMMA CursorBelow ==
  ASSUME FrameInv, FrameInv', ChannelInv, NEW c \in Nat, NEW g \in Nat, Cursor(c, g), StreamInv(c),
         DmaReceive \/ Completion \/ EngineEdge \/ SinkDispatch
  PROVE  CursorInv'
<1>. USE DEF FrameInv
<1>1. /\ StreamKept /\ UNCHANGED <<ringVars, lost, pc, run, read1, tailAt, skips>>
      /\ (OnHardware /\ sent' = sent + 1 /\ written' = written + 1) \/ (sent' = sent /\ written' = written)
  BY DEF DmaReceive, DmaWrite, Completion, CountLap, EngineEdge, SinkDispatch, drainVars, lineVars, gapVars, streamVars,
         loanVars, hardwareVars, StreamKept
<1>2. sent \in Nat /\ next \in Nat /\ written \in Nat /\ tailAt \in Nat /\ Lap \in Nat BY LapAssumption DEF ReaderTypes
<1>. USE DEF StreamKept
<1>3. OnHardware' <=> OnHardware BY <1>1 DEF OnHardware
<1>4. Cursor(c, g)' BY <1>1, <1>3, RingUntouched DEF Cursor
<1>5. (Pending' <=> Pending) /\ (Skipping' <=> Skipping) /\ (InHand' <=> InHand) /\ (Dropped' <=> Dropped)
  BY <1>1, <1>3 DEF Pending, Skips, Skipping, InHand, InRun, Dropped, ringVars
<1>6. Intact' => Intact BY <1>1, <1>2, <1>3 DEF Intact
<1>7. StreamInv(c)'
  <2>1. sent' >= sent /\ sent' \in Nat BY <1>1, <1>2
  <2>2. DropUnseen => DropUnseen' BY <1>1, <1>3, <1>5 DEF DropUnseen
  <2>3. pc' \in {"look_epoch", "looked"} /\ run'.n = 0 /\ ~Pending' /\ (pc' = "look_epoch" => ~Dropped') => c \notin heard
    BY <1>1, <1>5 DEF StreamInv
  <2>4. lost' \subseteq 1..sent'
    <3>1. lost \subseteq 1..sent BY DEF StreamInv
    <3>. QED BY <1>1, <1>2, <2>1, <3>1
  <2>. QED BY <1>1, <1>2, <1>5, <1>6, <2>1, <2>2, <2>3, <2>4, StreamStays
<1>. QED BY <1>4, <1>7 DEF CursorInv

\* A step of the drain that takes nothing from the ring.
LEMMA CursorDrains ==
  ASSUME FrameInv, FrameInv', NEW c \in Nat, NEW g \in Nat, Cursor(c, g), StreamInv(c),
         Dispatch \/ ReleaseLaps \/ EndDrain
  PROVE  CursorInv'
<1>. USE DEF FrameInv
<1>1. /\ StreamKept /\ UNCHANGED <<ringVars, hardwareVars, lost, sent>>
      /\ pc' \notin {"look_epoch", "skip", "jump", "looked"} /\ ~Skipping
      /\ ReleaseLaps \/ pc' \in {"look", "idle"}
      /\ ReleaseLaps => run' = run /\ OnHardware
  BY DEF Dispatch, ReleaseLaps, GapOver, RunOver, EndDrain, drainVars, lineVars, gapVars, streamVars, loanVars,
         StreamKept, Skipping, InDispatch
<1>2. sent \in Nat /\ next \in Nat BY DEF ReaderTypes
<1>. USE DEF StreamKept, hardwareVars
<1>3. OnHardware' <=> OnHardware BY <1>1 DEF OnHardware
<1>8. InHand' => ReleaseLaps BY <1>1 DEF InHand, InRun
<1>4. Cursor(c, g)' BY <1>1, <1>3, <1>8, RingKept DEF Cursor
<1>5. (Pending' <=> Pending) /\ (Dropped' <=> Dropped) /\ (Intact' <=> Intact) /\ ~Skipping'
  BY <1>1, <1>3 DEF Pending, Skips, Dropped, Intact, ringVars, Skipping
<1>6. DropUnseen => DropUnseen'  BY <1>1, <1>3, <1>5, <1>8 DEF DropUnseen
<1>7. StreamInv(c)' BY <1>1, <1>2, <1>5, <1>6, StreamStays DEF StreamInv
<1>. QED BY <1>4, <1>7 DEF CursorInv

\* The head or the laps read.
LEMMA CursorLook ==
  ASSUME FrameInv, FrameInv', ChannelInv, NEW c \in Nat, NEW g \in Nat, Cursor(c, g), StreamInv(c), Look
  PROVE  CursorInv'
<1>. USE DEF FrameInv
<1>1. /\ StreamKept /\ UNCHANGED <<ringVars, hardwareVars, lost, sent>> /\ pc = "look"
      /\ pc' = IF OnHardware THEN "look_count" ELSE "look_epoch"
  BY DEF Look, DrainTo, lineVars, gapVars, streamVars, loanVars, StreamKept
<1>2. sent \in Nat /\ next \in Nat BY DEF ReaderTypes
<1>. USE DEF StreamKept, hardwareVars
<1>3. (OnHardware' <=> OnHardware) /\ ~InHand' BY <1>1 DEF OnHardware, InHand, InRun
<1>4. Cursor(c, g)' BY <1>1, <1>3, RingLooks DEF Cursor
<1>5. (Pending' <=> Pending) /\ (Dropped' <=> Dropped) /\ (Intact' <=> Intact) /\ ~Skipping' /\ ~Skipping
  BY <1>1, <1>3 DEF Pending, Skips, Dropped, Intact, ringVars, Skipping
<1>6. DropUnseen => DropUnseen' BY <1>3, <1>5 DEF DropUnseen
<1>7. pc' = "look_epoch" /\ run'.n = 0 /\ ~Dropped' => c \notin heard
  BY <1>1, RingLooks DEF Cursor, SilenceInv, InDispatch
<1>8. StreamInv(c)'
  <2>1. lost' \subseteq 1..sent' /\ sent' >= sent /\ sent' \in Nat BY <1>1, <1>2 DEF StreamInv
  <2>2. pc' # "looked" BY <1>1
  <2>. QED BY <1>1, <1>2, <1>5, <1>6, <1>7, <2>1, <2>2, StreamStays
<1>. QED BY <1>4, <1>8 DEF CursorInv

\* The epoch compared.
LEMMA CursorLookEpoch ==
  ASSUME FrameInv, FrameInv', NEW c \in Nat, NEW g \in Nat, Cursor(c, g), StreamInv(c), LookEpoch
  PROVE  CursorInv'
<1>. USE DEF FrameInv
<1>1. /\ StreamKept /\ UNCHANGED <<head, tail, epoch, hardwareVars, lost, sent>> /\ pc = "look_epoch"
      /\ IF Dropped THEN pc' = "skip" /\ run' = NoRun /\ seen' = epoch
                    ELSE pc' = "looked" /\ run' = run /\ seen' = seen
  BY DEF LookEpoch, DrainTo, lineVars, gapVars, streamVars, loanVars, StreamKept
<1>2. sent \in Nat /\ next \in Nat BY DEF ReaderTypes
<1>. USE DEF StreamKept, hardwareVars
<1>3. ~OnHardware /\ ~OnHardware' /\ ~Pending /\ ~Skipping /\ Skips = seen
  BY <1>1 DEF OnHardware, DrainInv, Skipping, Skips
<1>4. Cursor(c, g)' BY <1>1, <1>3, RingLooksAgain DEF Cursor
<1>5. /\ Intact' /\ Intact /\ ~Dropped'
      /\ Dropped => Skipping' /\ Pending'
      /\ ~Dropped => ~Pending' /\ ~Skipping'
  <2>1. Intact /\ Intact' /\ ~Dropped' BY <1>1, <1>3 DEF Intact, Dropped
  <2>2. seenSkips = seen BY <1>3 DEF Pending
  <2>3. Dropped => Skipping' /\ Pending' BY <1>1, <1>3, <2>2 DEF Skipping, Pending, Skips, Dropped
  <2>4. ~Dropped => ~Pending' /\ ~Skipping' BY <1>1, <1>3, <2>2 DEF Skipping, Pending, Skips
  <2>. QED BY <2>1, <2>3, <2>4
<1>6. DropUnseen => Pending' BY <1>5 DEF DropUnseen
<1>7. pc' \in {"look_epoch", "looked"} /\ run'.n = 0 => c \notin heard BY <1>1, <1>3 DEF StreamInv
<1>8. StreamInv(c)'
  <2>1. lost' \subseteq 1..sent' /\ sent' >= sent /\ sent' \in Nat BY <1>1, <1>2 DEF StreamInv
  <2>2. Pending' /\ ~Skipping' => Pending /\ ~Skipping BY <1>5
  <2>. QED BY <1>1, <1>2, <1>3, <1>5, <1>6, <1>7, <2>1, <2>2, StreamStays
<1>. QED BY <1>4, <1>8 DEF CursorInv

\* The channel's count read: a lap missed takes the place in the stream to the head.
LEMMA CursorLookCount ==
  ASSUME FrameInv, FrameInv', ChannelInv, NEW c \in Nat, NEW g \in Nat, Cursor(c, g), StreamInv(c), LookCount
  PROVE  CursorInv'
<1>. USE DEF FrameInv
<1>1. /\ StreamKept /\ UNCHANGED <<ringVars, written, sent>> /\ pc = "look_count" /\ pc' = "looked"
      /\ lost' = lost \cup (tailAt + 1..tailAt')
  BY DEF LookCount, LookUnread, DrainTo, lineVars, gapVars, streamVars, loanVars, StreamKept
<1>. USE DEF StreamKept
<1>2. /\ sent \in Nat /\ next \in Nat /\ tailAt \in Nat /\ written \in Nat /\ Lap \in Nat \ {0}
      /\ skips \in Nat /\ seenSkips \in Nat
  BY LapAssumption DEF ReaderTypes
<1>3. OnHardware /\ OnHardware' /\ ~Skipping /\ ~Skipping' /\ written = sent /\ c = tailAt
  BY <1>1 DEF OnHardware, DrainInv, Skipping, ChannelInv, Cursor
<1>4. IF written - tailAt >= Lap
      THEN tailAt' = written /\ skips' = skips + 1
      ELSE /\ tailAt' = tailAt /\ skips' = skips /\ (run'.n = 0 => written = tailAt)
  BY ChannelLooks
<1>5. sent \notin heard BY <1>1 DEF SilenceInv, InDispatch
<1>6. lost \subseteq 1..sent /\ next = 0 /\ held = <<>> BY <1>1 DEF StreamInv, DrainInv, InRun
<1>7. CASE written - tailAt >= Lap
  <2>1. PICK t \in Nat : t = written BY <1>2
  <2>2. c < t /\ tailAt' = t /\ t <= sent' /\ t \in 1..sent /\ t \notin heard BY <1>1, <1>2, <1>3, <1>4, <1>5, <1>7, <2>1
  <2>3. lost' = lost \cup (c + 1..t) BY <1>1, <1>3, <2>2
  <2>4. lost \subseteq lost' /\ (\A p \in c + 1..t : p \in lost') /\ t \in lost' /\ lost' \subseteq 1..sent'
    BY <1>1, <1>2, <1>6, <2>2, <2>3
  <2>5. Pending' BY <1>1, <1>2, <1>3, <1>4, <1>7 DEF DrainInv, Pending, Skips
  <2>6. StreamInv(t)'
    <3>1. next' = 0 /\ held' = <<>> /\ c <= t BY <1>1, <1>6, <2>2
    <3>. QED BY <1>1, <1>3, <2>2, <2>4, <2>5, <3>1, StreamLost
  <2>7. Cursor(t, t)' BY <1>3, <2>2 DEF Cursor
  <2>. QED BY <2>6, <2>7 DEF CursorInv
<1>8. CASE ~(written - tailAt >= Lap)
  <2>1. tailAt' = tailAt /\ skips' = skips /\ (run'.n = 0 => c = sent) BY <1>3, <1>4, <1>8
  <2>2. tailAt + 1..tailAt' = {} BY <1>2, <2>1
  <2>3. lost' = lost BY <1>1, <2>2
  <2>4. (Pending' <=> Pending) /\ (Intact' <=> Intact) /\ ~DropUnseen
    BY <1>1, <1>3, <2>1 DEF Pending, Skips, Intact, DropUnseen
  <2>5. run'.n = 0 => c \notin heard BY <1>5, <2>1
  <2>6. StreamInv(c)'
    <3>2. sent' = sent BY <1>1
    <3>3. lost' \subseteq 1..sent' BY <1>6, <2>3, <3>2
    <3>1. sent' >= sent /\ sent' \in Nat BY <1>2, <3>2
    <3>. QED BY <3>3, <1>1, <1>2, <1>3, <2>3, <2>4, <2>5, <3>1, StreamStays
  <2>7. Cursor(c, g)' BY <1>3, <2>1 DEF Cursor
  <2>. QED BY <2>6, <2>7 DEF CursorInv
<1>. QED BY <1>7, <1>8

\* The skip over a gap.
LEMMA CursorSkipHead ==
  ASSUME FrameInv, FrameInv', NEW c \in Nat, NEW g \in Nat, Cursor(c, g), StreamInv(c), SkipHead
  PROVE  CursorInv'
<1>. USE DEF FrameInv
<1>1. /\ StreamKept /\ UNCHANGED <<ringVars, hardwareVars, lost, sent>> /\ pc = "skip" /\ pc' = "jump"
  BY DEF SkipHead, DrainTo, lineVars, gapVars, streamVars, loanVars, StreamKept
<1>. USE DEF StreamKept, hardwareVars
<1>2. sent \in Nat /\ next \in Nat BY DEF ReaderTypes
<1>3. ~OnHardware /\ ~OnHardware' /\ Skipping /\ Skipping' /\ Pending
  BY <1>1 DEF OnHardware, DrainInv, Skipping
<1>4. PICK s \in Nat : s = sent BY <1>2
<1>5. Cursor(c, s)' BY <1>3, <1>4, RingSkipHead DEF Cursor
<1>6. Pending' /\ Intact' /\ Intact BY <1>1, <1>3 DEF Pending, Skips, ringVars, Intact
<1>7. StreamInv(c)' BY <1>1, <1>2, <1>3, <1>6, StreamStays DEF StreamInv
<1>. QED BY <1>5, <1>7 DEF CursorInv

\* The tail stored: the place in the stream is the one the head was read at.
LEMMA CursorSkipTail ==
  ASSUME FrameInv, FrameInv', NEW c \in Nat, NEW g \in Nat, Cursor(c, g), StreamInv(c), SkipTail
  PROVE  CursorInv'
<1>. USE DEF FrameInv
<1>1. /\ StreamKept /\ UNCHANGED <<epoch, seen, hardwareVars, sent>> /\ pc \in {"skip", "jump"} /\ pc' = "looked"
  BY DEF SkipTail, DrainTo, lineVars, gapVars, streamVars, loanVars, StreamKept
<1>. USE DEF StreamKept, hardwareVars
<1>2. sent \in Nat /\ next = 0 /\ held = <<>> BY <1>1 DEF ReaderTypes, DrainInv, InRun
<1>3. ~OnHardware /\ ~OnHardware' /\ Skipping /\ ~Skipping' /\ Pending
  BY <1>1 DEF OnHardware, DrainInv, Skipping
<1>4. PICK t \in Nat : t = IF ring = "skip" THEN g ELSE sent BY <1>2
<1>5. /\ ByteRingInv(t, t)' /\ c <= t /\ t <= sent /\ t \notin heard /\ t \in lost'
      /\ \A p \in c + 1..t : p \in lost'
      /\ lost \subseteq lost' /\ \A p \in lost' : p \in lost \/ p \in 1..sent
  BY <1>3, <1>4, RingJumps DEF Cursor
<1>6. Pending' BY <1>1, <1>3 DEF Pending, Skips
<1>7. StreamInv(t)'
  <2>1. lost' \subseteq 1..sent' BY <1>1, <1>5 DEF StreamInv
  <2>2. t <= sent' /\ next' = 0 /\ held' = <<>> BY <1>1, <1>2, <1>5
  <2>. QED BY <1>1, <1>3, <1>5, <1>6, <2>1, <2>2, StreamLost
<1>8. Cursor(t, t)' BY <1>3, <1>5 DEF Cursor
<1>. QED BY <1>7, <1>8 DEF CursorInv

\* The run found, and read.
LEMMA CursorReads ==
  ASSUME FrameInv, FrameInv', ChannelInv, BuffersInv, AssemblersInv, NEW c \in Nat, NEW g \in Nat, Cursor(c, g),
         StreamInv(c), FoundEmpty \/ FoundRun \/ SkipByte \/ ReadByte
  PROVE  CursorInv'
<1>. USE DEF FrameInv
<1>1. /\ UNCHANGED <<ring, ringVars, hardwareVars, lost, sent, heard, run>>
      /\ pc' \notin {"look_epoch", "skip", "jump"} /\ ~Skipping /\ (InHand' => InHand)
  BY DEF FoundEmpty, FoundRun, SkipByte, ReadByte, DrainTo, streamVars, gapVars, Skipping, InHand, InRun
<1>2. OnHardware' <=> OnHardware BY <1>1 DEF OnHardware
<1>3. Cursor(c, g)' BY <1>1, <1>2, RingKept DEF Cursor, hardwareVars
<1>4. StreamInv(c)' BY StreamFoundEmpty, StreamFoundRun, StreamSkipByte, StreamReadByte
<1>. QED BY <1>3, <1>4 DEF CursorInv

\* The sender's silence.
LEMMA CursorSilence ==
  ASSUME FrameInv, FrameInv', ChannelInv, NEW c \in Nat, NEW g \in Nat, Cursor(c, g), StreamInv(c), Silence
  PROVE  CursorInv'
<1>1. UNCHANGED <<ring, tailAt>> BY DEF Silence, streamVars, hardwareVars
<1>2. Cursor(c, g)' BY <1>1, RingSilence DEF Cursor, OnHardware
<1>3. StreamInv(c)' BY StreamSilence
<1>. QED BY <1>2, <1>3 DEF CursorInv

\* The run released.
LEMMA CursorRelease ==
  ASSUME FrameInv, FrameInv', NEW c \in Nat, NEW g \in Nat, Cursor(c, g), StreamInv(c), Release
  PROVE  CursorInv'
<1>. USE DEF FrameInv
<1>1. /\ ~OnHardware /\ pc \in {"gap", "read"} /\ Deliver(held) /\ held' = <<>> /\ next' = 0
      /\ UNCHANGED <<ring, script, heard, lost, sent, assembler, active, resync, quiet, silent, seenSkips, seen>>
  BY DEF Release, GapOver, RunOver, lineVars, gapVars, streamVars
<1>2. held \in Seq(Completed) /\ Len(lent) = inFlight /\ Len(held) + inFlight <= 2 /\ next \in Nat
  BY <1>1 DEF ReaderTypes, LoansInv, InDispatch
<1>3. /\ Len(got') = Len(got) + Len(held)
      /\ \A i \in 1..Len(got') : got'[i] = IF i <= Len(got) THEN got[i] ELSE held[i - Len(got)].eol
      /\ pc' \in {"look", "end"}
  BY <1>1, <1>2, DeliverIs
<1>4. PICK t \in Nat : t = c + next BY <1>2
<1>5. ~OnHardware' /\ Intact /\ InRun /\ (Pending' <=> Pending)
  BY <1>1 DEF OnHardware, Intact, InRun, Pending, Skips
<1>6. Cursor(t, g)' BY <1>1, <1>4, <1>5, RingReleases DEF Cursor
<1>7. StreamInv(t)' BY <1>1, <1>3, <1>4, <1>5, StreamReleased
<1>. QED BY <1>6, <1>7 DEF CursorInv

\* The channel's run judged: read, or the place in the stream taken to the head.
LEMMA CursorVerdict ==
  ASSUME FrameInv, FrameInv', ChannelInv, AssemblersInv, NEW c \in Nat, NEW g \in Nat, Cursor(c, g), StreamInv(c), Verdict
  PROVE  CursorInv'
<1>. USE DEF FrameInv
<1>1. /\ pc \in {"gap_verdict", "verdict"} /\ held' = <<>> /\ next' = 0
      /\ UNCHANGED <<storage, written, laps, uncounted>>
      /\ UNCHANGED <<ringVars, ring, script, sent, activeAtRun, read1>>
      /\ IF Torn(read1) THEN Tear /\ lost' = lost \cup (tailAt + 1..tailAt')
                        ELSE UNCHANGED <<lost, active, assembler, gapVars>>
      /\ IF pc = "gap_verdict"
         THEN pc' = "read" /\ run' = NoRun /\ UNCHANGED <<queue, lent, got, inFlight>>
         ELSE Deliver(IF Torn(read1) THEN <<>> ELSE held) /\ UNCHANGED run
  BY DEF Verdict, ReleaseRun, streamVars
<1>2. /\ OnHardware /\ OnHardware' /\ c = tailAt /\ written = sent /\ InRun /\ ~Skipping
  BY <1>1 DEF OnHardware, DrainInv, Cursor, ChannelInv, InRun, Skipping
<1>3. /\ Torn(read1) <=> written - tailAt > Lap
      /\ IF Torn(read1) THEN tailAt' = written /\ skips' = skips + 1
                        ELSE tailAt' = tailAt + next /\ skips' = skips
  BY ChannelJudges
<1>4. /\ sent \in Nat /\ next \in Nat /\ tailAt \in Nat /\ written \in Nat /\ Lap \in Nat
      /\ skips \in Nat /\ seenSkips \in Nat /\ held \in Seq(Completed)
  BY LapAssumption DEF ReaderTypes
<1>5. Len(lent) = inFlight /\ Len(held) + inFlight <= 2 /\ inFlight <= 1 BY <1>1 DEF LoansInv, InDispatch
<1>6. pc' \in {"read", "look", "end"} /\ ~Skipping' BY <1>1 DEF Deliver, Skipping
<1>7. CASE Torn(read1)
  <2>1. PICK t \in Nat : t = written BY <1>4
  <2>2. /\ UNCHANGED <<script, heard, seenSkips>> /\ lost' = lost \cup (c + 1..t) /\ tailAt' = t /\ c < t
        /\ t <= sent' /\ t \in 1..sent
    BY <1>1, <1>2, <1>3, <1>4, <1>7, <2>1 DEF Tear
  <2>3. got' = got
    <3>1. CASE pc = "gap_verdict" BY <1>1, <3>1
    <3>2. CASE pc = "verdict"
      <4>1. Deliver(<<>>) BY <1>1, <1>7, <3>2
      <4>. QED BY <1>5, <4>1, DeliverNone
    <3>. QED BY <1>1, <3>1, <3>2
  <2>4. lost \subseteq lost' /\ (\A p \in c + 1..t : p \in lost') /\ t \in lost' /\ lost' \subseteq 1..sent'
    BY <1>1, <1>4, <2>2 DEF StreamInv
  <2>5. Pending' BY <1>2, <1>3, <1>4, <1>7, <2>2 DEF DrainInv, Pending, Skips
  <2>6. t \notin heard BY <1>1, <1>2, <2>1 DEF SilenceInv, InDispatch
  <2>7. StreamInv(t)'
    <3>1. c <= t BY <2>2
    <3>. QED BY <1>1, <1>6, <2>2, <2>3, <2>4, <2>5, <2>6, <3>1, StreamLost
  <2>8. Cursor(t, t)' BY <1>2, <2>2 DEF Cursor
  <2>. QED BY <2>7, <2>8 DEF CursorInv
<1>8. CASE ~Torn(read1)
  <2>1. PICK t \in Nat : t = c + next BY <1>4
  <2>2. /\ UNCHANGED <<script, heard, lost, sent, assembler, active, resync, quiet, silent, seenSkips, skips>> /\ tailAt' = t
    BY <1>1, <1>2, <1>3, <1>8, <2>1 DEF gapVars
  <2>3. Intact
    <3>1. ~(written - tailAt > Lap) BY <1>3, <1>8
    <3>. QED BY <1>4, <3>1 DEF Intact
  <2>4. /\ Len(got') = Len(got) + Len(held)
        /\ \A i \in 1..Len(got') : got'[i] = IF i <= Len(got) THEN got[i] ELSE held[i - Len(got)].eol
    <3>1. CASE pc = "gap_verdict"
      <4>1. got' = got /\ Len(held) = 0 BY <1>1, <3>1 DEF DrainInv
      <4>2. got \in Seq(Nat) BY DEF ReaderTypes
      <4>. QED BY <4>1, <4>2
    <3>2. CASE pc = "verdict"
      <4>1. Deliver(held) BY <1>1, <1>8, <3>2
      <4>. QED BY <1>4, <1>5, <4>1, DeliverIs
    <3>. QED BY <1>1, <3>1, <3>2
  <2>5. Pending' <=> Pending BY <1>2, <2>2 DEF Pending, Skips
  <2>6. StreamInv(t)'
    <3>1. pc' \notin {"look_epoch", "looked"} BY <1>6
    <3>. QED BY <1>1, <1>2, <2>1, <2>2, <2>3, <2>4, <2>5, <3>1, StreamReleased
  <2>7. Cursor(t, g)' BY <1>2, <2>2 DEF Cursor
  <2>. QED BY <2>6, <2>7 DEF CursorInv
<1>. QED BY <1>7, <1>8

\* Every step keeps a place in the stream up to which all was read, excused or lost.
LEMMA CursorNext ==
  ASSUME FrameInv, FrameInv', ChannelInv, BuffersInv, AssemblersInv, CursorInv, ReaderNext
  PROVE  CursorInv'
<1>1. PICK c, g \in Nat : Cursor(c, g) /\ StreamInv(c) BY DEF CursorInv
<1>. QED
  BY <1>1, CursorReceive, CursorBelow, CursorDrains, CursorLook, CursorLookEpoch, CursorLookCount, CursorSkipHead,
     CursorSkipTail, CursorReads, CursorSilence, CursorRelease, CursorVerdict DEF ReaderNext, Drain

-----------------------------------------------------------------------------
\* At the start it is the stream's.
LEMMA CursorInit ==
  ASSUME ReaderInit
  PROVE  CursorInv
<1>1. FrameInv BY FrameInit
<1>. USE DEF ReaderInit, RingInit, HardwareInit
<1>2. script \subseteq Nat \ {0} BY ReaderAssumption
<1>3. Queued = 0 /\ ~Dropped /\ ~InHand /\ ~Pending /\ ~Skipping /\ Intact
  <2>1. Queued = 0 BY <1>1, QueuedIs DEF FrameInv
  <2>. QED BY <2>1, LapAssumption DEF Dropped, InHand, InRun, Pending, Skips, Skipping, Intact
<1>4. ByteRingInv(0, 0) BY <1>3 DEF RingBehind, RingWhole, RingSpanned, ByteRingInv
<1>5. Begins(0) = 0 BY <1>2, BeginsIs DEF LineStart
<1>6. Assembled(0) BY <1>5 DEF Empty, Buffers, Assembled
<1>7. Len(got) = 0 /\ Len(held) = 0 OBVIOUS
<1>8. \A e \in script : ~(e <= 0) BY <1>2
<1>9. GotInv(0) BY <1>7, <1>8 DEF GotInv
<1>10. HeldInv(0)
  <2>1. \A e \in script : ~(e <= 0 + 0) BY <1>8
  <2>. QED BY <1>7, <2>1 DEF HeldInv
<1>11. SyncInv(0)
  <2>1. 0 + next = 0 OBVIOUS
  <2>. QED BY <1>3, <1>6, <2>1 DEF SyncInv
<1>12. StreamInv(0) BY <1>9, <1>10, <1>11 DEF StreamInv
<1>13. Cursor(0, 0) BY <1>4 DEF Cursor
<1>. QED BY <1>12, <1>13 DEF CursorInv

\* The invariant at the start.
LEMMA ReaderInitInv ==
  ASSUME ReaderInit
  PROVE  ReaderInv
<1>1. FrameInv /\ CursorInv BY FrameInit, CursorInit
<1>. USE DEF ReaderInit, RingInit, HardwareInit
<1>2. active = 0 /\ assembler[0] = Empty /\ assembler[1] = Empty /\ \A b \in Buffers : assembler[b] = Empty
  BY DEF Buffers
<1>3. Len(lent) = 0 /\ Len(held) = 0 OBVIOUS
<1>4. BuffersInv
  <2>1. Base = 0 BY DEF Base, InRun
  <2>. QED BY <1>2, <1>3, <2>1 DEF BuffersInv
<1>5. AssemblersInv BY <1>2 DEF Rests, Empty, AssemblersInv
<1>6. LentInv BY <1>3 DEF LentInv
<1>7. ChannelInv
  <2>1. Lap \in Nat \ {0} BY LapAssumption
  <2>2. InUse = 0 /\ ~InHand BY DEF InUse, InHand, InRun
  <2>3. Counted = 0 BY <2>1 DEF Counted
  <2>4. 0 * Lap = 0 /\ (0 + 1) * Lap = Lap /\ (0 + 2) * Lap = Lap + Lap BY <2>1
  <2>5. 1..written = {} OBVIOUS
  <2>. QED BY <2>1, <2>2, <2>3, <2>4, <2>5 DEF ChannelInv
<1>. QED BY <1>1, <1>4, <1>5, <1>6, <1>7 DEF ReaderInv

\* A stutter keeps the invariant.
LEMMA ReaderRests ==
  ASSUME ReaderInv, UNCHANGED readerVars
  PROVE  ReaderInv'
<1>. USE DEF readerVars, ringVars, hardwareVars, streamVars, drainVars, lineVars, gapVars, loanVars
<1>1. FrameInv' BY DEF ReaderInv, FrameInv, ReaderTypes, DrainInv, LoansInv, SilenceInv, InRun, InDispatch, Skipping,
                       Pending, Skips, OnHardware, Unread, Queued
<1>2. BuffersInv' /\ AssemblersInv' /\ LentInv' BY LoansKept DEF ReaderInv, Base, InRun
<1>3. ChannelInv'
  <2>1. ReaderTypes /\ ChannelInv /\ InUse' = InUse /\ (InHand' => InHand)
    BY DEF ReaderInv, FrameInv, InUse, InHand, InRun
  <2>. QED BY <2>1, ChannelKept
<1>4. CursorInv'
  <2>1. PICK c, g \in Nat : Cursor(c, g) /\ StreamInv(c) BY DEF ReaderInv, CursorInv
  <2>2. Cursor(c, g)' BY <2>1, RingUntouched DEF Cursor, OnHardware
  <2>3. StreamInv(c)'
    <3>1. /\ (Pending' <=> Pending) /\ (Skipping' <=> Skipping) /\ (Intact' <=> Intact) /\ (DropUnseen' <=> DropUnseen)
          /\ (Dropped' <=> Dropped)
      BY DEF Pending, Skips, OnHardware, Skipping, Intact, DropUnseen, Dropped, InHand, InRun
    <3>2. sent \in Nat /\ next \in Nat /\ sent' >= sent /\ sent' \in Nat /\ lost' \subseteq 1..sent' /\ lost \subseteq lost'
      BY <2>1 DEF ReaderInv, FrameInv, ReaderTypes, StreamInv
    <3>3. pc' \in {"look_epoch", "looked"} /\ run'.n = 0 /\ ~Pending' /\ (pc' = "look_epoch" => ~Dropped') => c \notin heard
      BY <2>1, <3>1 DEF StreamInv
    <3>. QED BY <2>1, <3>1, <3>2, <3>3, StreamStays
  <2>. QED BY <2>1, <2>2, <2>3 DEF CursorInv
<1>. QED BY <1>1, <1>2, <1>3, <1>4 DEF ReaderInv

\* A step of the reader, of its ring or of its sink keeps the invariant.
LEMMA ReaderSteps ==
  ASSUME ReaderInv, ReaderNext
  PROVE  ReaderInv'
<1>1. FrameInv /\ BuffersInv /\ AssemblersInv /\ LentInv /\ ChannelInv /\ CursorInv BY DEF ReaderInv
<1>2. FrameInv' BY <1>1, FrameNext
<1>3. ChannelInv' BY <1>1, ChannelNext DEF FrameInv
<1>4. CursorInv' BY <1>1, <1>2, CursorNext
<1>5. Intact => HeldWhole
  <2>1. PICK c, g \in Nat : Cursor(c, g) /\ StreamInv(c) BY <1>1 DEF CursorInv
  <2>. QED BY <2>1 DEF StreamInv, HeldInv, HeldWhole
<1>6. BuffersInv' /\ AssemblersInv' /\ LentInv' BY <1>1, <1>2, <1>5, LoansNext
<1>. QED BY <1>2, <1>3, <1>4, <1>6 DEF ReaderInv

(* The reader, its ring and its sink: the buffers alternate and hold what    *)
(* was sent between two ends of line, and there is a place in the stream up  *)
(* to which every short line was delivered or is excused by a byte lost,     *)
(* whichever ring it reads and wherever a byte, a drop, a wrap or a silence  *)
(* falls between two steps of drain().                                       *)
THEOREM ReaderInductive == ReaderSpec => []ReaderInv
<1>1. ReaderInit => ReaderInv BY ReaderInitInv
<1>2. ReaderInv /\ [ReaderNext]_readerVars => ReaderInv' BY ReaderSteps, ReaderRests
<1>. QED BY <1>1, <1>2, PTL DEF ReaderSpec

\* What the invariant says of the buffers the sink has.
LEMMA ReaderInvLentWhole ==
  ASSUME ReaderInv
  PROVE  LentWhole
<1>1. FrameInv /\ BuffersInv /\ LentInv BY DEF ReaderInv
<1>2. PICK c, g \in Nat : StreamInv(c) BY DEF ReaderInv, CursorInv
<1>3. ReaderTypeOK
  <2>1. lost \subseteq 1..sent BY <1>2 DEF StreamInv
  <2>. QED BY <1>1, <2>1 DEF FrameInv, ReaderTypes, DrainInv, LoansInv, ReaderTypeOK
<1>4. ASSUME NEW i \in 1..Len(lent), NEW j \in 1..Len(lent), i # j
      PROVE  lent[i].buffer # lent[j].buffer
  <2>1. PICK n \in Nat : n = Len(lent) /\ n <= 2 BY <1>1 DEF FrameInv, ReaderTypes, LoansInv
  <2>2. n = 2 /\ ((i = 1 /\ j = 2) \/ (i = 2 /\ j = 1)) BY <1>4, <2>1
  <2>3. Len(lent) # 0 BY <2>1, <2>2
  <2>4. lent # <<>> BY <2>3, NotEmpty
  <2>5. lent[2].buffer = 1 - Base /\ lent[1].buffer = Base BY <1>1, <2>1, <2>2, <2>4 DEF BuffersInv
  <2>6. Base \in {0, 1} BY <1>1 DEF Base, FrameInv, ReaderTypes, Buffers
  <2>. QED BY <2>2, <2>5, <2>6
<1>. QED BY <1>1, <1>3, <1>4 DEF LentInv, LentWhole

\* What the invariant says of the lines delivered, once all is read.
LEMMA ReaderInvOnlyGapsLose ==
  ASSUME ReaderInv
  PROVE  OnlyGapsLose
<1>1. FrameInv /\ ChannelInv BY DEF ReaderInv
<1>2. PICK c, g \in Nat : Cursor(c, g) /\ StreamInv(c) BY DEF ReaderInv, CursorInv
<1>3. GotInv(c) BY <1>2 DEF StreamInv
<1>4. ASSUME pc = "idle", Unread = 0, NEW e \in script, e <= sent, Short(e)
      PROVE  Delivered(e) \/ Excused(e)
  <2>1. script \subseteq Nat \ {0} /\ sent \in Nat /\ e \in Nat /\ e > 0 BY <1>1 DEF FrameInv, ReaderTypes
  <2>2. CASE e <= c BY <1>3, <1>4, <2>2 DEF GotInv
  <2>3. CASE ~(e <= c)
    <3>1. ~OnHardware
      <4>. SUFFICES ASSUME OnHardware PROVE FALSE OBVIOUS
      <4>1. c = tailAt /\ written = sent /\ written - tailAt = 0 /\ tailAt \in Nat
        BY <1>1, <1>2, <1>4 DEF Cursor, ChannelInv, Unread, FrameInv, ReaderTypes
      <4>. QED BY <1>4, <2>1, <2>3, <4>1
    <3>2. Queued = 0 /\ RingBehind(c) BY <1>2, <1>4, <3>1 DEF Cursor, ByteRingInv, Unread
    <3>3. 0..Queued - 1 = {} BY <3>2
    <3>4. e \in c + 1..sent BY <1>4, <2>1, <2>3
    <3>5. e \in lost BY <3>2, <3>3, <3>4 DEF RingBehind
    <3>6. LineBefore(e) < e /\ LineBefore(e) \in Nat BY <2>1, LineBeforeIs
    <3>. QED BY <2>1, <3>5, <3>6 DEF Excused
  <2>. QED BY <2>2, <2>3
<1>. QED BY <1>3, <1>4 DEF GotInv, OnlyGapsLose, Short, Delivered, Excused

(* What the sink reads is one line exactly as it was sent, until its dispatch *)
(* ends: drain() puts no byte in a buffer that is lent, a gap ends the line   *)
(* begun before another byte is read, and no line of a run the channel wrote  *)
(* over is delivered, for every ring, every size of it and of the lines, any  *)
(* number of bytes and any place of the losses among them.                    *)
THEOREM ReaderLentWhole == ReaderSpec => []LentWhole
<1>1. ReaderInv => LentWhole BY ReaderInvLentWhole
<1>. QED BY <1>1, ReaderInductive, PTL

(* Lines arrive once and in order, and when the reader rests a short line     *)
(* that did not arrive lost a byte, or follows without a silence one that     *)
(* did: after_gap() skips no line that begins after an end of line it could   *)
(* tell, nor does tear() drop one that the channel left whole.                *)
THEOREM ReaderOnlyGapsLose == ReaderSpec => []OnlyGapsLose
<1>1. ReaderInv => OnlyGapsLose BY ReaderInvOnlyGapsLose
<1>. QED BY <1>1, ReaderInductive, PTL
=============================================================================
