----------------------------- MODULE TransferProofs -----------------------------
(***************************************************************************)
(* Inbox, BlockRelay and NvWriter for every value of their constants: the  *)
(* bell that waits for every event and the steps of Crossing that the      *)
(* steps of the bridge are; the blocks a relay lends, read whole and once  *)
(* before they are given back; the requests a writer received, each in one *)
(* place until its one answer.                                             *)
(***************************************************************************)
EXTENDS Inbox, BlockRelay, NvWriter, FiniteSetTheorems, SequenceTheorems, TLAPS

(***************************************************************************)
(* Inbox: the bridge.                                                      *)
(***************************************************************************)

\* The sender's inbox has room from its test of the tail to its write of the
\* head, and the slot holds the event when the head is written.
SenderInv ==
  /\ sender \in {"write", "publish"} => ~Full(to) /\ sending \in Ev
  /\ sender = "publish" => slots[to][head[to]] = sending

\* The receiver's inbox has an event from its look to its write of the tail,
\* and the copy is that event.
ReceiverInv ==
  /\ receiver \in {"copy", "free"} => ~Empty(Aos[at])
  /\ receiver = "free" => hand = slots[Aos[at]][tail[Aos[at]]]

IInv ==
  /\ EveryEventHasABell
  /\ SenderInv
  /\ ReceiverInv

-----------------------------------------------------------------------------
\* The objects are the places of Aos, each at one place.
LEMMA PlacesOfAos ==
  /\ DOMAIN Aos = 1 .. Len(Aos) /\ Len(Aos) \in Nat \ {0} /\ 1 \in DOMAIN Aos
  /\ \A k \in DOMAIN Aos : Aos[k] \in Ao /\ PlaceOf(Aos[k]) = k
  /\ \A ao \in Ao : PlaceOf(ao) \in DOMAIN Aos /\ Aos[PlaceOf(ao)] = ao
<1>1. DOMAIN Aos = 1 .. Len(Aos) /\ Len(Aos) \in Nat BY AosAssumption
<1>2. Len(Aos) # 0
  <2>1. ASSUME NEW S, Aos \in Seq(S) PROVE Len(Aos) # 0
    BY <2>1, AosAssumption, EmptySeq
  <2>. QED BY <2>1, AosAssumption
<1>3. \A k \in DOMAIN Aos : Aos[k] \in Ao BY DEF Ao
<1>4. \A ao \in Ao : PlaceOf(ao) \in DOMAIN Aos /\ Aos[PlaceOf(ao)] = ao
  BY DEF Ao, PlaceOf
<1>5. \A k \in DOMAIN Aos : PlaceOf(Aos[k]) = k
  BY <1>3, <1>4, AosAssumption
<1>. QED BY <1>1, <1>2, <1>3, <1>4, <1>5

\* Going round an inbox.
LEMMA Round ==
  /\ Size \in Nat /\ Size > 1
  /\ \A i \in 0 .. Depth : Succ(i) \in 0 .. Depth /\ Succ(i) # i
  /\ \A i, j \in 0 .. Depth : Succ(i) = Succ(j) => i = j
<1>. USE DepthAssumption DEF Size, Succ
<1>1. Size \in Nat /\ Size > 1 OBVIOUS
<1>2. \A i \in 0 .. Depth : Succ(i) = IF i = Depth THEN 0 ELSE i + 1 OBVIOUS
<1>3. \A i \in 0 .. Depth : Succ(i) \in 0 .. Depth /\ Succ(i) # i BY <1>2 
<1>4. \A i, j \in 0 .. Depth : Succ(i) = Succ(j) => i = j BY <1>2
<1>. QED BY <1>1, <1>3, <1>4

\* The bridge starts in the invariant.
LEMMA InitIInv == Init => IInv
<1>. SUFFICES ASSUME Init PROVE IInv OBVIOUS
<1>. USE DepthAssumption, MaxSendsAssumption DEF Init
<1>1. TypeOK
  <2>1. Aos[1] \in Ao /\ 1 \in DOMAIN Aos BY PlacesOfAos
  <2>2. slots \in [Ao -> [0 .. Depth -> Ev \cup {Nothing}]] OBVIOUS
  <2>3. head \in [Ao -> 0 .. Depth] /\ tail \in [Ao -> 0 .. Depth] OBVIOUS
  <2>4. arrived \in [Ao -> Ev \cup {Nothing}] OBVIOUS
  <2>5. bells \in 0 .. Bells /\ sends \in 0 .. MaxSends OBVIOUS
  <2>. QED BY <2>1, <2>2, <2>3, <2>4, <2>5 DEF TypeOK
<1>2. \A k \in DOMAIN Aos : Empty(Aos[k]) BY PlacesOfAos DEF Empty
<1>3. EveryEventHasABell BY <1>1, <1>2 DEF EveryEventHasABell
<1>4. SenderInv BY DEF SenderInv
<1>5. ReceiverInv BY DEF ReceiverInv
<1>. QED BY <1>3, <1>4, <1>5 DEF IInv

-----------------------------------------------------------------------------
\* What the invariant says of one inbox that is not empty.
LEMMA HasABell ==
  ASSUME IInv, NEW k \in DOMAIN Aos, ~Empty(Aos[k])
  PROVE  bells > 0 \/ sender = "ring" \/ (receiver # "main" /\ at <= k)
BY DEF IInv, EveryEventHasABell, Empty

\* Inbox::send(): its test.
LEMMA SendIInv ==
  ASSUME IInv, NEW ao \in Ao, NEW e \in Ev, Send(ao, e)
  PROVE  IInv'
<1>. USE DEF Send, inbox
<1>1. TypeOK'
  <2>. USE DEF IInv, EveryEventHasABell, TypeOK
  <2>1. sends' \in 0 .. MaxSends BY MaxSendsAssumption
  <2>2. to' \in Ao /\ sending' \in Ev \cup {Nothing} OBVIOUS
  <2>. QED BY <2>1, <2>2
<1>2. EveryEventHasABell' BY <1>1 DEF IInv, EveryEventHasABell, Empty
<1>3. SenderInv' BY DEF IInv, SenderInv, Full
<1>4. ReceiverInv' BY DEF IInv, ReceiverInv, Empty
<1>. QED BY <1>2, <1>3, <1>4 DEF IInv

\* The slot.  It is not one the receiver reads: those have an event.
LEMMA WriteIInv ==
  ASSUME IInv, Write
  PROVE  IInv'
<1>. USE DEF Write
<1>1. TypeOK' BY DEF IInv, EveryEventHasABell, TypeOK
<1>2. EveryEventHasABell' BY <1>1 DEF IInv, EveryEventHasABell, Empty
<1>3. SenderInv'
  BY DEF IInv, EveryEventHasABell, TypeOK, SenderInv, Full
<1>4. ReceiverInv'
  BY PlacesOfAos DEF IInv, EveryEventHasABell, TypeOK, ReceiverInv, Empty
<1>. QED BY <1>2, <1>3, <1>4 DEF IInv

\* The head.
LEMMA PublishIInv ==
  ASSUME IInv, Publish
  PROVE  IInv'
<1>. USE DEF Publish
<1>1. TypeOK' BY Round DEF IInv, EveryEventHasABell, TypeOK
<1>2. EveryEventHasABell' BY <1>1 DEF EveryEventHasABell
<1>3. SenderInv' BY DEF SenderInv
<1>4. ReceiverInv'
  BY PlacesOfAos, Round DEF IInv, EveryEventHasABell, TypeOK, ReceiverInv, SenderInv, Empty, Full
<1>. QED BY <1>2, <1>3, <1>4 DEF IInv

\* The bell: there is one now, its own or the one there was no room beside.
LEMMA RingIInv ==
  ASSUME IInv, Ring
  PROVE  IInv'
<1>. USE DEF Ring, inbox
<1>1. bells' > 0 /\ bells' \in 0 .. Bells
  <2>1. bells \in 0 .. Bells BY DEF IInv, EveryEventHasABell, TypeOK
  <2>. QED BY <2>1, DepthAssumption
<1>2. TypeOK' BY <1>1 DEF IInv, EveryEventHasABell, TypeOK
<1>3. EveryEventHasABell' BY <1>1, <1>2 DEF EveryEventHasABell
<1>4. SenderInv' BY DEF SenderInv
<1>5. ReceiverInv' BY DEF IInv, ReceiverInv, Empty
<1>. QED BY <1>3, <1>4, <1>5 DEF IInv

\* Inboxes::enable().
LEMMA EnableIInv ==
  ASSUME IInv, Enable
  PROVE  IInv'
<1>. USE DEF Enable, inbox
<1>1. TypeOK' BY DEF IInv, EveryEventHasABell, TypeOK
<1>2. EveryEventHasABell' BY <1>1 DEF IInv, EveryEventHasABell, Empty
<1>3. SenderInv' BY DEF IInv, SenderInv, Full
<1>4. ReceiverInv' BY DEF IInv, ReceiverInv, Empty
<1>. QED BY <1>2, <1>3, <1>4 DEF IInv

\* The bells are popped: the handler's drain answers for all of them.
LEMMA IsrIInv ==
  ASSUME IInv, Isr
  PROVE  IInv'
<1>. USE DEF Isr, inbox
<1>1. TypeOK'
  <2>1. bells' \in 0 .. Bells /\ at' \in DOMAIN Aos BY PlacesOfAos, DepthAssumption
  <2>. QED BY <2>1 DEF IInv, EveryEventHasABell, TypeOK
<1>2. \A k \in DOMAIN Aos : at' <= k BY PlacesOfAos
<1>3. EveryEventHasABell' BY <1>1, <1>2 DEF EveryEventHasABell
<1>4. SenderInv' BY DEF IInv, SenderInv, Full
<1>5. ReceiverInv' BY DEF ReceiverInv
<1>. QED BY <1>3, <1>4, <1>5 DEF IInv

\* The handler passes an inbox only when it is empty: an event there has
\* its bell or its sender.
LEMMA LookNoneIInv ==
  ASSUME IInv, LookNone
  PROVE  IInv'
<1>. USE DEF LookNone, inbox
<1>1. TypeOK' BY PlacesOfAos DEF IInv, EveryEventHasABell, TypeOK
<1>2. ASSUME NEW k \in DOMAIN Aos, ~Empty(Aos[k])
      PROVE  bells > 0 \/ sender = "ring" \/ (receiver' # "main" /\ at' <= k)
  <2>1. bells > 0 \/ sender = "ring" \/ (receiver # "main" /\ at <= k)
    BY <1>2, HasABell
  <2>2. at \in DOMAIN Aos /\ k # at /\ k \in Nat /\ at \in Nat
    BY <1>2, PlacesOfAos DEF IInv, EveryEventHasABell, TypeOK
  <2>3. k <= Len(Aos) /\ Len(Aos) \in Nat BY PlacesOfAos
  <2>4. CASE at < Len(Aos) /\ at' = at + 1 /\ UNCHANGED receiver BY <2>1, <2>2, <2>4
  <2>5. CASE at = Len(Aos) BY <2>1, <2>2, <2>3, <2>5
  <2>. QED BY <2>4, <2>5
<1>3. EveryEventHasABell' BY <1>1, <1>2 DEF EveryEventHasABell, Empty
<1>4. SenderInv' BY DEF IInv, SenderInv, Full
<1>5. ReceiverInv' BY DEF ReceiverInv
<1>. QED BY <1>3, <1>4, <1>5 DEF IInv

\* drain() found one.
LEMMA LookOneIInv ==
  ASSUME IInv, LookOne
  PROVE  IInv'
<1>. USE DEF LookOne, inbox
<1>1. TypeOK' BY DEF IInv, EveryEventHasABell, TypeOK
<1>2. EveryEventHasABell' BY <1>1 DEF IInv, EveryEventHasABell, Empty
<1>3. SenderInv' BY DEF IInv, SenderInv, Full
<1>4. ReceiverInv' BY DEF ReceiverInv, Empty
<1>. QED BY <1>2, <1>3, <1>4 DEF IInv

\* drain()'s copy.
LEMMA CopyIInv ==
  ASSUME IInv, Copy
  PROVE  IInv'
<1>. USE DEF Copy, inbox
<1>1. Aos[at] \in Ao BY PlacesOfAos DEF IInv, EveryEventHasABell, TypeOK
<1>2. TypeOK' BY <1>1 DEF IInv, EveryEventHasABell, TypeOK
<1>3. EveryEventHasABell' BY <1>2 DEF IInv, EveryEventHasABell, Empty
<1>4. SenderInv' BY DEF IInv, SenderInv, Full
<1>5. ReceiverInv' BY DEF IInv, ReceiverInv, Empty
<1>. QED BY <1>3, <1>4, <1>5 DEF IInv

\* The tail: of the handler's own inbox, which it has not passed.
LEMMA FreeIInv ==
  ASSUME IInv, Free
  PROVE  IInv'
<1>. USE DEF Free, inbox
<1>1. Aos[at] \in Ao BY PlacesOfAos DEF IInv, EveryEventHasABell, TypeOK
<1>2. TypeOK' BY <1>1, Round DEF IInv, EveryEventHasABell, TypeOK
<1>3. ASSUME NEW k \in DOMAIN Aos, (~Empty(Aos[k]))'
      PROVE  bells > 0 \/ sender = "ring" \/ (receiver' # "main" /\ at' <= k)
  <2>1. CASE k = at BY <2>1, PlacesOfAos DEF IInv, EveryEventHasABell, TypeOK
  <2>2. CASE k # at
    <3>1. Aos[k] # Aos[at] BY <2>2, AosAssumption DEF IInv, EveryEventHasABell, TypeOK
    <3>2. ~Empty(Aos[k]) BY <1>3, <3>1 DEF IInv, EveryEventHasABell, TypeOK, Empty
    <3>3. bells > 0 \/ sender = "ring" \/ (receiver # "main" /\ at <= k) BY <3>2, HasABell
    <3>. QED BY <3>3
  <2>. QED BY <2>1, <2>2
<1>4. EveryEventHasABell' BY <1>2, <1>3 DEF EveryEventHasABell
<1>5. SenderInv'
  <2>1. sender \in {"write", "publish"} => (~Full(to))'
    BY <1>1, Round DEF IInv, EveryEventHasABell, TypeOK, SenderInv, ReceiverInv, Full, Empty
  <2>. QED BY <2>1 DEF IInv, SenderInv
<1>6. ReceiverInv' BY DEF ReceiverInv
<1>. QED BY <1>4, <1>5, <1>6 DEF IInv

\* post<Ao>().
LEMMA PostIInv ==
  ASSUME IInv, Post
  PROVE  IInv'
<1>. USE DEF Post, inbox
<1>1. TypeOK' BY DEF IInv, EveryEventHasABell, TypeOK
<1>2. EveryEventHasABell' BY <1>1 DEF IInv, EveryEventHasABell, Empty
<1>3. SenderInv' BY DEF IInv, SenderInv, Full
<1>4. ReceiverInv' BY DEF ReceiverInv
<1>. QED BY <1>2, <1>3, <1>4 DEF IInv

\* No step of either core breaks the invariant.
LEMMA NextIInv == IInv /\ [Next]_vars => IInv'
<1>. SUFFICES ASSUME IInv, [Next]_vars PROVE IInv' OBVIOUS
<1>1. CASE UNCHANGED vars
  BY <1>1 DEF IInv, EveryEventHasABell, TypeOK, SenderInv, ReceiverInv, Full, Empty, vars, inbox
<1>2. CASE Next
  BY <1>2, SendIInv, WriteIInv, PublishIInv, RingIInv, EnableIInv, IsrIInv, LookNoneIInv,
     LookOneIInv, CopyIInv, FreeIInv, PostIInv DEF Next, Sender, Receiver
<1>. QED BY <1>1, <1>2

THEOREM IInvariant == Spec => []IInv
<1>1. Init => IInv BY InitIInv
<1>2. IInv /\ [Next]_vars => IInv' BY NextIInv
<1>. QED BY <1>1, <1>2, PTL DEF Spec

\* An event in an inbox always has a bell pending, a sender about to ring, or
\* a handler that has yet to pass that inbox: no wakeup is lost between the
\* cores, whatever the interleaving (util/inbox.hpp's isr() and send()).
THEOREM AlwaysABell == Spec => []EveryEventHasABell
<1>1. IInv => EveryEventHasABell BY DEF IInv
<1>. QED BY <1>1, IInvariant, PTL

-----------------------------------------------------------------------------
(***************************************************************************)
(* The steps of the bridge are steps of Crossing.                          *)
(***************************************************************************)
Value == Ev \cup {Nothing}

\* How many wait in an inbox whose places are h and t, and which.
Waits(h, t) == (h + Size - t) % Size
StoredOf(s, h, t) == [i \in 1 .. Waits(h, t) |-> s[(t + i - 1) % Size]]

LEMMA WaitsRound ==
  ASSUME NEW h \in 0 .. Depth, NEW t \in 0 .. Depth
  PROVE  /\ Waits(h, t) \in 0 .. Depth
         /\ Waits(h, t) = 0 <=> h = t
         /\ Succ(h) # t => Waits(Succ(h), t) = Waits(h, t) + 1 /\ Waits(h, t) < Depth
         /\ h # t => Waits(h, Succ(t)) = Waits(h, t) - 1
         /\ (t + Waits(h, t)) % Size = h
         /\ \A i \in 1 .. Waits(h, t) : (t + i - 1) % Size \in 0 .. Depth /\ (t + i - 1) % Size # h
         /\ \A i \in 1 .. Depth : (Succ(t) + i - 1) % Size = (t + i) % Size
         /\ t % Size = t
<1>. USE DepthAssumption DEF Size, Succ, Waits
<1>0. Waits(h, t) = IF h >= t THEN h - t ELSE h + Size - t OBVIOUS
<1>1. Waits(h, t) \in 0 .. Depth /\ (Waits(h, t) = 0 <=> h = t) OBVIOUS
<1>2. Succ(h) # t => Waits(Succ(h), t) = Waits(h, t) + 1 /\ Waits(h, t) < Depth OBVIOUS
<1>3. h # t => Waits(h, Succ(t)) = Waits(h, t) - 1 OBVIOUS
<1>4. (t + Waits(h, t)) % Size = h BY <1>0
<1>5. \A i \in 1 .. Waits(h, t) :
        (t + i - 1) % Size \in 0 .. Depth /\ (t + i - 1) % Size # h
  BY <1>0
<1>6. \A i \in 1 .. Depth : (Succ(t) + i - 1) % Size = (t + i) % Size OBVIOUS
<1>7. t % Size = t OBVIOUS
<1>. QED BY <1>1, <1>2, <1>3, <1>4, <1>5, <1>6, <1>7

LEMMA StoredType ==
  ASSUME NEW s \in [0 .. Depth -> Value], NEW h \in 0 .. Depth, NEW t \in 0 .. Depth
  PROVE  /\ StoredOf(s, h, t) \in Seq(Value)
         /\ Len(StoredOf(s, h, t)) = Waits(h, t)
         /\ \A i \in 1 .. Waits(h, t) : StoredOf(s, h, t)[i] = s[(t + i - 1) % Size]
<1>1. Waits(h, t) \in Nat /\ \A i \in 1 .. Waits(h, t) : (t + i - 1) % Size \in 0 .. Depth
  BY WaitsRound
<1>2. StoredOf(s, h, t) \in [1 .. Waits(h, t) -> Value] BY <1>1 DEF StoredOf
<1>3. StoredOf(s, h, t) \in Seq(Value) BY <1>1, <1>2
<1>4. Len(StoredOf(s, h, t)) = Waits(h, t) BY <1>1, <1>2, <1>3
<1>. QED BY <1>3, <1>4 DEF StoredOf

\* The slot at the head is none of those that wait.
LEMMA StoredWrite ==
  ASSUME NEW s \in [0 .. Depth -> Value], NEW h \in 0 .. Depth, NEW t \in 0 .. Depth, NEW e
  PROVE  StoredOf([s EXCEPT ![h] = e], h, t) = StoredOf(s, h, t)
BY WaitsRound DEF StoredOf

\* The head moves on: one more waits, the last.
LEMMA StoredPublish ==
  ASSUME NEW s \in [0 .. Depth -> Value], NEW h \in 0 .. Depth, NEW t \in 0 .. Depth, Succ(h) # t
  PROVE  StoredOf(s, Succ(h), t) = Append(StoredOf(s, h, t), s[h])
<1>. DEFINE old == StoredOf(s, h, t)
            new == StoredOf(s, Succ(h), t)
<1>1. Succ(h) \in 0 .. Depth BY Round
<1>2. Waits(Succ(h), t) = Waits(h, t) + 1 /\ Waits(h, t) \in Nat BY WaitsRound
<1>3. /\ old \in Seq(Value) /\ Len(old) = Waits(h, t)
      /\ \A i \in 1 .. Waits(h, t) : old[i] = s[(t + i - 1) % Size]
  BY StoredType
<1>4. /\ new \in Seq(Value) /\ Len(new) = Waits(h, t) + 1
      /\ \A i \in 1 .. Waits(h, t) + 1 : new[i] = s[(t + i - 1) % Size]
  BY <1>1, <1>2, StoredType
<1>5. s[h] \in Value OBVIOUS
<1>. HIDE DEF old, new
<1>6. /\ Append(old, s[h]) \in Seq(Value) /\ Len(Append(old, s[h])) = Waits(h, t) + 1
      /\ \A i \in 1 .. Waits(h, t) : Append(old, s[h])[i] = old[i]
      /\ Append(old, s[h])[Waits(h, t) + 1] = s[h]
  BY <1>3, <1>5, AppendProperties
<1>7. t + (Waits(h, t) + 1) - 1 = t + Waits(h, t) BY <1>2
<1>8. new[Waits(h, t) + 1] = s[h]
  <2>1. (t + Waits(h, t)) % Size = h BY WaitsRound
  <2>2. Waits(h, t) + 1 \in 1 .. Waits(h, t) + 1 BY <1>2
  <2>. QED BY <1>4, <1>7, <2>1, <2>2
<1>9. \A i \in 1 .. Len(new) : new[i] = Append(old, s[h])[i]
  <2>. TAKE i \in 1 .. Len(new)
  <2>1. CASE i = Waits(h, t) + 1 BY <2>1, <1>6, <1>8
  <2>2. CASE i # Waits(h, t) + 1
    <3>1. i \in 1 .. Waits(h, t) /\ i \in 1 .. Waits(h, t) + 1 BY <2>2, <1>2, <1>4
    <3>. QED BY <3>1, <1>3, <1>4, <1>6
  <2>. QED BY <2>1, <2>2
<1>10. new = Append(old, s[h]) BY <1>4, <1>6, <1>9, SeqEqual
<1>. QED BY <1>10 DEF old, new

\* The tail moves on: the first no longer waits.
LEMMA StoredFree ==
  ASSUME NEW s \in [0 .. Depth -> Value], NEW h \in 0 .. Depth, NEW t \in 0 .. Depth, h # t
  PROVE  <<s[t]>> \o StoredOf(s, h, Succ(t)) = StoredOf(s, h, t)
<1>. DEFINE old == StoredOf(s, h, t)
            new == StoredOf(s, h, Succ(t))
<1>1. Succ(t) \in 0 .. Depth BY Round
<1>2. Waits(h, Succ(t)) = Waits(h, t) - 1 /\ Waits(h, t) \in 1 .. Depth BY WaitsRound
<1>3. /\ old \in Seq(Value) /\ Len(old) = Waits(h, t)
      /\ \A i \in 1 .. Waits(h, t) : old[i] = s[(t + i - 1) % Size]
  BY StoredType
<1>4. /\ new \in Seq(Value) /\ Len(new) = Waits(h, t) - 1
      /\ \A i \in 1 .. Waits(h, t) - 1 : new[i] = s[(Succ(t) + i - 1) % Size]
  BY <1>1, <1>2, StoredType
<1>5. <<s[t]>> \in Seq(Value) /\ Len(<<s[t]>>) = 1 /\ <<s[t]>>[1] = s[t] OBVIOUS
<1>. HIDE DEF old, new
<1>6. /\ <<s[t]>> \o new \in Seq(Value) /\ Len(<<s[t]>> \o new) = 1 + Len(new)
      /\ \A i \in 1 .. 1 + Len(new) :
           (<<s[t]>> \o new)[i] = IF i <= 1 THEN <<s[t]>>[i] ELSE new[i - 1]
  BY <1>4, <1>5, ConcatProperties
<1>7. Len(<<s[t]>> \o new) = Len(old) BY <1>2, <1>3, <1>4, <1>6
<1>8. \A i \in 1 .. Len(<<s[t]>> \o new) : (<<s[t]>> \o new)[i] = old[i]
  <2>. TAKE i \in 1 .. Len(<<s[t]>> \o new)
  <2>1. i \in 1 .. Waits(h, t) /\ i \in 1 .. 1 + Len(new) /\ i \in Nat BY <1>2, <1>4, <1>6
  <2>2. CASE i = 1
    <3>1. t + 1 - 1 = t OBVIOUS
    <3>2. t % Size = t BY WaitsRound
    <3>3. old[1] = s[t] BY <1>3, <2>1, <2>2, <3>1, <3>2
    <3>. QED BY <2>1, <2>2, <3>3, <1>5, <1>6
  <2>3. CASE i # 1
    <3>1. i - 1 \in 1 .. Waits(h, t) - 1 /\ i - 1 \in 1 .. Depth /\ ~(i <= 1)
      BY <1>2, <2>1, <2>3, DepthAssumption
    <3>2. (Succ(t) + (i - 1) - 1) % Size = (t + (i - 1)) % Size BY <3>1, WaitsRound
    <3>3. t + (i - 1) = t + i - 1 BY <2>1
    <3>4. new[i - 1] = s[(t + i - 1) % Size] BY <1>4, <3>1, <3>2, <3>3
    <3>5. old[i] = s[(t + i - 1) % Size] BY <1>3, <2>1
    <3>. QED BY <2>1, <3>1, <3>4, <3>5, <1>6
  <2>. QED BY <2>2, <2>3
<1>9. <<s[t]>> \o new = old BY <1>3, <1>6, <1>7, <1>8, SeqEqual
<1>. QED BY <1>9 DEF old, new

-----------------------------------------------------------------------------
\* The refinement mapping of ImplementsCrossing.
Transit == [ao \in Ao |-> Held(PlaceOf(ao)) \o Stored(ao)]

\* Crossing without its fairness.
CrossingSafe == Bridge!Init /\ [][Bridge!Next]_Bridge!vars

LEMMA StoredIsStoredOf ==
  /\ \A ao : Stored(ao) = StoredOf(slots[ao], head[ao], tail[ao])
  /\ \A ao : Stored(ao)' = StoredOf(slots'[ao], head'[ao], tail'[ao])
BY DEF Stored, StoredOf, Waits

LEMMA Types ==
  ASSUME IInv, NEW ao \in Ao
  PROVE  /\ slots[ao] \in [0 .. Depth -> Value] /\ head[ao] \in 0 .. Depth /\ tail[ao] \in 0 .. Depth
         /\ Stored(ao) \in Seq(Value) /\ Len(Stored(ao)) = Waits(head[ao], tail[ao])
<1>1. slots[ao] \in [0 .. Depth -> Value] /\ head[ao] \in 0 .. Depth /\ tail[ao] \in 0 .. Depth
  BY DEF IInv, EveryEventHasABell, TypeOK, Value
<1>. QED BY <1>1, StoredIsStoredOf, StoredType

\* The bridge starts with nothing in transit.
LEMMA InitIsCrossing == Init => Bridge!Init
<1>. SUFFICES ASSUME Init PROVE Bridge!Init OBVIOUS
<1>1. ASSUME NEW ao \in Ao PROVE Held(PlaceOf(ao)) \o Stored(ao) = <<>>
  <2>1. Stored(ao) \in Seq(Value) /\ Len(Stored(ao)) = 0
    <3>1. IInv BY InitIInv
    <3>2. Waits(head[ao], tail[ao]) = 0 BY <1>1, <3>1, WaitsRound, Types DEF Init
    <3>. QED BY <1>1, <3>1, <3>2, Types
  <2>2. Stored(ao) = <<>> BY <2>1, EmptySeq
  <2>3. Held(PlaceOf(ao)) = <<>> BY DEF Init, Held
  <2>. QED BY <2>1, <2>2, <2>3, ConcatEmptySeq
<1>2. arrived = [ao \in Ao |-> Nothing] BY DEF Init
<1>. QED BY <1>1, <1>2 DEF Bridge!Init

\* Whatever moves neither an event nor the receiver's hand is no step.
LEMMA NothingMoves ==
  ASSUME UNCHANGED <<slots, head, tail>>, receiver # "post", receiver' # "post"
  PROVE  Transit' = Transit
BY DEF Transit, Held, Stored

LEMMA SameHand ==
  ASSUME UNCHANGED <<slots, head, tail, receiver, at, hand>>
  PROVE  Transit' = Transit
BY DEF Transit, Held, Stored

\* The slot written is not in transit yet.
LEMMA WriteMovesNothing ==
  ASSUME IInv, Write
  PROVE  Transit' = Transit
<1>1. ASSUME NEW ao \in Ao PROVE Stored(ao)' = Stored(ao)
  <2>1. CASE ao = to
    <3>1. slots'[ao] = [slots[ao] EXCEPT ![head[ao]] = sending]
      BY <1>1, <2>1 DEF Write, IInv, EveryEventHasABell, TypeOK
    <3>2. StoredOf(slots'[ao], head[ao], tail[ao]) = StoredOf(slots[ao], head[ao], tail[ao])
      <4>1. slots[ao] \in [0 .. Depth -> Value] /\ head[ao] \in 0 .. Depth /\ tail[ao] \in 0 .. Depth
        BY <1>1, Types
      <4>2. StoredOf([slots[ao] EXCEPT ![head[ao]] = sending], head[ao], tail[ao]) =
              StoredOf(slots[ao], head[ao], tail[ao])
        BY <4>1, StoredWrite
      <4>. QED BY <3>1, <4>2
    <3>. QED BY <3>2, StoredIsStoredOf DEF Write
  <2>2. CASE ao # to
    <3>1. slots'[ao] = slots[ao]
      BY <1>1, <2>2 DEF Write, IInv, EveryEventHasABell, TypeOK
    <3>. QED BY <3>1, StoredIsStoredOf DEF Write
  <2>. QED BY <2>1, <2>2
<1>2. \A ao : Held(PlaceOf(ao))' = Held(PlaceOf(ao)) BY DEF Write, Held, PlaceOf
<1>. QED BY <1>1, <1>2 DEF Transit

\* The tail moves on when the copy is in the hand.
LEMMA FreeMovesNothing ==
  ASSUME IInv, Free
  PROVE  Transit' = Transit
<1>1. at \in DOMAIN Aos /\ Aos[at] \in Ao BY PlacesOfAos DEF IInv, EveryEventHasABell, TypeOK
<1>2. ASSUME NEW ao \in Ao
      PROVE  (Held(PlaceOf(ao)) \o Stored(ao))' = Held(PlaceOf(ao)) \o Stored(ao)
  <2>1. Held(PlaceOf(ao)) = <<>> BY DEF Free, Held
  <2>2. Held(PlaceOf(ao)) \o Stored(ao) = Stored(ao) BY <1>2, <2>1, Types, ConcatEmptySeq
  <2>3. CASE ao = Aos[at]
    <3>1. Held(PlaceOf(ao))' = <<hand>>
      BY <1>1, <2>3, PlacesOfAos DEF Free, Held, PlaceOf
    <3>2. tail'[ao] = Succ(tail[ao]) /\ slots' = slots /\ head' = head
      BY <1>2, <2>3 DEF Free, IInv, EveryEventHasABell, TypeOK
    <3>3. hand = slots[ao][tail[ao]] /\ head[ao] # tail[ao]
      BY <2>3 DEF Free, IInv, ReceiverInv, Empty
    <3>4. <<hand>> \o StoredOf(slots[ao], head[ao], Succ(tail[ao])) =
            StoredOf(slots[ao], head[ao], tail[ao])
      BY <1>2, <3>3, StoredFree, Types
    <3>. QED BY <2>2, <3>1, <3>2, <3>4, StoredIsStoredOf
  <2>4. CASE ao # Aos[at]
    <3>1. PlaceOf(ao) # at BY <1>2, <2>4, PlacesOfAos
    <3>2. Held(PlaceOf(ao))' = <<>> BY <3>1 DEF Free, Held, PlaceOf
    <3>3. tail'[ao] = tail[ao] /\ slots' = slots /\ head' = head
      BY <1>2, <2>4 DEF Free, IInv, EveryEventHasABell, TypeOK
    <3>4. Stored(ao)' = Stored(ao) BY <3>3, StoredIsStoredOf
    <3>. QED BY <2>1, <3>2, <3>4
  <2>. QED BY <2>3, <2>4
<1>. QED BY <1>2 DEF Transit

\* The head moves on: the event is sent.
LEMMA PublishSends ==
  ASSUME IInv, Publish
  PROVE  Bridge!Send(to, sending)
<1>1. to \in Ao /\ sending = slots[to][head[to]] /\ Succ(head[to]) # tail[to]
  BY DEF IInv, EveryEventHasABell, TypeOK, SenderInv, Publish, Full
<1>2. /\ slots[to] \in [0 .. Depth -> Value] /\ head[to] \in 0 .. Depth /\ tail[to] \in 0 .. Depth
      /\ Stored(to) \in Seq(Value) /\ Len(Stored(to)) = Waits(head[to], tail[to])
  BY <1>1, Types
<1>3. Waits(head[to], tail[to]) < Depth /\ Waits(head[to], tail[to]) \in Nat
  BY <1>1, <1>2, WaitsRound
<1>4. \A ao : Held(PlaceOf(ao))' = Held(PlaceOf(ao)) BY DEF Publish, Held, PlaceOf
<1>5. \A ao \in Ao : Held(PlaceOf(ao)) \in Seq(Value) /\ Len(Held(PlaceOf(ao))) <= 1
  <2>1. hand \in Value BY DEF IInv, EveryEventHasABell, TypeOK, Value
  <2>. QED BY <2>1 DEF Held
<1>6. sending \in Value BY DEF IInv, EveryEventHasABell, TypeOK, Value
<1>7. \A ao \in Ao : ao = to => Stored(ao)' = Append(Stored(ao), sending)
  <2>1. head'[to] = Succ(head[to]) /\ slots' = slots /\ tail' = tail
    BY <1>1 DEF Publish, IInv, EveryEventHasABell, TypeOK
  <2>2. StoredOf(slots[to], Succ(head[to]), tail[to]) =
          Append(StoredOf(slots[to], head[to], tail[to]), slots[to][head[to]])
    BY <1>1, <1>2, StoredPublish
  <2>. QED BY <1>1, <2>1, <2>2, StoredIsStoredOf
<1>8. \A ao \in Ao : ao # to => Stored(ao)' = Stored(ao)
  <2>1. \A ao \in Ao : ao # to => head'[ao] = head[ao] /\ slots' = slots /\ tail' = tail
    BY DEF Publish, IInv, EveryEventHasABell, TypeOK
  <2>. QED BY <2>1, StoredIsStoredOf
<1>9. Len(Held(PlaceOf(to)) \o Stored(to)) <= Depth
  <2>1. Len(Held(PlaceOf(to)) \o Stored(to)) = Len(Held(PlaceOf(to))) + Len(Stored(to))
    BY <1>1, <1>2, <1>5, ConcatProperties
  <2>2. Len(Held(PlaceOf(to))) \in Nat BY <1>1, <1>5
  <2>. QED BY <1>1, <1>2, <1>3, <1>5, <2>1, <2>2, DepthAssumption
<1>10. Held(PlaceOf(to)) \o Append(Stored(to), sending) = Append(Held(PlaceOf(to)) \o Stored(to), sending)
  <2>1. Append(Stored(to), sending) = Stored(to) \o <<sending>> BY <1>2, <1>6, AppendIsConcat
  <2>2. Held(PlaceOf(to)) \o Stored(to) \in Seq(Value) BY <1>1, <1>2, <1>5, ConcatProperties
  <2>3. Append(Held(PlaceOf(to)) \o Stored(to), sending) =
          (Held(PlaceOf(to)) \o Stored(to)) \o <<sending>>
    BY <1>6, <2>2, AppendIsConcat
  <2>4. <<sending>> \in Seq(Value) BY <1>6
  <2>. QED BY <1>1, <1>2, <1>5, <2>1, <2>3, <2>4, ConcatAssociative
<1>11. Len(Transit[to]) <= Depth BY <1>1, <1>9 DEF Transit
<1>12. Transit' = [Transit EXCEPT ![to] = Append(@, sending)]
  <2>1. \A ao \in Ao :
          (Held(PlaceOf(ao)) \o Stored(ao))' =
            IF ao = to THEN Append(Held(PlaceOf(ao)) \o Stored(ao), sending)
                       ELSE Held(PlaceOf(ao)) \o Stored(ao)
    <3>. TAKE ao \in Ao
    <3>1. Held(PlaceOf(ao))' = Held(PlaceOf(ao)) BY <1>4
    <3>2. CASE ao = to
      <4>1. Stored(ao)' = Append(Stored(ao), sending) BY <1>7, <3>2
      <4>2. Held(PlaceOf(ao)) \o Append(Stored(ao), sending) =
              Append(Held(PlaceOf(ao)) \o Stored(ao), sending)
        BY <1>10, <3>2
      <4>. QED BY <3>1, <3>2, <4>1, <4>2
    <3>3. CASE ao # to
      <4>1. Stored(ao)' = Stored(ao) BY <1>8, <3>3
      <4>. QED BY <3>1, <3>3, <4>1
    <3>. QED BY <3>2, <3>3
  <2>. QED BY <2>1 DEF Transit
<1>13. arrived' = arrived BY DEF Publish
<1>. QED BY <1>11, <1>12, <1>13 DEF Bridge!Send, Transit

\* post<Ao>(): the event arrives.
LEMMA PostArrives ==
  ASSUME IInv, Post
  PROVE  Bridge!Arrive(Aos[at])
<1>1. at \in DOMAIN Aos /\ Aos[at] \in Ao /\ PlaceOf(Aos[at]) = at
  BY PlacesOfAos DEF IInv, EveryEventHasABell, TypeOK
<1>2. hand \in Value BY DEF IInv, EveryEventHasABell, TypeOK, Value
<1>3. \A ao \in Ao : Stored(ao) \in Seq(Value) BY Types
<1>4. \A ao : Stored(ao)' = Stored(ao) /\ Held(PlaceOf(ao))' = <<>>
  BY DEF Post, inbox, Stored, Held
<1>5. \A ao \in Ao : (Held(PlaceOf(ao)) \o Stored(ao))' = Stored(ao)
  BY <1>3, <1>4, ConcatEmptySeq
<1>6. \A ao \in Ao : ao # Aos[at] => Held(PlaceOf(ao)) \o Stored(ao) = Stored(ao)
  <2>1. \A ao \in Ao : ao # Aos[at] => Held(PlaceOf(ao)) = <<>> BY PlacesOfAos DEF Held
  <2>. QED BY <1>3, <2>1, ConcatEmptySeq
<1>7. Held(PlaceOf(Aos[at])) = <<hand>> BY <1>1 DEF Post, Held
<1>8. /\ <<hand>> \o Stored(Aos[at]) # <<>>
      /\ Head(<<hand>> \o Stored(Aos[at])) = hand
      /\ Tail(<<hand>> \o Stored(Aos[at])) = Stored(Aos[at])
  <2>. DEFINE st == Stored(Aos[at])
              both == <<hand>> \o st
  <2>1. st \in Seq(Value) /\ Len(st) \in Nat BY <1>1, <1>3
  <2>2. <<hand>> \in Seq(Value) /\ Len(<<hand>>) = 1 /\ <<hand>>[1] = hand BY <1>2
  <2>. HIDE DEF st
  <2>3. /\ both \in Seq(Value) /\ Len(both) = 1 + Len(st)
        /\ \A i \in 1 .. 1 + Len(st) : both[i] = IF i <= 1 THEN <<hand>>[i] ELSE st[i - 1]
    BY <2>1, <2>2, ConcatProperties
  <2>. HIDE DEF both
  <2>4. both # <<>> BY <2>1, <2>3, EmptySeq
  <2>5. Head(both) = hand BY <2>1, <2>2, <2>3, <2>4
  <2>6. Tail(both) \in Seq(Value) /\ Len(Tail(both)) = Len(st)
    BY <2>1, <2>3, <2>4, HeadTailProperties
  <2>7. \A i \in 1 .. Len(st) : Tail(both)[i] = st[i]
    <3>. TAKE i \in 1 .. Len(st)
    <3>1. Tail(both)[i] = both[i + 1] BY <2>3, <2>4, <2>6, HeadTailProperties
    <3>2. i + 1 \in 1 .. 1 + Len(st) /\ ~(i + 1 <= 1) /\ (i + 1) - 1 = i BY <2>1
    <3>. QED BY <3>1, <3>2, <2>3
  <2>8. Tail(both) = st BY <2>1, <2>6, <2>7, SeqEqual
  <2>. QED BY <2>4, <2>5, <2>8 DEF both, st
<1>9. Transit[Aos[at]] = <<hand>> \o Stored(Aos[at]) BY <1>1, <1>7 DEF Transit
<1>10. Transit' = [Transit EXCEPT ![Aos[at]] = Tail(@)]
  <2>1. \A ao \in Ao :
          (Held(PlaceOf(ao)) \o Stored(ao))' =
            IF ao = Aos[at] THEN Tail(Held(PlaceOf(ao)) \o Stored(ao))
                            ELSE Held(PlaceOf(ao)) \o Stored(ao)
    BY <1>5, <1>6, <1>7, <1>8
  <2>. QED BY <2>1 DEF Transit
<1>11. arrived' = [arrived EXCEPT ![Aos[at]] = Head(Transit[Aos[at]])]
  BY <1>8, <1>9 DEF Post
<1>12. Transit[Aos[at]] # <<>> BY <1>8, <1>9
<1>. QED BY <1>10, <1>11, <1>12 DEF Bridge!Arrive, Transit

\* Each step of the bridge is one of Crossing or none.
LEMMA NextIsCrossing == IInv /\ [Next]_vars => [Bridge!Next]_Bridge!vars
<1>. SUFFICES ASSUME IInv, [Next]_vars PROVE [Bridge!Next]_Bridge!vars OBVIOUS
<1>1. ASSUME Transit' = Transit, arrived' = arrived PROVE UNCHANGED Bridge!vars
  BY <1>1 DEF Bridge!vars, Transit
<1>2. CASE UNCHANGED vars BY <1>2, <1>1, SameHand DEF vars, inbox
<1>3. CASE Publish
  <2>1. to \in Ao /\ sending \in Ev
    BY <1>3 DEF IInv, EveryEventHasABell, TypeOK, SenderInv, Publish
  <2>. QED BY <1>3, <2>1, PublishSends DEF Bridge!Next
<1>4. CASE Post
  <2>1. Aos[at] \in Ao BY PlacesOfAos DEF IInv, EveryEventHasABell, TypeOK
  <2>. QED BY <1>4, <2>1, PostArrives DEF Bridge!Next
<1>5. CASE Write BY <1>5, <1>1, WriteMovesNothing DEF Write
<1>6. CASE Free BY <1>6, <1>1, FreeMovesNothing DEF Free
<1>7. CASE Ring BY <1>7, <1>1, SameHand DEF Ring, inbox
<1>8. CASE Enable BY <1>8, <1>1, SameHand DEF Enable, inbox
<1>9. CASE \E ao \in Ao, e \in Ev : Send(ao, e) BY <1>9, <1>1, SameHand DEF Send, inbox
<1>10. CASE Isr BY <1>10, <1>1, NothingMoves DEF Isr, inbox
<1>11. CASE LookNone BY <1>11, <1>1, NothingMoves DEF LookNone, inbox
<1>12. CASE LookOne BY <1>12, <1>1, NothingMoves DEF LookOne, inbox
<1>13. CASE Copy BY <1>13, <1>1, NothingMoves DEF Copy, inbox
<1>. QED
  BY <1>2, <1>3, <1>4, <1>5, <1>6, <1>7, <1>8, <1>9, <1>10, <1>11, <1>12, <1>13
  DEF Next, Sender, Receiver

\* Whatever the interleaving of the cores, what an object is posted is what
\* was sent to it, each event once, whole and in order, and no more than
\* Depth + 1 are on their way: the safety part of ImplementsCrossing.
THEOREM CrossesInOrder == Spec => CrossingSafe
<1>1. Init => Bridge!Init BY InitIsCrossing
<1>2. IInv /\ [Next]_vars => [Bridge!Next]_Bridge!vars BY NextIsCrossing
<1>. QED BY <1>1, <1>2, IInvariant, PTL DEF Spec, CrossingSafe

-----------------------------------------------------------------------------
(***************************************************************************)
(* BlockRelay: the blocks and the loans of them.                           *)
(***************************************************************************)
Loan == Source \X {0, 1}
RelayTypeInv ==
  /\ fill \in [Source -> {0, 1}] /\ drain \in [Source -> {0, 1}]
  /\ unreleased \in [Source -> 0 .. 2] /\ laps \in [Source -> 0 .. MaxBlocks]
  /\ running \in [Source -> BOOLEAN] /\ stalled \in [Source -> BOOLEAN]
  /\ buffer \in [Source -> [{0, 1} -> 0 .. Filling]]
  /\ relay \in {"rest", "return", "lend", "end"} /\ turn \in 1 .. SourceCount + 1
  /\ lent \subseteq Source /\ notes \in 0 .. RelayDepth
  /\ lentTo \in [Subscribers -> Seq(Loan)]
  /\ lastRead \in [Subscribers -> [Source -> 0 .. Torn]]

\* The engine's buffers: what is full and not given back lies from drain_ on,
\* the newest at the other place, and a stalled source has both full.
BufferInv == \A s \in Source :
  /\ unreleased[s] \in {0, 2} => fill[s] = drain[s]
  /\ unreleased[s] = 1 => fill[s] = 1 - drain[s]
  /\ running[s] => unreleased[s] < 2
  /\ stalled[s] => unreleased[s] = 2
  /\ unreleased[s] > 0 => buffer[s][drain[s]] = laps[s] - unreleased[s] + 1
  /\ unreleased[s] = 2 => buffer[s][1 - drain[s]] = laps[s]
  /\ unreleased[s] <= laps[s]

\* A source's loan is out from its lending to its return.
OnLoan(s) == s \in lent /\ ~(relay = "return" /\ turn > s)
LoanInv ==
  /\ \A s \in Source : OnLoan(s) => unreleased[s] > 0
  /\ relay = "lend" => \A s \in lent : s < turn
  /\ relay = "return" => \A u \in Subscribers : lentTo[u] = <<>>
  /\ relay = "lend" => \A u \in Subscribers : Len(lentTo[u]) < turn

\* Each subscriber has read what was given back, and of what is on loan it has
\* the block in its queue, once, or has read it.
Owed(u, s) == \E i \in 1 .. Len(lentTo[u]) : lentTo[u][i][1] = s
ReadInv == \A u \in Subscribers :
  /\ \A i \in 1 .. Len(lentTo[u]) :
       /\ OnLoan(lentTo[u][i][1]) /\ lentTo[u][i][2] = drain[lentTo[u][i][1]]
       /\ \A j \in 1 .. Len(lentTo[u]) : lentTo[u][i][1] = lentTo[u][j][1] => i = j
  /\ \A s \in Source :
       lastRead[u][s] = laps[s] - unreleased[s] + IF OnLoan(s) /\ ~Owed(u, s) THEN 1 ELSE 0

\* The note that brings the relay back.
NoteInv ==
  /\ relay # "rest" => notes > 0
  /\ relay = "lend" => \A s \in Source : s < turn /\ unreleased[s] > 0 => s \in lent \/ notes > 1
  /\ relay = "end" => \A s \in Source : unreleased[s] > 0 => notes > 1
  /\ relay = "rest" => \A s \in Source : unreleased[s] > 0 => notes > 0

\* All of it but ReadInv holds whatever the subscribers' queues refuse.
EngineInv == RelayTypeInv /\ BufferInv /\ LoanInv /\ NoteInv
RelayInv == EngineInv /\ ReadInv

\* What each subscriber read last is the last block given back or the one
\* behind it, and a block that was filled.
ReadBeforeReturn == \A u \in Subscribers, s \in Source :
  /\ lastRead[u][s] \in {laps[s] - unreleased[s], laps[s] - unreleased[s] + 1}
  /\ lastRead[u][s] <= laps[s]

\* A subscriber reads the blocks of a source one after the other.
OneAfterTheOther == \A u \in Subscribers, s \in Source :
  lastRead'[u][s] \in {lastRead[u][s], lastRead[u][s] + 1}

\* The relay is never at rest for good with a block not given back.
BroughtBack == relay = "rest" /\ notes = 0 => \A s \in Source : unreleased[s] = 0

-----------------------------------------------------------------------------
LEMMA SourceRange ==
  /\ SourceCount \in Nat /\ SourceCount > 0 /\ RelayDepth \in Nat /\ RelayDepth > 2
  /\ \A s \in Source : s \in Nat /\ s >= 1 /\ s <= SourceCount
BY RelayAssumption DEF Source, RelayDepth

\* The relay starts in the invariant.
LEMMA InitRelayInv == RelayInit => RelayInv
<1>. SUFFICES ASSUME RelayInit PROVE RelayInv OBVIOUS
<1>. USE RelayAssumption, SourceRange DEF RelayInit
<1>1. RelayTypeInv
  <2>1. /\ fill \in [Source -> {0, 1}] /\ drain \in [Source -> {0, 1}]
        /\ unreleased \in [Source -> 0 .. 2] /\ laps \in [Source -> 0 .. MaxBlocks]
        /\ running \in [Source -> BOOLEAN] /\ stalled \in [Source -> BOOLEAN]
    OBVIOUS
  <2>2. buffer \in [Source -> [{0, 1} -> 0 .. Filling]] BY DEF Filling
  <2>3. lentTo \in [Subscribers -> Seq(Loan)] BY EmptySeq
  <2>4. lastRead \in [Subscribers -> [Source -> 0 .. Torn]] BY DEF Torn
  <2>5. turn \in 1 .. SourceCount + 1 /\ notes \in 0 .. RelayDepth OBVIOUS
  <2>. QED BY <2>1, <2>2, <2>3, <2>4, <2>5 DEF RelayTypeInv
<1>2. BufferInv BY DEF BufferInv
<1>3. \A s : ~OnLoan(s) BY DEF OnLoan
<1>4. LoanInv BY <1>3 DEF LoanInv
<1>5. ReadInv
  <2>1. \A u \in Subscribers : Len(lentTo[u]) = 0 OBVIOUS
  <2>2. \A u \in Subscribers, s \in Source : lastRead[u][s] = 0 /\ laps[s] = 0 /\ unreleased[s] = 0 OBVIOUS
  <2>. QED BY <1>3, <2>1, <2>2 DEF ReadInv
<1>6. NoteInv BY DEF NoteInv
<1>. QED BY <1>1, <1>2, <1>4, <1>5, <1>6 DEF RelayInv, EngineInv

\* What the subscribers see of a step that leaves their queues, the loans and
\* what is not given back of each source.
LEMMA ReadsSame ==
  ASSUME RelayTypeInv, ReadInv, UNCHANGED <<drain, lentTo, lastRead>>,
         \A s \in Source : OnLoan(s)' <=> OnLoan(s),
         \A s \in Source : laps'[s] - unreleased'[s] = laps[s] - unreleased[s]
  PROVE  ReadInv'
<1>1. ReadInv /\ RelayTypeInv OBVIOUS
<1>2. ASSUME NEW u \in Subscribers, NEW i \in 1 .. Len(lentTo[u])
      PROVE  /\ OnLoan(lentTo[u][i][1])' /\ lentTo[u][i][2] = drain[lentTo[u][i][1]]
             /\ \A j \in 1 .. Len(lentTo[u]) : lentTo[u][i][1] = lentTo[u][j][1] => i = j
  <2>1. lentTo[u] \in Seq(Loan) BY <1>1 DEF RelayTypeInv
  <2>2. lentTo[u][i] \in Loan BY <2>1, ElementOfSeq
  <2>. PICK s \in Source : s = lentTo[u][i][1] BY <2>2 DEF Loan
  <2>3. OnLoan(s) BY <1>1 DEF ReadInv
  <2>4. OnLoan(s)' BY <2>3
  <2>5. OnLoan(lentTo[u][i][1])' BY <2>4 DEF OnLoan
  <2>. QED BY <1>1, <2>5 DEF ReadInv
<1>3. \A u, s : Owed(u, s)' <=> Owed(u, s) BY DEF Owed
<1>4. ASSUME NEW u \in Subscribers, NEW s \in Source
      PROVE  lastRead[u][s] = laps'[s] - unreleased'[s] + IF OnLoan(s)' /\ ~Owed(u, s)' THEN 1 ELSE 0
  BY <1>1, <1>3 DEF ReadInv
<1>. QED BY <1>2, <1>4 DEF ReadInv

\* complete(): a buffer filled, and a note of it.
LEMMA CompleteEngineInv ==
  ASSUME EngineInv, NEW s \in Source, Complete(s)
  PROVE  EngineInv' /\ (ReadInv => ReadInv')
<1>1. RelayTypeInv /\ BufferInv /\ LoanInv /\ NoteInv BY DEF EngineInv
<1>2. /\ running[s] /\ laps[s] < MaxBlocks
      /\ laps' = [laps EXCEPT ![s] = @ + 1] /\ unreleased' = [unreleased EXCEPT ![s] = @ + 1]
      /\ fill' = [fill EXCEPT ![s] = 1 - fill[s]] /\ notes' = Noted(notes)
      /\ UNCHANGED <<relayPreempt, drain, relay, turn, lent, lentTo, lastRead>>
  BY DEF Complete
<1>3. /\ fill[s] \in {0, 1} /\ drain[s] \in {0, 1} /\ unreleased[s] \in 0 .. 2 /\ laps[s] \in 0 .. MaxBlocks
      /\ MaxBlocks \in Nat /\ Filling = MaxBlocks + 1 /\ buffer[s] \in [{0, 1} -> 0 .. Filling]
  BY <1>1, RelayAssumption DEF RelayTypeInv, Filling
<1>4. unreleased[s] \in {0, 1} BY <1>1, <1>2, <1>3 DEF BufferInv
<1>5. /\ laps'[s] = laps[s] + 1 /\ unreleased'[s] = unreleased[s] + 1 /\ fill'[s] = 1 - fill[s]
      /\ \A x \in Source : x # s => laps'[x] = laps[x] /\ unreleased'[x] = unreleased[x] /\ fill'[x] = fill[x]
  BY <1>1, <1>2 DEF RelayTypeInv
<1>6. /\ laps' \in [Source -> 0 .. MaxBlocks] /\ unreleased' \in [Source -> 0 .. 2] /\ fill' \in [Source -> {0, 1}]
  BY <1>1, <1>2, <1>3, <1>4 DEF RelayTypeInv
<1>7. notes' \in 0 .. RelayDepth /\ notes' > 0 /\ (notes > 0 => notes' > 1) /\ notes' >= notes
  BY <1>1, <1>2, SourceRange DEF RelayTypeInv, Noted
<1>8. \A x : OnLoan(x)' <=> OnLoan(x) BY <1>2 DEF OnLoan
<1>9. LoanInv'
  <2>1. \A x \in Source : unreleased[x] > 0 => unreleased'[x] > 0 BY <1>4, <1>5
  <2>. QED BY <1>1, <1>2, <1>8, <2>1 DEF LoanInv
<1>10. ReadInv => ReadInv'
  <2>1. \A x \in Source : laps'[x] - unreleased'[x] = laps[x] - unreleased[x] BY <1>3, <1>5
  <2>. QED BY <1>1, <1>2, <1>8, <2>1, ReadsSame
<1>11. NoteInv' BY <1>1, <1>2, <1>5, <1>7 DEF NoteInv
<1>12. CASE Stalls(s)
  <2>1. /\ stalled' = [stalled EXCEPT ![s] = TRUE] /\ running' = [running EXCEPT ![s] = FALSE]
        /\ buffer' = [buffer EXCEPT ![s][fill[s]] = laps[s] + 1]
    BY <1>12 DEF Complete
  <2>2. unreleased[s] = 1 BY <1>4, <1>12 DEF Stalls
  <2>3. fill[s] = 1 - drain[s] BY <1>1, <2>2 DEF BufferInv
  <2>4. /\ stalled'[s] = TRUE /\ running'[s] = FALSE
        /\ \A x \in Source : x # s => stalled'[x] = stalled[x] /\ running'[x] = running[x] /\ buffer'[x] = buffer[x]
    BY <1>1, <2>1 DEF RelayTypeInv
  <2>5. buffer'[s] = [buffer[s] EXCEPT ![fill[s]] = laps[s] + 1] BY <1>1, <2>1 DEF RelayTypeInv
  <2>6. buffer'[s][fill[s]] = laps[s] + 1 /\ buffer'[s][drain[s]] = buffer[s][drain[s]]
    BY <1>3, <2>3, <2>5
  <2>7. buffer'[s] \in [{0, 1} -> 0 .. Filling] BY <1>3, <2>5
  <2>8. buffer' \in [Source -> [{0, 1} -> 0 .. Filling]] BY <1>1, <2>1, <2>7 DEF RelayTypeInv
  <2>9. RelayTypeInv' BY <1>1, <1>2, <1>6, <1>7, <2>1, <2>8 DEF RelayTypeInv
  <2>10. buffer[s][drain[s]] = laps[s] /\ 1 - drain[s] = fill[s]
    <3>1. buffer[s][drain[s]] = laps[s] - unreleased[s] + 1 BY <1>1, <2>2 DEF BufferInv
    <3>. QED BY <1>3, <2>2, <2>3, <3>1
  <2>11. fill'[s] = drain[s] BY <1>3, <1>5, <2>3
  <2>12. 1 <= laps[s] BY <1>1, <2>2 DEF BufferInv
  <2>13. BufferInv'
    <3>1. ASSUME NEW x \in Source, x # s
          PROVE  /\ unreleased'[x] \in {0, 2} => fill'[x] = drain'[x]
                 /\ unreleased'[x] = 1 => fill'[x] = 1 - drain'[x]
                 /\ running'[x] => unreleased'[x] < 2
                 /\ stalled'[x] => unreleased'[x] = 2
                 /\ unreleased'[x] > 0 => buffer'[x][drain'[x]] = laps'[x] - unreleased'[x] + 1
                 /\ unreleased'[x] = 2 => buffer'[x][1 - drain'[x]] = laps'[x]
                 /\ unreleased'[x] <= laps'[x]
      BY <1>1, <1>2, <1>5, <2>4, <3>1 DEF BufferInv
    <3>2. /\ unreleased'[s] = 2 /\ fill'[s] = drain'[s] /\ ~running'[s]
          /\ buffer'[s][drain'[s]] = laps'[s] - unreleased'[s] + 1
          /\ buffer'[s][1 - drain'[s]] = laps'[s] /\ unreleased'[s] <= laps'[s]
      BY <1>2, <1>3, <1>5, <2>2, <2>4, <2>6, <2>10, <2>11, <2>12
    <3>. QED BY <3>1, <3>2 DEF BufferInv
  <2>. QED BY <1>9, <1>10, <1>11, <2>9, <2>13 DEF EngineInv
<1>13. CASE ~Stalls(s)
  <2>1. /\ buffer' = [buffer EXCEPT ![s] = [b \in {0, 1} |-> IF b = 1 - fill[s] THEN Filling ELSE laps[s] + 1]]
        /\ UNCHANGED <<stalled, running>>
    BY <1>13 DEF Complete
  <2>2. unreleased[s] = 0 BY <1>4, <1>13 DEF Stalls
  <2>3. fill[s] = drain[s] BY <1>1, <2>2 DEF BufferInv
  <2>4. /\ buffer'[s] = [b \in {0, 1} |-> IF b = 1 - fill[s] THEN Filling ELSE laps[s] + 1]
        /\ \A x \in Source : x # s => buffer'[x] = buffer[x]
    BY <1>1, <2>1 DEF RelayTypeInv
  <2>5. buffer'[s] \in [{0, 1} -> 0 .. Filling] /\ buffer'[s][drain[s]] = laps[s] + 1
    BY <1>3, <2>3, <2>4
  <2>6. buffer' \in [Source -> [{0, 1} -> 0 .. Filling]] BY <1>1, <2>1, <2>4, <2>5 DEF RelayTypeInv
  <2>7. RelayTypeInv' BY <1>1, <1>2, <1>6, <1>7, <2>1, <2>6 DEF RelayTypeInv
  <2>8. ~stalled[s] BY <1>1, <2>2 DEF BufferInv
  <2>9. BufferInv'
    <3>1. ASSUME NEW x \in Source, x # s
          PROVE  /\ unreleased'[x] \in {0, 2} => fill'[x] = drain'[x]
                 /\ unreleased'[x] = 1 => fill'[x] = 1 - drain'[x]
                 /\ running'[x] => unreleased'[x] < 2
                 /\ stalled'[x] => unreleased'[x] = 2
                 /\ unreleased'[x] > 0 => buffer'[x][drain'[x]] = laps'[x] - unreleased'[x] + 1
                 /\ unreleased'[x] = 2 => buffer'[x][1 - drain'[x]] = laps'[x]
                 /\ unreleased'[x] <= laps'[x]
      BY <1>1, <1>2, <1>5, <2>1, <2>4, <3>1 DEF BufferInv
    <3>2. /\ unreleased'[s] = 1 /\ fill'[s] = 1 - drain'[s] /\ ~stalled'[s]
          /\ buffer'[s][drain'[s]] = laps'[s] - unreleased'[s] + 1 /\ unreleased'[s] <= laps'[s]
      BY <1>2, <1>3, <1>5, <2>1, <2>2, <2>3, <2>5, <2>8
    <3>. QED BY <3>1, <3>2 DEF BufferInv
  <2>. QED BY <1>9, <1>10, <1>11, <2>7, <2>9 DEF EngineInv
<1>. QED BY <1>12, <1>13

\* fail().
LEMMA FaultEngineInv ==
  ASSUME EngineInv, NEW s \in Source, Fault(s)
  PROVE  EngineInv' /\ (ReadInv => ReadInv')
<1>1. RelayTypeInv /\ BufferInv /\ LoanInv /\ NoteInv BY DEF EngineInv
<1>2. /\ running' = [running EXCEPT ![s] = FALSE]
      /\ UNCHANGED <<relayPreempt, fill, drain, unreleased, stalled, buffer, laps, relay, turn, lent, notes, lentTo, lastRead>>
  BY DEF Fault
<1>3. \A x : OnLoan(x)' <=> OnLoan(x) BY <1>2 DEF OnLoan
<1>4. RelayTypeInv' BY <1>1, <1>2 DEF RelayTypeInv
<1>5. \A x \in Source : running'[x] => running[x] BY <1>1, <1>2 DEF RelayTypeInv
<1>6. BufferInv' BY <1>1, <1>2, <1>5 DEF BufferInv
<1>7. LoanInv' BY <1>1, <1>2, <1>3 DEF LoanInv
<1>8. ReadInv => ReadInv' BY <1>1, <1>2, <1>3, ReadsSame
<1>9. NoteInv' BY <1>1, <1>2 DEF NoteInv
<1>. QED BY <1>4, <1>6, <1>7, <1>8, <1>9 DEF EngineInv

\* The note is served: the relay starts on what it lent.
LEMMA RelayServeEngineInv ==
  ASSUME EngineInv, RelayServe
  PROVE  EngineInv' /\ (ReadInv => ReadInv')
<1>1. RelayTypeInv /\ BufferInv /\ LoanInv /\ NoteInv BY DEF EngineInv
<1>2. /\ relay = "rest" /\ notes > 0 /\ ~Waited /\ relay' = "return" /\ turn' = 1
      /\ UNCHANGED <<relayPreempt, engine, lent, notes, lentTo, lastRead>>
  BY DEF RelayServe
<1>3. \A s \in Source : OnLoan(s)' <=> OnLoan(s) BY <1>2, SourceRange DEF OnLoan
<1>4. RelayTypeInv' BY <1>1, <1>2, SourceRange DEF RelayTypeInv, engine
<1>5. BufferInv' BY <1>1, <1>2 DEF BufferInv, engine
<1>6. LoanInv' BY <1>1, <1>2, <1>3 DEF LoanInv, Waited, engine
<1>7. ReadInv => ReadInv' BY <1>1, <1>2, <1>3, ReadsSame DEF engine
<1>8. NoteInv' BY <1>2 DEF NoteInv
<1>. QED BY <1>4, <1>5, <1>6, <1>7, <1>8 DEF EngineInv

\* All is given back, and nothing is lent.
LEMMA AllReturnedEngineInv ==
  ASSUME EngineInv, AllReturned
  PROVE  EngineInv' /\ (ReadInv => ReadInv')
<1>1. RelayTypeInv /\ BufferInv /\ LoanInv /\ NoteInv BY DEF EngineInv
<1>2. /\ relay = "return" /\ turn > SourceCount /\ relay' = "lend" /\ turn' = 1 /\ lent' = {}
      /\ UNCHANGED <<relayPreempt, engine, notes, lentTo, lastRead>>
  BY DEF AllReturned, GoesOn
<1>3. \A s \in Source : ~OnLoan(s)
  <2>1. turn \in Nat BY <1>1, SourceRange DEF RelayTypeInv
  <2>2. \A s \in Source : turn > s BY <1>2, <2>1, SourceRange
  <2>. QED BY <1>2, <2>2 DEF OnLoan
<1>4. \A s \in Source : ~OnLoan(s)' BY <1>2 DEF OnLoan
<1>5. RelayTypeInv' BY <1>1, <1>2, SourceRange DEF RelayTypeInv, engine
<1>6. BufferInv' BY <1>1, <1>2 DEF BufferInv, engine
<1>7. LoanInv'
  <2>1. \A u \in Subscribers : lentTo[u] = <<>> BY <1>1, <1>2 DEF LoanInv
  <2>2. \A u \in Subscribers : Len(lentTo[u]) = 0 BY <2>1
  <2>. QED BY <1>2, <1>4, <2>2 DEF LoanInv
<1>8. ReadInv => ReadInv' BY <1>1, <1>2, <1>3, <1>4, ReadsSame DEF engine
<1>9. NoteInv' BY <1>1, <1>2, SourceRange DEF NoteInv
<1>. QED BY <1>5, <1>6, <1>7, <1>8, <1>9 DEF EngineInv

\* The post to itself, while something is lent.
LEMMA SelfPostEngineInv ==
  ASSUME EngineInv, SelfPost
  PROVE  EngineInv' /\ (ReadInv => ReadInv')
<1>1. RelayTypeInv /\ BufferInv /\ LoanInv /\ NoteInv BY DEF EngineInv
<1>2. /\ relay = "lend" /\ turn > SourceCount /\ relay' = "end"
      /\ notes' = (IF lent # {} THEN Noted(notes) ELSE notes)
      /\ UNCHANGED <<relayPreempt, engine, turn, lent, lentTo, lastRead>>
  BY DEF SelfPost, GoesOn
<1>3. \A s \in Source : OnLoan(s)' <=> OnLoan(s) BY <1>2 DEF OnLoan
<1>4. notes > 0 /\ notes \in 0 .. RelayDepth BY <1>1, <1>2 DEF NoteInv, RelayTypeInv
<1>5. Noted(notes) \in 0 .. RelayDepth /\ Noted(notes) > 1 BY <1>4, SourceRange DEF Noted
<1>6. notes' \in 0 .. RelayDepth /\ notes' > 0 BY <1>2, <1>4, <1>5
<1>7. RelayTypeInv' BY <1>1, <1>2, <1>6 DEF RelayTypeInv, engine
<1>8. BufferInv' BY <1>1, <1>2 DEF BufferInv, engine
<1>9. LoanInv' BY <1>1, <1>2, <1>3 DEF LoanInv, engine
<1>10. ReadInv => ReadInv' BY <1>1, <1>2, <1>3, ReadsSame DEF engine
<1>11. NoteInv'
  <2>1. ASSUME NEW s \in Source, unreleased[s] > 0 PROVE notes' > 1
    <3>1. turn \in Nat BY <1>1, SourceRange DEF RelayTypeInv
    <3>2. s < turn BY <1>2, <3>1, SourceRange
    <3>3. s \in lent \/ notes > 1 BY <1>1, <1>2, <2>1, <3>2 DEF NoteInv
    <3>. QED BY <1>2, <1>5, <3>3
  <2>. QED BY <1>2, <1>6, <2>1 DEF NoteInv, engine
<1>. QED BY <1>7, <1>8, <1>9, <1>10, <1>11 DEF EngineInv

\* The dispatch ends.
LEMMA RelayReturnEngineInv ==
  ASSUME EngineInv, RelayReturn
  PROVE  EngineInv' /\ (ReadInv => ReadInv')
<1>1. RelayTypeInv /\ BufferInv /\ LoanInv /\ NoteInv BY DEF EngineInv
<1>2. /\ relay = "end" /\ relay' = "rest" /\ notes' = notes - 1
      /\ UNCHANGED <<relayPreempt, engine, turn, lent, lentTo, lastRead>>
  BY DEF RelayReturn, GoesOn
<1>3. \A s \in Source : OnLoan(s)' <=> OnLoan(s) BY <1>2 DEF OnLoan
<1>4. notes > 0 /\ notes \in 0 .. RelayDepth BY <1>1, <1>2 DEF NoteInv, RelayTypeInv
<1>5. notes' \in 0 .. RelayDepth /\ (notes > 1 => notes' > 0) BY <1>2, <1>4, SourceRange
<1>6. RelayTypeInv' BY <1>1, <1>2, <1>5 DEF RelayTypeInv, engine
<1>7. BufferInv' BY <1>1, <1>2 DEF BufferInv, engine
<1>8. LoanInv' BY <1>1, <1>2, <1>3 DEF LoanInv, engine
<1>9. ReadInv => ReadInv' BY <1>1, <1>2, <1>3, ReadsSame DEF engine
<1>10. NoteInv' BY <1>1, <1>2, <1>5 DEF NoteInv, engine
<1>. QED BY <1>6, <1>7, <1>8, <1>9, <1>10 DEF EngineInv

\* release(): the block is given back, and a stalled source starts on it.
LEMMA ReturnOneEngineInv ==
  ASSUME EngineInv, ReturnOne
  PROVE  EngineInv' /\ (ReadInv => ReadInv')
<1>1. RelayTypeInv /\ BufferInv /\ LoanInv /\ NoteInv BY DEF EngineInv
<1>. PICK t : t = turn OBVIOUS
<1>2. /\ relay = "return" /\ t <= SourceCount /\ turn' = t + 1
      /\ UNCHANGED <<relayPreempt, fill, laps, relay, lent, notes, lentTo, lastRead>>
  BY DEF ReturnOne, GoesOn
<1>3. t \in Source /\ t \in Nat /\ t + 1 \in 1 .. SourceCount + 1
  BY <1>1, <1>2, SourceRange DEF RelayTypeInv, Source
<1>4. \A s \in Source : OnLoan(s)' <=> OnLoan(s) /\ s # t
  <2>1. \A s \in Source : ~(t + 1 > s) <=> ~(t > s) /\ s # t BY <1>3, SourceRange
  <2>. QED BY <1>2, <2>1 DEF OnLoan
<1>5. OnLoan(t) <=> t \in lent BY <1>2, <1>3 DEF OnLoan
<1>6. \A u \in Subscribers : lentTo[u] = <<>> BY <1>1, <1>2 DEF LoanInv
<1>7. NoteInv' BY <1>1, <1>2 DEF NoteInv
<1>8. CASE t \notin lent
  <2>1. UNCHANGED <<unreleased, drain, stalled, running, buffer>> BY <1>8 DEF ReturnOne
  <2>2. \A s \in Source : OnLoan(s)' <=> OnLoan(s) BY <1>4, <1>5, <1>8
  <2>3. RelayTypeInv' BY <1>1, <1>2, <1>3, <2>1 DEF RelayTypeInv
  <2>4. BufferInv' BY <1>1, <1>2, <2>1 DEF BufferInv
  <2>5. LoanInv' BY <1>1, <1>2, <2>1, <2>2 DEF LoanInv
  <2>6. ReadInv => ReadInv' BY <1>1, <1>2, <2>1, <2>2, ReadsSame
  <2>. QED BY <1>7, <2>3, <2>4, <2>5, <2>6 DEF EngineInv
<1>9. CASE t \in lent
  <2>1. /\ unreleased' = [unreleased EXCEPT ![t] = @ - 1] /\ drain' = [drain EXCEPT ![t] = 1 - @]
        /\ stalled' = [stalled EXCEPT ![t] = FALSE] /\ running' = [running EXCEPT ![t] = @ \/ stalled[t]]
        /\ buffer' = IF stalled[t] THEN [buffer EXCEPT ![t][fill[t]] = Filling] ELSE buffer
    BY <1>9 DEF ReturnOne
  <2>2. unreleased[t] > 0 BY <1>1, <1>3, <1>5, <1>9 DEF LoanInv
  <2>3. /\ fill[t] \in {0, 1} /\ drain[t] \in {0, 1} /\ unreleased[t] \in {1, 2} /\ laps[t] \in 0 .. MaxBlocks
        /\ MaxBlocks \in Nat /\ Filling = MaxBlocks + 1 /\ buffer[t] \in [{0, 1} -> 0 .. Filling]
    BY <1>1, <1>3, <2>2, RelayAssumption DEF RelayTypeInv, Filling
  <2>4. /\ unreleased'[t] = unreleased[t] - 1 /\ drain'[t] = 1 - drain[t] /\ ~stalled'[t]
        /\ running'[t] <=> running[t] \/ stalled[t]
        /\ \A x \in Source : x # t =>
             /\ unreleased'[x] = unreleased[x] /\ drain'[x] = drain[x] /\ stalled'[x] = stalled[x]
             /\ running'[x] = running[x] /\ buffer'[x] = buffer[x]
    BY <1>1, <1>3, <2>1 DEF RelayTypeInv
  <2>5. buffer' \in [Source -> [{0, 1} -> 0 .. Filling]]
    <3>1. [buffer[t] EXCEPT ![fill[t]] = Filling] \in [{0, 1} -> 0 .. Filling] BY <2>3
    <3>. QED BY <1>1, <1>3, <2>1, <3>1 DEF RelayTypeInv
  <2>6. /\ unreleased' \in [Source -> 0 .. 2] /\ drain' \in [Source -> {0, 1}]
    BY <1>1, <1>3, <2>1, <2>3 DEF RelayTypeInv
  <2>7. stalled' \in [Source -> BOOLEAN] /\ running' \in [Source -> BOOLEAN]
    BY <1>1, <1>3, <2>1 DEF RelayTypeInv
  <2>8. RelayTypeInv' BY <1>1, <1>2, <1>3, <2>5, <2>6, <2>7 DEF RelayTypeInv
  <2>9. unreleased[t] = 2 => fill[t] = drain[t] /\ buffer'[t][1 - drain[t]] = laps[t]
    <3>1. unreleased[t] = 2 => fill[t] = drain[t] /\ buffer[t][1 - drain[t]] = laps[t]
      BY <1>1, <1>3, <2>3 DEF BufferInv
    <3>2. CASE stalled[t] /\ unreleased[t] = 2
      <4>1. buffer'[t] = [buffer[t] EXCEPT ![fill[t]] = Filling] BY <1>1, <1>3, <2>1, <3>2 DEF RelayTypeInv
      <4>2. 1 - drain[t] \in {0, 1} /\ 1 - drain[t] # drain[t] BY <2>3
      <4>. QED BY <2>3, <3>1, <3>2, <4>1, <4>2
    <3>3. CASE ~stalled[t] BY <2>1, <3>1, <3>3
    <3>. QED BY <3>2, <3>3
  <2>10. unreleased[t] = 1 => fill[t] = 1 - drain[t] /\ ~stalled[t]
    BY <1>1, <1>3 DEF BufferInv
  <2>11. unreleased[t] <= laps[t] BY <1>1, <1>3 DEF BufferInv
  <2>12. BufferInv'
    <3>1. ASSUME NEW x \in Source, x # t
          PROVE  /\ unreleased'[x] \in {0, 2} => fill'[x] = drain'[x]
                 /\ unreleased'[x] = 1 => fill'[x] = 1 - drain'[x]
                 /\ running'[x] => unreleased'[x] < 2
                 /\ stalled'[x] => unreleased'[x] = 2
                 /\ unreleased'[x] > 0 => buffer'[x][drain'[x]] = laps'[x] - unreleased'[x] + 1
                 /\ unreleased'[x] = 2 => buffer'[x][1 - drain'[x]] = laps'[x]
                 /\ unreleased'[x] <= laps'[x]
      BY <1>1, <1>2, <2>4, <3>1 DEF BufferInv
    <3>2. /\ unreleased'[t] \in {0, 1} /\ ~stalled'[t] /\ unreleased'[t] <= laps'[t]
          /\ unreleased'[t] = 0 => fill'[t] = drain'[t]
      BY <1>2, <2>3, <2>4, <2>10, <2>11
    <3>3. unreleased'[t] = 1 => fill'[t] = 1 - drain'[t] /\ buffer'[t][drain'[t]] = laps'[t] - unreleased'[t] + 1
      BY <1>2, <2>3, <2>4, <2>9
    <3>. QED BY <1>3, <3>1, <3>2, <3>3 DEF BufferInv
  <2>13. LoanInv'
    <3>1. \A s \in Source : OnLoan(s)' => unreleased'[s] > 0
      BY <1>1, <1>4, <2>4 DEF LoanInv
    <3>. QED BY <1>2, <1>6, <3>1 DEF LoanInv
  <2>14. ReadInv => ReadInv'
    <3>. SUFFICES ASSUME ReadInv PROVE ReadInv' OBVIOUS
    <3>1. \A u \in Subscribers : Len(lentTo'[u]) = 0 BY <1>2, <1>6
    <3>2. \A u \in Subscribers, s \in Source : ~Owed(u, s) BY <1>6 DEF Owed
    <3>3. \A u \in Subscribers, s \in Source : ~Owed(u, s)' BY <3>1 DEF Owed
    <3>4. ASSUME NEW u \in Subscribers, NEW s \in Source
          PROVE  lastRead'[u][s] = laps'[s] - unreleased'[s] + IF OnLoan(s)' /\ ~Owed(u, s)' THEN 1 ELSE 0
      <4>1. lastRead[u][s] = laps[s] - unreleased[s] + IF OnLoan(s) THEN 1 ELSE 0
        BY <1>1, <3>2 DEF ReadInv
      <4>2. CASE s # t BY <1>2, <1>4, <2>4, <3>3, <4>1, <4>2
      <4>3. CASE s = t
        <5>1. ~OnLoan(s)' BY <1>4, <4>3
        <5>2. lastRead[u][t] = laps[t] - unreleased[t] + 1 BY <1>5, <1>9, <4>1, <4>3
        <5>3. laps[t] - (unreleased[t] - 1) = laps[t] - unreleased[t] + 1 BY <2>3
        <5>. QED BY <1>2, <2>3, <2>4, <4>3, <5>1, <5>2, <5>3
      <4>. QED BY <4>2, <4>3
    <3>. QED BY <3>1, <3>4 DEF ReadInv
  <2>15. NoteInv' BY <1>7
  <2>. QED BY <2>8, <2>12, <2>13, <2>14, <2>15 DEF EngineInv
<1>. QED BY <1>8, <1>9

\* ready() and publish(): a loan in every subscriber's queue.
LEMMA LendOneEngineInv ==
  ASSUME EngineInv, LendOne
  PROVE  EngineInv' /\ (SourceCount <= SubscriberDepth /\ ReadInv => ReadInv')
<1>1. RelayTypeInv /\ BufferInv /\ LoanInv /\ NoteInv BY DEF EngineInv
<1>. PICK t : t = turn OBVIOUS
<1>2. /\ relay = "lend" /\ t <= SourceCount /\ turn' = t + 1
      /\ UNCHANGED <<relayPreempt, engine, relay, notes, lastRead>>
  BY DEF LendOne, GoesOn
<1>3. t \in Source /\ t \in Nat /\ t + 1 \in 1 .. SourceCount + 1
  BY <1>1, <1>2, SourceRange DEF RelayTypeInv, Source
<1>4. \A s \in Source : OnLoan(s) <=> s \in lent BY <1>2 DEF OnLoan
<1>5. \A s \in Source : OnLoan(s)' <=> s \in lent' BY <1>2 DEF OnLoan
<1>6. t \notin lent
  <2>1. \A s \in lent : s < t BY <1>1, <1>2 DEF LoanInv
  <2>. QED BY <1>3, <2>1
<1>7. \A s \in Source : s < t + 1 <=> s < t \/ s = t BY <1>3, SourceRange
<1>8. BufferInv' BY <1>1, <1>2 DEF BufferInv, engine
<1>9. CASE ~(unreleased[t] > 0)
  <2>1. UNCHANGED <<lent, lentTo>> BY <1>9 DEF LendOne
  <2>2. RelayTypeInv' BY <1>1, <1>2, <1>3, <2>1 DEF RelayTypeInv, engine
  <2>3. \A s \in Source : OnLoan(s)' <=> OnLoan(s) BY <1>4, <1>5, <2>1
  <2>4. LoanInv'
    <3>1. \A s \in lent : s < t + 1
      <4>1. \A s \in lent : s \in Source /\ s < t BY <1>1, <1>2 DEF LoanInv, RelayTypeInv
      <4>. QED BY <1>7, <4>1
    <3>2. ASSUME NEW u \in Subscribers PROVE Len(lentTo[u]) < t + 1
      <4>1. lentTo[u] \in Seq(Loan) BY <1>1 DEF RelayTypeInv
      <4>2. Len(lentTo[u]) \in Nat BY <4>1, LenProperties
      <4>3. Len(lentTo[u]) < t BY <1>1, <1>2 DEF LoanInv
      <4>. QED BY <1>3, <4>2, <4>3
    <3>. QED BY <1>1, <1>2, <2>1, <2>3, <3>1, <3>2 DEF LoanInv, engine
  <2>5. ReadInv => ReadInv' BY <1>1, <1>2, <2>1, <2>3, ReadsSame DEF engine
  <2>6. NoteInv' BY <1>1, <1>2, <1>7, <1>9, <2>1 DEF NoteInv, engine
  <2>. QED BY <1>8, <2>2, <2>4, <2>5, <2>6 DEF EngineInv
<1>10. CASE unreleased[t] > 0
  <2>. PICK e : e = <<t, drain[t]>> OBVIOUS
  <2>1. e \in Loan /\ e[1] = t /\ e[2] = drain[t] BY <1>1, <1>3 DEF Loan, RelayTypeInv
  <2>2. lent' = lent \cup {t} BY <1>10 DEF LendOne
  <2>3. lentTo' = [x \in Subscribers |->
                     IF Len(lentTo[x]) < SubscriberDepth THEN Append(lentTo[x], <<t, drain[t]>>) ELSE lentTo[x]]
    BY <1>10 DEF LendOne
  <2>4. ASSUME NEW u \in Subscribers
        PROVE  /\ lentTo[u] \in Seq(Loan) /\ Len(lentTo[u]) \in Nat /\ Len(lentTo[u]) < t
               /\ lentTo'[u] = Append(lentTo[u], e) \/ lentTo'[u] = lentTo[u]
               /\ SourceCount <= SubscriberDepth => lentTo'[u] = Append(lentTo[u], e)
               /\ lentTo'[u] \in Seq(Loan) /\ Len(lentTo'[u]) < t + 1
    <3>. PICK p \in Seq(Loan) : p = lentTo[u] BY <1>1 DEF RelayTypeInv
    <3>. PICK q : q = lentTo'[u] OBVIOUS
    <3>1. Len(p) \in Nat BY LenProperties
    <3>2. Len(p) < t BY <1>1, <1>2 DEF LoanInv
    <3>3. q = Append(p, e) \/ q = p BY <2>3
    <3>4. Append(p, e) \in Seq(Loan) /\ Len(Append(p, e)) = Len(p) + 1 BY <2>1, AppendProperties
    <3>5. q \in Seq(Loan) BY <3>3, <3>4
    <3>6. Len(q) < t + 1
      <4>1. Len(q) = Len(p) + 1 \/ Len(q) = Len(p) BY <3>3, <3>4
      <4>. QED BY <1>3, <3>1, <3>2, <4>1
    <3>7. ASSUME SourceCount <= SubscriberDepth PROVE q = Append(p, e)
      <4>1. Len(p) < SubscriberDepth BY <1>2, <1>3, <3>1, <3>2, <3>7, SourceRange, RelayAssumption
      <4>. QED BY <2>3, <4>1
    <3>. QED BY <3>1, <3>2, <3>3, <3>5, <3>6, <3>7
  <2>5. lentTo' \in [Subscribers -> Seq(Loan)]
    <3>. QED BY <2>3, <2>4
  <2>6. RelayTypeInv' BY <1>1, <1>2, <1>3, <2>2, <2>5 DEF RelayTypeInv, engine
  <2>7. \A s \in Source : OnLoan(s)' <=> OnLoan(s) \/ s = t BY <1>4, <1>5, <2>2
  <2>8. LoanInv'
    <3>1. \A s \in lent' : s < t + 1
      <4>1. \A s \in lent : s \in Source /\ s < t BY <1>1, <1>2 DEF LoanInv, RelayTypeInv
      <4>. QED BY <1>3, <1>7, <2>2, <4>1
    <3>2. \A u \in Subscribers : Len(lentTo'[u]) < t + 1 BY <2>4
    <3>3. \A s \in Source : OnLoan(s)' => unreleased'[s] > 0 BY <1>1, <1>2, <1>10, <2>7 DEF LoanInv, engine
    <3>. QED BY <1>2, <3>1, <3>2, <3>3 DEF LoanInv
  <2>9. NoteInv'
    <3>1. \A s \in Source : s < t + 1 /\ unreleased[s] > 0 => s \in lent' \/ notes > 1
      BY <1>1, <1>2, <1>7, <2>2 DEF NoteInv
    <3>. QED BY <1>1, <1>2, <3>1 DEF NoteInv, engine
  <2>10. SourceCount <= SubscriberDepth /\ ReadInv => ReadInv'
    <3>. SUFFICES ASSUME SourceCount <= SubscriberDepth, ReadInv PROVE ReadInv' OBVIOUS
    <3>1. ASSUME NEW u \in Subscribers
          PROVE  /\ lentTo'[u] \in Seq(Loan) /\ Len(lentTo'[u]) = Len(lentTo[u]) + 1
                 /\ lentTo'[u][Len(lentTo[u]) + 1] = e
                 /\ \A i \in 1 .. Len(lentTo[u]) : lentTo'[u][i] = lentTo[u][i]
      <4>. PICK p \in Seq(Loan) : p = lentTo[u] BY <2>4
      <4>. PICK q : q = lentTo'[u] OBVIOUS
      <4>1. q = Append(p, e) BY <2>4
      <4>2. /\ q \in Seq(Loan) /\ Len(q) = Len(p) + 1 /\ q[Len(p) + 1] = e
            /\ \A i \in 1 .. Len(p) : q[i] = p[i]
        BY <2>1, <4>1, AppendProperties
      <4>. QED BY <4>2
    <3>2. ASSUME NEW u \in Subscribers, NEW i \in 1 .. Len(lentTo[u])
          PROVE  /\ lentTo[u][i][1] \in Source /\ lentTo[u][i][1] # t
                 /\ OnLoan(lentTo[u][i][1]) /\ lentTo[u][i][2] = drain[lentTo[u][i][1]]
                 /\ \A j \in 1 .. Len(lentTo[u]) : lentTo[u][i][1] = lentTo[u][j][1] => i = j
      <4>1. lentTo[u][i] \in Loan BY <2>4, ElementOfSeq
      <4>2. lentTo[u][i][1] \in Source BY <4>1 DEF Loan
      <4>3. OnLoan(lentTo[u][i][1]) BY <1>1 DEF ReadInv
      <4>4. lentTo[u][i][1] \in lent BY <4>3 DEF OnLoan
      <4>. QED BY <1>1, <1>6, <4>2, <4>3, <4>4 DEF ReadInv
    <3>3. ASSUME NEW u \in Subscribers, NEW s \in Source
          PROVE  Owed(u, s)' <=> Owed(u, s) \/ s = t
      <4>. PICK n \in Nat : n = Len(lentTo[u]) BY <2>4
      <4>1. Len(lentTo'[u]) = n + 1 /\ lentTo'[u][n + 1][1] = t BY <2>1, <3>1
      <4>2. \A i \in 1 .. n : lentTo'[u][i] = lentTo[u][i] BY <3>1
      <4>3. \A i \in 1 .. n + 1 : i \in 1 .. n \/ i = n + 1 OBVIOUS
      <4>4. \A i \in 1 .. n : i \in 1 .. n + 1 OBVIOUS
      <4>5. n + 1 \in 1 .. n + 1 OBVIOUS
      <4>6. Owed(u, s)' <=> \E i \in 1 .. n + 1 : lentTo'[u][i][1] = s BY <4>1 DEF Owed
      <4>7. Owed(u, s) <=> \E i \in 1 .. n : lentTo[u][i][1] = s BY DEF Owed
      <4>. QED BY <4>1, <4>2, <4>3, <4>4, <4>5, <4>6, <4>7
    <3>4. ASSUME NEW u \in Subscribers, NEW i \in 1 .. Len(lentTo'[u])
          PROVE  /\ OnLoan(lentTo[u][i][1])' /\ lentTo'[u][i][2] = drain'[lentTo'[u][i][1]]
                 /\ \A j \in 1 .. Len(lentTo'[u]) : lentTo'[u][i][1] = lentTo'[u][j][1] => i = j
      <4>. PICK n \in Nat : n = Len(lentTo[u]) BY <2>4
      <4>. PICK q : q = lentTo'[u] OBVIOUS
      <4>1. Len(q) = n + 1 /\ q[n + 1] = e /\ \A k \in 1 .. n : q[k] = lentTo[u][k] BY <3>1
      <4>2. UNCHANGED drain BY <1>2 DEF engine
      <4>3. \A k \in 1 .. n : q[k][1] \in Source /\ q[k][1] # t BY <3>2, <4>1
      <4>4. i \in 1 .. n \/ i = n + 1 BY <4>1
      <4>5. q[i][1] \in Source /\ (OnLoan(q[i][1]) \/ q[i][1] = t) /\ q[i][2] = drain[q[i][1]]
        <5>1. CASE i \in 1 .. n BY <3>2, <4>1, <5>1
        <5>2. CASE i = n + 1 BY <1>3, <2>1, <4>1, <5>2
        <5>. QED BY <4>4, <5>1, <5>2
      <4>6. ASSUME NEW j \in 1 .. n + 1, q[i][1] = q[j][1] PROVE i = j
        <5>1. j \in 1 .. n \/ j = n + 1 OBVIOUS
        <5>2. q[n + 1][1] = t BY <2>1, <4>1
        <5>3. CASE i \in 1 .. n /\ j \in 1 .. n BY <3>2, <4>1, <4>6, <5>3
        <5>4. CASE i = n + 1 \/ j = n + 1 BY <4>3, <4>4, <4>6, <5>1, <5>2, <5>4
        <5>. QED BY <4>4, <5>1, <5>3, <5>4
      <4>7. OnLoan(q[i][1])'
        <5>1. PICK s \in Source : s = q[i][1] BY <4>5
        <5>2. OnLoan(s)' BY <2>7, <4>5, <5>1
        <5>3. s \in lent' /\ ~(relay' = "return" /\ turn' > s) BY <5>2 DEF OnLoan
        <5>. QED BY <5>1, <5>3 DEF OnLoan
      <4>. QED BY <4>1, <4>2, <4>5, <4>6, <4>7 DEF OnLoan
    <3>5. ASSUME NEW u \in Subscribers, NEW s \in Source
          PROVE  lastRead'[u][s] = laps'[s] - unreleased'[s] + IF OnLoan(s)' /\ ~Owed(u, s)' THEN 1 ELSE 0
      <4>1. lastRead[u][s] = laps[s] - unreleased[s] + IF OnLoan(s) /\ ~Owed(u, s) THEN 1 ELSE 0
        BY <1>1 DEF ReadInv
      <4>2. (OnLoan(s)' /\ ~Owed(u, s)') <=> (OnLoan(s) /\ ~Owed(u, s))
        BY <1>3, <1>4, <1>6, <2>7, <3>3
      <4>3. UNCHANGED <<laps, unreleased, lastRead>> BY <1>2 DEF engine
      <4>. QED BY <4>1, <4>2, <4>3
    <3>. QED BY <3>4, <3>5 DEF ReadInv
  <2>. QED BY <1>8, <2>6, <2>8, <2>9, <2>10 DEF EngineInv
<1>. QED BY <1>9, <1>10

\* What is counted of a source.
LEMMA Counted ==
  ASSUME RelayTypeInv, NEW s \in Source
  PROVE  laps[s] \in Nat /\ unreleased[s] \in Nat
<1>1. laps[s] \in 0 .. MaxBlocks /\ unreleased[s] \in 0 .. 2 BY DEF RelayTypeInv
<1>. QED BY <1>1

\* A subscriber reads the block its next loan names: the one behind the last.
LEMMA ReadsTheNext ==
  ASSUME RelayInv, NEW u \in Subscribers, Read(u), NEW s, s = Head(lentTo[u])[1]
  PROVE  /\ s \in Source /\ OnLoan(s) /\ Owed(u, s)
         /\ lastRead[u][s] = laps[s] - unreleased[s]
         /\ lastRead' = [lastRead EXCEPT ![u][s] = lastRead[u][s] + 1]
         /\ lastRead[u][s] + 1 \in 0 .. Torn
<1>1. RelayTypeInv /\ BufferInv /\ LoanInv /\ ReadInv BY DEF RelayInv, EngineInv
<1>2. lentTo[u] # <<>> BY DEF Read
<1>. PICK q \in Seq(Loan) : q = lentTo[u] BY <1>1 DEF RelayTypeInv
<1>3. Head(q) \in Loan /\ Head(q) = q[1] /\ 1 \in 1 .. Len(q)
  <2>1. Len(q) \in Nat \ {0} BY <1>2, EmptySeq
  <2>. QED BY <2>1
<1>. PICK b : b = Head(q)[2] OBVIOUS
<1>4. s \in Source /\ q[1][1] = s /\ q[1][2] = b BY <1>3 DEF Loan
<1>5. OnLoan(s) /\ b = drain[s] BY <1>1, <1>3, <1>4 DEF ReadInv
<1>6. Owed(u, s) BY <1>3, <1>4 DEF Owed
<1>7. lastRead[u][s] = laps[s] - unreleased[s]
  <2>1. lastRead[u][s] = laps[s] - unreleased[s] + 0 BY <1>1, <1>4, <1>5, <1>6 DEF ReadInv
  <2>2. laps[s] \in Nat /\ unreleased[s] \in Nat BY <1>1, <1>4, Counted
  <2>. QED BY <2>1, <2>2
<1>8. unreleased[s] > 0 BY <1>1, <1>4, <1>5 DEF LoanInv
<1>9. buffer[s][b] = laps[s] - unreleased[s] + 1 BY <1>1, <1>4, <1>5, <1>8 DEF BufferInv
<1>10. buffer[s][b] = lastRead[u][s] + 1 BY <1>7, <1>9
<1>11. lastRead' = [lastRead EXCEPT ![u][s] = IF buffer[s][b] = @ + 1 THEN buffer[s][b] ELSE Torn]
  BY DEF Read
<1>12. lastRead' = [lastRead EXCEPT ![u][s] = lastRead[u][s] + 1] BY <1>10, <1>11
<1>13. lastRead[u][s] + 1 \in 0 .. Torn
  <2>1. b \in {0, 1} BY <1>3 DEF Loan
  <2>2. buffer[s][b] \in 0 .. Filling BY <1>1, <1>4, <2>1 DEF RelayTypeInv
  <2>. QED BY <1>10, <2>2, RelayAssumption DEF Filling, Torn
<1>. QED BY <1>4, <1>5, <1>6, <1>7, <1>12, <1>13

\* A subscriber's dispatch: its queue is one loan shorter.
LEMMA ReadEngineInv ==
  ASSUME EngineInv, NEW u \in Subscribers, Read(u)
  PROVE  EngineInv'
<1>1. RelayTypeInv /\ BufferInv /\ LoanInv /\ NoteInv BY DEF EngineInv
<1>2. /\ lentTo[u] # <<>> /\ lentTo' = [lentTo EXCEPT ![u] = Tail(@)]
      /\ UNCHANGED <<relayPreempt, engine, relay, turn, lent, notes>>
  BY DEF Read
<1>3. lastRead' \in [Subscribers -> [Source -> 0 .. Torn]]
  <2>. PICK s : s = Head(lentTo[u])[1] OBVIOUS
  <2>. PICK block : block = buffer[s][Head(lentTo[u])[2]] OBVIOUS
  <2>. PICK was : was = lastRead[u][s] OBVIOUS
  <2>. PICK r \in Seq(Loan) : r = lentTo[u] BY <1>1 DEF RelayTypeInv
  <2>1. Head(r) \in Loan BY <1>2, HeadTailProperties
  <2>2. s \in Source /\ Head(r)[2] \in {0, 1} BY <2>1 DEF Loan
  <2>3. block \in 0 .. Filling BY <1>1, <2>2 DEF RelayTypeInv
  <2>4. block \in 0 .. Torn /\ Torn \in 0 .. Torn BY <2>3, RelayAssumption DEF Filling, Torn
  <2>5. lastRead' = [lastRead EXCEPT ![u][s] = IF block = was + 1 THEN block ELSE Torn] BY DEF Read
  <2>6. PICK value \in 0 .. Torn : value = IF block = was + 1 THEN block ELSE Torn BY <2>4
  <2>7. lastRead' = [lastRead EXCEPT ![u][s] = value] BY <2>5, <2>6
  <2>. QED BY <1>1, <2>2, <2>6, <2>7 DEF RelayTypeInv
<1>. PICK p \in Seq(Loan) : p = lentTo[u] BY <1>1 DEF RelayTypeInv
<1>. PICK q : q = Tail(p) OBVIOUS
<1>5. lentTo'[u] = q /\ \A v \in Subscribers : v # u => lentTo'[v] = lentTo[v]
  BY <1>1, <1>2 DEF RelayTypeInv
<1>. PICK n \in Nat : n = Len(q) /\ Len(p) = n + 1
  <2>. PICK m \in Nat \ {0} : m = Len(p) BY <1>2, EmptySeq
  <2>1. Len(q) = m - 1 BY <1>2, HeadTailProperties
  <2>2. m - 1 \in Nat /\ m = (m - 1) + 1 OBVIOUS
  <2>. QED BY <2>1, <2>2
<1>6. q \in Seq(Loan) /\ (\A i \in 1 .. n : q[i] = p[i + 1]) /\ Head(p) = p[1]
  BY <1>2, HeadTailProperties
<1>7. RelayTypeInv'
  <2>1. lentTo' \in [Subscribers -> Seq(Loan)] BY <1>1, <1>2, <1>6 DEF RelayTypeInv
  <2>. QED BY <1>1, <1>2, <1>3, <2>1 DEF RelayTypeInv, engine
<1>8. BufferInv' BY <1>1, <1>2 DEF BufferInv, engine
<1>9. NoteInv' BY <1>1, <1>2 DEF NoteInv, engine
<1>10. \A x : OnLoan(x)' <=> OnLoan(x) BY <1>2 DEF OnLoan
<1>11. LoanInv'
  <2>1. relay # "return" BY <1>1, <1>2 DEF LoanInv
  <2>2. relay = "lend" => \A v \in Subscribers : Len(lentTo'[v]) < turn
    <3>1. SUFFICES ASSUME relay = "lend", NEW v \in Subscribers PROVE Len(lentTo'[v]) < turn OBVIOUS
    <3>2. CASE v # u BY <1>1, <1>5, <3>1, <3>2 DEF LoanInv
    <3>3. CASE v = u
      <4>1. Len(p) < turn BY <1>1, <3>1 DEF LoanInv
      <4>2. turn \in Nat BY <1>1, SourceRange DEF RelayTypeInv
      <4>3. n < turn BY <4>1, <4>2
      <4>. QED BY <1>5, <3>3, <4>3
    <3>. QED BY <3>2, <3>3
  <2>. QED BY <1>1, <1>2, <1>10, <2>1, <2>2 DEF LoanInv, engine
<1>. QED BY <1>7, <1>8, <1>9, <1>11 DEF EngineInv

\* What it read is out of its queue, and no other loan is.
LEMMA ReadReadInv ==
  ASSUME RelayInv, NEW u \in Subscribers, Read(u)
  PROVE  ReadInv'
<1>1. RelayTypeInv /\ BufferInv /\ LoanInv /\ ReadInv /\ NoteInv BY DEF RelayInv, EngineInv
<1>. PICK s : s = Head(lentTo[u])[1] OBVIOUS
<1>2. /\ lentTo[u] # <<>> /\ lentTo' = [lentTo EXCEPT ![u] = Tail(@)]
      /\ UNCHANGED <<relayPreempt, engine, relay, turn, lent, notes>>
  BY DEF Read
<1>3. /\ s \in Source /\ OnLoan(s) /\ Owed(u, s)
      /\ lastRead[u][s] = laps[s] - unreleased[s]
      /\ lastRead' = [lastRead EXCEPT ![u][s] = lastRead[u][s] + 1]
      /\ lastRead[u][s] + 1 \in 0 .. Torn
  BY ReadsTheNext
<1>4. /\ lastRead' \in [Subscribers -> [Source -> 0 .. Torn]] /\ lastRead'[u][s] = lastRead[u][s] + 1
      /\ \A x \in Source : x # s => lastRead'[u][x] = lastRead[u][x]
      /\ \A v \in Subscribers : v # u => lastRead'[v] = lastRead[v]
  BY <1>1, <1>3 DEF RelayTypeInv
<1>. PICK p \in Seq(Loan) : p = lentTo[u] BY <1>1 DEF RelayTypeInv
<1>. PICK q : q = Tail(p) OBVIOUS
<1>5. lentTo'[u] = q /\ \A v \in Subscribers : v # u => lentTo'[v] = lentTo[v]
  BY <1>1, <1>2 DEF RelayTypeInv
<1>. PICK n \in Nat : n = Len(q) /\ Len(p) = n + 1
  <2>. PICK m \in Nat \ {0} : m = Len(p) BY <1>2, EmptySeq
  <2>1. Len(q) = m - 1 BY <1>2, HeadTailProperties
  <2>2. m - 1 \in Nat /\ m = (m - 1) + 1 OBVIOUS
  <2>. QED BY <2>1, <2>2
<1>6. q \in Seq(Loan) /\ (\A i \in 1 .. n : q[i] = p[i + 1]) /\ Head(p) = p[1]
  BY <1>2, HeadTailProperties
<1>10. \A x : OnLoan(x)' <=> OnLoan(x) BY <1>2 DEF OnLoan
<1>12. \A i \in 1 .. n + 1 :
         /\ OnLoan(p[i][1]) /\ p[i][2] = drain[p[i][1]]
         /\ \A j \in 1 .. n + 1 : p[i][1] = p[j][1] => i = j
  BY <1>1 DEF ReadInv
<1>13. \A i \in 1 .. n : i + 1 \in 1 .. n + 1 /\ i + 1 # 1 OBVIOUS
<1>14. ASSUME NEW v \in Subscribers, NEW i \in 1 .. Len(lentTo'[v])
       PROVE  /\ OnLoan(lentTo[v][i][1])' /\ lentTo'[v][i][2] = drain'[lentTo'[v][i][1]]
              /\ \A j \in 1 .. Len(lentTo'[v]) : lentTo'[v][i][1] = lentTo'[v][j][1] => i = j
  <2>. PICK r : r = lentTo'[v] OBVIOUS
  <2>1. UNCHANGED drain BY <1>2 DEF engine
  <2>2. /\ OnLoan(r[i][1]) /\ r[i][2] = drain[r[i][1]]
        /\ \A j \in 1 .. Len(r) : r[i][1] = r[j][1] => i = j
    <3>1. CASE v # u
      <4>1. r = lentTo[v] BY <1>5, <3>1
      <4>. QED BY <1>1, <4>1 DEF ReadInv
    <3>2. CASE v = u
      <4>1. r = q /\ i \in 1 .. n BY <1>5, <3>2
      <4>2. OnLoan(r[i][1]) /\ r[i][2] = drain[r[i][1]] BY <1>6, <1>12, <1>13, <4>1
      <4>3. ASSUME NEW j \in 1 .. n, q[i][1] = q[j][1] PROVE i = j
        <5>1. p[i + 1][1] = p[j + 1][1] BY <1>6, <4>1, <4>3
        <5>2. i + 1 \in 1 .. n + 1 /\ j + 1 \in 1 .. n + 1 BY <1>13, <4>1
        <5>3. i + 1 = j + 1 BY <1>12, <5>1, <5>2
        <5>. QED BY <4>1, <5>3
      <4>. QED BY <4>1, <4>2, <4>3
    <3>. QED BY <3>1, <3>2
  <2>3. OnLoan(r[i][1])' BY <1>10, <2>2
  <2>. QED BY <2>1, <2>2, <2>3 DEF OnLoan
<1>15. \A v \in Subscribers, x \in Source : (v # u \/ x # s) => (Owed(v, x)' <=> Owed(v, x))
  <2>. SUFFICES ASSUME NEW v \in Subscribers, NEW x \in Source, v # u \/ x # s
                PROVE  Owed(v, x)' <=> Owed(v, x)
    OBVIOUS
  <2>1. CASE v # u BY <1>5, <2>1 DEF Owed
  <2>2. CASE v = u
    <3>1. Owed(u, x)' <=> \E i \in 1 .. n : q[i][1] = x BY <1>5 DEF Owed
    <3>2. Owed(u, x) <=> \E i \in 1 .. n + 1 : p[i][1] = x BY DEF Owed
    <3>3. p[1][1] # x BY <1>6, <2>2
    <3>4. ASSUME NEW i \in 1 .. n + 1, p[i][1] = x PROVE \E j \in 1 .. n : q[j][1] = x
      <4>1. i # 1 BY <3>3, <3>4
      <4>2. i - 1 \in 1 .. n /\ (i - 1) + 1 = i BY <4>1
      <4>3. q[i - 1] = p[i] BY <1>6, <4>2
      <4>. QED BY <3>4, <4>2, <4>3
    <3>5. ASSUME NEW i \in 1 .. n, q[i][1] = x PROVE \E j \in 1 .. n + 1 : p[j][1] = x
      BY <1>6, <1>13, <3>5
    <3>. QED BY <2>2, <3>1, <3>2, <3>4, <3>5
  <2>. QED BY <2>1, <2>2
<1>16. ~Owed(u, s)'
  <2>1. ASSUME NEW i \in 1 .. n, q[i][1] = s PROVE FALSE
    <3>1. p[i + 1][1] = p[1][1] /\ i + 1 \in 1 .. n + 1 BY <1>6, <1>13, <2>1
    <3>2. 1 \in 1 .. n + 1 OBVIOUS
    <3>3. i + 1 = 1 BY <1>12, <3>1, <3>2
    <3>. QED BY <3>3
  <2>. QED BY <1>5, <2>1 DEF Owed
<1>17. ASSUME NEW v \in Subscribers, NEW x \in Source
       PROVE  lastRead'[v][x] = laps'[x] - unreleased'[x] + IF OnLoan(x)' /\ ~Owed(v, x)' THEN 1 ELSE 0
  <2>1. UNCHANGED <<laps, unreleased>> BY <1>2 DEF engine
  <2>2. CASE v # u \/ x # s
    <3>1. lastRead'[v][x] = lastRead[v][x] BY <1>4, <2>2
    <3>2. lastRead[v][x] = laps[x] - unreleased[x] + IF OnLoan(x) /\ ~Owed(v, x) THEN 1 ELSE 0
      BY <1>1 DEF ReadInv
    <3>3. (OnLoan(x)' /\ ~Owed(v, x)') <=> (OnLoan(x) /\ ~Owed(v, x)) BY <1>10, <1>15, <2>2
    <3>. QED BY <2>1, <3>1, <3>2, <3>3
  <2>3. CASE v = u /\ x = s
    <3>1. OnLoan(s)' /\ ~Owed(u, s)' BY <1>3, <1>10, <1>16
    <3>2. lastRead'[u][s] = laps[s] - unreleased[s] + 1 BY <1>3, <1>4
    <3>. QED BY <2>1, <2>3, <3>1, <3>2
  <2>. QED BY <2>2, <2>3
<1>. QED BY <1>14, <1>17 DEF ReadInv

\* The engines, the loans and the notes: whatever the queues refuse.
LEMMA NextEngineInv == EngineInv /\ [RelayNext]_relayVars => EngineInv'
<1>. SUFFICES ASSUME EngineInv, [RelayNext]_relayVars PROVE EngineInv' OBVIOUS
<1>1. ASSUME UNCHANGED relayVars PROVE EngineInv'
  <2>1. RelayTypeInv /\ BufferInv /\ LoanInv /\ NoteInv BY DEF EngineInv
  <2>2. \A s \in Source : OnLoan(s)' <=> OnLoan(s) BY <1>1 DEF OnLoan, relayVars
  <2>3. RelayTypeInv' BY <1>1, <2>1 DEF RelayTypeInv, relayVars, engine
  <2>4. BufferInv' BY <1>1, <2>1 DEF BufferInv, relayVars, engine
  <2>5. LoanInv' BY <1>1, <2>1, <2>2 DEF LoanInv, relayVars, engine
  <2>6. NoteInv' BY <1>1, <2>1 DEF NoteInv, relayVars, engine
  <2>. QED BY <2>3, <2>4, <2>5, <2>6 DEF EngineInv
<1>2. ASSUME Relaying PROVE EngineInv'
  BY <1>2, RelayServeEngineInv, ReturnOneEngineInv, AllReturnedEngineInv, LendOneEngineInv,
     SelfPostEngineInv, RelayReturnEngineInv DEF Relaying
<1>3. ASSUME Reading PROVE EngineInv' BY <1>3, ReadEngineInv DEF Reading
<1>. QED BY <1>1, <1>2, <1>3, CompleteEngineInv, FaultEngineInv DEF RelayNext

LEMMA NextRelayInv ==
  ASSUME SourceCount <= SubscriberDepth
  PROVE  RelayInv /\ [RelayNext]_relayVars => RelayInv'
<1>. SUFFICES ASSUME RelayInv, [RelayNext]_relayVars PROVE ReadInv'
  BY NextEngineInv DEF RelayInv
<1>1. EngineInv /\ ReadInv BY DEF RelayInv
<1>2. ASSUME UNCHANGED relayVars PROVE ReadInv'
  <2>1. RelayTypeInv BY <1>1 DEF EngineInv
  <2>2. \A s \in Source : OnLoan(s)' <=> OnLoan(s) BY <1>2 DEF OnLoan, relayVars
  <2>. QED BY <1>1, <1>2, <2>1, <2>2, ReadsSame DEF relayVars, engine
<1>3. ASSUME Relaying PROVE ReadInv'
  BY <1>1, <1>3, RelayServeEngineInv, ReturnOneEngineInv, AllReturnedEngineInv, LendOneEngineInv,
     SelfPostEngineInv, RelayReturnEngineInv DEF Relaying
<1>4. ASSUME Reading PROVE ReadInv' BY <1>4, ReadReadInv DEF Reading
<1>. QED BY <1>1, <1>2, <1>3, <1>4, CompleteEngineInv, FaultEngineInv DEF RelayNext

\* The invariant of the relay, given a place for a loan of each source.
THEOREM RelayInvariant ==
  ASSUME SourceCount <= SubscriberDepth
  PROVE  RelaySpec => []RelayInv
<1>. QED BY InitRelayInv, NextRelayInv, PTL DEF RelaySpec

\* What the invariant says of the last blocks read.
LEMMA ReadsBeforeReturns == RelayInv => ReadBeforeReturn
<1>. SUFFICES ASSUME RelayInv, NEW u \in Subscribers, NEW s \in Source
              PROVE  /\ lastRead[u][s] \in {laps[s] - unreleased[s], laps[s] - unreleased[s] + 1}
                     /\ lastRead[u][s] <= laps[s]
  BY DEF ReadBeforeReturn
<1>1. RelayTypeInv /\ LoanInv /\ ReadInv BY DEF RelayInv, EngineInv
<1>2. laps[s] \in Nat /\ unreleased[s] \in Nat BY <1>1, Counted
<1>3. lastRead[u][s] = laps[s] - unreleased[s] + IF OnLoan(s) /\ ~Owed(u, s) THEN 1 ELSE 0
  BY <1>1 DEF ReadInv
<1>4. OnLoan(s) => unreleased[s] > 0 BY <1>1 DEF LoanInv
<1>. QED BY <1>2, <1>3, <1>4

LEMMA ReadsInTurn == RelayInv /\ [RelayNext]_relayVars => [OneAfterTheOther]_relayVars
<1>. SUFFICES ASSUME RelayInv, RelayNext PROVE OneAfterTheOther OBVIOUS
<1>1. RelayTypeInv BY DEF RelayInv, EngineInv
<1>2. CASE UNCHANGED lastRead BY <1>2 DEF OneAfterTheOther
<1>3. CASE Reading
  <2>. PICK u \in Subscribers : Read(u) BY <1>3 DEF Reading
  <2>. PICK s : s = Head(lentTo[u])[1] OBVIOUS
  <2>1. s \in Source /\ lastRead' = [lastRead EXCEPT ![u][s] = lastRead[u][s] + 1] BY ReadsTheNext
  <2>. QED BY <1>1, <2>1 DEF OneAfterTheOther, RelayTypeInv
<1>4. ASSUME Relaying PROVE UNCHANGED lastRead
  BY <1>4 DEF Relaying, RelayServe, ReturnOne, AllReturned, LendOne, SelfPost, RelayReturn
<1>5. ASSUME NEW s \in Source, Complete(s) \/ Fault(s) PROVE UNCHANGED lastRead
  BY <1>5 DEF Complete, Fault
<1>. QED BY <1>2, <1>3, <1>4, <1>5 DEF RelayNext

\* util/block_stream.hpp: when a subscriber's queue holds a loan of each
\* source, every subscriber reads every block whole before it is given back,
\* one after the other, and none twice.
THEOREM EveryBlockReadOnce ==
  ASSUME SourceCount <= SubscriberDepth
  PROVE  RelaySpec => []ReadBeforeReturn /\ [][OneAfterTheOther]_relayVars
<1>. QED BY RelayInvariant, ReadsBeforeReturns, ReadsInTurn, PTL DEF RelaySpec

\* util/block_stream.hpp on a BlockDone the queue refuses: "a dropped one delays
\* work and loses none".  Whenever the relay is at rest with a block not given
\* back, a note waits in its queue.
THEOREM NoBlockForgotten == RelaySpec => []BroughtBack
<1>1. EngineInv => BroughtBack
  <2>. SUFFICES ASSUME EngineInv, relay = "rest", notes = 0, NEW s \in Source PROVE unreleased[s] = 0
    BY DEF BroughtBack
  <2>1. RelayTypeInv /\ NoteInv BY DEF EngineInv
  <2>2. unreleased[s] \in 0 .. 2 /\ ~(unreleased[s] > 0) BY <2>1 DEF RelayTypeInv, NoteInv
  <2>. QED BY <2>2
<1>2. RelayInit => EngineInv BY InitRelayInv DEF RelayInv
<1>. QED BY <1>1, <1>2, NextEngineInv, PTL DEF RelaySpec

-----------------------------------------------------------------------------
(***************************************************************************)
(* NvWriter: the requests, and the ready interrupt.                        *)
(***************************************************************************)
NvEvent == Requesters \cup {NvReady}

\* Where an event is in a queue, and how often.
PlacesOfEvent(q, e) == {i \in DOMAIN q : q[i] = e}
CountOf(q, e) == Cardinality(PlacesOfEvent(q, e))

\* The types; active_ is a requester while it has a request, and its count
\* one of the store's.
NvTypeInv ==
  /\ nvQueue \in Seq(NvEvent) /\ fifo \in Seq(Requesters)
  /\ nvPlace \in {"rest", "begin", "step", "next", "end"} /\ nvState \in {"idle", "busy"}
  /\ inFlight \in BOOLEAN /\ armed \in BOOLEAN
  /\ answer \in [Requesters -> {"none", "ok", "rejected", "bad_range", "refused"}]
  /\ left \in [Requesters -> Nat \cup {OutOfStore}]
  /\ nvPlace \in {"begin", "step", "next"} \/ nvState = "busy" => active \in Requesters

\* The count of a request in hand is one of the store's once its range is seen.
RangeInv == \A r \in Requesters : IsActive(r) /\ nvPlace # "begin" => left[r] \in Nat

\* The ready interrupt is on its way once at most, armed or in the queue, and
\* only while the writer is busy and not in a step of its own.
Armed == IF armed THEN 1 ELSE 0
Coming == CountOf(nvQueue, NvReady) + Armed
ReadyInv ==
  /\ inFlight => armed
  /\ Coming <= 1
  /\ Coming > 0 => nvState = "busy" /\ nvPlace \in {"rest", "end"}

WriterInv == NvTypeInv /\ RangeInv /\ ReadyInv /\ InOnePlace

\* Given room for them, the requests never take the slot of the interrupt, and
\* a writer that is busy has it on its way.
OthersIn(q) == Cardinality({i \in DOMAIN q : q[i] # NvReady})
RoomInv ==
  /\ nvCurrent \in Seq(NvEvent) /\ Len(nvCurrent) <= 1
  /\ nvPlace = "rest" => nvCurrent = <<>>
  /\ OthersIn(nvQueue) + OthersIn(nvCurrent) <= Backlog
ReadyComes == nvState = "busy" /\ nvPlace \in {"rest", "end"} => Coming = 1

-----------------------------------------------------------------------------
LEMMA CountType ==
  ASSUME NEW S, NEW q \in Seq(S), NEW e
  PROVE  /\ IsFiniteSet(PlacesOfEvent(q, e)) /\ CountOf(q, e) \in Nat
         /\ CountOf(q, e) = 0 <=> \A k \in 1 .. Len(q) : q[k] # e
<1>1. DOMAIN q = 1 .. Len(q) /\ Len(q) \in Nat OBVIOUS
<1>2. IsFiniteSet(1 .. Len(q)) BY <1>1, FS_Interval
<1>3. IsFiniteSet(PlacesOfEvent(q, e)) BY <1>1, <1>2, FS_Subset DEF PlacesOfEvent
<1>4. CountOf(q, e) = 0 <=> PlacesOfEvent(q, e) = {} BY <1>3, FS_EmptySet DEF CountOf
<1>5. PlacesOfEvent(q, e) = {} <=> \A k \in 1 .. Len(q) : q[k] # e BY <1>1 DEF PlacesOfEvent
<1>. QED BY <1>3, <1>4, <1>5, FS_CardinalityType DEF CountOf

LEMMA CountEmpty ==
  ASSUME NEW e
  PROVE  CountOf(<<>>, e) = 0
BY FS_EmptySet DEF PlacesOfEvent, CountOf

\* An event posted counts once more.
LEMMA CountAppend ==
  ASSUME NEW S, NEW q \in Seq(S), NEW x \in S, NEW e
  PROVE  CountOf(Append(q, x), e) = IF x = e THEN CountOf(q, e) + 1 ELSE CountOf(q, e)
<1>. DEFINE n == Len(q) + 1
            p == Append(q, x)
<1>1. DOMAIN q = 1 .. Len(q) /\ Len(q) \in Nat OBVIOUS
<1>2. /\ p \in Seq(S) /\ Len(p) = n /\ p[n] = x
      /\ \A k \in 1 .. Len(q) : p[k] = q[k]
  BY AppendProperties
<1>. HIDE DEF p
<1>3. DOMAIN p = 1 .. n BY <1>2
<1>4. n \notin PlacesOfEvent(q, e) BY <1>1 DEF PlacesOfEvent
<1>5. CASE x = e
  <2>1. PlacesOfEvent(p, e) = PlacesOfEvent(q, e) \cup {n}
    BY <1>1, <1>2, <1>3, <1>5 DEF PlacesOfEvent
  <2>. QED BY <1>4, <1>5, <2>1, CountType, FS_AddElement DEF CountOf, p
<1>6. CASE x # e
  <2>1. PlacesOfEvent(p, e) = PlacesOfEvent(q, e) BY <1>1, <1>2, <1>3, <1>6 DEF PlacesOfEvent
  <2>. QED BY <1>6, <2>1 DEF CountOf, p
<1>. QED BY <1>5, <1>6

\* The event served no longer counts: the others move up.
LEMMA CountTail ==
  ASSUME NEW S, NEW q \in Seq(S), q # <<>>, NEW e
  PROVE  CountOf(Tail(q), e) = IF Head(q) = e THEN CountOf(q, e) - 1 ELSE CountOf(q, e)
<1>. DEFINE p == Tail(q)
            rest == PlacesOfEvent(q, e) \ {1}
            f == [k \in rest |-> k - 1]
<1>1. DOMAIN q = 1 .. Len(q) /\ Len(q) \in Nat \ {0} BY EmptySeq
<1>2. /\ p \in Seq(S) /\ Len(p) = Len(q) - 1
      /\ \A k \in 1 .. Len(p) : p[k] = q[k + 1]
  BY HeadTailProperties
<1>3. Head(q) = q[1] OBVIOUS
<1>. HIDE DEF p
<1>4. DOMAIN p = 1 .. Len(q) - 1 BY <1>1, <1>2
<1>5. IsFiniteSet(rest)
      /\ Cardinality(rest) = IF Head(q) = e THEN CountOf(q, e) - 1 ELSE CountOf(q, e)
  <2>1. 1 \in PlacesOfEvent(q, e) <=> Head(q) = e BY <1>1, <1>3 DEF PlacesOfEvent
  <2>. QED BY <2>1, CountType, FS_RemoveElement DEF CountOf
<1>6. f \in Bijection(rest, PlacesOfEvent(p, e))
  <2>1. \A k \in rest : k \in 2 .. Len(q) /\ q[k] = e BY <1>1 DEF PlacesOfEvent
  <2>2. \A k \in rest : k - 1 \in PlacesOfEvent(p, e) BY <1>1, <1>2, <1>4, <2>1 DEF PlacesOfEvent
  <2>3. f \in [rest -> PlacesOfEvent(p, e)] BY <2>2
  <2>4. \A j, k \in rest : f[j] = f[k] => j = k BY <2>1
  <2>5. \A k \in PlacesOfEvent(p, e) : k + 1 \in rest /\ f[k + 1] = k
    <3>. TAKE k \in PlacesOfEvent(p, e)
    <3>1. k \in 1 .. Len(q) - 1 /\ q[k + 1] = e BY <1>2, <1>4 DEF PlacesOfEvent
    <3>2. k + 1 \in rest BY <1>1, <3>1 DEF PlacesOfEvent
    <3>. QED BY <3>1, <3>2
  <2>. QED BY <2>3, <2>4, <2>5 DEF Bijection, Injection, IsInjective, Surjection
<1>7. Cardinality(PlacesOfEvent(p, e)) = Cardinality(rest)
  BY <1>5, <1>6, FS_Bijection DEF ExistsBijection
<1>. QED BY <1>5, <1>7 DEF CountOf, p

\* The others of a queue are what its ready events leave.
LEMMA OthersAre ==
  ASSUME NEW S, NEW q \in Seq(S)
  PROVE  OthersIn(q) \in Nat /\ OthersIn(q) + CountOf(q, NvReady) = Len(q)
<1>. DEFINE R == PlacesOfEvent(q, NvReady)
            W == {i \in DOMAIN q : q[i] # NvReady}
<1>1. DOMAIN q = 1 .. Len(q) /\ Len(q) \in Nat OBVIOUS
<1>2. IsFiniteSet(1 .. Len(q)) /\ Cardinality(1 .. Len(q)) = Len(q) BY <1>1, FS_Interval
<1>3. R \cup W = 1 .. Len(q) /\ R \cap W = {} BY <1>1 DEF PlacesOfEvent
<1>4. IsFiniteSet(R) /\ IsFiniteSet(W) BY <1>2, <1>3, FS_Subset
<1>5. Cardinality(R) = CountOf(q, NvReady) /\ Cardinality(W) = OthersIn(q) BY DEF CountOf, OthersIn
<1>. HIDE DEF R, W
<1>6. Cardinality(R \cup W) = Cardinality(R) + Cardinality(W) - Cardinality(R \cap W)
  BY <1>4, FS_Union
<1>7. Cardinality(R \cap W) = 0 BY <1>3, FS_EmptySet
<1>8. Cardinality(R) \in Nat /\ Cardinality(W) \in Nat BY <1>4, FS_CardinalityType
<1>9. Cardinality(R \cup W) = Len(q) BY <1>2, <1>3
<1>. QED BY <1>1, <1>5, <1>6, <1>7, <1>8, <1>9

\* Where the requests are, by the counts.
LEMMA PlacesNow ==
  InOnePlace <=> \A r \in Requesters :
    CountOf(nvQueue, r) + CountOf(fifo, r) + (IF IsActive(r) THEN 1 ELSE 0)
      = IF answer[r] = "none" THEN 1 ELSE 0
BY DEF InOnePlace, Places, CountOf, PlacesOfEvent

LEMMA PlacesThen ==
  InOnePlace' <=> \A r \in Requesters :
    CountOf(nvQueue', r) + CountOf(fifo', r) + (IF IsActive(r)' THEN 1 ELSE 0)
      = IF answer'[r] = "none" THEN 1 ELSE 0
BY DEF InOnePlace, Places, CountOf, PlacesOfEvent

LEMMA CountsNow ==
  ASSUME NvTypeInv
  PROVE  \A e : CountOf(nvQueue, e) \in Nat /\ CountOf(fifo, e) \in Nat
<1>1. nvQueue \in Seq(NvEvent) /\ fifo \in Seq(Requesters) BY DEF NvTypeInv
<1>. QED BY <1>1, CountType

\* A request in hand has no answer yet.
LEMMA ActiveWaits ==
  ASSUME WriterInv
  PROVE  \A r \in Requesters : IsActive(r) => answer[r] = "none"
<1>1. NvTypeInv /\ InOnePlace BY DEF WriterInv
<1>. QED BY <1>1, PlacesNow, CountsNow

\* The writer starts in the invariant.
LEMMA InitWriterInv == NvInit => WriterInv
<1>. SUFFICES ASSUME NvInit PROVE WriterInv OBVIOUS
<1>. USE DEF NvInit
<1>1. NvTypeInv
  <2>1. answer \in [Requesters -> {"none", "ok", "rejected", "bad_range", "refused"}] OBVIOUS
  <2>2. left \in [Requesters -> Nat \cup {OutOfStore}] OBVIOUS
  <2>3. nvQueue \in Seq(NvEvent) /\ fifo \in Seq(Requesters) BY EmptySeq
  <2>. QED BY <2>1, <2>2, <2>3 DEF NvTypeInv
<1>2. \A r : ~IsActive(r) BY DEF IsActive
<1>3. RangeInv BY <1>2 DEF RangeInv
<1>4. ReadyInv BY CountEmpty DEF ReadyInv, Coming, Armed
<1>5. \A e : CountOf(nvQueue, e) = 0 /\ CountOf(fifo, e) = 0 BY CountEmpty
<1>6. InOnePlace BY <1>2, <1>5, PlacesNow
<1>. QED BY <1>1, <1>3, <1>4, <1>6 DEF WriterInv

\* A requester's post: in the queue, or nowhere.
LEMMA RequestWriterInv ==
  ASSUME WriterInv, NEW r \in Requesters, NEW ops \in OpCounts \cup {OutOfStore}, Request(r, ops)
  PROVE  WriterInv'
<1>1. NvTypeInv /\ RangeInv /\ ReadyInv /\ InOnePlace BY DEF WriterInv
<1>2. /\ answer[r] # "none" /\ ops \in Nat \cup {OutOfStore}
      /\ UNCHANGED <<nvCurrent, nvPlace, nvState, active, fifo, inFlight, armed>>
  BY WriterAssumption DEF Request
<1>3. ~IsActive(r) BY <1>2, ActiveWaits
<1>4. \A x : IsActive(x)' <=> IsActive(x) BY <1>2 DEF IsActive
<1>5. CASE NvTaken < NvSlots
  <2>1. /\ nvQueue' = Append(nvQueue, r)
        /\ answer' = [answer EXCEPT ![r] = "none"] /\ left' = [left EXCEPT ![r] = ops]
    BY <1>5 DEF Request, NvPosted
  <2>2. nvQueue \in Seq(NvEvent) /\ r \in NvEvent BY <1>1 DEF NvTypeInv, NvEvent
  <2>3. nvQueue' \in Seq(NvEvent)
        /\ \A e : CountOf(nvQueue', e) = IF r = e THEN CountOf(nvQueue, e) + 1 ELSE CountOf(nvQueue, e)
    BY <2>1, <2>2, CountAppend, AppendProperties
  <2>4. NvTypeInv' BY <1>1, <1>2, <2>1, <2>3 DEF NvTypeInv
  <2>5. RangeInv' BY <1>1, <1>2, <1>3, <1>4, <2>1 DEF RangeInv, NvTypeInv
  <2>6. CountOf(nvQueue', NvReady) = CountOf(nvQueue, NvReady) BY <2>3, ReadyAssumption
  <2>7. ReadyInv' BY <1>1, <1>2, <2>6 DEF ReadyInv, Coming, Armed
  <2>8. CountOf(nvQueue', r) = CountOf(nvQueue, r) + 1 /\ answer'[r] = "none"
    BY <1>1, <2>1, <2>3 DEF NvTypeInv
  <2>9. \A x \in Requesters : x # r => CountOf(nvQueue', x) = CountOf(nvQueue, x) /\ answer'[x] = answer[x]
    BY <1>1, <2>1, <2>3 DEF NvTypeInv
  <2>10. InOnePlace'
    <3>1. CountOf(nvQueue, r) = 0 /\ CountOf(fifo, r) = 0
      BY <1>1, <1>2, <1>3, PlacesNow, CountsNow
    <3>2. CountOf(nvQueue', r) + CountOf(fifo', r) + (IF IsActive(r)' THEN 1 ELSE 0)
            = IF answer'[r] = "none" THEN 1 ELSE 0
      BY <1>2, <1>3, <1>4, <2>8, <3>1
    <3>3. ASSUME NEW x \in Requesters, x # r
          PROVE  CountOf(nvQueue', x) + CountOf(fifo', x) + (IF IsActive(x)' THEN 1 ELSE 0)
                   = IF answer'[x] = "none" THEN 1 ELSE 0
      BY <1>1, <1>2, <1>4, <2>9, <3>3, PlacesNow
    <3>. QED BY <3>2, <3>3, PlacesThen
  <2>. QED BY <2>4, <2>5, <2>7, <2>10 DEF WriterInv
<1>6. CASE ~(NvTaken < NvSlots)
  <2>1. UNCHANGED <<nvQueue, answer, left>> BY <1>6 DEF Request, NvPosted
  <2>2. NvTypeInv' BY <1>1, <1>2, <2>1 DEF NvTypeInv
  <2>3. RangeInv' BY <1>1, <1>2, <1>4, <2>1 DEF RangeInv
  <2>4. ReadyInv' BY <1>1, <1>2, <2>1 DEF ReadyInv, Coming, Armed
  <2>5. InOnePlace' BY <1>1, <1>2, <1>4, <2>1, PlacesNow, PlacesThen
  <2>. QED BY <2>2, <2>3, <2>4, <2>5 DEF WriterInv
<1>. QED BY <1>5, <1>6

\* The store's operation ends.
LEMMA StoreDoneWriterInv ==
  ASSUME WriterInv, StoreDone
  PROVE  WriterInv'
<1>1. NvTypeInv /\ RangeInv /\ ReadyInv /\ InOnePlace BY DEF WriterInv
<1>2. /\ inFlight' = FALSE
      /\ UNCHANGED <<nvQueue, nvPlace, nvState, active, fifo, left, armed, answer>>
  BY DEF StoreDone
<1>3. \A x : IsActive(x)' <=> IsActive(x) BY <1>2 DEF IsActive
<1>4. NvTypeInv' BY <1>1, <1>2 DEF NvTypeInv
<1>5. RangeInv' BY <1>1, <1>2, <1>3 DEF RangeInv
<1>6. ReadyInv' BY <1>1, <1>2 DEF ReadyInv, Coming, Armed
<1>7. InOnePlace' BY <1>1, <1>2, <1>3, PlacesNow, PlacesThen
<1>. QED BY <1>4, <1>5, <1>6, <1>7 DEF WriterInv

\* The ready interrupt: it is in the queue instead of armed, or nowhere.
LEMMA ReadyInterruptWriterInv ==
  ASSUME WriterInv, ReadyInterrupt
  PROVE  WriterInv'
<1>1. NvTypeInv /\ RangeInv /\ ReadyInv /\ InOnePlace BY DEF WriterInv
<1>2. /\ armed /\ ~inFlight /\ armed' = FALSE
      /\ UNCHANGED <<nvPlace, nvState, active, fifo, left, inFlight, answer>>
      /\ nvQueue' = Append(nvQueue, NvReady) \/ nvQueue' = nvQueue
  BY DEF ReadyInterrupt, NvPosted
<1>3. nvQueue \in Seq(NvEvent) /\ NvReady \in NvEvent BY <1>1 DEF NvTypeInv, NvEvent
<1>4. /\ nvQueue' \in Seq(NvEvent)
      /\ \A e : e # NvReady => CountOf(nvQueue', e) = CountOf(nvQueue, e)
      /\ CountOf(nvQueue', NvReady) \in {CountOf(nvQueue, NvReady), CountOf(nvQueue, NvReady) + 1}
  <2>1. CASE nvQueue' = nvQueue BY <1>3, <2>1
  <2>2. CASE nvQueue' = Append(nvQueue, NvReady)
    BY <1>3, <2>2, CountAppend, AppendProperties
  <2>. QED BY <1>2, <2>1, <2>2
<1>5. \A x : IsActive(x)' <=> IsActive(x) BY <1>2 DEF IsActive
<1>6. NvTypeInv' BY <1>1, <1>2, <1>4 DEF NvTypeInv
<1>7. RangeInv' BY <1>1, <1>2, <1>5 DEF RangeInv
<1>8. ReadyInv' BY <1>1, <1>2, <1>4, CountsNow DEF ReadyInv, Coming, Armed
<1>9. \A x \in Requesters : CountOf(nvQueue', x) = CountOf(nvQueue, x) BY <1>4, ReadyAssumption
<1>10. InOnePlace' BY <1>1, <1>2, <1>5, <1>9, PlacesNow, PlacesThen
<1>. QED BY <1>6, <1>7, <1>8, <1>10 DEF WriterInv

\* The event at the head of the queue is taken from it.
LEMMA Taken ==
  ASSUME NvTypeInv, nvQueue # <<>>, nvQueue' = Tail(nvQueue)
  PROVE  /\ Head(nvQueue) \in NvEvent /\ nvQueue' \in Seq(NvEvent)
         /\ \A e : CountOf(nvQueue', e) = IF Head(nvQueue) = e THEN CountOf(nvQueue, e) - 1 ELSE CountOf(nvQueue, e)
         /\ CountOf(nvQueue, Head(nvQueue)) > 0
<1>1. nvQueue \in Seq(NvEvent) BY DEF NvTypeInv
<1>2. Head(nvQueue) \in NvEvent /\ nvQueue' \in Seq(NvEvent) BY <1>1, HeadTailProperties
<1>3. \A e : CountOf(nvQueue', e) = IF Head(nvQueue) = e THEN CountOf(nvQueue, e) - 1 ELSE CountOf(nvQueue, e)
  BY <1>1, CountTail
<1>4. CountOf(nvQueue', Head(nvQueue)) = CountOf(nvQueue, Head(nvQueue)) - 1 BY <1>3
<1>5. CountOf(nvQueue', Head(nvQueue)) \in Nat /\ CountOf(nvQueue, Head(nvQueue)) \in Nat
  BY <1>1, <1>2, CountType
<1>. QED BY <1>2, <1>3, <1>4, <1>5

\* A request is served: begun, kept in the FIFO, or rejected.
LEMMA ServeRequestWriterInv ==
  ASSUME WriterInv, ServeRequest
  PROVE  WriterInv'
<1>1. NvTypeInv /\ RangeInv /\ ReadyInv /\ InOnePlace BY DEF WriterInv
<1>. PICK r : r = Head(nvQueue) OBVIOUS
<1>2. /\ nvPlace = "rest" /\ nvQueue # <<>> /\ r # NvReady /\ nvQueue' = Tail(nvQueue)
      /\ UNCHANGED <<nvState, left, inFlight, armed>>
  BY DEF ServeRequest
<1>3. /\ r \in NvEvent /\ nvQueue' \in Seq(NvEvent)
      /\ \A e : CountOf(nvQueue', e) = IF r = e THEN CountOf(nvQueue, e) - 1 ELSE CountOf(nvQueue, e)
      /\ CountOf(nvQueue, r) > 0
  BY <1>1, <1>2, Taken
<1>4. r \in Requesters BY <1>2, <1>3 DEF NvEvent
<1>5. CountOf(nvQueue', NvReady) = CountOf(nvQueue, NvReady) BY <1>2, <1>3
<1>6. /\ answer[r] = "none" /\ ~IsActive(r) /\ CountOf(nvQueue, r) = 1 /\ CountOf(fifo, r) = 0
  BY <1>1, <1>3, <1>4, PlacesNow, CountsNow
<1>7. CASE nvState = "idle"
  <2>1. active' = r /\ nvPlace' = "begin" /\ UNCHANGED <<fifo, answer>> BY <1>7 DEF ServeRequest
  <2>2. NvTypeInv' BY <1>1, <1>2, <1>3, <1>4, <2>1 DEF NvTypeInv
  <2>3. \A x : IsActive(x)' <=> x = r BY <1>2, <1>7, <2>1 DEF IsActive
  <2>4. \A x : ~IsActive(x) BY <1>2, <1>7 DEF IsActive
  <2>5. RangeInv'
    <3>1. nvPlace' = "begin" BY <2>1
    <3>. QED BY <3>1 DEF RangeInv
  <2>6. ReadyInv' BY <1>1, <1>2, <1>5, <1>7, <2>1, CountsNow DEF ReadyInv, Coming, Armed
  <2>7. InOnePlace' BY <1>1, <1>3, <1>6, <2>1, <2>3, <2>4, PlacesNow, PlacesThen
  <2>. QED BY <2>2, <2>5, <2>6, <2>7 DEF WriterInv
<1>8. CASE nvState = "busy"
  <2>1. nvPlace' = "end" /\ UNCHANGED active BY <1>8 DEF ServeRequest
  <2>2. \A x : IsActive(x)' <=> IsActive(x) BY <1>2, <1>8, <2>1 DEF IsActive
  <2>3. RangeInv' BY <1>1, <1>2, <2>1, <2>2 DEF RangeInv
  <2>4. ReadyInv' BY <1>1, <1>2, <1>5, <1>8, <2>1 DEF ReadyInv, Coming, Armed
  <2>5. CASE fifo' = Append(fifo, r) /\ UNCHANGED answer
    <3>1. fifo \in Seq(Requesters) BY <1>1 DEF NvTypeInv
    <3>2. /\ fifo' \in Seq(Requesters)
          /\ \A e : CountOf(fifo', e) = IF r = e THEN CountOf(fifo, e) + 1 ELSE CountOf(fifo, e)
      BY <1>4, <2>5, <3>1, CountAppend, AppendProperties
    <3>3. NvTypeInv' BY <1>1, <1>2, <1>3, <1>8, <2>1, <2>5, <3>2 DEF NvTypeInv
    <3>4. InOnePlace' BY <1>1, <1>3, <1>6, <2>2, <2>5, <3>2, PlacesNow, PlacesThen
    <3>. QED BY <2>3, <2>4, <3>3, <3>4 DEF WriterInv
  <2>6. CASE answer' = [answer EXCEPT ![r] = "rejected"] /\ UNCHANGED fifo
    <3>1. /\ answer'[r] = "rejected"
          /\ \A x \in Requesters : x # r => answer'[x] = answer[x]
      BY <1>1, <1>4, <2>6 DEF NvTypeInv
    <3>2. NvTypeInv' BY <1>1, <1>2, <1>3, <1>8, <2>1, <2>6 DEF NvTypeInv
    <3>3. InOnePlace' BY <1>1, <1>3, <1>6, <2>2, <2>6, <3>1, PlacesNow, PlacesThen
    <3>. QED BY <2>3, <2>4, <3>2, <3>3 DEF WriterInv
  <2>. QED BY <1>8, <2>5, <2>6 DEF ServeRequest
<1>. QED BY <1>1, <1>7, <1>8 DEF NvTypeInv

\* The ready event is served: the writer is busy, and none is left on its way.
LEMMA ServeReadyWriterInv ==
  ASSUME WriterInv, ServeReady
  PROVE  WriterInv'
<1>1. NvTypeInv /\ RangeInv /\ ReadyInv /\ InOnePlace BY DEF WriterInv
<1>2. /\ nvPlace = "rest" /\ nvQueue # <<>> /\ Head(nvQueue) = NvReady /\ nvQueue' = Tail(nvQueue)
      /\ UNCHANGED <<nvState, active, fifo, left, inFlight, armed, answer>>
      /\ nvPlace' = IF nvState = "busy" THEN "step" ELSE "end"
  BY DEF ServeReady
<1>3. /\ nvQueue' \in Seq(NvEvent)
      /\ \A e : CountOf(nvQueue', e) = IF NvReady = e THEN CountOf(nvQueue, e) - 1 ELSE CountOf(nvQueue, e)
      /\ CountOf(nvQueue, NvReady) > 0
  BY <1>1, <1>2, Taken
<1>4. CountOf(nvQueue, NvReady) = 1 /\ ~armed /\ nvState = "busy"
  BY <1>1, <1>3, CountsNow DEF ReadyInv, Coming, Armed, NvTypeInv
<1>5. CountOf(nvQueue', NvReady) = 0 /\ nvPlace' = "step" BY <1>2, <1>3, <1>4
<1>6. \A x : IsActive(x)' <=> IsActive(x) BY <1>2, <1>4, <1>5 DEF IsActive
<1>7. NvTypeInv' BY <1>1, <1>2, <1>3, <1>4, <1>5 DEF NvTypeInv
<1>8. RangeInv' BY <1>1, <1>2, <1>6 DEF RangeInv
<1>9. ReadyInv' BY <1>1, <1>2, <1>4, <1>5 DEF ReadyInv, Coming, Armed
<1>10. \A x \in Requesters : CountOf(nvQueue', x) = CountOf(nvQueue, x) BY <1>3, ReadyAssumption
<1>11. InOnePlace' BY <1>1, <1>2, <1>6, <1>10, PlacesNow, PlacesThen
<1>. QED BY <1>7, <1>8, <1>9, <1>11 DEF WriterInv

\* Nothing is on its way to a writer that is in a step of its own.
LEMMA NothingComes ==
  ASSUME WriterInv, nvPlace \in {"begin", "step", "next"}
  PROVE  ~armed /\ ~inFlight /\ CountOf(nvQueue, NvReady) = 0 /\ active \in Requesters
<1>1. NvTypeInv /\ ReadyInv BY DEF WriterInv
<1>2. Coming = 0 BY <1>1, CountsNow DEF ReadyInv, Coming, Armed
<1>. QED BY <1>1, <1>2, CountsNow DEF ReadyInv, Coming, Armed, NvTypeInv

\* The range of the request.
LEMMA BeginChainWriterInv ==
  ASSUME WriterInv, BeginChain
  PROVE  WriterInv'
<1>1. NvTypeInv /\ RangeInv /\ ReadyInv /\ InOnePlace BY DEF WriterInv
<1>2. /\ nvPlace = "begin" /\ UNCHANGED <<nvQueue, nvState, active, fifo, left, inFlight, armed>>
  BY DEF BeginChain
<1>3. ~armed /\ ~inFlight /\ CountOf(nvQueue, NvReady) = 0 /\ active \in Requesters
  BY <1>2, NothingComes
<1>4. ReadyInv' BY <1>2, <1>3 DEF ReadyInv, Coming, Armed
<1>5. \A x : IsActive(x) <=> x = active BY <1>2 DEF IsActive
<1>6. CASE left[active] = OutOfStore
  <2>1. answer' = [answer EXCEPT ![active] = "bad_range"] /\ nvPlace' = "next" BY <1>6 DEF BeginChain
  <2>2. NvTypeInv' BY <1>1, <1>2, <1>3, <2>1 DEF NvTypeInv
  <2>3. \A x : ~IsActive(x)' BY <2>1 DEF IsActive
  <2>4. RangeInv' BY <2>3 DEF RangeInv
  <2>5. /\ answer'[active] = "bad_range"
        /\ \A x \in Requesters : x # active => answer'[x] = answer[x]
    BY <1>1, <1>3, <2>1 DEF NvTypeInv
  <2>6. InOnePlace'
    <3>. PICK a \in Requesters : a = active BY <1>3
    <3>1. CountOf(nvQueue, a) = 0 /\ CountOf(fifo, a) = 0
      BY <1>1, <1>5, PlacesNow, CountsNow
    <3>2. CountOf(nvQueue', a) + CountOf(fifo', a) + (IF IsActive(a)' THEN 1 ELSE 0)
            = IF answer'[a] = "none" THEN 1 ELSE 0
      BY <1>2, <2>3, <2>5, <3>1
    <3>3. ASSUME NEW x \in Requesters, x # a
          PROVE  CountOf(nvQueue', x) + CountOf(fifo', x) + (IF IsActive(x)' THEN 1 ELSE 0)
                   = IF answer'[x] = "none" THEN 1 ELSE 0
      BY <1>1, <1>2, <1>5, <2>3, <2>5, <3>3, PlacesNow
    <3>. QED BY <3>2, <3>3, PlacesThen
  <2>. QED BY <1>4, <2>2, <2>4, <2>6 DEF WriterInv
<1>7. CASE left[active] # OutOfStore
  <2>1. nvPlace' = "step" /\ UNCHANGED answer BY <1>7 DEF BeginChain
  <2>2. NvTypeInv' BY <1>1, <1>2, <1>3, <2>1 DEF NvTypeInv
  <2>3. \A x : IsActive(x)' <=> x = active BY <1>2, <2>1 DEF IsActive
  <2>4. left[active] \in Nat BY <1>1, <1>3, <1>7 DEF NvTypeInv
  <2>5. RangeInv' BY <1>2, <2>3, <2>4 DEF RangeInv
  <2>6. InOnePlace' BY <1>1, <1>2, <1>5, <2>1, <2>3, PlacesNow, PlacesThen
  <2>. QED BY <1>4, <2>2, <2>5, <2>6 DEF WriterInv
<1>. QED BY <1>6, <1>7

\* An operation of the store is started.
LEMMA StepInFlightWriterInv ==
  ASSUME WriterInv, StepInFlight
  PROVE  WriterInv'
<1>1. NvTypeInv /\ RangeInv /\ ReadyInv /\ InOnePlace BY DEF WriterInv
<1>2. /\ nvPlace = "step" /\ left[active] > 0 /\ left' = [left EXCEPT ![active] = @ - 1]
      /\ inFlight' = TRUE /\ armed' = TRUE /\ nvState' = "busy" /\ nvPlace' = "end"
      /\ UNCHANGED <<nvQueue, active, fifo, answer>>
  BY DEF StepInFlight
<1>3. ~armed /\ CountOf(nvQueue, NvReady) = 0 /\ active \in Requesters BY <1>2, NothingComes
<1>4. \A x : IsActive(x) <=> x = active BY <1>2 DEF IsActive
<1>5. \A x : IsActive(x)' <=> x = active BY <1>2 DEF IsActive
<1>6. left[active] \in Nat BY <1>1, <1>2, <1>3, <1>4 DEF RangeInv
<1>7. left[active] - 1 \in Nat BY <1>2, <1>6
<1>8. left' \in [Requesters -> Nat \cup {OutOfStore}] /\ left'[active] \in Nat
  BY <1>1, <1>2, <1>3, <1>7 DEF NvTypeInv
<1>9. NvTypeInv' BY <1>1, <1>2, <1>3, <1>8 DEF NvTypeInv
<1>10. RangeInv' BY <1>2, <1>5, <1>8 DEF RangeInv
<1>11. ReadyInv' BY <1>2, <1>3 DEF ReadyInv, Coming, Armed
<1>12. InOnePlace' BY <1>1, <1>2, <1>4, <1>5, PlacesNow, PlacesThen
<1>. QED BY <1>9, <1>10, <1>11, <1>12 DEF WriterInv

\* The request in hand is answered.
LEMMA StepEndsWriterInv ==
  ASSUME WriterInv, NEW status \in {"ok", "refused"}, StepEnds(status)
  PROVE  WriterInv'
<1>1. NvTypeInv /\ RangeInv /\ ReadyInv /\ InOnePlace BY DEF WriterInv
<1>2. /\ nvPlace = "step" /\ answer' = [answer EXCEPT ![active] = status]
      /\ armed' = FALSE /\ nvPlace' = "next"
      /\ UNCHANGED <<nvQueue, nvState, active, fifo, left, inFlight>>
  BY DEF StepEnds
<1>3. ~inFlight /\ CountOf(nvQueue, NvReady) = 0 /\ active \in Requesters BY <1>2, NothingComes
<1>4. \A x : IsActive(x) <=> x = active BY <1>2 DEF IsActive
<1>5. \A x : ~IsActive(x)' BY <1>2 DEF IsActive
<1>6. NvTypeInv' BY <1>1, <1>2, <1>3 DEF NvTypeInv
<1>7. RangeInv' BY <1>5 DEF RangeInv
<1>8. ReadyInv' BY <1>2, <1>3 DEF ReadyInv, Coming, Armed
<1>9. /\ answer'[active] = status /\ status # "none"
      /\ \A x \in Requesters : x # active => answer'[x] = answer[x]
  BY <1>1, <1>2, <1>3 DEF NvTypeInv
<1>10. InOnePlace' BY <1>1, <1>2, <1>3, <1>4, <1>5, <1>9, PlacesNow, PlacesThen, CountsNow
<1>. QED BY <1>6, <1>7, <1>8, <1>10 DEF WriterInv

\* The next of the FIFO, or idle.
LEMMA ChainNextWriterInv ==
  ASSUME WriterInv, ChainNext
  PROVE  WriterInv'
<1>1. NvTypeInv /\ RangeInv /\ ReadyInv /\ InOnePlace BY DEF WriterInv
<1>2. nvPlace = "next" /\ UNCHANGED <<nvQueue, left, inFlight, armed, answer>> BY DEF ChainNext
<1>3. ~armed /\ ~inFlight /\ CountOf(nvQueue, NvReady) = 0 /\ active \in Requesters
  BY <1>2, NothingComes
<1>4. ReadyInv' BY <1>2, <1>3 DEF ReadyInv, Coming, Armed
<1>5. \A x : ~IsActive(x) BY <1>2 DEF IsActive
<1>6. CASE fifo = <<>>
  <2>1. nvState' = "idle" /\ nvPlace' = "end" /\ UNCHANGED <<active, fifo>> BY <1>6 DEF ChainNext
  <2>2. \A x : ~IsActive(x)' BY <2>1 DEF IsActive
  <2>3. NvTypeInv' BY <1>1, <1>2, <1>3, <2>1 DEF NvTypeInv
  <2>4. RangeInv' BY <2>2 DEF RangeInv
  <2>5. InOnePlace' BY <1>1, <1>2, <1>5, <2>1, <2>2, PlacesNow, PlacesThen
  <2>. QED BY <1>4, <2>3, <2>4, <2>5 DEF WriterInv
<1>7. CASE fifo # <<>>
  <2>1. active' = Head(fifo) /\ fifo' = Tail(fifo) /\ nvPlace' = "begin" /\ UNCHANGED nvState
    BY <1>7 DEF ChainNext
  <2>2. fifo \in Seq(Requesters) BY <1>1 DEF NvTypeInv
  <2>3. active' \in Requesters /\ fifo' \in Seq(Requesters) BY <1>7, <2>1, <2>2, HeadTailProperties
  <2>4. \A e : CountOf(fifo', e) = IF active' = e THEN CountOf(fifo, e) - 1 ELSE CountOf(fifo, e)
    BY <1>7, <2>1, <2>2, CountTail
  <2>5. \A x : IsActive(x)' <=> x = active' BY <2>1 DEF IsActive
  <2>6. NvTypeInv' BY <1>1, <1>2, <2>1, <2>3 DEF NvTypeInv
  <2>7. RangeInv' BY <2>1 DEF RangeInv
  <2>8. InOnePlace' BY <1>1, <1>2, <1>5, <2>4, <2>5, PlacesNow, PlacesThen, CountsNow
  <2>. QED BY <1>4, <2>6, <2>7, <2>8 DEF WriterInv
<1>. QED BY <1>6, <1>7

\* The dispatch ends.
LEMMA NvReturnWriterInv ==
  ASSUME WriterInv, NvReturn
  PROVE  WriterInv'
<1>1. NvTypeInv /\ RangeInv /\ ReadyInv /\ InOnePlace BY DEF WriterInv
<1>2. /\ nvPlace = "end" /\ nvPlace' = "rest"
      /\ UNCHANGED <<nvQueue, nvState, active, fifo, left, inFlight, armed, answer>>
  BY DEF NvReturn
<1>3. \A x : IsActive(x)' <=> IsActive(x) BY <1>2 DEF IsActive
<1>4. NvTypeInv' BY <1>1, <1>2 DEF NvTypeInv
<1>5. RangeInv' BY <1>1, <1>2, <1>3 DEF RangeInv
<1>6. ReadyInv' BY <1>1, <1>2 DEF ReadyInv, Coming, Armed
<1>7. InOnePlace' BY <1>1, <1>2, <1>3, PlacesNow, PlacesThen
<1>. QED BY <1>4, <1>5, <1>6, <1>7 DEF WriterInv

LEMMA NextWriterInv == WriterInv /\ [NvNext]_nvVars => WriterInv'
<1>. SUFFICES ASSUME WriterInv, [NvNext]_nvVars PROVE WriterInv' OBVIOUS
<1>1. ASSUME UNCHANGED nvVars PROVE WriterInv'
  <2>1. NvTypeInv /\ RangeInv /\ ReadyInv /\ InOnePlace BY DEF WriterInv
  <2>2. \A x : IsActive(x)' <=> IsActive(x) BY <1>1 DEF IsActive, nvVars
  <2>3. NvTypeInv' BY <1>1, <2>1 DEF NvTypeInv, nvVars
  <2>4. RangeInv' BY <1>1, <2>1, <2>2 DEF RangeInv, nvVars
  <2>5. ReadyInv' BY <1>1, <2>1 DEF ReadyInv, Coming, Armed, nvVars
  <2>6. InOnePlace' BY <1>1, <2>1, <2>2, PlacesNow, PlacesThen DEF nvVars
  <2>. QED BY <2>3, <2>4, <2>5, <2>6 DEF WriterInv
<1>2. ASSUME Writing PROVE WriterInv'
  BY <1>2, ServeRequestWriterInv, ServeReadyWriterInv, BeginChainWriterInv, StepInFlightWriterInv,
     StepEndsWriterInv, ChainNextWriterInv, NvReturnWriterInv DEF Writing
<1>. QED BY <1>1, <1>2, StoreDoneWriterInv, ReadyInterruptWriterInv, RequestWriterInv DEF NvNext

\* The invariant of the writer.
THEOREM WriterInvariant == NvSpec => []WriterInv
<1>. QED BY InitWriterInv, NextWriterInv, PTL DEF NvSpec

\* util/nv_writer.hpp: a request that was received and not answered is in one
\* place, a request answered in none, and the writer never looks into a store
\* at work, whatever the depths and the counts of operations.
THEOREM NothingUnanswered == NvSpec => [](InOnePlace /\ StoreAtRest)
<1>1. WriterInv => InOnePlace /\ StoreAtRest
  BY NothingComes DEF WriterInv, StoreAtRest
<1>. QED BY <1>1, WriterInvariant, PTL

-----------------------------------------------------------------------------
\* The others of a queue that grows and of one that is served.
LEMMA OthersEmpty == OthersIn(<<>>) = 0
BY FS_EmptySet DEF OthersIn

LEMMA OthersAppend ==
  ASSUME NEW q \in Seq(NvEvent), NEW x \in NvEvent
  PROVE  OthersIn(Append(q, x)) = IF x = NvReady THEN OthersIn(q) ELSE OthersIn(q) + 1
<1>. PICK p : p = Append(q, x) OBVIOUS
<1>1. p \in Seq(NvEvent) /\ Len(p) = Len(q) + 1 BY AppendProperties
<1>2. CountOf(p, NvReady) = IF x = NvReady THEN CountOf(q, NvReady) + 1 ELSE CountOf(q, NvReady)
  BY CountAppend
<1>3. /\ OthersIn(p) \in Nat /\ OthersIn(p) + CountOf(p, NvReady) = Len(p)
      /\ OthersIn(q) \in Nat /\ OthersIn(q) + CountOf(q, NvReady) = Len(q)
  BY <1>1, OthersAre
<1>4. Len(q) \in Nat /\ CountOf(q, NvReady) \in Nat BY CountType, LenProperties
<1>. QED BY <1>1, <1>2, <1>3, <1>4

LEMMA OthersTail ==
  ASSUME NEW q \in Seq(NvEvent), q # <<>>
  PROVE  OthersIn(Tail(q)) = IF Head(q) = NvReady THEN OthersIn(q) ELSE OthersIn(q) - 1
<1>. PICK p : p = Tail(q) OBVIOUS
<1>1. p \in Seq(NvEvent) /\ Len(p) = Len(q) - 1 BY HeadTailProperties
<1>2. CountOf(p, NvReady) = IF Head(q) = NvReady THEN CountOf(q, NvReady) - 1 ELSE CountOf(q, NvReady)
  BY CountTail
<1>3. /\ OthersIn(p) \in Nat /\ OthersIn(p) + CountOf(p, NvReady) = Len(p)
      /\ OthersIn(q) \in Nat /\ OthersIn(q) + CountOf(q, NvReady) = Len(q)
  BY <1>1, OthersAre
<1>4. Len(q) \in Nat /\ CountOf(q, NvReady) \in Nat BY CountType, LenProperties
<1>. QED BY <1>1, <1>2, <1>3, <1>4

\* A queue and what is in dispatch.
LEMMA Joined ==
  ASSUME NEW q \in Seq(NvEvent), NEW c \in Seq(NvEvent), Len(c) <= 1
  PROVE  /\ OthersIn(q \o c) = OthersIn(q) + OthersIn(c)
         /\ OthersIn(q) \in Nat /\ OthersIn(c) \in Nat
         /\ Len(c) <= OthersIn(c) + 1
<1>1. OthersIn(q) \in Nat /\ OthersIn(c) \in Nat BY OthersAre
<1>2. Len(c) \in Nat BY LenProperties
<1>3. CASE c = <<>>
  <2>1. q \o c = q BY <1>3, ConcatEmptySeq
  <2>. QED BY <1>1, <1>2, <1>3, <2>1, OthersEmpty
<1>4. CASE c # <<>>
  <2>1. Len(c) = 1
    <3>. PICK n \in Nat : n = Len(c) BY <1>2
    <3>1. n # 0 BY <1>4, EmptySeq
    <3>2. n <= 1 OBVIOUS
    <3>. QED BY <3>1, <3>2
  <2>. PICK x : x = c[1] OBVIOUS
  <2>2. x \in NvEvent BY <2>1
  <2>3. c = <<x>> /\ c = Append(<<>>, x) BY <2>1
  <2>4. OthersIn(c) = IF x = NvReady THEN 0 ELSE 1
    <3>1. <<>> \in Seq(NvEvent) BY EmptySeq
    <3>2. OthersIn(Append(<<>>, x)) = IF x = NvReady THEN OthersIn(<<>>) ELSE OthersIn(<<>>) + 1
      BY <2>2, <3>1, OthersAppend
    <3>. QED BY <2>3, <3>2, OthersEmpty
  <2>5. OthersIn(q \o c) = OthersIn(q) + OthersIn(c) 
    <3>1. q \o c = Append(q, x) BY <2>2, <2>3, AppendIsConcat
    <3>. QED BY <1>1, <2>2, <2>4, <3>1, OthersAppend
  <2>. QED BY <1>1, <2>1, <2>5
<1>. QED BY <1>3, <1>4

BusyInv == RoomInv /\ ReadyComes

LEMMA InitBusyInv == NvInit => BusyInv
<1>. SUFFICES ASSUME NvInit PROVE BusyInv OBVIOUS
<1>1. RoomInv BY OthersEmpty, WriterAssumption, EmptySeq DEF NvInit, RoomInv
<1>2. ReadyComes BY DEF NvInit, ReadyComes
<1>. QED BY <1>1, <1>2 DEF BusyInv

\* A requester's post leaves room for the interrupt.
LEMMA RequestBusyInv ==
  ASSUME WriterInv, BusyInv, NEW r \in Requesters, NEW ops, Request(r, ops)
  PROVE  BusyInv'
<1>1. NvTypeInv /\ RoomInv /\ ReadyComes BY DEF WriterInv, BusyInv
<1>2. /\ UNCHANGED <<nvCurrent, nvPlace, nvState, armed>>
      /\ nvQueue' = Append(nvQueue, r) \/ nvQueue' = nvQueue
      /\ OthersIn(nvQueue \o nvCurrent) < Backlog
  BY DEF Request, NvPosted, OthersIn
<1>3. nvQueue \in Seq(NvEvent) /\ r \in NvEvent BY <1>1 DEF NvTypeInv, NvEvent
<1>4. nvCurrent \in Seq(NvEvent) /\ Len(nvCurrent) <= 1 BY <1>1 DEF RoomInv
<1>5. /\ OthersIn(nvQueue) + OthersIn(nvCurrent) < Backlog
      /\ OthersIn(nvQueue) \in Nat /\ OthersIn(nvCurrent) \in Nat
  BY <1>2, <1>3, <1>4, Joined
<1>. PICK q : q = nvQueue' OBVIOUS
<1>6. OthersIn(q) <= OthersIn(nvQueue) + 1
  <2>1. CASE q = Append(nvQueue, r)
    <3>1. OthersIn(q) = IF r = NvReady THEN OthersIn(nvQueue) ELSE OthersIn(nvQueue) + 1
      BY <1>3, <2>1, OthersAppend
    <3>. QED BY <1>5, <3>1
  <2>2. CASE q = nvQueue BY <1>5, <2>2
  <2>. QED BY <1>2, <2>1, <2>2
<1>7. OthersIn(q) \in Nat
  <2>1. q \in Seq(NvEvent) BY <1>2, <1>3, AppendProperties
  <2>. QED BY <2>1, OthersAre
<1>8. OthersIn(q) + OthersIn(nvCurrent) <= Backlog BY <1>5, <1>6, <1>7, WriterAssumption
<1>9. RoomInv' BY <1>1, <1>2, <1>8 DEF RoomInv
<1>10. CountOf(nvQueue', NvReady) = CountOf(nvQueue, NvReady)
  <2>1. r # NvReady BY ReadyAssumption
  <2>2. CountOf(Append(nvQueue, r), NvReady) = CountOf(nvQueue, NvReady) BY <1>3, <2>1, CountAppend
  <2>. QED BY <1>2, <2>2
<1>11. ReadyComes' BY <1>1, <1>2, <1>10 DEF ReadyComes, Coming, Armed
<1>. QED BY <1>9, <1>11 DEF BusyInv

\* The interrupt finds the slot it needs.
LEMMA ReadyInterruptBusyInv ==
  ASSUME Backlog <= PendingDepth, WriterInv, BusyInv, ReadyInterrupt
  PROVE  BusyInv'
<1>1. NvTypeInv /\ ReadyInv /\ RoomInv /\ ReadyComes BY DEF WriterInv, BusyInv
<1>2. armed /\ armed' = FALSE /\ nvQueue' = NvPosted(NvReady) /\ UNCHANGED <<nvCurrent, nvPlace, nvState>>
  BY DEF ReadyInterrupt
<1>3. nvQueue \in Seq(NvEvent) /\ NvReady \in NvEvent BY <1>1 DEF NvTypeInv, NvEvent
<1>4. nvCurrent \in Seq(NvEvent) /\ Len(nvCurrent) <= 1 BY <1>1 DEF RoomInv
<1>5. CountOf(nvQueue, NvReady) = 0 BY <1>1, <1>2, CountsNow DEF ReadyInv, Coming, Armed
<1>6. /\ OthersIn(nvQueue) + CountOf(nvQueue, NvReady) = Len(nvQueue)
      /\ OthersIn(nvQueue) \in Nat /\ OthersIn(nvCurrent) \in Nat /\ Len(nvCurrent) <= OthersIn(nvCurrent) + 1
  BY <1>3, <1>4, Joined, OthersAre
<1>7. Len(nvQueue) \in Nat /\ Len(nvCurrent) \in Nat BY <1>3, <1>4, LenProperties
<1>8. OthersIn(nvQueue) + OthersIn(nvCurrent) <= Backlog BY <1>1 DEF RoomInv
<1>9. NvTaken < NvSlots BY <1>5, <1>6, <1>7, <1>8, WriterAssumption DEF NvTaken, NvSlots
<1>10. nvQueue' = Append(nvQueue, NvReady) BY <1>2, <1>9 DEF NvPosted
<1>11. OthersIn(nvQueue') = OthersIn(nvQueue) BY <1>3, <1>10, OthersAppend
<1>12. CountOf(nvQueue', NvReady) = 1 BY <1>3, <1>5, <1>10, CountAppend
<1>13. RoomInv' BY <1>1, <1>2, <1>11 DEF RoomInv
<1>14. ReadyComes' BY <1>2, <1>12 DEF ReadyComes, Coming, Armed
<1>. QED BY <1>13, <1>14 DEF BusyInv

\* What is served moves from the queue to the dispatch.
LEMMA ServeBusyInv ==
  ASSUME WriterInv, BusyInv, ServeRequest \/ ServeReady
  PROVE  BusyInv'
<1>1. NvTypeInv /\ ReadyInv /\ RoomInv /\ ReadyComes BY DEF WriterInv, BusyInv
<1>. PICK e : e = Head(nvQueue) OBVIOUS
<1>2. /\ nvPlace = "rest" /\ nvPlace' # "rest" /\ nvQueue # <<>> /\ nvQueue' = Tail(nvQueue) /\ nvCurrent' = <<e>>
      /\ UNCHANGED <<nvState, armed>>
  BY DEF ServeRequest, ServeReady
<1>3. nvQueue \in Seq(NvEvent) /\ e \in NvEvent BY <1>1, <1>2, Taken DEF NvTypeInv
<1>4. OthersIn(nvQueue') = IF e = NvReady THEN OthersIn(nvQueue) ELSE OthersIn(nvQueue) - 1
  BY <1>2, <1>3, OthersTail
<1>5. OthersIn(nvCurrent') = IF e = NvReady THEN 0 ELSE 1
  <2>1. <<>> \in Seq(NvEvent) BY EmptySeq
  <2>2. OthersIn(Append(<<>>, e)) = IF e = NvReady THEN OthersIn(<<>>) ELSE OthersIn(<<>>) + 1
    BY <1>3, <2>1, OthersAppend
  <2>3. nvCurrent' = Append(<<>>, e) BY <1>2
  <2>. QED BY <2>2, <2>3, OthersEmpty
<1>6. OthersIn(nvQueue) \in Nat /\ OthersIn(nvQueue) <= Backlog
  <2>1. nvCurrent = <<>> BY <1>1, <1>2 DEF RoomInv
  <2>2. OthersIn(nvQueue) + 0 <= Backlog BY <1>1, <2>1, OthersEmpty DEF RoomInv
  <2>. QED BY <1>3, <2>2, OthersAre
<1>7. OthersIn(nvQueue') + OthersIn(nvCurrent') <= Backlog BY <1>4, <1>5, <1>6, WriterAssumption
<1>8. nvCurrent' \in Seq(NvEvent) /\ Len(nvCurrent') <= 1 BY <1>2, <1>3
<1>9. RoomInv' BY <1>2, <1>7, <1>8 DEF RoomInv
<1>10. CASE ServeRequest
  <2>1. e # NvReady BY <1>10 DEF ServeRequest
  <2>2. CountOf(nvQueue', NvReady) = CountOf(nvQueue, NvReady) BY <1>1, <1>2, <2>1, Taken
  <2>3. ReadyComes' BY <1>1, <1>2, <2>2 DEF ReadyComes, Coming, Armed
  <2>. QED BY <1>9, <2>3 DEF BusyInv
<1>11. CASE ServeReady
  <2>1. e = NvReady BY <1>11 DEF ServeReady
  <2>2. CountOf(nvQueue, NvReady) > 0 BY <1>1, <1>2, <2>1, Taken
  <2>3. nvState = "busy" BY <1>1, <2>2, CountsNow DEF ReadyInv, Coming, Armed
  <2>4. nvPlace' = "step" BY <1>11, <2>3 DEF ServeReady
  <2>5. ReadyComes' BY <2>4 DEF ReadyComes
  <2>. QED BY <1>9, <2>5 DEF BusyInv
<1>. QED BY <1>10, <1>11

LEMMA NextBusyInv ==
  ASSUME Backlog <= PendingDepth
  PROVE  WriterInv /\ BusyInv /\ [NvNext]_nvVars => BusyInv'
<1>. SUFFICES ASSUME WriterInv, BusyInv, [NvNext]_nvVars PROVE BusyInv' OBVIOUS
<1>1. RoomInv /\ ReadyComes BY DEF BusyInv
<1>2. ASSUME UNCHANGED nvVars PROVE BusyInv'
  BY <1>1, <1>2 DEF BusyInv, RoomInv, ReadyComes, Coming, Armed, nvVars
<1>3. ASSUME StoreDone PROVE BusyInv'
  BY <1>1, <1>3 DEF BusyInv, RoomInv, ReadyComes, Coming, Armed, StoreDone
<1>4. ASSUME BeginChain PROVE BusyInv'
  <2>1. nvPlace' \in {"step", "next"} /\ UNCHANGED <<nvQueue, nvCurrent>> BY <1>4 DEF BeginChain
  <2>. QED BY <1>1, <2>1 DEF BusyInv, RoomInv, ReadyComes
<1>5. ASSUME StepInFlight PROVE BusyInv'
  <2>1. /\ nvPlace = "step" /\ nvPlace' = "end" /\ armed' = TRUE
        /\ UNCHANGED <<nvQueue, nvCurrent>>
    BY <1>5 DEF StepInFlight
  <2>2. CountOf(nvQueue, NvReady) = 0 BY <2>1, NothingComes
  <2>. QED BY <1>1, <2>1, <2>2 DEF BusyInv, RoomInv, ReadyComes, Coming, Armed
<1>6. ASSUME NEW status, StepEnds(status) PROVE BusyInv'
  <2>1. nvPlace' = "next" /\ UNCHANGED <<nvQueue, nvCurrent>> BY <1>6 DEF StepEnds
  <2>. QED BY <1>1, <2>1 DEF BusyInv, RoomInv, ReadyComes
<1>7. ASSUME ChainNext PROVE BusyInv'
  <2>1. /\ (nvPlace' = "end" /\ nvState' = "idle") \/ nvPlace' = "begin"
        /\ UNCHANGED <<nvQueue, nvCurrent>>
    BY <1>7 DEF ChainNext
  <2>. QED BY <1>1, <2>1 DEF BusyInv, RoomInv, ReadyComes
<1>8. ASSUME NvReturn PROVE BusyInv'
  <2>1. /\ nvPlace = "end" /\ nvPlace' = "rest" /\ nvCurrent' = <<>>
        /\ UNCHANGED <<nvQueue, nvState, armed>>
    BY <1>8 DEF NvReturn
  <2>2. OthersIn(nvQueue) + OthersIn(nvCurrent) <= Backlog
        /\ OthersIn(nvQueue) \in Nat /\ OthersIn(nvCurrent) \in Nat
    BY <1>1, OthersAre DEF RoomInv, WriterInv, NvTypeInv
  <2>3. OthersIn(nvQueue) + OthersIn(<<>>) <= Backlog BY <2>2, OthersEmpty, WriterAssumption
  <2>4. RoomInv' BY <2>1, <2>3, EmptySeq DEF RoomInv
  <2>5. ReadyComes' BY <1>1, <2>1 DEF ReadyComes, Coming, Armed
  <2>. QED BY <2>4, <2>5 DEF BusyInv
<1>9. ASSUME Writing PROVE BusyInv'
  BY <1>4, <1>5, <1>6, <1>7, <1>8, <1>9, ServeBusyInv DEF Writing
<1>. QED BY <1>2, <1>3, <1>9, ReadyInterruptBusyInv, RequestBusyInv DEF NvNext

\* util/nv_writer.hpp: when the requesters leave no more in the queue than
\* pending_depth, a writer that is busy has its ready interrupt on its way,
\* armed or in the queue: no chain is left halfway.
THEOREM NoChainLeft ==
  ASSUME Backlog <= PendingDepth
  PROVE  NvSpec => []ReadyComes
<1>1. BusyInv => ReadyComes BY DEF BusyInv
<1>. QED BY <1>1, InitWriterInv, NextWriterInv, InitBusyInv, NextBusyInv, PTL DEF NvSpec
=============================================================================
