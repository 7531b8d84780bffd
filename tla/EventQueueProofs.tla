-------------------------- MODULE EventQueueProofs --------------------------
(***************************************************************************)
(* EventQueue for every depth, every counter limit and every event type.   *)
(* IInv is the inductive invariant; IInvariant is the theorem the others   *)
(* follow from.                                                            *)
(***************************************************************************)
EXTENDS EventQueue, FiniteSetTheorems, SequenceTheorems, TLAPS

IsLive(q) == q # take /\ Dist(take, q) <= Live

\* A number in the pending or free run is a slot's, nobody has that slot,
\* and it is written once.
LiveNumbers ==
  /\ \A q \in Places : IsLive(q) => ring[q] \in Slots /\ ring[q] \notin Outstanding
  /\ \A p, q \in Places : IsLive(p) /\ IsLive(q) /\ ring[p] = ring[q] => p = q

\* A slot nobody has is somewhere in those runs.
FreeFound == \A s \in Slots \ Outstanding : \E q \in Places : IsLive(q) /\ ring[q] = s

\* What the consumer's locals say of the queue at each of its points.
ConsumerInv ==
  /\ pc \in {"test", "read", "move"} => t = take
  /\ pc \in {"read", "move"} => take # alloc
  /\ pc = "move" => h = ring[NextPos(take)]
  /\ pc \in {"loop", "test", "read", "move"} => held = 0
  /\ pc \in {"dispatch", "ownerReleasing", "releasing"} =>
       h \in Slots /\ ring[take] = h /\ (held = 1 <=> h \in owned)
  /\ pc = "ownerReleasing" => gone \in owned /\ gone # h /\ ring[fence] = gone
  /\ pc = "releasing" => held = 0 /\ gone = h /\ ring[fence] = gone

IInv ==
  /\ TypeOK
  /\ Waiting <= Live
  /\ Live + Cardinality(Outstanding) = SlotCount
  /\ LiveNumbers
  /\ FreeFound
  /\ ConsumerInv

-----------------------------------------------------------------------------
\* The outstanding slots are finitely many.
LEMMA OutstandingFinite ==
  ASSUME TypeOK, ConsumerInv
  PROVE  Outstanding \subseteq Slots /\ IsFiniteSet(Outstanding) /\ Cardinality(Outstanding) \in Nat
<1>1. SlotCount \in Nat BY DepthAssumption DEF SlotCount
<1>2. IsFiniteSet(Slots) BY <1>1, FS_Interval DEF Slots
<1>3. Outstanding \subseteq Slots
  BY DEF TypeOK, ConsumerInv, Outstanding, Current
<1>. QED BY <1>2, <1>3, FS_Subset, FS_CardinalityType

\* Going round the ring: the step and the distance are the ones of a ring.
LEMMA Ring ==
  /\ \A i \in Places : NextPos(i) \in Places /\ NextPos(i) # i
  /\ \A i, j \in Places : Dist(i, j) \in 0 .. SlotCount
  /\ \A i, j \in Places : Dist(i, j) = 0 <=> i = j
  /\ \A i, j, k \in Places : Dist(i, j) = Dist(i, k) => j = k
  /\ \A i, j \in Places : NextPos(j) # i => Dist(i, NextPos(j)) = Dist(i, j) + 1
  /\ \A i, j \in Places : i # j => Dist(NextPos(i), j) = Dist(i, j) - 1
  /\ \A i \in Places : Dist(NextPos(i), i) = SlotCount
<1>. USE DepthAssumption DEF Places, Slots, Positions, SlotCount, NextPos, Dist
<1>1. \A i \in Places : NextPos(i) \in Places /\ NextPos(i) # i OBVIOUS
<1>2. \A i, j \in Places : Dist(i, j) \in 0 .. SlotCount OBVIOUS
<1>3. \A i, j \in Places : Dist(i, j) = 0 <=> i = j OBVIOUS
<1>4. \A i, j, k \in Places : Dist(i, j) = Dist(i, k) => j = k OBVIOUS
<1>5. \A i, j \in Places : NextPos(j) # i => Dist(i, NextPos(j)) = Dist(i, j) + 1 OBVIOUS
<1>6. \A i, j \in Places : i # j => Dist(NextPos(i), j) = Dist(i, j) - 1 OBVIOUS
<1>7. \A i \in Places : Dist(NextPos(i), i) = SlotCount OBVIOUS
<1>. QED BY <1>1, <1>2, <1>3, <1>4, <1>5, <1>6, <1>7

\* The queue starts in the invariant.
LEMMA InitIInv == Init => IInv
<1>. SUFFICES ASSUME Init PROVE IInv OBVIOUS
<1>. USE DepthAssumption, CountMaxAssumption, EventsAssumption DEF Init
<1>1. TypeOK BY DEF TypeOK, Places, SlotCount, None
<1>2. Outstanding = {} BY DEF Outstanding, Current
<1>3. Waiting = 0 BY DEF Waiting, Dist
<1>4. Live = SlotCount BY Ring DEF Live, Places, SlotCount
<1>5. Live + Cardinality(Outstanding) = SlotCount
  BY <1>2, <1>4, FS_EmptySet DEF SlotCount
<1>6. \A q \in Places : IsLive(q) <=> q # 0
  BY <1>4 DEF IsLive, Dist, Places, SlotCount
<1>7. LiveNumbers BY <1>2, <1>6 DEF LiveNumbers, Places, Slots
<1>8. FreeFound BY <1>6 DEF FreeFound, Places, Slots
<1>9. ConsumerInv BY DEF ConsumerInv
<1>. QED BY <1>1, <1>3, <1>4, <1>5, <1>7, <1>8, <1>9 DEF IInv, SlotCount

-----------------------------------------------------------------------------
\* What the runs look like after each cursor has moved one place.
LEMMA LiveFacts ==
  ASSUME TypeOK, Waiting <= Live
  PROVE  /\ Waiting \in 0 .. SlotCount /\ Live \in 0 .. SlotCount
         /\ NextPos(alloc) # fence =>
              /\ Waiting < Live
              /\ Dist(take, NextPos(alloc)) = Waiting + 1
              /\ IsLive(NextPos(alloc))
         /\ take # alloc =>
              /\ IsLive(NextPos(take)) /\ Live >= 1
              /\ Dist(NextPos(take), alloc) = Waiting - 1
              /\ Dist(NextPos(NextPos(take)), fence) = Live - 1
              /\ \A q \in Places :
                   (q # NextPos(take) /\ Dist(NextPos(take), q) <= Live - 1)
                     <=> (IsLive(q) /\ q # NextPos(take))
         /\ Live < SlotCount =>
              /\ fence # take
              /\ ~IsLive(fence)
              /\ Dist(NextPos(take), NextPos(fence)) = Live + 1
              /\ \A q \in Places :
                   (q # take /\ Dist(take, q) <= Live + 1) <=> (IsLive(q) \/ q = fence)
<1>. USE DepthAssumption DEF TypeOK, Places, Positions, SlotCount, NextPos, Dist,
                             Waiting, Live, IsLive
<1>1. Waiting \in 0 .. SlotCount /\ Live \in 0 .. SlotCount OBVIOUS
<1>2. NextPos(alloc) # fence =>
        /\ Waiting < Live
        /\ Dist(take, NextPos(alloc)) = Waiting + 1
        /\ IsLive(NextPos(alloc))
  OBVIOUS
<1>3. ASSUME take # alloc
      PROVE  /\ IsLive(NextPos(take)) /\ Live >= 1
             /\ Dist(NextPos(take), alloc) = Waiting - 1
             /\ Dist(NextPos(NextPos(take)), fence) = Live - 1
  BY <1>3
<1>4. ASSUME take # alloc, NEW q \in Places
      PROVE  (q # NextPos(take) /\ Dist(NextPos(take), q) <= Live - 1)
               <=> (IsLive(q) /\ q # NextPos(take))
  BY <1>4
<1>5. ASSUME Live < SlotCount
      PROVE  /\ fence # take
             /\ ~IsLive(fence)
             /\ Dist(NextPos(take), NextPos(fence)) = Live + 1
  BY <1>5
<1>6. ASSUME Live < SlotCount, NEW q \in Places
      PROVE  (q # take /\ Dist(take, q) <= Live + 1) <=> (IsLive(q) \/ q = fence)
  BY <1>6
<1>. QED
  <2>. USE DEF TypeOK
  <2>. HIDE DEF Positions, SlotCount, NextPos, Dist, Waiting, Live, IsLive, TypeOK, Places
  <2>. QED BY <1>1, <1>2, <1>3, <1>4, <1>5, <1>6

\* A step that moves no consumer cursor, writes no ring place and changes no
\* hand leaves every number where it was.
LEMMA SameRuns ==
  ASSUME LiveNumbers, FreeFound, Live + Cardinality(Outstanding) = SlotCount,
         UNCHANGED <<take, fence, ring>>, Outstanding' = Outstanding
  PROVE  /\ LiveNumbers' /\ FreeFound' /\ Live' = Live
         /\ (Live + Cardinality(Outstanding) = SlotCount)'
<1>1. Live' = Live BY DEF Live
<1>2. \A q : IsLive(q)' <=> IsLive(q) BY <1>1 DEF IsLive
<1>. QED BY <1>1, <1>2 DEF LiveNumbers, FreeFound

\* Push builds in a free slot, or only counts.
LEMMA PushIInv == ASSUME IInv, NEW e \in Events, Push(e) PROVE IInv'
<1>. USE DEF IInv
<1>0. /\ UNCHANGED <<ring, take, fence, held, consumer>>
      /\ Outstanding' = Outstanding
  BY DEF Push, Outstanding, Current, consumer
<1>1. LiveNumbers' /\ FreeFound' /\ Live' = Live
      /\ (Live + Cardinality(Outstanding) = SlotCount)'
  BY <1>0, SameRuns
<1>2. CASE NextPos(alloc) # fence
  <2>1. /\ slots' = [slots EXCEPT ![ring[NextPos(alloc)]] = e]
        /\ alloc' = NextPos(alloc) /\ UNCHANGED <<overflows, misposts>>
    BY <1>2 DEF Push
  <2>2. alloc' \in Places /\ NextPos(alloc) # alloc BY <2>1, Ring DEF TypeOK
  <2>3. TypeOK' BY <1>0, <2>1, <2>2 DEF TypeOK, consumer
  <2>4. Waiting < Live /\ Waiting' = Waiting + 1 /\ Waiting \in Nat
    BY <1>0, <1>2, <2>1, LiveFacts DEF Waiting
  <2>5. Waiting' <= Live' BY <1>1, <2>4, LiveFacts
  <2>6. take # NextPos(alloc)
    <3>1. Dist(take, NextPos(alloc)) # 0
      BY <1>0, <2>1, <2>4 DEF Waiting
    <3>. QED BY <2>1, <2>2, <3>1, Ring DEF TypeOK
  <2>7. ConsumerInv' BY <1>0, <2>1, <2>6 DEF ConsumerInv, consumer
  <2>. QED BY <1>1, <2>3, <2>5, <2>7
<1>3. CASE NextPos(alloc) = fence
  <2>1. /\ overflows' = Saturated(overflows)
        /\ UNCHANGED <<slots, alloc, misposts>>
    BY <1>3 DEF Push
  <2>2. TypeOK' BY <1>0, <2>1, CountMaxAssumption DEF TypeOK, consumer, Saturated
  <2>3. Waiting' = Waiting BY <1>0, <2>1 DEF Waiting
  <2>4. ConsumerInv' BY <1>0, <2>1 DEF ConsumerInv, consumer
  <2>. QED BY <1>1, <2>2, <2>3, <2>4
<1>. QED BY <1>2, <1>3

\* A step that changes only what lies outside the ring, the cursors and the
\* hands has the type and the consumer's facts left to prove.
LEMMA QuietIInv ==
  ASSUME IInv, UNCHANGED <<alloc, take, fence, ring>>, Outstanding' = Outstanding,
         TypeOK', ConsumerInv'
  PROVE  IInv'
<1>1. Waiting' = Waiting BY DEF Waiting
<1>. QED BY <1>1, SameRuns DEF IInv

\* The steps of take() before the cursor moves.
LEMMA TakeIInv == ASSUME IInv, TakeStart \/ TakeTest \/ TakeRead PROVE IInv'
<1>. USE DEF IInv, queue
<1>0. UNCHANGED queue /\ Outstanding' = Outstanding
  BY DEF TakeStart, TakeTest, TakeRead, Outstanding, Current
<1>1. CASE TakeStart
  <2>1. TypeOK' BY <1>1 DEF TakeStart, TypeOK
  <2>2. ConsumerInv' BY <1>1 DEF TakeStart, ConsumerInv
  <2>. QED BY <1>0, <2>1, <2>2, QuietIInv
<1>2. CASE TakeTest
  <2>1. TypeOK' BY <1>2 DEF TakeTest, TypeOK
  <2>2. ConsumerInv' BY <1>2 DEF TakeTest, ConsumerInv
  <2>. QED BY <1>0, <2>1, <2>2, QuietIInv
<1>3. CASE TakeRead
  <2>1. NextPos(t) \in Places BY Ring DEF TypeOK
  <2>2. TypeOK' BY <1>3, <2>1 DEF TakeRead, TypeOK
  <2>3. ConsumerInv' BY <1>3 DEF TakeRead, ConsumerInv
  <2>. QED BY <1>0, <2>2, <2>3, QuietIInv
<1>. QED BY <1>1, <1>2, <1>3

\* take() hands the oldest number over: one place the less, one hand the more.
LEMMA TakeMoveIInv == ASSUME IInv, TakeMove PROVE IInv'
<1>. USE DEF IInv
<1>1. /\ pc = "move" /\ pc' = "dispatch" /\ take' = NextPos(take)
      /\ h = ring[NextPos(take)] /\ take # alloc /\ held = 0
      /\ UNCHANGED <<slots, ring, alloc, fence, held, overflows, misposts>>
      /\ UNCHANGED <<mode, t, h, gone, owned>>
  BY DEF TakeMove, ConsumerInv
<1>2. NextPos(take) \in Places BY Ring DEF TypeOK
<1>3. IsLive(NextPos(take)) /\ Live >= 1 /\ Waiting' = Waiting - 1 /\ Live' = Live - 1
  BY <1>1, LiveFacts DEF Waiting, Live
<1>4. h \in Slots /\ h \notin Outstanding BY <1>1, <1>2, <1>3 DEF LiveNumbers
<1>5. Outstanding = owned /\ Outstanding' = Outstanding \cup {h}
  BY <1>1 DEF Outstanding, Current
<1>6. TypeOK' BY <1>1, <1>2 DEF TypeOK
<1>7. Cardinality(Outstanding') = Cardinality(Outstanding) + 1
  BY <1>4, <1>5, OutstandingFinite, FS_AddElement
<1>8. (Live + Cardinality(Outstanding) = SlotCount)'
  BY <1>3, <1>7, LiveFacts, OutstandingFinite, DepthAssumption DEF SlotCount
<1>9. \A q \in Places : IsLive(q)' <=> IsLive(q) /\ q # NextPos(take)
  BY <1>1, <1>3, LiveFacts DEF IsLive
<1>10. LiveNumbers' BY <1>1, <1>2, <1>3, <1>5, <1>9 DEF LiveNumbers
<1>11. FreeFound' BY <1>1, <1>5, <1>9 DEF FreeFound
<1>12. ConsumerInv' BY <1>1, <1>4, <1>5 DEF ConsumerInv
<1>13. Waiting' <= Live' BY <1>3, LiveFacts
<1>. QED BY <1>6, <1>8, <1>10, <1>11, <1>12, <1>13

\* hold() puts the slot being dispatched in the object's hands: the place it
\* reads still names that slot.
LEMMA HoldIInv == ASSUME IInv, Hold PROVE IInv'
<1>. USE DEF IInv
<1>1. /\ pc = "dispatch" /\ held' = 1 /\ owned' = owned \cup {h} /\ h \in Slots
      /\ UNCHANGED <<slots, ring, alloc, take, fence, overflows, misposts>>
      /\ UNCHANGED <<pc, mode, t, h, gone>>
  BY DEF Hold, ConsumerInv
<1>2. Outstanding' = Outstanding BY <1>1 DEF Outstanding, Current
<1>3. TypeOK' BY <1>1 DEF TypeOK
<1>4. ConsumerInv' BY <1>1 DEF ConsumerInv
<1>. QED BY <1>1, <1>2, <1>3, <1>4, QuietIInv

\* While something is outstanding the free run leaves at least one place.
LEMMA OutstandingRoom ==
  ASSUME IInv, NEW s \in Outstanding
  PROVE  /\ Live < SlotCount /\ fence # take /\ ~IsLive(fence) /\ s \in Slots
         /\ Cardinality(Outstanding \ {s}) = Cardinality(Outstanding) - 1
<1>. USE DEF IInv
<1>1. s \in Slots /\ Cardinality(Outstanding \ {s}) = Cardinality(Outstanding) - 1
  BY OutstandingFinite, FS_RemoveElement
<1>2. Cardinality(Outstanding \ {s}) \in Nat
  BY OutstandingFinite, FS_RemoveElement, FS_CardinalityType
<1>3. Live < SlotCount
  BY <1>1, <1>2, OutstandingFinite, LiveFacts, DepthAssumption DEF SlotCount
<1>. QED BY <1>1, <1>3, LiveFacts

\* The first half of a release writes a place that is in no run and is not
\* the one hold() reads.
LEMMA ReleaseWriteRuns ==
  ASSUME IInv, NEW s \in Outstanding, ReleaseWrite(s), Outstanding' = Outstanding
  PROVE  /\ ring' \in [Places -> Places] /\ gone' = s /\ s \in Places
         /\ ring'[take] = ring[take] /\ ring'[fence] = s
         /\ LiveNumbers' /\ FreeFound' /\ Live' = Live /\ Waiting' = Waiting
         /\ (Live + Cardinality(Outstanding) = SlotCount)'
<1>. USE DEF IInv
<1>1. /\ ring' = [ring EXCEPT ![fence] = s] /\ gone' = s
      /\ UNCHANGED <<slots, alloc, take, fence>>
  BY DEF ReleaseWrite
<1>2. fence # take /\ ~IsLive(fence) /\ s \in Slots BY OutstandingRoom
<1>3. s \in Places BY <1>2 DEF Slots, Places
<1>4. /\ ring' \in [Places -> Places] /\ ring'[take] = ring[take] /\ ring'[fence] = s
      /\ \A q \in Places : q # fence => ring'[q] = ring[q]
  BY <1>1, <1>2, <1>3 DEF TypeOK
<1>5. Live' = Live /\ Waiting' = Waiting BY <1>1 DEF Live, Waiting
<1>6. \A q : IsLive(q)' <=> IsLive(q) BY <1>1, <1>5 DEF IsLive
<1>7. \A q \in Places : IsLive(q) => ring'[q] = ring[q] BY <1>2, <1>4
<1>8. LiveNumbers' BY <1>6, <1>7 DEF LiveNumbers
<1>9. FreeFound' BY <1>6, <1>7 DEF FreeFound
<1>. QED BY <1>1, <1>3, <1>4, <1>5, <1>8, <1>9

\* A dispatch starts to give back a slot an earlier one held.
LEMMA OwnerReleaseIInv == ASSUME IInv, OwnerRelease PROVE IInv'
<1>. USE DEF IInv
<1>1. PICK s \in owned \ (IF held = 1 THEN {h} ELSE {}) : ReleaseWrite(s)
  BY DEF OwnerRelease
<1>2. /\ pc = "dispatch" /\ pc' = "ownerReleasing"
      /\ UNCHANGED <<slots, alloc, take, fence, overflows, misposts>>
      /\ UNCHANGED <<held, mode, t, h, owned>>
  BY <1>1 DEF OwnerRelease, ReleaseWrite
<1>3. s \in Outstanding /\ s \in owned /\ Outstanding' = Outstanding
  BY <1>1, <1>2 DEF Outstanding, Current
<1>4. s # h BY <1>1, <1>2 DEF ConsumerInv, TypeOK
<1>5. /\ ring' \in [Places -> Places] /\ gone' = s /\ s \in Places
      /\ ring'[take] = ring[take] /\ ring'[fence] = s
      /\ LiveNumbers' /\ FreeFound' /\ Live' = Live /\ Waiting' = Waiting
      /\ (Live + Cardinality(Outstanding) = SlotCount)'
  BY <1>1, <1>3, ReleaseWriteRuns
<1>6. TypeOK' BY <1>2, <1>5 DEF TypeOK
<1>7. ConsumerInv' BY <1>2, <1>3, <1>4, <1>5 DEF ConsumerInv
<1>. QED BY <1>5, <1>6, <1>7

\* The end of a dispatch keeps a held slot in the object's hands, or starts
\* to give the slot back.
LEMMA DispatchEndIInv == ASSUME IInv, DispatchEnd PROVE IInv'
<1>. USE DEF IInv
<1>1. CASE held = 1
  <2>1. /\ pc = "dispatch" /\ held' = 0 /\ pc' = "loop" /\ h' = None /\ h \in owned
        /\ UNCHANGED <<slots, ring, alloc, take, fence, overflows, misposts>>
        /\ UNCHANGED <<gone, mode, t, owned>>
    BY <1>1 DEF DispatchEnd, ConsumerInv
  <2>2. Outstanding' = Outstanding BY <2>1 DEF Outstanding, Current
  <2>3. TypeOK' BY <2>1, DepthAssumption DEF TypeOK, None, Places, SlotCount
  <2>4. ConsumerInv' BY <2>1 DEF ConsumerInv
  <2>. QED BY <2>1, <2>2, <2>3, <2>4, QuietIInv
<1>2. CASE held = 0
  <2>1. /\ pc = "dispatch" /\ ReleaseWrite(h) /\ pc' = "releasing" /\ h \in Slots
        /\ UNCHANGED <<slots, alloc, take, fence, overflows, misposts>>
        /\ UNCHANGED <<held, h, mode, t, owned>>
    BY <1>2 DEF DispatchEnd, ReleaseWrite, ConsumerInv
  <2>2. h \in Outstanding /\ Outstanding' = Outstanding
    BY <2>1 DEF Outstanding, Current
  <2>3. /\ ring' \in [Places -> Places] /\ gone' = h /\ h \in Places
        /\ ring'[take] = ring[take] /\ ring'[fence] = h
        /\ LiveNumbers' /\ FreeFound' /\ Live' = Live /\ Waiting' = Waiting
        /\ (Live + Cardinality(Outstanding) = SlotCount)'
    BY <2>1, <2>2, ReleaseWriteRuns
  <2>4. TypeOK' BY <2>1, <2>3 DEF TypeOK
  <2>5. ConsumerInv' BY <1>2, <2>1, <2>3 DEF ConsumerInv
  <2>. QED BY <2>3, <2>4, <2>5
<1>. QED BY <1>1, <1>2 DEF TypeOK

\* The second half of a release frees the slot: one hand the less, one place
\* the more.
LEMMA ReleaseMoveIInv == ASSUME IInv, ReleaseMove PROVE IInv'
<1>. USE DEF IInv
<1>1. /\ pc \in {"ownerReleasing", "releasing"}
      /\ fence' = NextPos(fence) /\ owned' = owned \ {gone} /\ gone' = None
      /\ UNCHANGED <<slots, ring, alloc, take, held, overflows, misposts, mode, t>>
  BY DEF ReleaseMove
<1>2. /\ gone \in Outstanding /\ Outstanding' = Outstanding \ {gone}
      /\ ring[fence] = gone
  BY DEF ReleaseMove, Outstanding, Current, ConsumerInv
<1>3. Live < SlotCount /\ fence # take /\ ~IsLive(fence) /\ gone \in Slots
      /\ Cardinality(Outstanding \ {gone}) = Cardinality(Outstanding) - 1
  BY <1>2, OutstandingRoom
<1>4. Live' = Live + 1 /\ Waiting' = Waiting
  BY <1>1, <1>3, LiveFacts DEF Live, Waiting
<1>5. (Live + Cardinality(Outstanding) = SlotCount)'
  BY <1>2, <1>3, <1>4, LiveFacts, OutstandingFinite, DepthAssumption DEF SlotCount
<1>6. \A q \in Places : IsLive(q)' <=> IsLive(q) \/ q = fence
  BY <1>1, <1>3, <1>4, LiveFacts DEF IsLive
<1>7. LiveNumbers'
  <2>1. \A q \in Places : IsLive(q)' => ring'[q] \in Slots /\ ring'[q] \notin Outstanding'
    BY <1>1, <1>2, <1>3, <1>6 DEF LiveNumbers
  <2>2. \A p, q \in Places : IsLive(p)' /\ IsLive(q)' /\ ring'[p] = ring'[q] => p = q
    BY <1>1, <1>2, <1>6 DEF LiveNumbers
  <2>. QED BY <2>1, <2>2 DEF LiveNumbers
<1>8. FreeFound' BY <1>1, <1>2, <1>6 DEF FreeFound, TypeOK
<1>9. TypeOK'
  <2>1. fence' \in Places BY <1>1, Ring DEF TypeOK
  <2>2. None \in Places BY DepthAssumption DEF None, Places, SlotCount
  <2>3. pc' \in {"loop", "dispatch"} /\ h' \in {h, None} BY DEF ReleaseMove
  <2>. QED BY <1>1, <2>1, <2>2, <2>3 DEF TypeOK
<1>10. ConsumerInv' BY <1>1 DEF ReleaseMove, ConsumerInv
<1>11. Waiting' <= Live' BY <1>4, LiveFacts
<1>. QED BY <1>5, <1>7, <1>8, <1>9, <1>10, <1>11

-----------------------------------------------------------------------------
\* Every step of the queue keeps the invariant.
LEMMA NextIInv == IInv /\ [Next]_vars => IInv'
<1>. SUFFICES ASSUME IInv, [Next]_vars PROVE IInv' OBVIOUS
<1>1. ASSUME NEW e \in Events, Push(e) PROVE IInv' BY <1>1, PushIInv
<1>2. CASE Mispost
  <2>. USE DEF IInv
  <2>1. /\ misposts' = Saturated(misposts)
        /\ UNCHANGED <<slots, ring, alloc, take, fence, held, overflows, consumer>>
    BY <1>2 DEF Mispost
  <2>2. Outstanding' = Outstanding BY <2>1 DEF Outstanding, Current, consumer
  <2>3. TypeOK' BY <2>1, CountMaxAssumption DEF TypeOK, consumer, Saturated
  <2>4. ConsumerInv' BY <2>1 DEF ConsumerInv, consumer
  <2>. QED BY <2>1, <2>2, <2>3, <2>4, QuietIInv
<1>3. CASE TakeStart \/ TakeTest \/ TakeRead BY <1>3, TakeIInv
<1>4. CASE TakeMove BY <1>4, TakeMoveIInv
<1>5. CASE Hold BY <1>5, HoldIInv
<1>6. CASE OwnerRelease BY <1>6, OwnerReleaseIInv
<1>7. CASE DispatchEnd BY <1>7, DispatchEndIInv
<1>8. CASE ReleaseMove BY <1>8, ReleaseMoveIInv
<1>9. CASE UNCHANGED vars
  <2>. USE DEF IInv, vars, queue, consumer
  <2>1. Outstanding' = Outstanding BY <1>9 DEF Outstanding, Current
  <2>2. TypeOK' BY <1>9 DEF TypeOK
  <2>3. ConsumerInv' BY <1>9 DEF ConsumerInv
  <2>. QED BY <1>9, <2>1, <2>2, <2>3, QuietIInv
<1>. QED BY <1>1, <1>2, <1>3, <1>4, <1>5, <1>6, <1>7, <1>8, <1>9 DEF Next

THEOREM IInvariant == Spec => []IInv
BY InitIInv, NextIInv, PTL DEF Spec

\* Cursors stay in the ring, a byte read back from it is a slot number or the
\* spare place's, the counters stay within theirs.
THEOREM TypeCorrect == Spec => []TypeOK
<1>1. IInv => TypeOK BY DEF IInv
<1>. QED BY <1>1, IInvariant, PTL

\* At every moment each slot is in one hand only: waiting, free or
\* outstanding.
THEOREM SlotsAlwaysPartitioned == Spec => []SlotsPartitioned
<1>1. IInv => SlotsPartitioned
  <2>. SUFFICES ASSUME IInv PROVE SlotsPartitioned OBVIOUS
  <2>. USE DEF IInv
  <2>1. \A q \in Places : IsLive(q) <=> IsPending(q) \/ IsFree(q)
    <3>. TAKE q \in Places
    <3>1. Dist(take, q) \in 0 .. SlotCount
      BY Ring DEF TypeOK
    <3>2. Waiting \in 0 .. SlotCount /\ Live \in 0 .. SlotCount
      BY LiveFacts
    <3>. QED BY <3>1, <3>2, DepthAssumption DEF IsLive, IsPending, IsFree, SlotCount
  <2>2. ASSUME NEW s \in Slots
        PROVE  s \in Outstanding <=>
                 ~ \E q \in Places : (IsPending(q) \/ IsFree(q)) /\ ring[q] = s
    BY <2>1 DEF LiveNumbers, FreeFound
  <2>. QED BY <2>2 DEF SlotsPartitioned
<1>. QED BY <1>1, IInvariant, PTL

\* hold() names the slot of the dispatch it is called in, whatever the
\* dispatch has released before.
THEOREM HoldAlwaysNamesCurrent == Spec => []HoldNamesCurrent
<1>1. IInv => HoldNamesCurrent BY DEF IInv, ConsumerInv, HoldNamesCurrent
<1>. QED BY <1>1, IInvariant, PTL

\* No post rebuilds a slot the active object has.
THEOREM OutstandingAlwaysUntouched == Spec => OutstandingUntouched
<1>1. IInv /\ [Next]_vars =>
        [\A s \in Outstanding : s \in Outstanding' => slots'[s] = slots[s]]_vars
  <2>. SUFFICES ASSUME IInv, [Next]_vars, NEW s \in Outstanding
                PROVE  slots'[s] = slots[s]
    OBVIOUS
  <2>. USE DEF IInv
  <2>1. CASE UNCHANGED slots BY <2>1
  <2>2. ASSUME NEW e \in Events, Push(e), NextPos(alloc) # fence
        PROVE  slots'[s] = slots[s]
    <3>1. slots' = [slots EXCEPT ![ring[NextPos(alloc)]] = e] BY <2>2 DEF Push
    <3>2. IsLive(NextPos(alloc)) /\ NextPos(alloc) \in Places
      BY <2>2, LiveFacts, Ring DEF TypeOK
    <3>3. ring[NextPos(alloc)] # s BY <3>2 DEF LiveNumbers
    <3>4. s \in Slots BY OutstandingFinite
    <3>. QED BY <3>1, <3>3, <3>4 DEF TypeOK
  <2>3. UNCHANGED slots \/ \E e \in Events : Push(e) /\ NextPos(alloc) # fence
    BY DEF Next, vars, queue, Push, Mispost, TakeStart, TakeTest, TakeRead, TakeMove,
           Hold, OwnerRelease, DispatchEnd, ReleaseWrite, ReleaseMove
  <2>. QED BY <2>1, <2>2, <2>3
<1>. QED BY <1>1, IInvariant, PTL DEF Spec, OutstandingUntouched

-----------------------------------------------------------------------------
\* The queue as its users see it: the events that wait, those handed over.
Ahead(k, i) == IF k + i < Positions THEN k + i ELSE k + i - Positions
Queued == [i \in 1 .. Waiting |-> slots[ring[Ahead(take, i)]]]
HandedOver == [s \in Outstanding |-> slots[s]]

LEMMA AheadFacts ==
  ASSUME TypeOK, Waiting <= Live
  PROVE  /\ \A i \in 1 .. Waiting :
              /\ Ahead(take, i) \in Places /\ IsLive(Ahead(take, i))
              /\ Dist(take, Ahead(take, i)) = i
         /\ Ahead(take, 1) = NextPos(take)
         /\ NextPos(alloc) # fence => Ahead(take, Waiting + 1) = NextPos(alloc)
         /\ \A i \in 1 .. SlotCount : Ahead(NextPos(take), i - 1) = Ahead(take, i)
<1>. USE DepthAssumption DEF TypeOK, Places, Positions, SlotCount, NextPos, Dist, Ahead
<1>1. \A i \in 1 .. SlotCount : Ahead(NextPos(take), i - 1) = Ahead(take, i) OBVIOUS
<1>2. Ahead(take, 1) = NextPos(take) OBVIOUS
<1>3. NextPos(alloc) # fence => Ahead(take, Waiting + 1) = NextPos(alloc) BY DEF Waiting, Live
<1>4. Waiting \in 0 .. SlotCount BY DEF Waiting
<1>5. \A i \in 1 .. SlotCount :
        /\ Ahead(take, i) \in Places /\ Ahead(take, i) # take
        /\ Dist(take, Ahead(take, i)) = i
  OBVIOUS
<1>6. ASSUME NEW i \in 1 .. Waiting
      PROVE  /\ Ahead(take, i) \in Places /\ IsLive(Ahead(take, i))
             /\ Dist(take, Ahead(take, i)) = i
  <2>1. i \in 1 .. SlotCount /\ i <= Live BY <1>4, LiveFacts
  <2>2. /\ Ahead(take, i) \in Places /\ Ahead(take, i) # take
        /\ Dist(take, Ahead(take, i)) = i
    BY <1>5, <2>1
  <2>. HIDE DEF Ahead, Dist
  <2>. QED BY <2>1, <2>2 DEF IsLive
<1>. HIDE DEF Ahead, NextPos, Dist
<1>. QED BY <1>1, <1>2, <1>3, <1>6

\* What is seen of the queue in the invariant.
LEMMA SeenFacts ==
  ASSUME IInv
  PROVE  /\ Queued \in Seq(Events \cup {NoEvent}) /\ Len(Queued) = Waiting /\ Waiting \in Nat
         /\ \A i \in 1 .. Waiting :
              /\ ring[Ahead(take, i)] \in Slots \ Outstanding
              /\ Queued[i] = slots[ring[Ahead(take, i)]]
         /\ DOMAIN HandedOver = Outstanding
         /\ Cardinality(Slots) = SlotCount /\ SlotCount \in Nat
<1>. USE DEF IInv
<1>1. Waiting \in Nat BY LiveFacts
<1>2. \A i \in 1 .. Waiting : ring[Ahead(take, i)] \in Slots \ Outstanding
  BY AheadFacts DEF LiveNumbers
<1>3. Queued \in [1 .. Waiting -> Events \cup {NoEvent}] BY <1>2 DEF Queued, TypeOK
<1>4. Queued \in Seq(Events \cup {NoEvent}) /\ Len(Queued) = Waiting BY <1>1, <1>3
<1>5. Cardinality(Slots) = SlotCount /\ SlotCount \in Nat
  <2>1. SlotCount \in Nat BY DepthAssumption DEF SlotCount
  <2>. QED BY <2>1, FS_Interval DEF Slots
<1>. QED BY <1>1, <1>2, <1>4, <1>5 DEF Queued, HandedOver

\* A step that leaves the waiting run's places, what they hold and the hands
\* as they were is not seen.
LEMMA NotSeen ==
  ASSUME IInv, UNCHANGED <<slots, alloc, take>>, Outstanding' = Outstanding,
         \A q \in Places : IsLive(q) => ring'[q] = ring[q]
  PROVE  Queued' = Queued /\ HandedOver' = HandedOver
<1>. USE DEF IInv
<1>1. Waiting' = Waiting BY DEF Waiting
<1>2. \A i \in 1 .. Waiting : ring'[Ahead(take, i)] = ring[Ahead(take, i)] BY AheadFacts
<1>. QED BY <1>1, <1>2 DEF Queued, HandedOver

\* The instance counts as this module does.
LEMMA SameCount == \A S : Fifo!Cardinality(S) = Cardinality(S)
  BY DEF Fifo!Cardinality, Cardinality

\* Append and Tail, place by place.
LEMMA AppendByPlace ==
  ASSUME NEW S, NEW s \in Seq(S), NEW e \in S
  PROVE  Append(s, e) = [i \in 1 .. Len(s) + 1 |-> IF i = Len(s) + 1 THEN e ELSE s[i]]
<1>. DEFINE r == [i \in 1 .. Len(s) + 1 |-> IF i = Len(s) + 1 THEN e ELSE s[i]]
<1>1. Len(s) \in Nat /\ \A i \in 1 .. Len(s) : s[i] \in S BY ElementOfSeq
<1>2. /\ Append(s, e) \in Seq(S) /\ Len(Append(s, e)) = Len(s) + 1
      /\ \A i \in 1 .. Len(s) : Append(s, e)[i] = s[i]
      /\ Append(s, e)[Len(s) + 1] = e
  BY AppendProperties
<1>3. r \in [1 .. Len(s) + 1 -> S] BY <1>1
<1>4. r \in Seq(S) /\ Len(r) = Len(s) + 1 BY <1>1, <1>3
<1>5. \A i \in 1 .. Len(s) + 1 : r[i] = Append(s, e)[i]
  <2>. TAKE i \in 1 .. Len(s) + 1
  <2>1. i = Len(s) + 1 \/ i \in 1 .. Len(s) BY <1>1
  <2>. QED BY <1>1, <1>2, <2>1
<1>. HIDE DEF r
<1>6. r = Append(s, e) BY <1>2, <1>4, <1>5, SeqEqual
<1>. QED BY <1>6 DEF r

LEMMA TailByPlace ==
  ASSUME NEW S, NEW s \in Seq(S), s # <<>>
  PROVE  Tail(s) = [i \in 1 .. Len(s) - 1 |-> s[i + 1]]
<1>. DEFINE r == [i \in 1 .. Len(s) - 1 |-> s[i + 1]]
<1>1. Len(s) \in Nat \ {0} /\ \A i \in 1 .. Len(s) : s[i] \in S BY ElementOfSeq
<1>2. /\ Tail(s) \in Seq(S) /\ Len(Tail(s)) = Len(s) - 1
      /\ \A i \in 1 .. Len(Tail(s)) : Tail(s)[i] = s[i + 1]
  BY HeadTailProperties
<1>3. r \in [1 .. Len(s) - 1 -> S] BY <1>1
<1>4. r \in Seq(S) /\ Len(r) = Len(s) - 1 BY <1>1, <1>3
<1>5. \A i \in 1 .. Len(s) - 1 : r[i] = Tail(s)[i] BY <1>2
<1>. HIDE DEF r
<1>6. r = Tail(s) BY <1>2, <1>4, <1>5, SeqEqual
<1>. QED BY <1>6 DEF r

\* push(): accepted, behind the others, or refused and counted.
LEMMA PushIsSeen ==
  ASSUME IInv, NEW e \in Events, Push(e)
  PROVE  Fifo!Accept(e) \/ Fifo!Refuse
<1>. USE DEF IInv
<1>1. /\ UNCHANGED <<ring, take, fence, held, consumer>> /\ Outstanding' = Outstanding
      /\ Ahead(take, Waiting + 1)' = Ahead(take, Waiting' + 1)
  BY DEF Push, Outstanding, Current, consumer, Ahead
<1>2. /\ Queued \in Seq(Events \cup {NoEvent}) /\ Len(Queued) = Waiting /\ Waiting \in Nat
      /\ \A i \in 1 .. Waiting :
              /\ ring[Ahead(take, i)] \in Slots \ Outstanding
              /\ Queued[i] = slots[ring[Ahead(take, i)]]
      /\ DOMAIN HandedOver = Outstanding
      /\ Cardinality(Slots) = SlotCount /\ SlotCount \in Nat
  BY SeenFacts
<1>3. Live \in Nat /\ Cardinality(Outstanding) \in Nat /\ Live + Cardinality(Outstanding) = SlotCount
  BY LiveFacts, OutstandingFinite
<1>4. CASE NextPos(alloc) # fence
  <2>. DEFINE n == NextPos(alloc)
  <2>1. /\ slots' = [slots EXCEPT ![ring[n]] = e] /\ alloc' = n /\ UNCHANGED overflows
    BY <1>4 DEF Push
  <2>2. Waiting < Live /\ Waiting' = Waiting + 1 /\ IsLive(n) /\ n \in Places
    BY <1>1, <1>4, <2>1, LiveFacts, Ring DEF Waiting, TypeOK
  <2>3. ring[n] \in Slots \ Outstanding BY <2>2 DEF LiveNumbers
  <2>4. /\ slots'[ring[n]] = e
        /\ \A s \in Slots : s # ring[n] => slots'[s] = slots[s]
    BY <2>1, <2>3 DEF TypeOK
  <2>5. Ahead(take, Waiting + 1) = n BY <1>4, AheadFacts
  <2>6. \A i \in 1 .. Waiting : ring[Ahead(take, i)] # ring[n]
    <3>. TAKE i \in 1 .. Waiting
    <3>1. Ahead(take, i) \in Places /\ IsLive(Ahead(take, i)) /\ Dist(take, Ahead(take, i)) = i
      BY AheadFacts
    <3>2. Dist(take, n) = Waiting + 1 BY <1>4, LiveFacts
    <3>3. Ahead(take, i) # n BY <1>2, <3>1, <3>2
    <3>. QED BY <2>2, <3>1, <3>3 DEF LiveNumbers
  <2>7. Queued' = [i \in 1 .. Waiting + 1 |-> IF i = Waiting + 1 THEN e ELSE Queued[i]]
    <3>1. Queued' = [i \in 1 .. Waiting + 1 |-> slots'[ring[Ahead(take, i)]]]
      BY <1>1, <2>2 DEF Queued, Ahead
    <3>2. \A i \in 1 .. Waiting : slots'[ring[Ahead(take, i)]] = Queued[i]
      BY <1>2, <2>4, <2>6
    <3>3. slots'[ring[Ahead(take, Waiting + 1)]] = e BY <2>4, <2>5
    <3>4. \A i \in 1 .. Waiting + 1 : i = Waiting + 1 \/ i \in 1 .. Waiting BY <1>2
    <3>. QED BY <3>1, <3>2, <3>3, <3>4
  <2>8. Queued' = Append(Queued, e)
    <3>1. e \in Events \cup {NoEvent} OBVIOUS
    <3>. HIDE DEF IInv
    <3>2. Append(Queued, e) =
            [i \in 1 .. Len(Queued) + 1 |-> IF i = Len(Queued) + 1 THEN e ELSE Queued[i]]
      BY <1>2, <3>1, AppendByPlace
    <3>. QED BY <1>2, <2>7, <3>2
  <2>9. HandedOver' = HandedOver
    <3>1. \A s \in Outstanding : s \in Slots /\ s # ring[n] BY <2>3, OutstandingFinite
    <3>. QED BY <1>1, <2>4, <3>1 DEF HandedOver
  <2>10. Len(Queued) + Cardinality(DOMAIN HandedOver) < Cardinality(Slots)
    BY <1>2, <1>3, <2>2
  <2>11. overflows' = overflows BY <2>1
  <2>. HIDE DEF IInv
  <2>12. Fifo!Occupied = Len(Queued) + Cardinality(DOMAIN HandedOver)
    BY SameCount DEF Fifo!Occupied, Queued, HandedOver, Ahead
  <2>13. Fifo!Occupied < Cardinality(Slots) BY <2>10, <2>12
  <2>. HIDE DEF Fifo!Occupied
  <2>. QED BY <2>8, <2>9, <2>11, <2>13, SameCount, Zenon DEF Fifo!Accept, Queued, HandedOver, Ahead
<1>5. CASE NextPos(alloc) = fence
  <2>1. overflows' = Saturated(overflows) /\ UNCHANGED <<slots, alloc>> BY <1>5 DEF Push
  <2>2. Queued' = Queued /\ HandedOver' = HandedOver BY <1>1, <2>1, NotSeen
  <2>3. Waiting = Live
    BY <1>5, DepthAssumption
    DEF TypeOK, Places, Positions, SlotCount, NextPos, Dist, Waiting, Live
  <2>4. Len(Queued) + Cardinality(DOMAIN HandedOver) = Cardinality(Slots)
    BY <1>2, <1>3, <2>3
  <2>5. overflows' = IF overflows = CountMax THEN overflows ELSE overflows + 1
    BY <2>1 DEF Saturated
  <2>. HIDE DEF IInv
  <2>6. Fifo!Occupied = Len(Queued) + Cardinality(DOMAIN HandedOver)
    BY SameCount DEF Fifo!Occupied, Queued, HandedOver, Ahead
  <2>7. Fifo!Occupied = Cardinality(Slots) BY <2>4, <2>6
  <2>. HIDE DEF Fifo!Occupied
  <2>. QED BY <2>2, <2>5, <2>7, SameCount, Zenon DEF Fifo!Refuse, Queued, HandedOver, Ahead
<1>. QED BY <1>4, <1>5

\* take(): the oldest is handed over.
LEMMA TakeMoveIsSeen ==
  ASSUME IInv, TakeMove
  PROVE  Fifo!HandOver
<1>. USE DEF IInv
<1>1. /\ pc = "move" /\ pc' = "dispatch" /\ take' = NextPos(take)
      /\ h = ring[NextPos(take)] /\ take # alloc
      /\ UNCHANGED <<slots, ring, alloc, fence, h, owned, overflows>>
  BY DEF TakeMove, ConsumerInv
<1>2. /\ Queued \in Seq(Events \cup {NoEvent}) /\ Len(Queued) = Waiting /\ Waiting \in Nat
      /\ \A i \in 1 .. Waiting : Queued[i] = slots[ring[Ahead(take, i)]]
      /\ DOMAIN HandedOver = Outstanding
  BY SeenFacts
<1>3. /\ Waiting' = Waiting - 1 /\ IsLive(NextPos(take)) /\ NextPos(take) \in Places
      /\ Waiting \in 0 .. SlotCount
  BY <1>1, LiveFacts, Ring DEF Waiting, TypeOK
<1>4. h \in Slots /\ h \notin Outstanding BY <1>1, <1>3 DEF LiveNumbers
<1>5. Outstanding' = Outstanding \cup {h} BY <1>1 DEF Outstanding, Current
<1>6. Waiting >= 1
  <2>1. Waiting' \in Nat
    <3>1. take' \in Places /\ alloc' \in Places BY <1>1, <1>3 DEF TypeOK
    <3>. QED BY <3>1, Ring DEF Waiting
  <2>. QED BY <1>2, <1>3, <2>1
<1>7. Queued # <<>> /\ Head(Queued) = slots[h]
  <2>1. Queued[1] = slots[ring[Ahead(take, 1)]] BY <1>2, <1>6
  <2>. QED BY <1>1, <1>2, <1>6, <2>1, AheadFacts
<1>8. Queued' = Tail(Queued)
  <2>1. Queued' = [i \in 1 .. Waiting - 1 |-> slots[ring[Ahead(NextPos(take), i)]]]
    BY <1>1, <1>3 DEF Queued, Ahead
  <2>2. Tail(Queued) = [i \in 1 .. Waiting - 1 |-> Queued[i + 1]]
    BY <1>2, <1>7, TailByPlace
  <2>3. ASSUME NEW i \in 1 .. Waiting - 1
        PROVE  slots[ring[Ahead(NextPos(take), i)]] = Queued[i + 1]
    <3>1. i + 1 \in 1 .. Waiting /\ i + 1 \in 1 .. SlotCount /\ (i + 1) - 1 = i
      BY <1>2, <1>3, DepthAssumption DEF SlotCount
    <3>2. Ahead(NextPos(take), i) = Ahead(take, i + 1) BY <3>1, AheadFacts
    <3>. QED BY <1>2, <3>1, <3>2
  <2>. QED BY <2>1, <2>2, <2>3
<1>9. HandedOver' =
        [k \in Outstanding \cup {h} |-> IF k = h THEN slots[h] ELSE HandedOver[k]]
  BY <1>1, <1>4, <1>5 DEF HandedOver
<1>10. \E g \in Slots \ DOMAIN HandedOver :
         HandedOver' = [k \in DOMAIN HandedOver \cup {g} |->
                          IF k = g THEN Head(Queued) ELSE HandedOver[k]]
  <2>1. h \in Slots \ DOMAIN HandedOver BY <1>2, <1>4
  <2>2. HandedOver' = [k \in DOMAIN HandedOver \cup {h} |->
                         IF k = h THEN Head(Queued) ELSE HandedOver[k]]
    BY <1>2, <1>7, <1>9
  <2>. QED BY <2>1, <2>2
<1>. QED BY <1>1, <1>7, <1>8, <1>10 DEF Fifo!HandOver, Queued, HandedOver, Ahead

\* release(), its second half: the event is given back.
LEMMA ReleaseMoveIsSeen ==
  ASSUME IInv, ReleaseMove
  PROVE  \E g \in Outstanding : Fifo!GiveBack(g)
<1>. USE DEF IInv
<1>1. /\ fence' = NextPos(fence) /\ owned' = owned \ {gone}
      /\ UNCHANGED <<slots, ring, alloc, take, overflows>>
  BY DEF ReleaseMove
<1>2. gone \in Outstanding /\ Outstanding' = Outstanding \ {gone}
  BY DEF ReleaseMove, Outstanding, Current, ConsumerInv
<1>3. Queued' = Queued BY <1>1 DEF Queued, Waiting, Ahead
<1>4. HandedOver' = [k \in DOMAIN HandedOver \ {gone} |-> HandedOver[k]]
  BY <1>1, <1>2 DEF HandedOver
<1>5. ASSUME NEW g \in Outstanding, g = gone PROVE Fifo!GiveBack(g)
  BY <1>1, <1>3, <1>4, <1>5 DEF Fifo!GiveBack, Queued, HandedOver, Ahead
<1>. QED BY <1>2, <1>5

LEMMA InitIsFifo == Init => Fifo!Init
<1>. SUFFICES ASSUME Init PROVE Fifo!Init OBVIOUS
<1>1. IInv BY InitIInv
<1>2. Waiting = 0 BY DEF Init, Waiting, Dist
<1>3. Queued = <<>>
  <2>1. 1 .. 0 = {} OBVIOUS
  <2>. QED BY <1>2, <2>1 DEF Queued
<1>4. Outstanding = {} BY DEF Init, Outstanding, Current
<1>5. HandedOver = [k \in {} |-> {}] BY <1>4 DEF HandedOver
<1>. QED BY <1>3, <1>5 DEF Init, Fifo!Init, Queued, HandedOver, Ahead

\* Each step of the queue is one of the bounded FIFO's or none.
LEMMA NextIsFifo == IInv /\ [Next]_vars => [Fifo!Next]_Fifo!vars
<1>. SUFFICES ASSUME IInv, [Next]_vars PROVE [Fifo!Next]_Fifo!vars OBVIOUS
<1>1. ASSUME Queued' = Queued, HandedOver' = HandedOver, overflows' = overflows
      PROVE  UNCHANGED Fifo!vars
  BY <1>1 DEF Fifo!vars, Queued, HandedOver, Ahead
<1>2. ASSUME UNCHANGED <<slots, ring, alloc, take, overflows>>, Outstanding' = Outstanding
      PROVE  UNCHANGED Fifo!vars
  BY <1>1, <1>2, NotSeen
<1>3. ASSUME NEW s \in Outstanding, ReleaseWrite(s), Outstanding' = Outstanding
      PROVE  UNCHANGED Fifo!vars
  <2>1. /\ ring' = [ring EXCEPT ![fence] = s] /\ UNCHANGED <<slots, alloc, take, overflows>>
    BY <1>3 DEF ReleaseWrite
  <2>2. ~IsLive(fence) BY OutstandingRoom
  <2>3. \A q \in Places : IsLive(q) => ring'[q] = ring[q] BY <2>1, <2>2 DEF IInv, TypeOK
  <2>. QED BY <1>1, <1>3, <2>1, <2>3, NotSeen
<1>4. ASSUME NEW e \in Events, Push(e) PROVE Fifo!Next BY <1>4, PushIsSeen DEF Fifo!Next
<1>5. CASE Mispost \/ TakeStart \/ TakeTest \/ TakeRead \/ UNCHANGED vars
  BY <1>2, <1>5
  DEF Mispost, TakeStart, TakeTest, TakeRead, vars, queue, consumer, Outstanding, Current
<1>6. CASE TakeMove BY <1>6, TakeMoveIsSeen DEF Fifo!Next
<1>7. CASE Hold
  <2>1. Outstanding' = Outstanding BY <1>7 DEF Hold, IInv, ConsumerInv, Outstanding, Current
  <2>. QED BY <1>2, <1>7, <2>1 DEF Hold
<1>8. CASE OwnerRelease
  <2>1. PICK s \in owned : ReleaseWrite(s) BY <1>8 DEF OwnerRelease
  <2>2. s \in Outstanding /\ Outstanding' = Outstanding
    BY <1>8 DEF OwnerRelease, Outstanding, Current
  <2>. QED BY <1>3, <2>1, <2>2
<1>9. CASE DispatchEnd
  <2>1. CASE held = 1
    <3>1. /\ UNCHANGED <<slots, ring, alloc, take, overflows, owned>> /\ pc' = "loop"
          /\ pc = "dispatch" /\ h \in owned
      BY <1>9, <2>1 DEF DispatchEnd, IInv, ConsumerInv
    <3>2. Outstanding' = Outstanding BY <3>1 DEF Outstanding, Current
    <3>. QED BY <1>2, <3>1, <3>2
  <2>2. CASE held = 0
    <3>1. h \in Outstanding /\ Outstanding' = Outstanding /\ ReleaseWrite(h)
      BY <1>9, <2>2 DEF DispatchEnd, Outstanding, Current
    <3>. QED BY <1>3, <3>1
  <2>. QED BY <2>1, <2>2 DEF IInv, TypeOK
<1>10. CASE ReleaseMove
  <2>1. PICK g \in Outstanding : Fifo!GiveBack(g) BY <1>10, ReleaseMoveIsSeen
  <2>2. DOMAIN HandedOver = Outstanding BY DEF HandedOver
  <2>. QED BY <2>1, <2>2 DEF Fifo!Next, HandedOver
<1>. QED BY <1>4, <1>5, <1>6, <1>7, <1>8, <1>9, <1>10 DEF Next

FifoSafe == Fifo!Init /\ [][Fifo!Next]_Fifo!vars

\* The queue is the bounded FIFO its header promises, whatever lands between
\* two accesses of the consumer: the safety part of ImplementsFifo.
THEOREM IsABoundedFifo == Spec => FifoSafe
<1>1. Init => Fifo!Init BY InitIsFifo
<1>2. IInv /\ [Next]_vars => [Fifo!Next]_Fifo!vars BY NextIsFifo
<1>. QED BY <1>1, <1>2, IInvariant, PTL DEF Spec, FifoSafe
=============================================================================
