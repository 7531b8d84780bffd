--------------------------- MODULE BusMasterProofs ---------------------------
(***************************************************************************)
(* BusMaster for every set of clients, every depth, any retries and any    *)
(* range of the sequence number from two: with the budget the queue can    *)
(* afford no event is dropped, and from that every completion and every    *)
(* time-out is its own transfer's, and the clients are served in order.    *)
(***************************************************************************)
EXTENDS BusMaster, FiniteSetTheorems, SequenceTheorems, WellFoundedInduction, TLAPS

-----------------------------------------------------------------------------
\* How many events of a kind wait in a queue.
KindAt(q, kind) == {k \in DOMAIN q : q[k].kind = kind}
KindCount(q, kind) == Cardinality(KindAt(q, kind))

LEMMA KindCountType ==
  ASSUME NEW S, NEW q \in Seq(S), NEW kind
  PROVE  /\ IsFiniteSet(KindAt(q, kind)) /\ KindCount(q, kind) \in Nat
         /\ KindCount(q, kind) = 0 <=> \A k \in 1 .. Len(q) : q[k].kind # kind
<1>1. DOMAIN q = 1 .. Len(q) /\ Len(q) \in Nat OBVIOUS
<1>2. IsFiniteSet(1 .. Len(q)) BY <1>1, FS_Interval
<1>3. IsFiniteSet(KindAt(q, kind)) BY <1>1, <1>2, FS_Subset DEF KindAt
<1>4. KindCount(q, kind) = 0 <=> KindAt(q, kind) = {} BY <1>3, FS_EmptySet DEF KindCount
<1>5. KindAt(q, kind) = {} <=> \A k \in 1 .. Len(q) : q[k].kind # kind BY <1>1 DEF KindAt
<1>. QED BY <1>3, <1>4, <1>5, FS_CardinalityType DEF KindCount

LEMMA NoneCounted ==
  ASSUME NEW kind
  PROVE  KindAt(<<>>, kind) = {} /\ KindCount(<<>>, kind) = 0
BY FS_EmptySet DEF KindAt, KindCount

\* An event posted counts for its kind.
LEMMA CountAppend ==
  ASSUME NEW S, NEW q \in Seq(S), NEW e \in S, NEW kind
  PROVE  KindCount(Append(q, e), kind) =
           IF e.kind = kind THEN KindCount(q, kind) + 1 ELSE KindCount(q, kind)
<1>. DEFINE n == Len(q) + 1
            p == Append(q, e)
<1>1. DOMAIN q = 1 .. Len(q) /\ Len(q) \in Nat OBVIOUS
<1>2. /\ p \in Seq(S) /\ Len(p) = n /\ p[n] = e
      /\ \A k \in 1 .. Len(q) : p[k] = q[k]
  BY AppendProperties
<1>. HIDE DEF p
<1>3. DOMAIN p = 1 .. n BY <1>2
<1>4. n \notin KindAt(q, kind) BY <1>1 DEF KindAt
<1>5. CASE e.kind = kind
  <2>1. KindAt(p, kind) = KindAt(q, kind) \cup {n} BY <1>1, <1>2, <1>3, <1>5 DEF KindAt
  <2>. QED BY <1>4, <1>5, <2>1, KindCountType, FS_AddElement DEF KindCount, p
<1>6. CASE e.kind # kind
  <2>1. KindAt(p, kind) = KindAt(q, kind) BY <1>1, <1>2, <1>3, <1>6 DEF KindAt
  <2>. QED BY <1>6, <2>1 DEF KindCount, p
<1>. QED BY <1>5, <1>6

\* The event served first no longer counts: the others move up.
LEMMA CountTail ==
  ASSUME NEW S, NEW q \in Seq(S), q # <<>>, NEW kind
  PROVE  KindCount(Tail(q), kind) =
           IF Head(q).kind = kind THEN KindCount(q, kind) - 1 ELSE KindCount(q, kind)
<1>. DEFINE p == Tail(q)
            rest == KindAt(q, kind) \ {1}
            f == [k \in rest |-> k - 1]
<1>1. DOMAIN q = 1 .. Len(q) /\ Len(q) \in Nat \ {0} BY EmptySeq
<1>2. /\ p \in Seq(S) /\ Len(p) = Len(q) - 1
      /\ \A k \in 1 .. Len(p) : p[k] = q[k + 1]
  BY HeadTailProperties
<1>3. Head(q) = q[1] OBVIOUS
<1>. HIDE DEF p
<1>4. DOMAIN p = 1 .. Len(q) - 1 BY <1>1, <1>2
<1>5. IsFiniteSet(rest)
      /\ Cardinality(rest) = IF Head(q).kind = kind THEN KindCount(q, kind) - 1 ELSE KindCount(q, kind)
  <2>1. 1 \in KindAt(q, kind) <=> Head(q).kind = kind BY <1>1, <1>3 DEF KindAt
  <2>. QED BY <2>1, KindCountType, FS_RemoveElement DEF KindCount
<1>6. f \in Bijection(rest, KindAt(p, kind))
  <2>1. \A k \in rest : k \in 2 .. Len(q) /\ q[k].kind = kind BY <1>1 DEF KindAt
  <2>2. \A k \in rest : k - 1 \in KindAt(p, kind) BY <1>1, <1>2, <1>4, <2>1 DEF KindAt
  <2>3. f \in [rest -> KindAt(p, kind)] BY <2>2
  <2>4. \A j, k \in rest : f[j] = f[k] => j = k BY <2>1
  <2>5. \A k \in KindAt(p, kind) : k + 1 \in rest /\ f[k + 1] = k
    <3>. TAKE k \in KindAt(p, kind)
    <3>1. k \in 1 .. Len(q) - 1 /\ q[k + 1].kind = kind BY <1>2, <1>4 DEF KindAt
    <3>2. k + 1 \in rest BY <1>1, <3>1 DEF KindAt
    <3>. QED BY <3>1, <3>2
  <2>. QED BY <2>3, <2>4, <2>5 DEF Bijection, Injection, IsInjective, Surjection
<1>7. Cardinality(KindAt(p, kind)) = Cardinality(rest)
  BY <1>5, <1>6, FS_Bijection DEF ExistsBijection
<1>. QED BY <1>5, <1>7 DEF KindCount, p

-----------------------------------------------------------------------------

\* The requests the queue has room for: the header's 2 * Depth + 2 on a bus
\* with a time-out, whose queue has three more slots of headroom, and one less
\* on a bus without.
BudgetOf(t) == 2 * Depth + (IF t THEN 2 ELSE 1)
Affordable == \A t \in Timings : Budget <= BudgetOf(t)

Sequence == 0 .. SeqRange - 1
Following(s) == (s + 1) % SeqRange
Preceding(s) == (s + SeqRange - 1) % SeqRange

Message ==
  {Event("Request", c) : c \in Client} \cup {Event("TransferDone", a) : a \in {"ok", "failed"}}
    \cup {Event("BusTimeout", s) : s \in Sequence}
    \cup {Event("PrepareSleep", Nobody), Event("BusFlushed", Nobody)}

Members(p) == {p[i] : i \in 1 .. Len(p)}

\* The events of a kind before the arbiter.
Count(kind) == KindCount(Coming, kind)

\* No reply of a dispatch is under way.
Moving == pc \in {"loop", "handle", "return"}

\* The reply under way is a time-out's.
TimingOut == pc = "flush" \/ (pc = "release" /\ cur.kind = "BusTimeout")

TypeInv ==
  /\ timed \in Timings
  /\ queue \in Seq(Message) /\ cur \in Message \cup {NoEvent}
  /\ state \in {"idle", "busy", "draining"}
  /\ flight \in Client \cup {Nobody} /\ engine \in Client \cup {Nobody}
  /\ pending \in Seq(Client) /\ Len(pending) <= Depth
  /\ attempt \in 0 .. MaxAttempts /\ seq \in Sequence
  /\ asking \in SUBSET Client
  /\ answered \in BOOLEAN /\ lent \in BOOLEAN /\ armed \in BOOLEAN /\ voting \in BOOLEAN
  /\ lost \in BOOLEAN
  /\ pc \in {"loop", "handle", "release", "flush", "return"}

\* Where a dispatch is, and what it holds there.
PlaceInv ==
  /\ answered <=> pc = "release"
  /\ pc = "loop" => ~lent
  /\ pc \in {"handle", "release", "flush"} => lent
  /\ pc = "handle" => cur \in Message
  /\ pc = "release" =>
       /\ cur.kind \in {"TransferDone", "BusTimeout", "BusFlushed"}
       /\ state = IF cur.kind = "BusFlushed" THEN "draining" ELSE "busy"
  /\ pc = "flush" => state = "busy"
  /\ flight # Nobody <=> (state = "busy" /\ Moving)
  /\ state = "idle" => pending = <<>>
  /\ state = "draining" \/ TimingOut => timed

\* The request of a client that has had no answer is in one place: before the
\* arbiter, in w, waiting, in p, or in flight, f.
RequestsFrom(w, S) == \A k \in 1 .. Len(w) : w[k].kind = "Request" => w[k].arg \in S
ClientsIn(w, p, f, a) ==
  /\ RequestsFrom(w, a \ (Members(p) \cup {f}))
  /\ Members(p) \subseteq a \ {f}
  /\ \A i, j \in 1 .. Len(p) : p[i] = p[j] => i = j
  /\ f # Nobody => f \in a
  /\ Cardinality(a) = KindCount(w, "Request") + Len(p) + One(f # Nobody)

ClientInv ==
  /\ ClientsIn(Coming, pending, flight, asking)
  /\ Cardinality(asking) <= Budget
  /\ Count("PrepareSleep") = One(voting)

\* The completions and the marker on their way.
Owed == Count("TransferDone") + One(engine # Nobody)
OwedInv ==
  /\ engine # Nobody => state = "busy" /\ Moving /\ engine = flight
  /\ Owed <= 1
  /\ (state = "busy" /\ Moving) => Owed = 1
  /\ state = "idle" \/ (pc = "release" /\ ~TimingOut) => Owed = 0
  /\ Count("BusFlushed") <= One(state = "draining" /\ Moving)

\* The time-outs on their way: the timer's last one unless it runs, and one of
\* the transfer before only while the next is in flight.
TimeoutsOf(w, S) == \A k \in 1 .. Len(w) : w[k].kind = "BusTimeout" => w[k].arg \in S
MayBeTimely == timed /\ ~armed /\ ~TimingOut /\ ~(state = "draining" /\ Moving)
MayBeLate == timed /\ state = "busy" /\ Moving
TimeoutArgs ==
  (IF MayBeTimely THEN {seq} ELSE {}) \cup (IF MayBeLate THEN {Preceding(seq)} ELSE {})
TimerInv ==
  /\ armed => MayBeLate
  /\ TimeoutsOf(Coming, TimeoutArgs)

\* d may not be ahead of e, s being the last transfer: the same twice, a
\* completion behind the marker, or a late time-out behind anything of the
\* last transfer.
Clash(d, e, s) ==
  \/ d.kind = "Request" /\ e.kind = "Request" /\ d.arg = e.arg
  \/ d.kind = "BusTimeout" /\ e.kind = "BusTimeout" /\ (d.arg = e.arg \/ d.arg = s)
  \/ d.kind = "BusFlushed" /\ e.kind = "TransferDone"
  \/ d.kind = "TransferDone" /\ e.kind = "BusTimeout" /\ e.arg # s
Ordered(w, s) == \A j, k \in 1 .. Len(w) : j < k => ~Clash(w[j], w[k], s)
OrderInv == Ordered(Coming, seq)

IInv ==
  /\ TypeInv
  /\ PlaceInv
  /\ ClientInv
  /\ OwedInv
  /\ TimerInv
  /\ OrderInv
  /\ NothingDropped

-----------------------------------------------------------------------------
\* The events, and the sequence numbers a byte goes through.
Kinds == {"Request", "TransferDone", "BusTimeout", "PrepareSleep", "BusFlushed"}

LEMMA Messages ==
  \A m \in Message :
    /\ m.kind \in Kinds
    /\ m.kind = "Request" => m.arg \in Client
    /\ m.kind = "BusTimeout" => m.arg \in Sequence
BY DEF Message, Event, Kinds

LEMMA Events ==
  /\ \A kind, arg : Event(kind, arg).kind = kind /\ Event(kind, arg).arg = arg
  /\ \A c \in Client : Event("Request", c) \in Message
  /\ \A a \in {"ok", "failed"} : Event("TransferDone", a) \in Message
  /\ \A n \in Sequence : Event("BusTimeout", n) \in Message
  /\ Event("PrepareSleep", Nobody) \in Message /\ Event("BusFlushed", Nobody) \in Message
BY DEF Message, Event

LEMMA SequenceNumbers ==
  ASSUME NEW n \in Sequence
  PROVE  /\ Following(n) \in Sequence /\ Preceding(n) \in Sequence
         /\ Following(n) # n /\ Preceding(n) # n /\ Preceding(Following(n)) = n
<1>. DEFINE R == SeqRange
<1>1. R \in Nat \ {0, 1} /\ n \in 0 .. R - 1 BY CountsAssumption DEF Sequence
<1>. HIDE DEF R
<1>2. (n + 1) % R = (IF n = R - 1 THEN 0 ELSE n + 1)
  <2>1. CASE n = R - 1 BY <1>1, <2>1, Z3
  <2>2. CASE n # R - 1 BY <1>1, <2>2
  <2>. QED BY <2>1, <2>2
<1>3. \A k \in 0 .. R - 1 : (k + R - 1) % R = (IF k = 0 THEN R - 1 ELSE k - 1)
  <2>. TAKE k \in 0 .. R - 1
  <2>1. CASE k = 0 BY <1>1, <2>1
  <2>2. CASE k # 0
    <3>1. k + R - 1 = R + (k - 1) /\ k - 1 \in 0 .. R - 1 BY <1>1, <2>2
    <3>. QED BY <1>1, <2>2, <3>1, Z3
  <2>. QED BY <2>1, <2>2
<1>4. (n + 1) % R \in 0 .. R - 1 BY <1>1, <1>2
<1>. QED BY <1>1, <1>2, <1>3, <1>4 DEF Following, Preceding, Sequence, R

-----------------------------------------------------------------------------
\* An event posted behind the others.
LEMMA Appended ==
  ASSUME NEW w \in Seq(Message), NEW e \in Message
  PROVE  /\ Append(w, e) \in Seq(Message) /\ Len(Append(w, e)) = Len(w) + 1
         /\ \A S : RequestsFrom(Append(w, e), S) <=>
                     (RequestsFrom(w, S) /\ (e.kind = "Request" => e.arg \in S))
         /\ \A S : TimeoutsOf(Append(w, e), S) <=>
                     (TimeoutsOf(w, S) /\ (e.kind = "BusTimeout" => e.arg \in S))
         /\ \A n : Ordered(Append(w, e), n) <=>
                     (Ordered(w, n) /\ \A k \in 1 .. Len(w) : ~Clash(w[k], e, n))
<1>. DEFINE p == Append(w, e)
            m == Len(w) + 1
<1>1. /\ p \in Seq(Message) /\ Len(w) \in Nat /\ Len(p) = m /\ p[m] = e
      /\ \A k \in 1 .. Len(w) : p[k] = w[k]
  BY AppendProperties
<1>. HIDE DEF p
<1>2. 1 .. m = (1 .. Len(w)) \cup {m} BY <1>1
<1>3. \A S : RequestsFrom(p, S) <=> (RequestsFrom(w, S) /\ (e.kind = "Request" => e.arg \in S))
  BY <1>1, <1>2 DEF RequestsFrom
<1>4. \A S : TimeoutsOf(p, S) <=> (TimeoutsOf(w, S) /\ (e.kind = "BusTimeout" => e.arg \in S))
  BY <1>1, <1>2 DEF TimeoutsOf
<1>5. ASSUME NEW n
      PROVE  Ordered(p, n) <=> (Ordered(w, n) /\ \A k \in 1 .. Len(w) : ~Clash(w[k], e, n))
  <2>1. ASSUME Ordered(p, n)
        PROVE  Ordered(w, n) /\ \A k \in 1 .. Len(w) : ~Clash(w[k], e, n)
    <3>1. Ordered(w, n) BY <1>1, <1>2, <2>1 DEF Ordered
    <3>2. \A k \in 1 .. Len(w) : k < m /\ k \in 1 .. Len(p) /\ m \in 1 .. Len(p) BY <1>1
    <3>3. \A k \in 1 .. Len(w) : ~Clash(w[k], e, n) BY <1>1, <2>1, <3>2 DEF Ordered
    <3>. QED BY <3>1, <3>3
  <2>2. ASSUME Ordered(w, n), \A k \in 1 .. Len(w) : ~Clash(w[k], e, n),
               NEW j \in 1 .. Len(p), NEW k \in 1 .. Len(p), j < k
        PROVE  ~Clash(p[j], p[k], n)
    <3>1. j \in 1 .. Len(w) BY <1>1, <2>2
    <3>2. CASE k = m BY <1>1, <2>2, <3>1, <3>2
    <3>3. CASE k # m
      <4>1. k \in 1 .. Len(w) BY <1>1, <2>2, <3>3
      <4>. QED BY <1>1, <2>2, <3>1, <4>1 DEF Ordered
    <3>. QED BY <3>2, <3>3
  <2>. QED BY <2>1, <2>2 DEF Ordered
<1>. QED BY <1>1, <1>3, <1>4, <1>5 DEF p

\* The event dispatched is gone.
LEMMA Taken ==
  ASSUME NEW w \in Seq(Message), w # <<>>
  PROVE  /\ Head(w) \in Message /\ Head(w) = w[1] /\ 1 \in 1 .. Len(w)
         /\ Tail(w) \in Seq(Message) /\ Len(Tail(w)) = Len(w) - 1
         /\ \A S : RequestsFrom(w, S) =>
                     RequestsFrom(Tail(w), S) /\ (Head(w).kind = "Request" => Head(w).arg \in S)
         /\ \A S : TimeoutsOf(w, S) =>
                     TimeoutsOf(Tail(w), S) /\ (Head(w).kind = "BusTimeout" => Head(w).arg \in S)
         /\ \A n : Ordered(w, n) =>
                     Ordered(Tail(w), n)
                       /\ \A k \in 1 .. Len(Tail(w)) : ~Clash(Head(w), Tail(w)[k], n)
<1>. DEFINE p == Tail(w)
<1>1. /\ Head(w) \in Message /\ p \in Seq(Message) /\ Len(w) \in Nat \ {0} /\ Len(p) = Len(w) - 1
      /\ Head(w) = w[1] /\ \A k \in 1 .. Len(p) : p[k] = w[k + 1]
  BY HeadTailProperties, EmptySeq
<1>. HIDE DEF p
<1>2. 1 \in 1 .. Len(w) /\ \A k \in 1 .. Len(p) : k + 1 \in 1 .. Len(w) BY <1>1
<1>3. \A S : RequestsFrom(w, S) =>
         RequestsFrom(p, S) /\ (Head(w).kind = "Request" => Head(w).arg \in S)
  BY <1>1, <1>2 DEF RequestsFrom
<1>4. \A S : TimeoutsOf(w, S) =>
         TimeoutsOf(p, S) /\ (Head(w).kind = "BusTimeout" => Head(w).arg \in S)
  BY <1>1, <1>2 DEF TimeoutsOf
<1>5. ASSUME NEW n, Ordered(w, n)
      PROVE  Ordered(p, n) /\ \A k \in 1 .. Len(p) : ~Clash(Head(w), p[k], n)
  <2>1. \A j, k \in 1 .. Len(p) : j < k => j + 1 < k + 1 BY <1>1
  <2>2. Ordered(p, n)
    <3>1. ASSUME NEW j \in 1 .. Len(p), NEW k \in 1 .. Len(p), j < k
          PROVE  ~Clash(p[j], p[k], n)
      <4>1. ~Clash(w[j + 1], w[k + 1], n) BY <1>2, <1>5, <2>1, <3>1 DEF Ordered
      <4>. QED BY <1>1, <3>1, <4>1
    <3>. QED BY <3>1 DEF Ordered
  <2>3. ASSUME NEW k \in 1 .. Len(p)
        PROVE  ~Clash(Head(w), p[k], n)
    <3>1. 1 < k + 1 BY <1>1
    <3>2. ~Clash(w[1], w[k + 1], n) BY <1>2, <1>5, <3>1 DEF Ordered
    <3>. QED BY <1>1, <3>2
  <2>. QED BY <2>2, <2>3
<1>. QED BY <1>1, <1>2, <1>3, <1>4, <1>5 DEF p

\* Every event is of one of the five kinds.
LEMMA LenIsCounts ==
  ASSUME NEW w \in Seq(Message)
  PROVE  /\ \A kind : KindCount(w, kind) \in Nat
         /\ Len(w) = KindCount(w, "Request") + KindCount(w, "TransferDone")
                       + KindCount(w, "BusTimeout") + KindCount(w, "PrepareSleep")
                       + KindCount(w, "BusFlushed")
<1>. DEFINE K(kind) == KindAt(w, kind)
<1>1. DOMAIN w = 1 .. Len(w) /\ Len(w) \in Nat OBVIOUS
<1>2. \A k \in 1 .. Len(w) : w[k].kind \in Kinds BY ElementOfSeq, Messages
<1>3. \A kind : IsFiniteSet(K(kind)) /\ KindCount(w, kind) \in Nat /\ KindCount(w, kind) = Cardinality(K(kind))
  BY KindCountType DEF KindCount
<1>4. \A c, d : c # d => K(c) \cap K(d) = {} BY DEF KindAt
<1>5. ASSUME NEW A, IsFiniteSet(A), NEW B, IsFiniteSet(B), A \cap B = {}
      PROVE  /\ IsFiniteSet(A \cup B)
             /\ Cardinality(A \cup B) = Cardinality(A) + Cardinality(B)
  <2>1. /\ IsFiniteSet(A \cup B)
        /\ Cardinality(A \cup B) = Cardinality(A) + Cardinality(B) - Cardinality(A \cap B)
    BY <1>5, FS_Union
  <2>2. Cardinality(A \cap B) = 0 BY <1>5, FS_EmptySet
  <2>3. Cardinality(A) \in Nat /\ Cardinality(B) \in Nat BY <1>5, FS_CardinalityType
  <2>. QED BY <2>1, <2>2, <2>3
<1>. DEFINE U == K("Request") \cup K("TransferDone")
            V == U \cup K("BusTimeout")
            W == V \cup K("PrepareSleep")
<1>6. W \cup K("BusFlushed") = 1 .. Len(w) BY <1>1, <1>2 DEF KindAt, Kinds
<1>7. /\ U \cap K("BusTimeout") = {} /\ V \cap K("PrepareSleep") = {}
      /\ W \cap K("BusFlushed") = {} /\ K("Request") \cap K("TransferDone") = {}
  BY <1>4
<1>. HIDE DEF K
<1>8. IsFiniteSet(U) /\ Cardinality(U) = Cardinality(K("Request")) + Cardinality(K("TransferDone"))
  BY <1>3, <1>5, <1>7
<1>9. IsFiniteSet(V) /\ Cardinality(V) = Cardinality(U) + Cardinality(K("BusTimeout"))
  <2>. HIDE DEF U
  <2>. QED BY <1>3, <1>5, <1>7, <1>8
<1>10. IsFiniteSet(W) /\ Cardinality(W) = Cardinality(V) + Cardinality(K("PrepareSleep"))
  <2>. HIDE DEF V
  <2>. QED BY <1>3, <1>5, <1>7, <1>9
<1>11. Cardinality(W \cup K("BusFlushed")) = Cardinality(W) + Cardinality(K("BusFlushed"))
  <2>. HIDE DEF W
  <2>. QED BY <1>3, <1>5, <1>7, <1>10
<1>12. Cardinality(1 .. Len(w)) = Len(w) BY <1>1, FS_Interval
<1>. HIDE DEF U, V, W
<1>13. Len(w) = Cardinality(K("Request")) + Cardinality(K("TransferDone"))
                 + Cardinality(K("BusTimeout")) + Cardinality(K("PrepareSleep"))
                 + Cardinality(K("BusFlushed"))
  BY <1>6, <1>8, <1>9, <1>10, <1>11, <1>12
<1>. QED BY <1>3, <1>13

\* Time-outs that differ are no more than the transfers they can be of.
LEMMA TimeoutsCounted ==
  ASSUME NEW w \in Seq(Message), NEW n, Ordered(w, n), NEW S, IsFiniteSet(S), TimeoutsOf(w, S)
  PROVE  KindCount(w, "BusTimeout") <= Cardinality(S)
<1>. DEFINE T == KindAt(w, "BusTimeout")
            f == [k \in T |-> w[k].arg]
<1>1. DOMAIN w = 1 .. Len(w) /\ Len(w) \in Nat OBVIOUS
<1>2. \A k \in T : k \in 1 .. Len(w) /\ w[k].kind = "BusTimeout" BY <1>1 DEF KindAt
<1>3. f \in [T -> S] BY <1>2 DEF TimeoutsOf
<1>4. \A j, k \in T : f[j] = f[k] => j = k
  <2>1. \A j, k \in T : j < k => ~Clash(w[j], w[k], n) BY <1>2 DEF Ordered
  <2>2. \A j, k \in T : j < k => f[j] # f[k] BY <1>2, <2>1 DEF Clash
  <2>3. \A j, k \in T : j < k \/ k < j \/ j = k BY <1>1, <1>2
  <2>. QED BY <2>2, <2>3
<1>5. f \in Injection(T, S) BY <1>3, <1>4 DEF Injection, IsInjective
<1>6. Cardinality(T) <= Cardinality(S) BY <1>5, FS_Injection DEF ExistsInjection
<1>. QED BY <1>6 DEF KindCount

-----------------------------------------------------------------------------
\* The clients, one answer or one request at a time.
LEMMA AskingCounted ==
  ASSUME NEW a \in SUBSET Client
  PROVE  /\ IsFiniteSet(a) /\ Cardinality(a) \in Nat
         /\ \A c \in a : Cardinality(a \ {c}) = Cardinality(a) - 1
         /\ \A c \in Client \ a : Cardinality(a \cup {c}) = Cardinality(a) + 1
<1>1. IsFiniteSet(a) BY ClientAssumption, FS_Subset
<1>. QED BY <1>1, FS_CardinalityType, FS_AddElement, FS_RemoveElement

\* The requests that wait behind a transfer, taken in and out in their order.
Once(p) == \A i, j \in 1 .. Len(p) : p[i] = p[j] => i = j

LEMMA MembersAppended ==
  ASSUME NEW p \in Seq(Client), NEW c \in Client
  PROVE  /\ Append(p, c) \in Seq(Client) /\ Len(Append(p, c)) = Len(p) + 1
         /\ Members(Append(p, c)) = Members(p) \cup {c}
         /\ Once(p) /\ c \notin Members(p) => Once(Append(p, c))
<1>. DEFINE q == Append(p, c)
<1>1. /\ q \in Seq(Client) /\ Len(p) \in Nat /\ Len(q) = Len(p) + 1 /\ q[Len(p) + 1] = c
      /\ \A i \in 1 .. Len(p) : q[i] = p[i]
  BY AppendProperties
<1>2. 1 .. Len(q) = (1 .. Len(p)) \cup {Len(p) + 1} BY <1>1
<1>. HIDE DEF q
<1>3. Members(q) = Members(p) \cup {c} BY <1>1, <1>2 DEF Members
<1>4. ASSUME Once(p), c \notin Members(p) PROVE Once(q)
  BY <1>1, <1>2, <1>4 DEF Once, Members
<1>. QED BY <1>1, <1>3, <1>4 DEF q

LEMMA MembersTaken ==
  ASSUME NEW p \in Seq(Client), p # <<>>
  PROVE  /\ Head(p) \in Client /\ Tail(p) \in Seq(Client)
         /\ Len(p) \in Nat \ {0} /\ Len(Tail(p)) = Len(p) - 1
         /\ Members(p) = Members(Tail(p)) \cup {Head(p)}
         /\ Once(p) => Once(Tail(p)) /\ Head(p) \notin Members(Tail(p))
<1>. DEFINE q == Tail(p)
<1>1. /\ Head(p) \in Client /\ q \in Seq(Client) /\ Len(p) \in Nat \ {0} /\ Len(q) = Len(p) - 1
      /\ Head(p) = p[1] /\ \A i \in 1 .. Len(q) : q[i] = p[i + 1]
  BY HeadTailProperties, EmptySeq
<1>2. 1 \in 1 .. Len(p) /\ \A i \in 1 .. Len(q) : i + 1 \in 1 .. Len(p) /\ i + 1 # 1 BY <1>1
<1>3. \A i \in 1 .. Len(p) : i = 1 \/ (i - 1 \in 1 .. Len(q) /\ (i - 1) + 1 = i) BY <1>1
<1>. HIDE DEF q
<1>4. Members(p) = Members(q) \cup {Head(p)}
  <2>1. \A i \in 1 .. Len(p) : p[i] \in Members(q) \cup {Head(p)}
    <3>. TAKE i \in 1 .. Len(p)
    <3>1. i = 1 \/ q[i - 1] = p[i] BY <1>1, <1>3
    <3>. QED BY <1>1, <1>3, <3>1 DEF Members
  <2>2. \A i \in 1 .. Len(q) : q[i] \in Members(p) BY <1>1, <1>2 DEF Members
  <2>3. Head(p) \in Members(p) BY <1>1, <1>2 DEF Members
  <2>. QED BY <2>1, <2>2, <2>3 DEF Members
<1>5. ASSUME Once(p) PROVE Once(q) /\ Head(p) \notin Members(q)
  <2>1. Head(p) \notin Members(q) BY <1>1, <1>2, <1>5 DEF Once, Members
  <2>2. ASSUME NEW i \in 1 .. Len(q), NEW j \in 1 .. Len(q), q[i] = q[j] PROVE i = j
    <3>1. i + 1 = j + 1 BY <1>1, <1>2, <1>5, <2>2 DEF Once
    <3>. QED BY <1>1, <3>1
  <2>. QED BY <2>1, <2>2 DEF Once
<1>. QED BY <1>1, <1>4, <1>5 DEF q

\* The parts of ClientsIn, for one to be changed after another.
LEMMA ClientsParts ==
  ASSUME NEW w, NEW p, NEW f, NEW a
  PROVE  ClientsIn(w, p, f, a) <=>
           (/\ RequestsFrom(w, a \ (Members(p) \cup {f}))
            /\ Members(p) \subseteq a \ {f}
            /\ Once(p)
            /\ f # Nobody => f \in a
            /\ Cardinality(a) = KindCount(w, "Request") + Len(p) + One(f # Nobody))
BY DEF ClientsIn, Once

LEMMA RequestsFromMore ==
  ASSUME NEW w, NEW S, NEW T, S \subseteq T, RequestsFrom(w, S)
  PROVE  RequestsFrom(w, T)
BY DEF RequestsFrom

\* Any other event, posted or dispatched, leaves them where they are.
LEMMA OthersPosted ==
  ASSUME NEW w \in Seq(Message), NEW e \in Message, NEW p, NEW f, NEW a,
         e.kind # "Request", ClientsIn(w, p, f, a)
  PROVE  ClientsIn(Append(w, e), p, f, a)
<1>1. KindCount(Append(w, e), "Request") = KindCount(w, "Request") BY CountAppend
<1>2. RequestsFrom(Append(w, e), a \ (Members(p) \cup {f})) BY Appended DEF ClientsIn
<1>. QED BY <1>1, <1>2 DEF ClientsIn

LEMMA OthersTaken ==
  ASSUME NEW w \in Seq(Message), w # <<>>, NEW p, NEW f, NEW a,
         Head(w).kind # "Request", ClientsIn(w, p, f, a)
  PROVE  ClientsIn(Tail(w), p, f, a)
<1>1. KindCount(Tail(w), "Request") = KindCount(w, "Request") BY CountTail
<1>2. RequestsFrom(Tail(w), a \ (Members(p) \cup {f})) BY Taken DEF ClientsIn
<1>. QED BY <1>1, <1>2 DEF ClientsIn

\* A client asks.
LEMMA ClientAsks ==
  ASSUME NEW w \in Seq(Message), NEW p \in Seq(Client), NEW f \in Client \cup {Nobody},
         NEW a \in SUBSET Client, NEW c \in Client \ a, ClientsIn(w, p, f, a)
  PROVE  ClientsIn(Append(w, Event("Request", c)), p, f, a \cup {c})
<1>. DEFINE e == Event("Request", c)
            b == a \cup {c}
<1>1. e \in Message /\ e.kind = "Request" /\ e.arg = c BY Events
<1>. HIDE DEF e
<1>2. KindCount(Append(w, e), "Request") = KindCount(w, "Request") + 1 BY <1>1, CountAppend
<1>3. c \notin Members(p) /\ c # f BY ClientAssumption DEF ClientsIn
<1>4. RequestsFrom(w, b \ (Members(p) \cup {f})) BY <1>3 DEF ClientsIn, RequestsFrom
<1>5. RequestsFrom(Append(w, e), b \ (Members(p) \cup {f})) BY <1>1, <1>3, <1>4, Appended
<1>6. Cardinality(b) = Cardinality(a) + 1 BY AskingCounted
<1>7. KindCount(w, "Request") \in Nat /\ Len(p) \in Nat /\ One(f # Nobody) \in {0, 1}
  BY KindCountType DEF One
<1>8. Cardinality(b) = KindCount(Append(w, e), "Request") + Len(p) + One(f # Nobody)
  <2>1. Cardinality(a) = KindCount(w, "Request") + Len(p) + One(f # Nobody) BY DEF ClientsIn
  <2>. QED BY <1>2, <1>6, <1>7, <2>1
<1>9. Members(p) \subseteq b \ {f} /\ Once(p) /\ (f # Nobody => f \in b) BY ClientsParts
<1>. QED BY <1>5, <1>8, <1>9, ClientsParts DEF e

\* The first request, dispatched: answered, put behind the others, or started.
LEMMA RequestTaken ==
  ASSUME NEW w \in Seq(Message), w # <<>>, NEW p \in Seq(Client), NEW f \in Client \cup {Nobody},
         NEW a \in SUBSET Client, NEW n, Ordered(w, n),
         Head(w).kind = "Request", ClientsIn(w, p, f, a)
  PROVE  /\ Head(w).arg \in a \ (Members(p) \cup {f})
         /\ ClientsIn(Tail(w), p, f, a \ {Head(w).arg})
         /\ ClientsIn(Tail(w), Append(p, Head(w).arg), f, a)
         /\ f = Nobody => ClientsIn(Tail(w), p, Head(w).arg, a)
<1>. DEFINE c == Head(w).arg
            v == Tail(w)
            R == a \ (Members(p) \cup {f})
<1>1. v \in Seq(Message) /\ RequestsFrom(v, R) /\ c \in R BY Taken DEF ClientsIn
<1>2. \A k \in 1 .. Len(v) : v[k].kind = "Request" => v[k].arg # c BY Taken DEF Clash
<1>3. RequestsFrom(v, R \ {c}) BY <1>1, <1>2 DEF RequestsFrom
<1>4. KindCount(v, "Request") = KindCount(w, "Request") - 1 BY CountTail
<1>5. /\ Cardinality(a) = KindCount(w, "Request") + Len(p) + One(f # Nobody)
      /\ Members(p) \subseteq a \ {f} /\ Once(p) /\ (f # Nobody => f \in a)
  BY ClientsParts
<1>6. KindCount(w, "Request") \in Nat /\ KindCount(v, "Request") \in Nat /\ Len(p) \in Nat
  <2>1. \A x \in Seq(Message) : KindCount(x, "Request") \in Nat BY KindCountType
  <2>2. Len(p) \in Nat OBVIOUS
  <2>. HIDE DEF v
  <2>. QED BY <1>1, <2>1, <2>2
<1>7. c # Nobody /\ c \in Client BY <1>1, ClientAssumption
<1>8. One(f # Nobody) \in {0, 1} /\ One(c # Nobody) = 1 /\ (f = Nobody => One(f # Nobody) = 0)
  BY <1>7 DEF One
<1>. HIDE DEF v, c
<1>9. ClientsIn(v, p, f, a \ {c})
  <2>1. Cardinality(a \ {c}) = Cardinality(a) - 1 BY <1>1, AskingCounted
  <2>2. Cardinality(a \ {c}) = KindCount(v, "Request") + Len(p) + One(f # Nobody)
    BY <1>4, <1>5, <1>6, <1>8, <2>1
  <2>3. Members(p) \subseteq (a \ {c}) \ {f} /\ (f # Nobody => f \in a \ {c}) BY <1>1, <1>5
  <2>4. RequestsFrom(v, (a \ {c}) \ (Members(p) \cup {f})) BY <1>3, RequestsFromMore
  <2>. QED BY <1>5, <2>2, <2>3, <2>4, ClientsParts
<1>10. ClientsIn(v, Append(p, c), f, a)
  <2>1. /\ Len(Append(p, c)) = Len(p) + 1 /\ Members(Append(p, c)) = Members(p) \cup {c}
        /\ Once(Append(p, c))
    BY <1>1, <1>5, <1>7, MembersAppended
  <2>2. Cardinality(a) = KindCount(v, "Request") + Len(Append(p, c)) + One(f # Nobody)
    BY <1>4, <1>5, <1>6, <1>8, <2>1
  <2>3. RequestsFrom(v, a \ (Members(Append(p, c)) \cup {f}))
    BY <1>3, <2>1, RequestsFromMore
  <2>4. Members(Append(p, c)) \subseteq a \ {f} BY <1>1, <1>5, <2>1
  <2>. QED BY <1>5, <2>1, <2>2, <2>3, <2>4, ClientsParts
<1>11. ASSUME f = Nobody PROVE ClientsIn(v, p, c, a)
  <2>1. Cardinality(a) = KindCount(v, "Request") + Len(p) + One(c # Nobody)
    BY <1>4, <1>5, <1>6, <1>8, <1>11
  <2>2. RequestsFrom(v, a \ (Members(p) \cup {c})) BY <1>3, RequestsFromMore
  <2>3. Members(p) \subseteq a \ {c} /\ c \in a BY <1>1, <1>5
  <2>. QED BY <1>5, <2>1, <2>2, <2>3, ClientsParts
<1>. QED BY <1>1, <1>9, <1>10, <1>11 DEF v, c

\* The request in flight is answered.
LEMMA FlightAnswered ==
  ASSUME NEW w \in Seq(Message), NEW p \in Seq(Client), NEW f \in Client,
         NEW a \in SUBSET Client, ClientsIn(w, p, f, a)
  PROVE  f \in a /\ ClientsIn(w, p, Nobody, a \ {f})
<1>1. f # Nobody BY ClientAssumption
<1>2. /\ RequestsFrom(w, a \ (Members(p) \cup {f})) /\ Members(p) \subseteq a \ {f} /\ Once(p)
      /\ f \in a /\ Cardinality(a) = KindCount(w, "Request") + Len(p) + 1
  BY <1>1, ClientsParts DEF One
<1>3. Cardinality(a \ {f}) = KindCount(w, "Request") + Len(p) + One(Nobody # Nobody)
  <2>1. Cardinality(a \ {f}) = Cardinality(a) - 1 BY <1>2, AskingCounted
  <2>2. KindCount(w, "Request") \in Nat /\ Len(p) \in Nat /\ One(Nobody # Nobody) = 0
    BY KindCountType DEF One
  <2>. QED BY <1>2, <2>1, <2>2
<1>4. Members(p) \subseteq (a \ {f}) \ {Nobody} BY <1>2, ClientAssumption
<1>5. RequestsFrom(w, (a \ {f}) \ (Members(p) \cup {Nobody}))
  <2>1. a \ (Members(p) \cup {f}) \subseteq (a \ {f}) \ (Members(p) \cup {Nobody}) BY ClientAssumption
  <2>. QED BY <1>2, <2>1, RequestsFromMore
<1>. QED BY <1>2, <1>3, <1>4, <1>5, ClientsParts

\* The first of those that wait is started, or answered at once.
LEMMA NextTaken ==
  ASSUME NEW w \in Seq(Message), NEW p \in Seq(Client), p # <<>>,
         NEW a \in SUBSET Client, ClientsIn(w, p, Nobody, a)
  PROVE  /\ Head(p) \in a
         /\ ClientsIn(w, Tail(p), Head(p), a)
         /\ ClientsIn(w, Tail(p), Nobody, a \ {Head(p)})
<1>. DEFINE c == Head(p)
            q == Tail(p)
<1>1. /\ c \in Client /\ q \in Seq(Client) /\ Len(p) \in Nat \ {0} /\ Len(q) = Len(p) - 1
      /\ Members(p) = Members(q) \cup {c}
      /\ Once(p) => Once(q) /\ c \notin Members(q)
  BY MembersTaken
<1>2. /\ RequestsFrom(w, a \ (Members(p) \cup {Nobody})) /\ Members(p) \subseteq a \ {Nobody}
      /\ Once(p) /\ Cardinality(a) = KindCount(w, "Request") + Len(p) + 0
  BY ClientsParts DEF One
<1>. HIDE DEF c, q
<1>3. c \in a /\ c # Nobody /\ c \notin Members(q) /\ Once(q) BY <1>1, <1>2
<1>4. KindCount(w, "Request") \in Nat BY KindCountType
<1>5. ClientsIn(w, q, c, a)
  <2>1. RequestsFrom(w, a \ (Members(q) \cup {c})) BY <1>1, <1>2, RequestsFromMore
  <2>2. Cardinality(a) = KindCount(w, "Request") + Len(q) + One(c # Nobody)
    <3>1. One(c # Nobody) = 1 BY <1>3 DEF One
    <3>. QED BY <1>1, <1>2, <1>4, <3>1
  <2>3. Members(q) \subseteq a \ {c} BY <1>1, <1>2, <1>3
  <2>. QED BY <1>3, <2>1, <2>2, <2>3, ClientsParts
<1>6. c \in a /\ ClientsIn(w, q, Nobody, a \ {c}) BY <1>1, <1>5, FlightAnswered
<1>. QED BY <1>5, <1>6 DEF c, q

-----------------------------------------------------------------------------
\* What a post, a dispatch and its end do to the events before the arbiter.
LEMMA InDispatch ==
  ASSUME NEW q \in Seq(Message), NEW e \in Message
  PROVE  /\ <<e>> \o q \in Seq(Message) /\ <<e>> \o q # <<>>
         /\ Len(<<e>> \o q) = Len(q) + 1
         /\ Head(<<e>> \o q) = e /\ Tail(<<e>> \o q) = q
<1>. DEFINE w == <<e>> \o q
<1>1. <<e>> \in Seq(Message) /\ Len(<<e>>) = 1 /\ <<e>>[1] = e OBVIOUS
<1>2. /\ w \in Seq(Message) /\ Len(w) = 1 + Len(q) /\ Len(q) \in Nat
      /\ \A k \in 1 .. Len(w) : w[k] = IF k <= 1 THEN <<e>>[k] ELSE q[k - 1]
  BY <1>1, ConcatProperties
<1>. HIDE DEF w
<1>3. w # <<>> /\ 1 \in 1 .. Len(w) BY <1>2
<1>4. Head(w) = e BY <1>1, <1>2, <1>3
<1>5. /\ Tail(w) \in Seq(Message) /\ Len(Tail(w)) = Len(q)
      /\ \A k \in 1 .. Len(q) : Tail(w)[k] = w[k + 1]
  BY <1>2, <1>3, HeadTailProperties
<1>6. \A k \in 1 .. Len(q) : Tail(w)[k] = q[k]
  <2>. TAKE k \in 1 .. Len(q)
  <2>1. k + 1 \in 1 .. Len(w) /\ ~(k + 1 <= 1) /\ (k + 1) - 1 = k BY <1>2
  <2>. QED BY <1>2, <1>5, <2>1
<1>7. Tail(w) = q BY <1>5, <1>6, SeqEqual
<1>. QED BY <1>2, <1>3, <1>4, <1>7 DEF w

LEMMA InDispatchAgain ==
  ASSUME NEW q \in Seq(Message), q # <<>>
  PROVE  <<Head(q)>> \o Tail(q) = q
<1>. DEFINE w == <<Head(q)>> \o Tail(q)
<1>1. /\ Head(q) \in Message /\ Tail(q) \in Seq(Message) /\ Len(q) \in Nat \ {0}
      /\ Len(Tail(q)) = Len(q) - 1 /\ Head(q) = q[1]
      /\ \A k \in 1 .. Len(Tail(q)) : Tail(q)[k] = q[k + 1]
  BY HeadTailProperties, EmptySeq
<1>2. <<Head(q)>> \in Seq(Message) /\ Len(<<Head(q)>>) = 1 /\ <<Head(q)>>[1] = Head(q) BY <1>1
<1>3. /\ w \in Seq(Message) /\ Len(w) = 1 + Len(Tail(q))
      /\ \A k \in 1 .. Len(w) : w[k] = IF k <= 1 THEN <<Head(q)>>[k] ELSE Tail(q)[k - 1]
  BY <1>1, <1>2, ConcatProperties
<1>. HIDE DEF w
<1>4. Len(w) = Len(q) BY <1>1, <1>3
<1>5. \A k \in 1 .. Len(q) : w[k] = q[k]
  <2>. TAKE k \in 1 .. Len(q)
  <2>1. CASE k = 1 BY <1>1, <1>2, <1>3, <1>4, <2>1
  <2>2. CASE k # 1
    <3>1. k - 1 \in 1 .. Len(Tail(q)) /\ (k - 1) + 1 = k /\ ~(k <= 1) BY <1>1, <2>2
    <3>. QED BY <1>1, <1>3, <1>4, <3>1
  <2>. QED BY <2>1, <2>2
<1>6. w = q BY <1>3, <1>4, <1>5, SeqEqual
<1>. QED BY <1>6 DEF w

LEMMA AppendBehind ==
  ASSUME NEW q \in Seq(Message), NEW d \in Message, NEW e \in Message
  PROVE  <<d>> \o Append(q, e) = Append(<<d>> \o q, e)
<1>1. <<d>> \in Seq(Message) /\ <<e>> \in Seq(Message) OBVIOUS
<1>2. <<d>> \o q \in Seq(Message) BY InDispatch
<1>3. Append(q, e) = q \o <<e>> BY AppendIsConcat
<1>4. Append(<<d>> \o q, e) = (<<d>> \o q) \o <<e>> BY <1>2, AppendIsConcat
<1>. QED BY <1>1, <1>3, <1>4, ConcatAssociative

LEMMA ComingFacts ==
  ASSUME TypeInv, PlaceInv
  PROVE  /\ Coming \in Seq(Message)
         /\ pc # "handle" => Coming = queue
         /\ pc = "handle" =>
              /\ cur \in Message /\ Coming # <<>> /\ Head(Coming) = cur /\ Tail(Coming) = queue
              /\ Len(Coming) = Len(queue) + 1
BY InDispatch DEF Coming, TypeInv, PlaceInv

\* A post that finds room.
LEMMA Posting ==
  ASSUME TypeInv, PlaceInv, NEW e \in Message, Occupied < Slots, Post(e),
         cur' = cur, pc' = "handle" <=> pc = "handle"
  PROVE  /\ queue' \in Seq(Message) /\ Coming' = Append(Coming, e) /\ lost' = lost
         /\ \A kind :
              KindCount(Coming', kind) =
                IF e.kind = kind THEN KindCount(Coming, kind) + 1 ELSE KindCount(Coming, kind)
<1>1. queue' = Append(queue, e) /\ lost' = lost BY DEF Post
<1>2. queue \in Seq(Message) BY DEF TypeInv
<1>3. queue' \in Seq(Message) BY <1>1, <1>2, AppendProperties
<1>4. Coming' = Append(Coming, e)
  <2>1. CASE pc = "handle"
    <3>1. cur \in Message BY <2>1, ComingFacts
    <3>. QED BY <1>1, <1>2, <2>1, <3>1, AppendBehind DEF Coming
  <2>2. CASE pc # "handle" BY <1>1, <2>2 DEF Coming
  <2>. QED BY <2>1, <2>2
<1>5. Coming \in Seq(Message) BY ComingFacts
<1>. QED BY <1>1, <1>3, <1>4, <1>5, CountAppend

\* The end of a dispatch.
LEMMA Handled ==
  ASSUME TypeInv, PlaceInv, NEW kind \in Kinds, Dispatching(kind), queue' = queue, pc' # "handle"
  PROVE  /\ Coming \in Seq(Message) /\ Coming # <<>> /\ Head(Coming) = cur /\ cur \in Message
         /\ cur.kind = kind
         /\ Coming' = Tail(Coming) /\ Coming' \in Seq(Message)
         /\ \A k : KindCount(Coming', k) =
                     IF k = kind THEN KindCount(Coming, k) - 1 ELSE KindCount(Coming, k)
         /\ \A k : KindCount(Coming, k) \in Nat /\ KindCount(Coming', k) \in Nat
<1>1. pc = "handle" /\ cur.kind = kind BY DEF Dispatching
<1>2. /\ Coming \in Seq(Message) /\ Coming # <<>> /\ Head(Coming) = cur /\ cur \in Message
      /\ Tail(Coming) = queue
  BY <1>1, ComingFacts
<1>3. Coming' = Tail(Coming) BY <1>2 DEF Coming
<1>4. Coming' \in Seq(Message) BY <1>2, <1>3, Taken
<1>. QED BY <1>1, <1>2, <1>3, <1>4, CountTail, KindCountType

-----------------------------------------------------------------------------
\* The counts of a state, as numbers.
LEMMA Numbers ==
  ASSUME TypeInv, PlaceInv
  PROVE  /\ Depth \in Nat /\ Budget \in Nat
         /\ Cardinality(asking) \in Nat /\ Len(queue) \in Nat /\ Len(pending) \in Nat
         /\ \A b \in BOOLEAN : One(b) \in {0, 1}
         /\ \A kind : Count(kind) \in Nat
         /\ Owed \in Nat
<1>1. Coming \in Seq(Message) BY ComingFacts
<1>2. \A kind : Count(kind) \in Nat BY <1>1, KindCountType DEF Count
<1>3. \A b \in BOOLEAN : One(b) \in {0, 1} BY DEF One
<1>4. One(engine # Nobody) \in {0, 1} BY <1>3
<1>5. Owed \in Nat BY <1>2, <1>4 DEF Owed
<1>6. Cardinality(asking) \in Nat BY AskingCounted DEF TypeInv
<1>7. Len(queue) \in Nat /\ Len(pending) \in Nat BY DEF TypeInv
<1>. QED BY <1>2, <1>3, <1>5, <1>6, <1>7, DepthAssumption, CountsAssumption

\* What the slots are taken by: each client's request once, and the events and
\* the slot of the dispatch.
LEMMA SlotsTaken ==
  ASSUME TypeInv, PlaceInv, ClientInv
  PROVE  Occupied = Cardinality(asking) + One(voting) + Count("TransferDone") + Count("BusTimeout")
                      + Count("BusFlushed") + One(pc = "release") + One(lent /\ pc # "handle")
<1>. DEFINE R == Count("Request")
            O == Count("TransferDone") + Count("BusTimeout") + Count("BusFlushed")
            v == One(voting)
            f == One(flight # Nobody)
            r == One(pc = "release")
            l == One(lent)
            h == One(lent /\ pc # "handle")
<1>1. Len(Coming) = R + O + v
  <2>1. Coming \in Seq(Message) BY ComingFacts
  <2>2. Len(Coming) = R + Count("TransferDone") + Count("BusTimeout") + Count("PrepareSleep")
                        + Count("BusFlushed")
    BY <2>1, LenIsCounts DEF Count
  <2>3. Count("PrepareSleep") = One(voting) BY DEF ClientInv
  <2>. QED BY <2>2, <2>3, Numbers
<1>2. Cardinality(asking) = R + Len(pending) + f
  BY DEF ClientInv, ClientsIn, Count
<1>3. Len(queue) + l = Len(Coming) + h
  <2>1. CASE pc = "handle"
    <3>1. lent /\ Len(Coming) = Len(queue) + 1 BY <2>1, ComingFacts DEF PlaceInv
    <3>2. l = 1 /\ h = 0 BY <2>1, <3>1 DEF One
    <3>3. Len(queue) \in Nat BY Numbers
    <3>. HIDE DEF l, h
    <3>. QED BY <3>1, <3>2, <3>3
  <2>2. CASE pc # "handle"
    <3>1. Coming = queue BY <2>2, ComingFacts
    <3>2. l = h BY <2>2 DEF One
    <3>. QED BY <3>1, <3>2
  <2>. QED BY <2>1, <2>2
<1>4. One(answered) = r BY DEF PlaceInv, One
<1>5. v \in {0, 1} /\ f \in {0, 1} /\ r \in {0, 1} /\ l \in {0, 1} /\ h \in {0, 1} BY DEF One
<1>6. R \in Nat /\ O \in Nat /\ Len(pending) \in Nat /\ Len(queue) \in Nat BY Numbers
<1>7. Occupied = Len(queue) + Len(pending) + f + r + l BY <1>4 DEF Occupied
<1>8. Occupied = Cardinality(asking) + v + O + r + h
  <2>. HIDE DEF R, O, v, f, r, l, h
  <2>. QED BY <1>1, <1>2, <1>3, <1>5, <1>6, <1>7
<1>. QED BY <1>5, <1>8, Numbers

\* The time-outs on their way and the one the timer still owes.
LEMMA TimeoutsBounded ==
  ASSUME TypeInv, PlaceInv, TimerInv, OrderInv
  PROVE  Count("BusTimeout") + One(armed) <= One(MayBeTimely \/ armed) + One(MayBeLate)
<1>. DEFINE A == IF MayBeTimely THEN {seq} ELSE {}
            B == IF MayBeLate THEN {Preceding(seq)} ELSE {}
<1>1. \A x : IsFiniteSet({x}) /\ Cardinality({x}) = 1 BY FS_Singleton
<1>2. IsFiniteSet({}) /\ Cardinality({}) = 0 BY FS_EmptySet
<1>3. IsFiniteSet(A) /\ Cardinality(A) = One(MayBeTimely) BY <1>1, <1>2 DEF One
<1>4. IsFiniteSet(B) /\ Cardinality(B) = One(MayBeLate) BY <1>1, <1>2 DEF One
<1>5. seq # Preceding(seq) BY SequenceNumbers DEF TypeInv
<1>6. A \cap B = {} BY <1>5
<1>7. TimeoutArgs = A \cup B BY DEF TimeoutArgs
<1>. HIDE DEF A, B
<1>8. Cardinality(A \cap B) = 0 BY <1>2, <1>6
<1>9. One(MayBeTimely) \in Nat /\ One(MayBeLate) \in Nat BY DEF One
<1>10. IsFiniteSet(A \cup B) /\ Cardinality(A \cup B) = One(MayBeTimely) + One(MayBeLate)
  <2>1. /\ IsFiniteSet(A \cup B)
        /\ Cardinality(A \cup B) = Cardinality(A) + Cardinality(B) - Cardinality(A \cap B)
    BY <1>3, <1>4, FS_Union
  <2>. QED BY <1>3, <1>4, <1>8, <1>9, <2>1
<1>11. Count("BusTimeout") <= One(MayBeTimely) + One(MayBeLate)
  <2>1. Coming \in Seq(Message) BY ComingFacts
  <2>. QED BY <1>7, <1>10, <2>1, TimeoutsCounted DEF TimerInv, OrderInv, Count
<1>12. One(MayBeTimely) + One(armed) = One(MayBeTimely \/ armed) BY DEF MayBeTimely, One
<1>13. Count("BusTimeout") \in Nat /\ One(armed) \in {0, 1} /\ One(MayBeTimely \/ armed) \in Nat
  BY Numbers DEF One
<1>. QED BY <1>9, <1>11, <1>12, <1>13

\* The control events in the slots and those still to be posted there: what
\* the headroom of the depth is for.
Control ==
  Owed + (Count("BusTimeout") + One(armed)) + (Count("BusFlushed") + One(pc = "flush"))
    + One(pc = "release") + One(lent /\ pc # "handle")

LEMMA ControlBounded ==
  ASSUME TypeInv, PlaceInv, OwedInv, TimerInv, OrderInv
  PROVE  Control <= IF timed THEN 4 ELSE 2
<1>. DEFINE O == Owed
            B == Count("BusTimeout") + One(armed)
            F == Count("BusFlushed") + One(pc = "flush")
            r == One(pc = "release")
            h == One(lent /\ pc # "handle")
<1>1. O \in Nat /\ B \in Nat /\ F \in Nat /\ r \in {0, 1} /\ h \in {0, 1}
  <2>1. \A kind : Count(kind) \in Nat BY Numbers
  <2>2. One(armed) \in {0, 1} /\ One(pc = "flush") \in {0, 1} BY DEF One
  <2>. QED BY <2>1, <2>2, Numbers DEF One
<1>2. O <= 1 /\ Count("BusFlushed") <= One(state = "draining" /\ Moving) BY DEF OwedInv
<1>3. B <= One(MayBeTimely \/ armed) + One(MayBeLate) BY TimeoutsBounded
<1>4. armed => MayBeLate BY DEF TimerInv
<1>5. pc \in {"loop", "handle", "release", "flush", "return"} BY DEF TypeInv
<1>6. Control = O + B + F + r + h BY <1>1 DEF Control
<1>7. Count("BusFlushed") \in Nat BY Numbers
<1>8. \A x \in Nat : \A b : x <= One(b) => x <= 1 /\ (~b => x = 0) BY DEF One
<1>9. CASE ~timed
  <2>1. ~MayBeTimely /\ ~MayBeLate /\ ~armed BY <1>4, <1>9 DEF MayBeTimely, MayBeLate
  <2>2. One(MayBeTimely \/ armed) = 0 /\ One(MayBeLate) = 0 BY <2>1 DEF One
  <2>3. B = 0 BY <1>1, <1>3, <2>2
  <2>4. state # "draining" /\ ~TimingOut BY <1>9 DEF PlaceInv
  <2>5. F = 0
    <3>1. One(pc = "flush") = 0 BY <2>4 DEF TimingOut, One
    <3>2. One(state = "draining" /\ Moving) = 0 BY <2>4 DEF One
    <3>. QED BY <1>2, <1>7, <3>1, <3>2
  <2>6. O + r <= 1
    <3>1. CASE pc = "release"
      <4>1. O = 0 BY <2>4, <3>1 DEF OwedInv
      <4>. QED BY <1>1, <4>1
    <3>2. CASE pc # "release"
      <4>1. r = 0 BY <3>2 DEF One
      <4>. QED BY <1>1, <1>2, <4>1
    <3>. QED BY <3>1, <3>2
  <2>. HIDE DEF O, B, F, r, h
  <2>. QED BY <1>1, <1>6, <1>9, <2>3, <2>5, <2>6
<1>10. CASE timed /\ ~Moving
  <2>1. ~MayBeLate /\ ~armed BY <1>4, <1>10 DEF MayBeLate
  <2>2. Count("BusFlushed") = 0
    <3>1. One(state = "draining" /\ Moving) = 0 BY <1>10 DEF One
    <3>. QED BY <1>2, <1>7, <3>1
  <2>3. One(MayBeLate) = 0 BY <2>1 DEF One
  <2>4. CASE pc = "flush"
    <3>1. ~MayBeTimely BY <2>4 DEF MayBeTimely, TimingOut
    <3>2. One(MayBeTimely \/ armed) = 0 BY <2>1, <3>1 DEF One
    <3>3. B = 0 BY <1>1, <1>3, <2>3, <3>2
    <3>4. r = 0 /\ One(pc = "flush") = 1 BY <2>4 DEF One
    <3>5. F = 1 BY <2>2, <3>4
    <3>. HIDE DEF O, B, F, r, h
    <3>. QED BY <1>1, <1>2, <1>6, <1>10, <3>3, <3>4, <3>5
  <2>5. CASE pc = "release"
    <3>1. One(pc = "flush") = 0 BY <2>5 DEF One
    <3>2. F = 0 BY <2>2, <3>1
    <3>3. O + B <= 1
      <4>1. CASE TimingOut
        <5>1. ~MayBeTimely BY <4>1 DEF MayBeTimely
        <5>2. One(MayBeTimely \/ armed) = 0 BY <2>1, <5>1 DEF One
        <5>3. B = 0 BY <1>1, <1>3, <2>3, <5>2
        <5>. QED BY <1>1, <1>2, <5>3
      <4>2. CASE ~TimingOut
        <5>1. O = 0 BY <2>5, <4>2 DEF OwedInv
        <5>2. One(MayBeTimely \/ armed) \in {0, 1} BY DEF One
        <5>. QED BY <1>1, <1>3, <2>3, <5>1, <5>2
      <4>. QED BY <4>1, <4>2
    <3>. HIDE DEF O, B, F, r, h
    <3>. QED BY <1>1, <1>6, <1>10, <3>2, <3>3
  <2>. QED BY <1>5, <1>10, <2>4, <2>5 DEF Moving
<1>11. CASE timed /\ Moving
  <2>1. r = 0 /\ One(pc = "flush") = 0 BY <1>11 DEF Moving, One
  <2>2. B + F <= 2
    <3>1. CASE state = "draining"
      <4>1. ~MayBeTimely /\ ~MayBeLate /\ ~armed BY <1>4, <1>11, <3>1 DEF MayBeTimely, MayBeLate
      <4>2. One(MayBeTimely \/ armed) = 0 /\ One(MayBeLate) = 0 BY <4>1 DEF One
      <4>3. One(state = "draining" /\ Moving) \in {0, 1} BY DEF One
      <4>. QED BY <1>1, <1>2, <1>3, <1>7, <2>1, <4>2, <4>3
    <3>2. CASE state # "draining"
      <4>1. One(state = "draining" /\ Moving) = 0 BY <3>2 DEF One
      <4>2. One(MayBeTimely \/ armed) \in {0, 1} /\ One(MayBeLate) \in {0, 1} BY DEF One
      <4>. QED BY <1>1, <1>2, <1>3, <1>7, <2>1, <4>1, <4>2
    <3>. QED BY <3>1, <3>2
  <2>. HIDE DEF O, B, F, r, h
  <2>. QED BY <1>1, <1>2, <1>6, <1>11, <2>1, <2>2
<1>. QED BY <1>9, <1>10, <1>11

\* Whatever is still to be posted finds a free slot.
LEMMA Room ==
  ASSUME Affordable, TypeInv, PlaceInv, ClientInv, OwedInv, TimerInv, OrderInv
  PROVE  /\ Occupied <= Slots
         /\ Cardinality(asking) < Budget => Occupied < Slots
         /\ voting = FALSE => Occupied < Slots
         /\ engine # Nobody => Occupied < Slots
         /\ armed = TRUE => Occupied < Slots
         /\ pc = "flush" => Occupied < Slots
<1>. DEFINE n == Cardinality(asking)
            v == One(voting)
            e == One(engine # Nobody)
            t == One(armed)
            f == One(pc = "flush")
<1>1. Control <= IF timed THEN 4 ELSE 2 BY ControlBounded
<1>2. n \in Nat /\ n <= Budget /\ Budget \in Nat /\ Depth \in Nat BY Numbers DEF ClientInv
<1>3. Budget <= 2 * Depth + (IF timed THEN 2 ELSE 1) BY DEF Affordable, BudgetOf, TypeInv
<1>4. v \in {0, 1} /\ e \in {0, 1} /\ t \in {0, 1} /\ f \in {0, 1} BY DEF One
<1>5. Occupied + e + t + f = n + v + Control
  <2>1. Occupied = n + v + Count("TransferDone") + Count("BusTimeout")
                     + Count("BusFlushed") + One(pc = "release") + One(lent /\ pc # "handle")
    BY SlotsTaken
  <2>2. One(pc = "release") \in {0, 1} /\ One(lent /\ pc # "handle") \in {0, 1} BY DEF One
  <2>3. \A kind : Count(kind) \in Nat BY Numbers
  <2>4. Control = (Count("TransferDone") + e) + (Count("BusTimeout") + t)
                    + (Count("BusFlushed") + f) + One(pc = "release") + One(lent /\ pc # "handle")
    BY DEF Control, Owed
  <2>. HIDE DEF n, v, e, t, f
  <2>. QED BY <1>2, <1>4, <2>1, <2>2, <2>3, <2>4
<1>6. Slots = 2 * Depth + (IF timed THEN 7 ELSE 4) BY <1>2 DEF Slots
<1>7. Occupied \in Nat /\ Control \in Nat
  <2>1. \A kind : Count(kind) \in Nat BY Numbers
  <2>2. One(pc = "release") \in {0, 1} /\ One(lent /\ pc # "handle") \in {0, 1} BY DEF One
  <2>3. Occupied \in Nat BY <1>2, <1>4, <2>1, <2>2, SlotsTaken
  <2>4. Owed \in Nat BY Numbers
  <2>5. Control \in Nat BY <1>4, <2>1, <2>2, <2>4 DEF Control
  <2>. QED BY <2>3, <2>5
<1>8. /\ voting = FALSE => v = 0
      /\ engine # Nobody => e = 1
      /\ armed = TRUE => t = 1
      /\ pc = "flush" => f = 1
  BY DEF One
<1>. HIDE DEF n, v, e, t, f
<1>9. Occupied + e + t + f + (1 - v) + (Budget - n) <= Slots
  <2>1. CASE timed = TRUE
    <3>1. Control <= 4 /\ Slots = 2 * Depth + 7 /\ Budget <= 2 * Depth + 2 BY <1>1, <1>3, <1>6, <2>1
    <3>. QED BY <1>2, <1>4, <1>5, <1>7, <3>1
  <2>2. CASE timed = FALSE
    <3>1. Control <= 2 /\ Slots = 2 * Depth + 4 /\ Budget <= 2 * Depth + 1 BY <1>1, <1>3, <1>6, <2>2
    <3>. QED BY <1>2, <1>4, <1>5, <1>7, <3>1
  <2>. QED BY <2>1, <2>2, TimingsAssumption DEF TypeInv
<1>10. Slots \in Nat
  <2>1. CASE timed = TRUE BY <1>2, <1>6, <2>1
  <2>2. CASE timed = FALSE BY <1>2, <1>6, <2>2
  <2>. QED BY <2>1, <2>2, TimingsAssumption DEF TypeInv
<1>11. Occupied <= Slots BY <1>2, <1>4, <1>7, <1>9, <1>10
<1>12. n < Budget => Occupied < Slots BY <1>2, <1>4, <1>7, <1>9, <1>10
<1>13. v = 0 \/ e = 1 \/ t = 1 \/ f = 1 => Occupied < Slots BY <1>2, <1>4, <1>7, <1>9, <1>10
<1>. QED BY <1>8, <1>11, <1>12, <1>13 DEF n

-----------------------------------------------------------------------------
LEMMA InitIInv == Init => IInv
<1>. SUFFICES ASSUME Init PROVE IInv OBVIOUS
<1>. USE DEF Init
<1>1. Coming = <<>> BY DEF Coming
<1>2. \A kind : Count(kind) = 0 BY <1>1, NoneCounted DEF Count
<1>3. Len(<<>>) = 0 /\ \A k : k \notin 1 .. 0 OBVIOUS
<1>4. One(flight # Nobody) = 0 /\ One(engine # Nobody) = 0 /\ One(voting) = 0 BY DEF One
<1>5. TypeInv
  <2>1. 0 \in Sequence /\ 0 \in 0 .. MaxAttempts /\ Len(pending) <= Depth
    BY <1>3, CountsAssumption, DepthAssumption DEF Sequence
  <2>2. queue \in Seq(Message) /\ pending \in Seq(Client) BY EmptySeq
  <2>. QED BY <2>1, <2>2 DEF TypeInv
<1>6. PlaceInv BY DEF PlaceInv, Moving, TimingOut
<1>7. ClientInv
  <2>1. Members(pending) = {} BY <1>3 DEF Members
  <2>2. Cardinality(asking) = 0 BY FS_EmptySet
  <2>3. ClientsIn(Coming, pending, flight, asking)
    <3>1. KindCount(Coming, "Request") = 0 BY <1>2 DEF Count
    <3>2. Cardinality(asking) = KindCount(Coming, "Request") + Len(pending) + One(flight # Nobody)
      BY <1>3, <1>4, <2>2, <3>1
    <3>3. RequestsFrom(Coming, asking \ (Members(pending) \cup {flight})) BY <1>1, <1>3 DEF RequestsFrom
    <3>. QED BY <1>3, <2>1, <3>2, <3>3 DEF ClientsIn
  <2>. QED BY <1>2, <1>4, <2>2, <2>3, CountsAssumption DEF ClientInv
<1>8. OwedInv
  <2>1. Owed = 0 BY <1>2, <1>4 DEF Owed
  <2>2. One(state = "draining" /\ Moving) = 0 BY DEF One
  <2>3. Owed <= 1 /\ Count("BusFlushed") <= One(state = "draining" /\ Moving) BY <1>2, <2>1, <2>2
  <2>. QED BY <2>1, <2>3 DEF OwedInv
<1>9. TimerInv BY <1>1, <1>3 DEF TimerInv, TimeoutsOf
<1>10. OrderInv BY <1>1, <1>3 DEF OrderInv, Ordered
<1>. QED BY <1>5, <1>6, <1>7, <1>8, <1>9, <1>10 DEF IInv, NothingDropped

-----------------------------------------------------------------------------
\* A step that moves neither the timer nor the transfer.
LEMMA SameTimer ==
  ASSUME TimerInv, UNCHANGED <<timed, armed, state, seq>>,
         Moving' <=> Moving, TimingOut' <=> TimingOut, TimeoutsOf(Coming', TimeoutArgs)
  PROVE  TimerInv'
<1>1. (MayBeTimely' <=> MayBeTimely) /\ (MayBeLate' <=> MayBeLate) BY DEF MayBeTimely, MayBeLate
<1>2. TimeoutArgs' = TimeoutArgs BY <1>1 DEF TimeoutArgs
<1>. QED BY <1>1, <1>2 DEF TimerInv

LEMMA SameOwed ==
  ASSUME TypeInv, PlaceInv, OwedInv, UNCHANGED <<state, engine, flight>>,
         Moving' <=> Moving, TimingOut' <=> TimingOut, pc' = "release" => pc = "release",
         Count("TransferDone")' = Count("TransferDone"), Count("BusFlushed")' = Count("BusFlushed")
  PROVE  OwedInv'
<1>1. Owed' = Owed BY DEF Owed
<1>2. One(state = "draining" /\ Moving)' = One(state = "draining" /\ Moving) BY DEF One
<1>. QED BY <1>1, <1>2 DEF OwedInv

\* A client asks, another object or an interrupt handler cutting a dispatch.
LEMMA AskIInv ==
  ASSUME Affordable, IInv, NEW c \in Client, Ask(c)
  PROVE  IInv'
<1>. DEFINE e == Event("Request", c)
<1>. USE DEF Ask
<1>1. e \in Message /\ e.kind = "Request" /\ e.arg = c BY Events
<1>. HIDE DEF e
<1>2. Occupied < Slots BY Room DEF IInv
<1>3. /\ queue' \in Seq(Message) /\ Coming' = Append(Coming, e) /\ lost' = lost
      /\ \A kind : KindCount(Coming', kind) =
                     IF e.kind = kind THEN KindCount(Coming, kind) + 1 ELSE KindCount(Coming, kind)
  <2>1. Post(e) BY DEF e
  <2>. QED BY <1>1, <1>2, <2>1, Posting DEF IInv
<1>4. Coming \in Seq(Message) BY ComingFacts DEF IInv
<1>5. c \in Client \ asking /\ asking' = asking \cup {c} /\ asking \in SUBSET Client
  BY DEF IInv, TypeInv
<1>6. TypeInv' BY <1>3, <1>5 DEF IInv, TypeInv
<1>7. PlaceInv' BY DEF IInv, PlaceInv, Moving, TimingOut
<1>8. Moving' <=> Moving BY DEF Moving
<1>9. TimingOut' <=> TimingOut BY DEF TimingOut
<1>10. /\ Count("PrepareSleep")' = Count("PrepareSleep")
       /\ Count("TransferDone")' = Count("TransferDone") /\ Count("BusFlushed")' = Count("BusFlushed")
  BY <1>1, <1>3 DEF Count
<1>11. ClientInv'
  <2>1. ClientsIn(Coming', pending, flight, asking')
    <3>1. pending \in Seq(Client) /\ flight \in Client \cup {Nobody} /\ asking \in SUBSET Client
      BY DEF IInv, TypeInv
    <3>2. ClientsIn(Coming, pending, flight, asking) BY DEF IInv, ClientInv
    <3>. QED BY <1>3, <1>4, <1>5, <3>1, <3>2, ClientAsks DEF e
  <2>2. Cardinality(asking') <= Budget
    <3>1. Cardinality(asking') = Cardinality(asking) + 1 /\ Cardinality(asking) \in Nat
      BY <1>5, AskingCounted
    <3>. QED BY <3>1, CountsAssumption
  <2>. QED BY <1>10, <2>1, <2>2 DEF IInv, ClientInv
<1>12. OwedInv' BY <1>8, <1>9, <1>10, SameOwed DEF IInv
<1>13. TimerInv'
  <2>1. TimeoutsOf(Coming', TimeoutArgs) BY <1>1, <1>3, <1>4, Appended DEF IInv, TimerInv
  <2>. QED BY <1>8, <1>9, <2>1, SameTimer DEF IInv
<1>14. OrderInv'
  <2>1. \A k \in 1 .. Len(Coming) : Coming[k].kind = "Request" => Coming[k].arg # c
    BY <1>5 DEF IInv, ClientInv, ClientsIn, RequestsFrom
  <2>2. \A k \in 1 .. Len(Coming) : ~Clash(Coming[k], e, seq) BY <1>1, <2>1 DEF Clash
  <2>. QED BY <1>1, <1>3, <1>4, <2>2, Appended DEF IInv, OrderInv
<1>15. NothingDropped' BY <1>3 DEF IInv, NothingDropped
<1>. QED BY <1>6, <1>7, <1>11, <1>12, <1>13, <1>14, <1>15 DEF IInv

LEMMA AskToSleepIInv ==
  ASSUME Affordable, IInv, AskToSleep
  PROVE  IInv'
<1>. DEFINE e == Event("PrepareSleep", Nobody)
<1>. USE DEF AskToSleep
<1>1. e \in Message /\ e.kind = "PrepareSleep" BY Events
<1>. HIDE DEF e
<1>2. voting = FALSE BY DEF IInv, TypeInv
<1>3. Occupied < Slots BY <1>2, Room DEF IInv
<1>4. /\ queue' \in Seq(Message) /\ Coming' = Append(Coming, e) /\ lost' = lost
      /\ \A kind : KindCount(Coming', kind) =
                     IF e.kind = kind THEN KindCount(Coming, kind) + 1 ELSE KindCount(Coming, kind)
  <2>1. Post(e) BY DEF e
  <2>. QED BY <1>1, <1>3, <2>1, Posting DEF IInv
<1>5. Coming \in Seq(Message) BY ComingFacts DEF IInv
<1>6. TypeInv' BY <1>4 DEF IInv, TypeInv
<1>7. PlaceInv' BY DEF IInv, PlaceInv, Moving, TimingOut
<1>8. Moving' <=> Moving BY DEF Moving
<1>9. TimingOut' <=> TimingOut BY DEF TimingOut
<1>10. /\ Count("PrepareSleep")' = Count("PrepareSleep") + 1
       /\ Count("TransferDone")' = Count("TransferDone") /\ Count("BusFlushed")' = Count("BusFlushed")
  BY <1>1, <1>4 DEF Count
<1>11. ClientInv'
  <2>1. ClientsIn(Coming', pending, flight, asking)
    BY <1>1, <1>4, <1>5, OthersPosted DEF IInv, ClientInv
  <2>2. One(voting) = 0 /\ One(voting)' = 1 BY <1>2 DEF One
  <2>. QED BY <1>10, <2>1, <2>2 DEF IInv, ClientInv
<1>12. OwedInv' BY <1>8, <1>9, <1>10, SameOwed DEF IInv
<1>13. TimerInv'
  <2>1. TimeoutsOf(Coming', TimeoutArgs) BY <1>1, <1>4, <1>5, Appended DEF IInv, TimerInv
  <2>. QED BY <1>8, <1>9, <2>1, SameTimer DEF IInv
<1>14. OrderInv'
  <2>1. \A k \in 1 .. Len(Coming) : ~Clash(Coming[k], e, seq) BY <1>1 DEF Clash
  <2>. QED BY <1>1, <1>4, <1>5, <2>1, Appended DEF IInv, OrderInv
<1>15. NothingDropped' BY <1>4 DEF IInv, NothingDropped
<1>. QED BY <1>6, <1>7, <1>11, <1>12, <1>13, <1>14, <1>15 DEF IInv

\* The completion the bus was owed is on its way: no marker waits behind which
\* it would be taken for another's.
LEMMA EngineDoneIInv ==
  ASSUME Affordable, IInv, EngineDone
  PROVE  IInv'
<1>. USE DEF EngineDone
<1>1. PICK status \in {"ok", "failed"} : Post(Event("TransferDone", status)) OBVIOUS
<1>. DEFINE e == Event("TransferDone", status)
<1>2. e \in Message /\ e.kind = "TransferDone" BY Events
<1>. HIDE DEF e
<1>3. Occupied < Slots BY Room DEF IInv
<1>4. /\ queue' \in Seq(Message) /\ Coming' = Append(Coming, e) /\ lost' = lost
      /\ \A kind : KindCount(Coming', kind) =
                     IF e.kind = kind THEN KindCount(Coming, kind) + 1 ELSE KindCount(Coming, kind)
  <2>1. Post(e) BY <1>1 DEF e
  <2>. QED BY <1>2, <1>3, <2>1, Posting DEF IInv
<1>5. Coming \in Seq(Message) BY ComingFacts DEF IInv
<1>6. TypeInv' BY <1>4 DEF IInv, TypeInv
<1>7. PlaceInv' BY DEF IInv, PlaceInv, Moving, TimingOut
<1>8. Moving' <=> Moving BY DEF Moving
<1>9. TimingOut' <=> TimingOut BY DEF TimingOut
<1>10. /\ Count("PrepareSleep")' = Count("PrepareSleep")
       /\ Count("TransferDone")' = Count("TransferDone") + 1
       /\ Count("BusFlushed")' = Count("BusFlushed")
  BY <1>2, <1>4 DEF Count
<1>11. ClientInv'
  <2>1. ClientsIn(Coming', pending, flight, asking)
    BY <1>2, <1>4, <1>5, OthersPosted DEF IInv, ClientInv
  <2>. QED BY <1>10, <2>1 DEF IInv, ClientInv
<1>12. state = "busy" /\ Moving BY DEF IInv, OwedInv
<1>13. Count("BusFlushed") = 0
  <2>1. One(state = "draining" /\ Moving) = 0 BY <1>12 DEF One
  <2>2. Count("BusFlushed") <= 0 BY <2>1 DEF IInv, OwedInv
  <2>. QED BY <2>2, Numbers DEF IInv
<1>14. OwedInv'
  <2>1. One(engine # Nobody) = 1 /\ One(engine # Nobody)' = 0 BY DEF One
  <2>2. Owed = 1 BY <1>12 DEF IInv, OwedInv
  <2>3. Owed' = 1
    <3>1. Owed = Count("TransferDone") + 1 BY <2>1 DEF Owed
    <3>2. Owed' = (Count("TransferDone") + 1) + 0 BY <1>10, <2>1 DEF Owed
    <3>. QED BY <2>2, <3>1, <3>2
  <2>4. Count("BusFlushed")' <= One(state = "draining" /\ Moving)'
    <3>1. One(state = "draining" /\ Moving)' = 0 BY <1>12 DEF One
    <3>. QED BY <1>10, <1>13, <3>1
  <2>5. ~(state' = "idle" \/ (pc' = "release" /\ ~TimingOut')) BY <1>12 DEF Moving
  <2>6. Owed' <= 1 BY <2>3
  <2>. QED BY <2>3, <2>4, <2>5, <2>6 DEF OwedInv
<1>15. TimerInv'
  <2>1. TimeoutsOf(Coming', TimeoutArgs) BY <1>2, <1>4, <1>5, Appended DEF IInv, TimerInv
  <2>. QED BY <1>8, <1>9, <2>1, SameTimer DEF IInv
<1>16. OrderInv'
  <2>1. \A k \in 1 .. Len(Coming) : Coming[k].kind # "BusFlushed"
    BY <1>5, <1>13, KindCountType DEF Count
  <2>2. \A k \in 1 .. Len(Coming) : ~Clash(Coming[k], e, seq) BY <1>2, <2>1 DEF Clash
  <2>. QED BY <1>2, <1>4, <1>5, <2>2, Appended DEF IInv, OrderInv
<1>17. NothingDropped' BY <1>4 DEF IInv, NothingDropped
<1>. QED BY <1>6, <1>7, <1>11, <1>14, <1>15, <1>16, <1>17 DEF IInv

\* The time-out of the transfer in flight: the only one that can wait before it
\* is of the transfer before.
LEMMA TimerFireIInv ==
  ASSUME Affordable, IInv, TimerFire
  PROVE  IInv'
<1>. DEFINE e == Event("BusTimeout", seq)
<1>. USE DEF TimerFire
<1>1. e \in Message /\ e.kind = "BusTimeout" /\ e.arg = seq BY Events DEF IInv, TypeInv
<1>. HIDE DEF e
<1>2. Occupied < Slots BY Room DEF IInv
<1>3. /\ queue' \in Seq(Message) /\ Coming' = Append(Coming, e) /\ lost' = lost
      /\ \A kind : KindCount(Coming', kind) =
                     IF e.kind = kind THEN KindCount(Coming, kind) + 1 ELSE KindCount(Coming, kind)
  <2>1. Post(e) BY DEF e
  <2>. QED BY <1>1, <1>2, <2>1, Posting DEF IInv
<1>4. Coming \in Seq(Message) BY ComingFacts DEF IInv
<1>5. TypeInv' BY <1>3 DEF IInv, TypeInv
<1>6. PlaceInv' BY DEF IInv, PlaceInv, Moving, TimingOut
<1>7. Moving' <=> Moving BY DEF Moving
<1>8. TimingOut' <=> TimingOut BY DEF TimingOut
<1>9. /\ Count("PrepareSleep")' = Count("PrepareSleep")
      /\ Count("TransferDone")' = Count("TransferDone") /\ Count("BusFlushed")' = Count("BusFlushed")
  BY <1>1, <1>3 DEF Count
<1>10. ClientInv'
  <2>1. ClientsIn(Coming', pending, flight, asking)
    BY <1>1, <1>3, <1>4, OthersPosted DEF IInv, ClientInv
  <2>. QED BY <1>9, <2>1 DEF IInv, ClientInv
<1>11. OwedInv' BY <1>7, <1>8, <1>9, SameOwed DEF IInv
<1>12. timed /\ state = "busy" /\ Moving /\ armed' = FALSE /\ ~TimingOut
  BY DEF IInv, TimerInv, MayBeLate, Moving, TimingOut
<1>13. MayBeTimely' /\ MayBeLate' BY <1>7, <1>8, <1>12 DEF MayBeTimely, MayBeLate
<1>14. TimeoutArgs = {Preceding(seq)} BY <1>12 DEF TimeoutArgs, MayBeTimely, MayBeLate
<1>15. TimeoutsOf(Coming, {Preceding(seq)}) BY <1>14 DEF IInv, TimerInv
<1>16. TimerInv'
  <2>1. TimeoutArgs' = {seq} \cup {Preceding(seq)} BY <1>13 DEF TimeoutArgs
  <2>2. TimeoutsOf(Coming, {seq} \cup {Preceding(seq)}) BY <1>15 DEF TimeoutsOf
  <2>3. TimeoutsOf(Coming', {seq} \cup {Preceding(seq)}) BY <1>1, <1>3, <1>4, <2>2, Appended
  <2>. QED BY <1>13, <2>1, <2>3 DEF TimerInv
<1>17. OrderInv'
  <2>1. seq # Preceding(seq) BY SequenceNumbers DEF IInv, TypeInv
  <2>2. \A k \in 1 .. Len(Coming) : ~Clash(Coming[k], e, seq)
    BY <1>1, <1>15, <2>1 DEF Clash, TimeoutsOf
  <2>. QED BY <1>1, <1>3, <1>4, <2>2, Appended DEF IInv, OrderInv
<1>18. NothingDropped' BY <1>3 DEF IInv, NothingDropped
<1>. QED BY <1>5, <1>6, <1>10, <1>11, <1>16, <1>17, <1>18 DEF IInv

-----------------------------------------------------------------------------
\* The kernel takes an event and gives its slot back: the same events are
\* before the arbiter.
LEMMA SameComing ==
  ASSUME IInv, UNCHANGED <<timed, state, flight, pending, attempt, seq, armed, engine,
                           asking, voting, lost>>,
         Coming' = Coming, Moving' <=> Moving, TimingOut' <=> TimingOut,
         pc' = "release" => pc = "release", TypeInv', PlaceInv'
  PROVE  IInv'
<1>1. \A kind : Count(kind)' = Count(kind) BY DEF Count
<1>2. ClientInv' BY <1>1 DEF IInv, ClientInv
<1>3. OwedInv' BY <1>1, SameOwed DEF IInv
<1>4. TimerInv' BY SameTimer DEF IInv, TimerInv
<1>5. OrderInv' BY DEF IInv, OrderInv
<1>. QED BY <1>2, <1>3, <1>4, <1>5 DEF IInv, NothingDropped

LEMMA ServeIInv == IInv /\ Serve => IInv'
<1>. SUFFICES ASSUME IInv, Serve PROVE IInv' OBVIOUS
<1>. USE DEF Serve
<1>1. /\ queue \in Seq(Message) /\ queue # <<>> /\ Head(queue) \in Message
      /\ Tail(queue) \in Seq(Message)
  BY Taken DEF IInv, TypeInv
<1>2. Coming = queue BY DEF Coming
<1>3. Coming' = <<Head(queue)>> \o Tail(queue) BY DEF Coming
<1>4. Coming' = Coming BY <1>1, <1>2, <1>3, InDispatchAgain
<1>5. TypeInv' BY <1>1 DEF IInv, TypeInv
<1>6. Moving /\ Moving' /\ ~TimingOut /\ ~TimingOut' BY DEF Moving, TimingOut
<1>7. PlaceInv' BY <1>1, <1>6 DEF IInv, PlaceInv
<1>. QED BY <1>4, <1>5, <1>6, <1>7, SameComing

LEMMA ReturnIInv == IInv /\ Return => IInv'
<1>. SUFFICES ASSUME IInv, Return PROVE IInv' OBVIOUS
<1>. USE DEF Return
<1>1. Coming' = Coming BY DEF Coming
<1>2. TypeInv' BY DEF IInv, TypeInv
<1>3. Moving /\ Moving' /\ ~TimingOut /\ ~TimingOut' BY DEF Moving, TimingOut
<1>4. PlaceInv' BY <1>3 DEF IInv, PlaceInv
<1>. QED BY <1>1, <1>2, <1>3, <1>4, SameComing

\* The end of the dispatch of an event, for what keeps time and order.
LEMMA HandledOrder ==
  ASSUME IInv, NEW kind \in Kinds, Dispatching(kind), queue' = queue, pc' # "handle"
  PROVE  /\ TimeoutsOf(Coming', TimeoutArgs) /\ Ordered(Coming', seq)
         /\ \A k \in 1 .. Len(Coming') : ~Clash(cur, Coming'[k], seq)
         /\ kind = "BusTimeout" => cur.arg \in TimeoutArgs
<1>1. /\ Coming \in Seq(Message) /\ Coming # <<>> /\ Head(Coming) = cur /\ Coming' = Tail(Coming)
      /\ cur.kind = kind
  BY Handled DEF IInv
<1>2. TimeoutsOf(Coming, TimeoutArgs) BY DEF IInv, TimerInv
<1>3. Ordered(Coming, seq) BY DEF IInv, OrderInv
<1>. QED BY <1>1, <1>2, <1>3, Taken

\* A dispatch that starts and answers no transfer: the events still to come
\* are what it changes, and the requests.
LEMMA QuietDispatch ==
  ASSUME IInv, NEW kind \in {"Request", "BusTimeout", "PrepareSleep"}, Dispatching(kind),
         pc' = "return",
         UNCHANGED <<timed, queue, cur, state, flight, answered, attempt, seq, armed, engine, lost>>,
         TypeInv', ClientInv', state = "idle" => pending' = <<>>
  PROVE  IInv'
<1>1. pc = "handle" /\ kind \in Kinds BY DEF Dispatching, Kinds
<1>2. /\ Count("TransferDone")' = Count("TransferDone")
      /\ Count("BusFlushed")' = Count("BusFlushed")
  BY <1>1, Handled DEF IInv, Count
<1>3. Moving /\ Moving' /\ ~TimingOut /\ ~TimingOut' BY <1>1 DEF Moving, TimingOut
<1>4. PlaceInv' BY <1>1, <1>3 DEF IInv, PlaceInv
<1>5. OwedInv' BY <1>2, <1>3, SameOwed DEF IInv
<1>6. TimeoutsOf(Coming', TimeoutArgs) /\ Ordered(Coming', seq) BY <1>1, HandledOrder
<1>7. TimerInv' BY <1>3, <1>6, SameTimer DEF IInv
<1>8. OrderInv' BY <1>6 DEF OrderInv
<1>. QED BY <1>4, <1>5, <1>7, <1>8 DEF IInv, NothingDropped

LEMMA VoteIInv == IInv /\ Vote => IInv'
<1>. SUFFICES ASSUME IInv, Vote PROVE IInv' OBVIOUS
<1>. USE DEF Vote
<1>1. "PrepareSleep" \in Kinds BY DEF Kinds
<1>2. /\ Coming \in Seq(Message) /\ Coming # <<>> /\ Head(Coming) = cur /\ cur.kind = "PrepareSleep"
      /\ Coming' = Tail(Coming)
      /\ KindCount(Coming', "PrepareSleep") = KindCount(Coming, "PrepareSleep") - 1
      /\ KindCount(Coming', "PrepareSleep") \in Nat
  BY <1>1, Handled DEF IInv
<1>3. TypeInv' BY DEF IInv, TypeInv
<1>4. ClientInv'
  <2>1. ClientsIn(Coming', pending, flight, asking)
    BY <1>2, OthersTaken DEF IInv, ClientInv
  <2>2. KindCount(Coming, "PrepareSleep") = One(voting) BY DEF IInv, ClientInv, Count
  <2>3. One(voting) \in {0, 1} /\ One(voting)' = 0 BY DEF One
  <2>4. Count("PrepareSleep")' = One(voting)' BY <1>2, <2>2, <2>3 DEF Count
  <2>. QED BY <2>1, <2>4 DEF IInv, ClientInv
<1>5. state = "idle" => pending' = <<>> BY DEF IInv, PlaceInv
<1>. QED BY <1>3, <1>4, <1>5, QuietDispatch

LEMMA RequestDispatched ==
  ASSUME IInv, Dispatching("Request"), queue' = queue, pc' = "return"
  PROVE  /\ cur.arg \in asking \ (Members(pending) \cup {flight})
         /\ ClientsIn(Coming', pending, flight, asking \ {cur.arg})
         /\ ClientsIn(Coming', Append(pending, cur.arg), flight, asking)
         /\ flight = Nobody => ClientsIn(Coming', pending, cur.arg, asking)
         /\ Cardinality(asking \ {cur.arg}) <= Budget /\ Cardinality(asking) <= Budget
         /\ Count("PrepareSleep")' = One(voting)
<1>1. "Request" \in Kinds BY DEF Kinds
<1>2. /\ Coming \in Seq(Message) /\ Coming # <<>> /\ Head(Coming) = cur /\ cur.kind = "Request"
      /\ Coming' = Tail(Coming)
      /\ KindCount(Coming', "PrepareSleep") = KindCount(Coming, "PrepareSleep")
  BY <1>1, Handled DEF IInv
<1>3. /\ pending \in Seq(Client) /\ flight \in Client \cup {Nobody} /\ asking \in SUBSET Client
      /\ Ordered(Coming, seq) /\ ClientsIn(Coming, pending, flight, asking)
  BY DEF IInv, TypeInv, OrderInv, ClientInv
<1>4. /\ cur.arg \in asking \ (Members(pending) \cup {flight})
      /\ ClientsIn(Coming', pending, flight, asking \ {cur.arg})
      /\ ClientsIn(Coming', Append(pending, cur.arg), flight, asking)
      /\ flight = Nobody => ClientsIn(Coming', pending, cur.arg, asking)
  BY <1>2, <1>3, RequestTaken
<1>5. Cardinality(asking) <= Budget /\ Cardinality(asking) \in Nat /\ Budget \in Nat
  BY <1>3, AskingCounted, CountsAssumption DEF IInv, ClientInv
<1>6. Cardinality(asking \ {cur.arg}) <= Budget
  <2>1. Cardinality(asking \ {cur.arg}) = Cardinality(asking) - 1 BY <1>3, <1>4, AskingCounted
  <2>. QED BY <1>5, <2>1
<1>7. Count("PrepareSleep")' = One(voting) BY <1>2 DEF IInv, ClientInv, Count
<1>. QED BY <1>4, <1>5, <1>6, <1>7

LEMMA WaitOrRejectIInv == IInv /\ WaitOrReject => IInv'
<1>. SUFFICES ASSUME IInv, WaitOrReject PROVE IInv' OBVIOUS
<1>. USE DEF WaitOrReject
<1>1. /\ cur.arg \in asking \ (Members(pending) \cup {flight})
      /\ ClientsIn(Coming', pending, flight, asking \ {cur.arg})
      /\ ClientsIn(Coming', Append(pending, cur.arg), flight, asking)
      /\ Cardinality(asking \ {cur.arg}) <= Budget /\ Cardinality(asking) <= Budget
      /\ Count("PrepareSleep")' = One(voting)
  BY RequestDispatched
<1>2. asking \in SUBSET Client /\ pending \in Seq(Client) BY DEF IInv, TypeInv
<1>3. One(voting)' = One(voting) BY DEF One
<1>4. CASE Reply(cur.arg) /\ UNCHANGED <<pending, lent>>
  <2>1. asking' = asking \ {cur.arg} BY <1>4 DEF Reply
  <2>2. TypeInv' BY <1>2, <1>4, <2>1 DEF IInv, TypeInv
  <2>3. ClientInv' BY <1>1, <1>3, <1>4, <2>1 DEF ClientInv
  <2>4. state = "idle" => pending' = <<>> OBVIOUS
  <2>. QED BY <2>2, <2>3, <2>4, QuietDispatch
<1>5. CASE Len(pending) < Depth /\ pending' = Append(pending, cur.arg) /\ lent' = FALSE /\ UNCHANGED asking
  <2>1. cur.arg \in Client BY <1>1, <1>2
  <2>2. pending' \in Seq(Client) /\ Len(pending') = Len(pending) + 1
    BY <1>2, <1>5, <2>1, MembersAppended
  <2>3. Len(pending') <= Depth
    <3>1. Len(pending) \in Nat BY <1>2
    <3>. QED BY <1>5, <2>2, <3>1, DepthAssumption
  <2>4. TypeInv' BY <1>2, <1>5, <2>2, <2>3 DEF IInv, TypeInv
  <2>5. ClientInv' BY <1>1, <1>3, <1>5 DEF ClientInv
  <2>6. state = "idle" => pending' = <<>> OBVIOUS
  <2>. QED BY <2>4, <2>5, <2>6, QuietDispatch
<1>. QED BY <1>4, <1>5

-----------------------------------------------------------------------------
\* Once the bus has had its completion, what may still be before the arbiter:
\* no completion, no marker, no time-out but the last transfer's.
Settled(w, n) ==
  /\ Ordered(w, n)
  /\ TimeoutsOf(w, IF timed THEN {n} ELSE {})
  /\ KindCount(w, "TransferDone") = 0
  /\ KindCount(w, "BusFlushed") = 0

\* The next transfer: the last time-out, if it waits, becomes a late one.
LEMMA NextTransfer ==
  ASSUME NEW w \in Seq(Message), NEW n \in Sequence, Settled(w, n), timed
  PROVE  Ordered(w, Following(n)) /\ TimeoutsOf(w, {Preceding(Following(n))})
<1>1. Following(n) # n /\ Preceding(Following(n)) = n BY SequenceNumbers
<1>2. TimeoutsOf(w, {n}) BY DEF Settled
<1>3. \A k \in 1 .. Len(w) : w[k].kind # "TransferDone" BY KindCountType DEF Settled
<1>4. ASSUME NEW j \in 1 .. Len(w), NEW k \in 1 .. Len(w), j < k
      PROVE  ~Clash(w[j], w[k], Following(n))
  <2>1. ~Clash(w[j], w[k], n) BY <1>4 DEF Settled, Ordered
  <2>2. /\ w[j].kind = "BusTimeout" => w[j].arg = n
        /\ w[j].kind # "TransferDone"
    BY <1>2, <1>3 DEF TimeoutsOf
  <2>. QED BY <1>1, <2>1, <2>2 DEF Clash
<1>. QED BY <1>1, <1>2, <1>4 DEF Ordered

LEMMA GoesAsyncIInv ==
  ASSUME IInv, NEW c \in Client, GoesAsync(c), state' = "busy", pc' = "return",
         UNCHANGED <<timed, queue, cur, lost>>, answered' = FALSE, lent' \in BOOLEAN,
         Settled(Coming', seq), Coming' \in Seq(Message), attempt' \in 0 .. MaxAttempts,
         pending' \in Seq(Client), Len(pending') <= Depth, asking' \in SUBSET Client,
         voting' \in BOOLEAN, ClientInv'
  PROVE  IInv'
<1>. USE DEF GoesAsync
<1>1. seq \in Sequence /\ timed \in BOOLEAN BY TimingsAssumption DEF IInv, TypeInv
<1>2. seq' = IF timed THEN Following(seq) ELSE seq BY DEF Following
<1>3. seq' \in Sequence BY <1>1, <1>2, SequenceNumbers
<1>4. TypeInv' BY <1>1, <1>3 DEF IInv, TypeInv
<1>5. c # Nobody BY ClientAssumption
<1>6. Moving' /\ ~TimingOut' BY DEF Moving, TimingOut
<1>7. PlaceInv' BY <1>5, <1>6 DEF PlaceInv
<1>8. OwedInv'
  <2>1. Count("TransferDone")' = 0 /\ Count("BusFlushed")' = 0 BY DEF Settled, Count
  <2>2. One(engine # Nobody)' = 1 BY <1>5 DEF One
  <2>3. Owed' = 1 BY <2>1, <2>2 DEF Owed
  <2>4. One(state = "draining" /\ Moving)' = 0 BY DEF One
  <2>5. Owed' <= 1 /\ Count("BusFlushed")' <= One(state = "draining" /\ Moving)' BY <2>1, <2>3, <2>4
  <2>. QED BY <1>5, <1>6, <2>3, <2>5 DEF OwedInv
<1>9. TimerInv' /\ OrderInv'
  <2>1. CASE timed
    <3>1. Ordered(Coming', seq') /\ TimeoutsOf(Coming', {Preceding(seq')})
      BY <1>1, <1>2, <2>1, NextTransfer
    <3>2. armed' = TRUE /\ MayBeLate' /\ ~MayBeTimely' BY <1>6, <2>1 DEF MayBeLate, MayBeTimely
    <3>3. TimeoutArgs' = {Preceding(seq')} BY <3>2 DEF TimeoutArgs
    <3>. QED BY <3>1, <3>2, <3>3 DEF TimerInv, OrderInv
  <2>2. CASE ~timed
    <3>1. armed' = FALSE /\ ~MayBeLate' /\ ~MayBeTimely' BY <1>1, <2>2 DEF MayBeLate, MayBeTimely
    <3>2. TimeoutArgs' = {} BY <3>1 DEF TimeoutArgs
    <3>3. TimeoutsOf(Coming', {}) /\ Ordered(Coming', seq') BY <1>2, <2>2 DEF Settled
    <3>. QED BY <3>1, <3>2, <3>3 DEF TimerInv, OrderInv
  <2>. QED BY <2>1, <2>2
<1>. QED BY <1>4, <1>7, <1>8, <1>9 DEF IInv, NothingDropped

\* No time-out of an earlier transfer where none may be late.
LEMMA OnlyTheLast ==
  ASSUME IInv, NEW w, TimeoutsOf(w, TimeoutArgs), ~MayBeLate
  PROVE  TimeoutsOf(w, IF timed THEN {seq} ELSE {})
<1>1. TimeoutArgs \subseteq IF timed THEN {seq} ELSE {} BY DEF TimeoutArgs, MayBeTimely
<1>. QED BY <1>1 DEF TimeoutsOf

LEMMA BeginRequestIInv == IInv /\ BeginRequest => IInv'
<1>. SUFFICES ASSUME IInv, BeginRequest PROVE IInv' OBVIOUS
<1>. USE DEF BeginRequest
<1>. DEFINE c == cur.arg
<1>1. /\ c \in asking \ (Members(pending) \cup {flight})
      /\ ClientsIn(Coming', pending, flight, asking \ {c})
      /\ flight = Nobody => ClientsIn(Coming', pending, c, asking)
      /\ Cardinality(asking \ {c}) <= Budget /\ Cardinality(asking) <= Budget
      /\ Count("PrepareSleep")' = One(voting)
  BY RequestDispatched
<1>2. asking \in SUBSET Client /\ c \in Client BY <1>1 DEF IInv, TypeInv
<1>4. Moving /\ ~TimingOut /\ pc = "handle" BY DEF Moving, TimingOut, Dispatching
<1>5. flight = Nobody /\ engine = Nobody /\ answered = FALSE /\ armed = FALSE
  BY <1>4 DEF IInv, TypeInv, PlaceInv, OwedInv, TimerInv, MayBeLate
<1>6. 0 \in 0 .. MaxAttempts BY CountsAssumption
<1>7. One(voting)' = One(voting) BY DEF One
<1>8. CASE GoesAsync(c) /\ lent' = FALSE /\ state' = "busy" /\ UNCHANGED asking
  <2>1. /\ Coming \in Seq(Message) /\ Coming # <<>> /\ Coming' = Tail(Coming) /\ Coming' \in Seq(Message)
        /\ KindCount(Coming', "TransferDone") = KindCount(Coming, "TransferDone")
        /\ KindCount(Coming', "BusFlushed") = KindCount(Coming, "BusFlushed")
    BY <1>4, Handled DEF IInv, Kinds
  <2>2. TimeoutsOf(Coming', TimeoutArgs) /\ Ordered(Coming', seq)
    BY <1>4, HandledOrder DEF Kinds
  <2>3. TimeoutsOf(Coming', IF timed THEN {seq} ELSE {}) BY <2>2, OnlyTheLast DEF MayBeLate
  <2>4. Count("TransferDone") = 0 /\ Count("BusFlushed") = 0
    <3>1. Owed = 0 /\ Count("BusFlushed") <= One(state = "draining" /\ Moving) BY DEF IInv, OwedInv
    <3>2. One(state = "draining" /\ Moving) = 0 /\ One(engine # Nobody) = 0 BY <1>5 DEF One
    <3>3. Count("TransferDone") \in Nat /\ Count("BusFlushed") \in Nat BY Numbers DEF IInv
    <3>4. Owed = Count("TransferDone") + 0 BY <3>2 DEF Owed
    <3>. QED BY <3>1, <3>2, <3>3, <3>4
  <2>5. Settled(Coming', seq) BY <2>1, <2>2, <2>3, <2>4 DEF Settled, Count
  <2>6. pending' \in Seq(Client) /\ Len(pending') <= Depth /\ voting' \in BOOLEAN
    BY DEF IInv, TypeInv
  <2>7. flight' = c BY <1>8 DEF GoesAsync
  <2>8. ClientInv' BY <1>1, <1>5, <1>7, <1>8, <2>7 DEF ClientInv
  <2>. HIDE DEF c
  <2>. QED BY <1>2, <1>5, <1>6, <1>8, <2>1, <2>5, <2>6, <2>8, GoesAsyncIInv
<1>9. CASE Reply(c) /\ UNCHANGED <<engine, flight, seq, armed, lent, state>>
  <2>1. asking' = asking \ {c} BY <1>9 DEF Reply
  <2>2. TypeInv' BY <1>2, <1>6, <1>9, <2>1 DEF IInv, TypeInv
  <2>3. ClientInv' BY <1>1, <1>7, <1>9, <2>1 DEF ClientInv
  <2>4. pending' = <<>> BY DEF IInv, PlaceInv
  <2>5. \A kind \in {"TransferDone", "BusFlushed"} : Count(kind)' = Count(kind)
    BY <1>4, Handled DEF IInv, Kinds, Count
  <2>6. Moving' /\ ~TimingOut' BY DEF Moving, TimingOut
  <2>7. PlaceInv' BY <1>4, <1>9, <2>6 DEF IInv, PlaceInv
  <2>8. OwedInv' BY <1>4, <1>9, <2>5, <2>6, SameOwed DEF IInv
  <2>9. TimeoutsOf(Coming', TimeoutArgs) /\ Ordered(Coming', seq)
    BY <1>4, HandledOrder DEF Kinds
  <2>10. TimerInv' BY <1>4, <1>9, <2>6, <2>9, SameTimer DEF IInv
  <2>11. OrderInv' BY <1>9, <2>9 DEF OrderInv
  <2>. QED BY <2>2, <2>3, <2>7, <2>8, <2>10, <2>11 DEF IInv, NothingDropped
<1>. QED BY <1>8, <1>9

-----------------------------------------------------------------------------
\* The completion of a busy bus is its transfer's, and settles it.
LEMMA DoneSettles ==
  ASSUME IInv, Dispatching("TransferDone"), state = "busy", queue' = queue, pc' # "handle",
         voting' = voting
  PROVE  /\ Coming' \in Seq(Message) /\ Settled(Coming', seq)
         /\ flight \in Client /\ engine = Nobody
         /\ ClientsIn(Coming', pending, flight, asking)
         /\ Count("PrepareSleep")' = One(voting)'
<1>1. pc = "handle" /\ Moving BY DEF Dispatching, Moving
<1>2. /\ Coming \in Seq(Message) /\ Coming # <<>> /\ Head(Coming) = cur /\ cur.kind = "TransferDone"
      /\ Coming' = Tail(Coming) /\ Coming' \in Seq(Message)
      /\ KindCount(Coming', "TransferDone") = KindCount(Coming, "TransferDone") - 1
      /\ KindCount(Coming', "TransferDone") \in Nat /\ KindCount(Coming, "TransferDone") \in Nat
      /\ KindCount(Coming', "BusFlushed") = KindCount(Coming, "BusFlushed")
      /\ KindCount(Coming', "PrepareSleep") = KindCount(Coming, "PrepareSleep")
  BY <1>1, Handled DEF IInv, Kinds
<1>3. /\ TimeoutsOf(Coming', TimeoutArgs) /\ Ordered(Coming', seq)
      /\ \A k \in 1 .. Len(Coming') : ~Clash(cur, Coming'[k], seq)
  BY <1>1, HandledOrder DEF Kinds
<1>4. TimeoutsOf(Coming', IF timed THEN {seq} ELSE {})
  <2>1. timed \/ TimeoutArgs = {} BY DEF TimeoutArgs, MayBeTimely, MayBeLate
  <2>2. \A k \in 1 .. Len(Coming') : Coming'[k].kind = "BusTimeout" => Coming'[k].arg = seq
    BY <1>2, <1>3 DEF Clash
  <2>. QED BY <1>3, <2>1, <2>2 DEF TimeoutsOf
<1>5. KindCount(Coming', "TransferDone") = 0 /\ engine = Nobody
  <2>1. Owed = 1 /\ Owed = KindCount(Coming, "TransferDone") + One(engine # Nobody)
    BY <1>1 DEF IInv, OwedInv, Owed, Count
  <2>2. One(engine # Nobody) \in {0, 1} BY DEF One
  <2>3. KindCount(Coming', "TransferDone") = 0 /\ One(engine # Nobody) = 0 BY <1>2, <2>1, <2>2
  <2>. QED BY <2>3 DEF One
<1>6. KindCount(Coming', "BusFlushed") = 0
  <2>1. One(state = "draining" /\ Moving) = 0 BY DEF One
  <2>2. KindCount(Coming, "BusFlushed") <= 0 BY <2>1 DEF IInv, OwedInv, Count
  <2>3. KindCount(Coming, "BusFlushed") \in Nat BY <1>2, KindCountType
  <2>. QED BY <1>2, <2>2, <2>3
<1>7. flight \in Client BY <1>1 DEF IInv, TypeInv, PlaceInv
<1>8. ClientsIn(Coming', pending, flight, asking) BY <1>2, OthersTaken DEF IInv, ClientInv
<1>9. One(voting)' = One(voting) BY DEF One
<1>. QED BY <1>2, <1>3, <1>4, <1>5, <1>6, <1>7, <1>8, <1>9 DEF Settled, IInv, ClientInv, Count

\* A completion answered: the slot of the reply is given back in a step of
\* its own.
LEMMA FinishedIInv ==
  ASSUME IInv, Dispatching("TransferDone"), state = "busy",
         attempt' = 0, armed' = FALSE, Finish,
         UNCHANGED <<timed, queue, cur, lent, state, pending, seq, engine, voting, lost>>
  PROVE  IInv'
<1>. USE DEF Finish
<1>1. /\ Coming' \in Seq(Message) /\ Settled(Coming', seq)
      /\ flight \in Client /\ engine = Nobody
      /\ ClientsIn(Coming', pending, flight, asking)
      /\ Count("PrepareSleep")' = One(voting)'
  BY DoneSettles
<1>2. asking' = asking \ {flight} BY DEF Reply
<1>3. asking \in SUBSET Client /\ pending \in Seq(Client) BY DEF IInv, TypeInv
<1>4. TypeInv'
  <2>1. 0 \in 0 .. MaxAttempts BY CountsAssumption
  <2>. QED BY <1>2, <1>3, <2>1 DEF IInv, TypeInv
<1>5. cur.kind = "TransferDone" /\ lent BY DEF Dispatching, IInv, PlaceInv
<1>6. ~Moving' /\ ~TimingOut' BY <1>5 DEF Moving, TimingOut
<1>7. PlaceInv' BY <1>5, <1>6 DEF IInv, PlaceInv
<1>8. ClientInv'
  <2>1. flight \in asking /\ ClientsIn(Coming', pending, Nobody, asking \ {flight})
    BY <1>1, <1>3, FlightAnswered
  <2>2. Cardinality(asking \ {flight}) <= Budget
    <3>1. Cardinality(asking \ {flight}) = Cardinality(asking) - 1 /\ Cardinality(asking) \in Nat
      BY <1>3, <2>1, AskingCounted
    <3>2. Cardinality(asking) <= Budget BY DEF IInv, ClientInv
    <3>. QED BY <3>1, <3>2, CountsAssumption
  <2>. QED BY <1>1, <1>2, <2>1, <2>2 DEF ClientInv
<1>9. OwedInv'
  <2>1. Count("TransferDone")' = 0 /\ Count("BusFlushed")' = 0 BY <1>1 DEF Settled, Count
  <2>2. One(engine # Nobody)' = 0 BY <1>1 DEF One
  <2>3. Owed' = 0 BY <2>1, <2>2 DEF Owed
  <2>4. One(state = "draining" /\ Moving)' = 0 BY DEF One
  <2>5. Owed' <= 1 /\ Count("BusFlushed")' <= One(state = "draining" /\ Moving)' BY <2>1, <2>3, <2>4
  <2>. QED BY <1>1, <1>6, <2>3, <2>5 DEF OwedInv
<1>10. TimerInv'
  <2>1. ~MayBeLate' /\ (MayBeTimely' <=> timed) BY <1>6 DEF MayBeLate, MayBeTimely
  <2>2. TimeoutArgs' = IF timed THEN {seq} ELSE {} BY <2>1 DEF TimeoutArgs
  <2>. QED BY <1>1, <2>1, <2>2 DEF TimerInv, Settled
<1>11. OrderInv' BY <1>1 DEF OrderInv, Settled
<1>. QED BY <1>4, <1>7, <1>8, <1>9, <1>10, <1>11 DEF IInv, NothingDropped

LEMMA CompleteIInv == IInv /\ Complete => IInv'
BY FinishedIInv DEF Complete

LEMMA RetryIInv == IInv /\ Retry => IInv'
<1>. SUFFICES ASSUME IInv, Retry PROVE IInv' OBVIOUS
<1>. USE DEF Retry
<1>1. CASE attempt' = 0 /\ armed' = FALSE /\ Finish /\ UNCHANGED <<engine, seq>>
  BY <1>1, FinishedIInv
<1>2. CASE /\ attempt' = attempt + 1 /\ GoesAsync(flight)
           /\ pc' = "return" /\ UNCHANGED <<asking, answered>>
  <2>1. /\ Coming' \in Seq(Message) /\ Settled(Coming', seq)
        /\ flight \in Client /\ engine = Nobody
        /\ ClientsIn(Coming', pending, flight, asking)
        /\ Count("PrepareSleep")' = One(voting)'
    BY <1>2, DoneSettles
  <2>2. attempt' \in 0 .. MaxAttempts
    <3>1. attempt \in 0 .. MaxAttempts /\ attempt < MaxAttempts BY DEF IInv, TypeInv
    <3>. QED BY <1>2, <3>1, CountsAssumption
  <2>3. /\ pending' \in Seq(Client) /\ Len(pending') <= Depth /\ asking' \in SUBSET Client
        /\ voting' \in BOOLEAN /\ lent' \in BOOLEAN
    BY <1>2 DEF IInv, TypeInv
  <2>4. answered' = FALSE BY <1>2 DEF Dispatching, IInv, TypeInv, PlaceInv
  <2>5. flight' = flight BY <1>2 DEF GoesAsync
  <2>6. ClientInv' BY <1>2, <2>1, <2>5 DEF IInv, ClientInv
  <2>. QED BY <1>2, <2>1, <2>2, <2>3, <2>4, <2>6, GoesAsyncIInv
<1>. QED BY <1>1, <1>2

\* begin_waiting(), the bus settled: it goes idle, the first that waits goes
\* out, or is answered at once.
LEMMA NextWaitingIInv ==
  ASSUME IInv, NextWaiting, UNCHANGED <<timed, queue, cur, lent, voting, lost>>,
         Coming' \in Seq(Message), Settled(Coming', seq),
         flight = Nobody, engine = Nobody, armed = FALSE, lent = TRUE,
         ClientsIn(Coming', pending, Nobody, asking), Count("PrepareSleep")' = One(voting)',
         cur.kind \in {"TransferDone", "BusFlushed"},
         state = IF cur.kind = "BusFlushed" THEN "draining" ELSE "busy"
  PROVE  IInv'
<1>. USE DEF NextWaiting
<1>1. /\ asking \in SUBSET Client /\ pending \in Seq(Client) /\ Len(pending) <= Depth
      /\ voting \in BOOLEAN
  BY DEF IInv, TypeInv
<1>2. 0 \in 0 .. MaxAttempts BY CountsAssumption
<1>3. Cardinality(asking) <= Budget BY DEF IInv, ClientInv
<1>4. Count("TransferDone")' = 0 /\ Count("BusFlushed")' = 0 BY DEF Settled, Count
<1>5. ASSUME ~MayBeLate', MayBeTimely' <=> timed, seq' = seq, armed' = FALSE
      PROVE  TimerInv' /\ OrderInv'
  <2>1. TimeoutArgs' = IF timed THEN {seq} ELSE {} BY <1>5 DEF TimeoutArgs
  <2>. QED BY <1>5, <2>1 DEF TimerInv, OrderInv, Settled
<1>6. CASE /\ pending = <<>>
           /\ state' = "idle" /\ answered' = FALSE /\ pc' = "return"
           /\ UNCHANGED <<pending, attempt, engine, flight, seq, armed, asking>>
  <2>1. TypeInv' BY <1>6 DEF IInv, TypeInv
  <2>2. Moving' /\ ~TimingOut' BY <1>6 DEF Moving, TimingOut
  <2>3. PlaceInv' BY <1>6, <2>2 DEF IInv, PlaceInv
  <2>4. ClientInv' BY <1>3, <1>6 DEF ClientInv
  <2>5. ~MayBeLate' /\ (MayBeTimely' <=> timed) BY <1>6, <2>2 DEF MayBeLate, MayBeTimely
  <2>6. TimerInv' /\ OrderInv' BY <1>5, <1>6, <2>5
  <2>7. OwedInv'
    <3>1. One(engine # Nobody)' = 0 BY <1>6 DEF One
    <3>2. Owed' = 0 BY <1>4, <3>1 DEF Owed
    <3>3. One(state = "draining" /\ Moving)' = 0 BY <1>6 DEF One
    <3>4. Owed' <= 1 /\ Count("BusFlushed")' <= One(state = "draining" /\ Moving)'
      BY <1>4, <3>2, <3>3
    <3>. QED BY <1>6, <3>2, <3>4 DEF OwedInv
  <2>. QED BY <2>1, <2>3, <2>4, <2>6, <2>7 DEF IInv, NothingDropped
<1>7. ASSUME pending # <<>>
      PROVE  /\ Head(pending) \in Client /\ Head(pending) \in asking
             /\ Tail(pending) \in Seq(Client) /\ Len(Tail(pending)) <= Depth
             /\ ClientsIn(Coming', Tail(pending), Head(pending), asking)
             /\ ClientsIn(Coming', Tail(pending), Nobody, asking \ {Head(pending)})
             /\ Cardinality(asking \ {Head(pending)}) <= Budget
  <2>1. /\ Head(pending) \in Client /\ Tail(pending) \in Seq(Client)
        /\ Len(pending) \in Nat \ {0} /\ Len(Tail(pending)) = Len(pending) - 1
    BY <1>1, <1>7, MembersTaken
  <2>2. /\ Head(pending) \in asking
        /\ ClientsIn(Coming', Tail(pending), Head(pending), asking)
        /\ ClientsIn(Coming', Tail(pending), Nobody, asking \ {Head(pending)})
    BY <1>1, <1>7, NextTaken
  <2>3. Len(Tail(pending)) <= Depth BY <1>1, <2>1, DepthAssumption
  <2>4. Cardinality(asking \ {Head(pending)}) <= Budget
    <3>1. /\ Cardinality(asking \ {Head(pending)}) = Cardinality(asking) - 1
          /\ Cardinality(asking) \in Nat
      BY <1>1, <2>2, AskingCounted
    <3>. QED BY <1>3, <3>1, CountsAssumption
  <2>. QED BY <2>1, <2>2, <2>3, <2>4
<1>8. CASE /\ pending # <<>> /\ pending' = Tail(pending) /\ attempt' = 0
           /\ GoesAsync(Head(pending))
           /\ state' = "busy" /\ answered' = FALSE /\ pc' = "return"
           /\ UNCHANGED asking
  <2>1. flight' = Head(pending) BY <1>8 DEF GoesAsync
  <2>2. ClientInv' BY <1>3, <1>7, <1>8, <2>1 DEF ClientInv
  <2>3. lent' \in BOOLEAN /\ voting' \in BOOLEAN BY <1>1
  <2>. QED BY <1>1, <1>2, <1>7, <1>8, <2>2, <2>3, GoesAsyncIInv
<1>9. CASE /\ pending # <<>> /\ pending' = Tail(pending) /\ attempt' = 0
           /\ Reply(Head(pending)) /\ answered' = TRUE /\ pc' = "release"
           /\ UNCHANGED <<engine, flight, seq, armed, state>>
  <2>1. asking' = asking \ {Head(pending)} BY <1>9 DEF Reply
  <2>2. TypeInv' BY <1>1, <1>2, <1>7, <1>9, <2>1 DEF IInv, TypeInv
  <2>3. ~Moving' /\ ~TimingOut' BY <1>9 DEF Moving, TimingOut
  <2>4. PlaceInv' BY <1>9, <2>3 DEF IInv, PlaceInv
  <2>5. ClientInv' BY <1>7, <1>9, <2>1 DEF ClientInv
  <2>6. ~MayBeLate' /\ (MayBeTimely' <=> timed) BY <1>9, <2>3 DEF MayBeLate, MayBeTimely
  <2>7. TimerInv' /\ OrderInv' BY <1>5, <1>9, <2>6
  <2>8. OwedInv'
    <3>1. One(engine # Nobody)' = 0 BY <1>9 DEF One
    <3>2. Owed' = 0 BY <1>4, <3>1 DEF Owed
    <3>3. One(state = "draining" /\ Moving)' = 0 BY <2>3 DEF One
    <3>4. Owed' <= 1 /\ Count("BusFlushed")' <= One(state = "draining" /\ Moving)'
      BY <1>4, <3>2, <3>3
    <3>. QED BY <1>9, <2>3, <3>2, <3>4 DEF OwedInv
  <2>. QED BY <2>2, <2>4, <2>5, <2>7, <2>8 DEF IInv, NothingDropped
<1>. QED BY <1>6, <1>8, <1>9

LEMMA ReleaseIInv == IInv /\ Release => IInv'
<1>. SUFFICES ASSUME IInv, Release PROVE IInv' OBVIOUS
<1>. USE DEF Release
<1>1. ~Moving /\ ~TimingOut /\ ~MayBeLate BY DEF Moving, TimingOut, MayBeLate
<1>2. /\ flight = Nobody /\ engine = Nobody /\ armed = FALSE /\ lent = TRUE
      /\ cur.kind \in {"TransferDone", "BusFlushed"}
      /\ state = IF cur.kind = "BusFlushed" THEN "draining" ELSE "busy"
  BY <1>1 DEF IInv, TypeInv, PlaceInv, OwedInv, TimerInv
<1>3. pc' # "handle" BY DEF NextWaiting
<1>4. Coming \in Seq(Message) /\ Coming' = Coming BY <1>3, ComingFacts DEF IInv, Coming
<1>5. Settled(Coming, seq)
  <2>1. TimeoutsOf(Coming, IF timed THEN {seq} ELSE {}) BY <1>1, OnlyTheLast DEF IInv, TimerInv
  <2>2. Owed = 0 /\ One(engine # Nobody) = 0 BY <1>1, <1>2 DEF IInv, OwedInv, One
  <2>3. Count("TransferDone") \in Nat /\ Count("BusFlushed") \in Nat BY Numbers DEF IInv
  <2>4. Count("TransferDone") = 0
    <3>1. Owed = Count("TransferDone") + 0 BY <2>2 DEF Owed
    <3>. QED BY <2>2, <2>3, <3>1
  <2>5. Count("BusFlushed") = 0
    <3>1. One(state = "draining" /\ Moving) = 0 BY <1>1 DEF One
    <3>2. Count("BusFlushed") <= 0 BY <3>1 DEF IInv, OwedInv
    <3>. QED BY <2>3, <3>2
  <2>. QED BY <2>1, <2>4, <2>5 DEF IInv, OrderInv, Settled, Count
<1>6. ClientsIn(Coming', pending, Nobody, asking) BY <1>2, <1>4 DEF IInv, ClientInv
<1>7. Count("PrepareSleep")' = One(voting)'
  <2>1. One(voting)' = One(voting) BY DEF One
  <2>. QED BY <1>4, <2>1 DEF IInv, ClientInv, Count
<1>. QED BY <1>2, <1>4, <1>5, <1>6, <1>7, NextWaitingIInv

\* The marker comes after the dead transfer's completion, if that was on its
\* way: the bus is settled.
LEMMA FlushedIInv == IInv /\ Flushed => IInv'
<1>. SUFFICES ASSUME IInv, Flushed PROVE IInv' OBVIOUS
<1>. USE DEF Flushed
<1>1. /\ pc = "handle" /\ Moving /\ ~TimingOut /\ ~MayBeLate /\ ~MayBeTimely
      /\ cur.kind = "BusFlushed"
  BY DEF Dispatching, Moving, TimingOut, MayBeLate, MayBeTimely
<1>2. pc' # "handle" BY DEF NextWaiting
<1>3. /\ Coming \in Seq(Message) /\ Coming' = Tail(Coming) /\ Coming' \in Seq(Message)
      /\ Coming # <<>> /\ Head(Coming) = cur
      /\ KindCount(Coming', "BusFlushed") = KindCount(Coming, "BusFlushed") - 1
      /\ KindCount(Coming', "PrepareSleep") = KindCount(Coming, "PrepareSleep")
      /\ \A k : KindCount(Coming, k) \in Nat /\ KindCount(Coming', k) \in Nat
  BY <1>2, Handled DEF IInv, Kinds
<1>4. /\ flight = Nobody /\ engine = Nobody /\ armed = FALSE /\ lent = TRUE
  BY <1>1 DEF IInv, TypeInv, PlaceInv, OwedInv, TimerInv
<1>5. Settled(Coming', seq)
  <2>1. /\ TimeoutsOf(Coming', TimeoutArgs) /\ Ordered(Coming', seq)
        /\ \A k \in 1 .. Len(Coming') : ~Clash(cur, Coming'[k], seq)
    BY <1>2, HandledOrder DEF Kinds
  <2>2. TimeoutsOf(Coming', IF timed THEN {seq} ELSE {}) BY <1>1, <2>1, OnlyTheLast
  <2>3. \A k \in 1 .. Len(Coming') : Coming'[k].kind # "TransferDone" BY <1>1, <2>1 DEF Clash
  <2>4. KindCount(Coming', "TransferDone") = 0 BY <1>3, <2>3, KindCountType
  <2>5. KindCount(Coming', "BusFlushed") = 0
    <3>1. One(state = "draining" /\ Moving) \in {0, 1} BY DEF One
    <3>2. KindCount(Coming, "BusFlushed") <= 1 BY <1>3, <3>1 DEF IInv, OwedInv, Count
    <3>. QED BY <1>3, <3>2
  <2>. QED BY <2>1, <2>2, <2>4, <2>5 DEF Settled
<1>6. ClientsIn(Coming', pending, Nobody, asking)
  BY <1>1, <1>3, <1>4, OthersTaken DEF IInv, ClientInv
<1>7. Count("PrepareSleep")' = One(voting)'
  <2>1. One(voting)' = One(voting) BY DEF One
  <2>. QED BY <1>3, <2>1 DEF IInv, ClientInv, Count
<1>. QED BY <1>1, <1>3, <1>4, <1>5, <1>6, <1>7, NextWaitingIInv

-----------------------------------------------------------------------------
\* The time-out of the transfer in flight is the last one: the timer has
\* fired, and nothing late is behind it.
LEMMA TimedOutItself ==
  ASSUME IInv, Dispatching("BusTimeout"), cur.arg = seq, queue' = queue, pc' # "handle"
  PROVE  armed = FALSE /\ timed /\ TimeoutsOf(Coming', {})
<1>1. /\ TimeoutsOf(Coming', TimeoutArgs) /\ cur.arg \in TimeoutArgs
      /\ \A k \in 1 .. Len(Coming') : ~Clash(cur, Coming'[k], seq)
  BY HandledOrder DEF Kinds
<1>2. seq # Preceding(seq) BY SequenceNumbers DEF IInv, TypeInv
<1>3. MayBeTimely BY <1>1, <1>2 DEF TimeoutArgs
<1>4. armed = FALSE /\ timed BY <1>3 DEF MayBeTimely, IInv, TypeInv
<1>5. \A k \in 1 .. Len(Coming') : Coming'[k].kind # "BusTimeout" BY <1>1 DEF Clash, Dispatching
<1>. QED BY <1>4, <1>5 DEF TimeoutsOf

LEMMA TimeoutIInv == IInv /\ Timeout => IInv'
<1>. SUFFICES ASSUME IInv, Timeout PROVE IInv' OBVIOUS
<1>. USE DEF Timeout, Finish
<1>1. pc = "handle" /\ Moving /\ cur.kind = "BusTimeout" BY DEF Dispatching, Moving
<1>2. armed = FALSE /\ timed /\ TimeoutsOf(Coming', {}) BY TimedOutItself
<1>3. /\ Coming \in Seq(Message) /\ Coming # <<>> /\ Head(Coming) = cur /\ Coming' = Tail(Coming)
      /\ Coming' \in Seq(Message)
      /\ KindCount(Coming', "TransferDone") = KindCount(Coming, "TransferDone")
      /\ KindCount(Coming', "BusFlushed") = KindCount(Coming, "BusFlushed")
      /\ KindCount(Coming', "PrepareSleep") = KindCount(Coming, "PrepareSleep")
  BY Handled DEF IInv, Kinds
<1>4. asking \in SUBSET Client /\ pending \in Seq(Client) /\ flight \in Client /\ lent = TRUE
  BY <1>1 DEF IInv, TypeInv, PlaceInv
<1>5. asking' = asking \ {flight} BY DEF Reply
<1>6. TypeInv'
  <2>1. 0 \in 0 .. MaxAttempts BY CountsAssumption
  <2>. QED BY <1>4, <1>5, <2>1 DEF IInv, TypeInv
<1>7. ~Moving' /\ TimingOut' BY <1>1 DEF Moving, TimingOut
<1>8. PlaceInv' BY <1>1, <1>2, <1>4, <1>7 DEF IInv, PlaceInv
<1>9. ClientInv'
  <2>1. ClientsIn(Coming', pending, flight, asking)
    BY <1>1, <1>3, OthersTaken DEF IInv, ClientInv
  <2>2. flight \in asking /\ ClientsIn(Coming', pending, Nobody, asking \ {flight})
    BY <1>3, <1>4, <2>1, FlightAnswered
  <2>3. Cardinality(asking \ {flight}) <= Budget
    <3>1. Cardinality(asking \ {flight}) = Cardinality(asking) - 1 /\ Cardinality(asking) \in Nat
      BY <1>4, <2>2, AskingCounted
    <3>2. Cardinality(asking) <= Budget BY DEF IInv, ClientInv
    <3>. QED BY <3>1, <3>2, CountsAssumption
  <2>4. Count("PrepareSleep")' = One(voting)'
    <3>1. One(voting)' = One(voting) BY DEF One
    <3>. QED BY <1>3, <3>1 DEF IInv, ClientInv, Count
  <2>. QED BY <1>5, <2>2, <2>3, <2>4 DEF ClientInv
<1>10. OwedInv'
  <2>1. Count("TransferDone")' = Count("TransferDone") /\ Count("BusFlushed")' = Count("BusFlushed")
    BY <1>3 DEF Count
  <2>2. One(engine # Nobody)' = 0 /\ One(engine # Nobody) \in {0, 1} BY DEF One
  <2>3. Owed <= 1 BY DEF IInv, OwedInv
  <2>4. Owed' <= 1
    <3>1. Count("TransferDone") \in Nat BY Numbers DEF IInv
    <3>2. Owed = Count("TransferDone") + One(engine # Nobody) BY DEF Owed
    <3>3. Owed' = Count("TransferDone") + 0 BY <2>1, <2>2 DEF Owed
    <3>. QED BY <2>2, <2>3, <3>1, <3>2, <3>3
  <2>5. Count("BusFlushed")' <= One(state = "draining" /\ Moving)'
    <3>1. One(state = "draining" /\ Moving) = 0 /\ One(state = "draining" /\ Moving)' = 0 BY DEF One
    <3>. QED BY <2>1, <3>1 DEF IInv, OwedInv
  <2>. QED BY <1>7, <2>4, <2>5 DEF OwedInv
<1>11. TimerInv'
  <2>1. ~MayBeLate' /\ ~MayBeTimely' BY <1>7 DEF MayBeLate, MayBeTimely
  <2>2. TimeoutArgs' = {} BY <2>1 DEF TimeoutArgs
  <2>. QED BY <1>2, <2>2 DEF TimerInv
<1>12. OrderInv'
  <2>1. Ordered(Coming', seq) BY HandledOrder DEF Kinds
  <2>. QED BY <2>1 DEF OrderInv
<1>. QED BY <1>6, <1>8, <1>9, <1>10, <1>11, <1>12 DEF IInv, NothingDropped

LEMMA TimeoutReleaseIInv == IInv /\ TimeoutRelease => IInv'
<1>. SUFFICES ASSUME IInv, TimeoutRelease PROVE IInv' OBVIOUS
<1>. USE DEF TimeoutRelease
<1>1. Coming' = Coming BY DEF Coming
<1>2. TypeInv' BY DEF IInv, TypeInv
<1>3. ~Moving /\ ~Moving' /\ TimingOut /\ TimingOut' BY DEF Moving, TimingOut
<1>4. PlaceInv' BY <1>3 DEF IInv, PlaceInv
<1>. QED BY <1>1, <1>2, <1>3, <1>4, SameComing

\* The marker follows all that was posted for the dead transfer.
LEMMA FlushIInv ==
  ASSUME Affordable, IInv, Flush
  PROVE  IInv'
<1>. DEFINE e == Event("BusFlushed", Nobody)
<1>. USE DEF Flush
<1>1. e \in Message /\ e.kind = "BusFlushed" BY Events
<1>. HIDE DEF e
<1>2. Occupied < Slots BY Room DEF IInv
<1>3. /\ queue' \in Seq(Message) /\ Coming' = Append(Coming, e) /\ lost' = lost
      /\ \A kind : KindCount(Coming', kind) =
                     IF e.kind = kind THEN KindCount(Coming, kind) + 1 ELSE KindCount(Coming, kind)
  <2>1. Post(e) BY DEF e
  <2>. QED BY <1>1, <1>2, <2>1, Posting DEF IInv
<1>4. Coming \in Seq(Message) BY ComingFacts DEF IInv
<1>5. ~Moving /\ TimingOut /\ Moving' /\ ~TimingOut' BY DEF Moving, TimingOut
<1>6. flight = Nobody /\ engine = Nobody /\ armed = FALSE /\ answered = FALSE /\ timed
  BY <1>5 DEF IInv, TypeInv, PlaceInv, OwedInv, TimerInv, MayBeLate
<1>7. TypeInv' BY <1>3 DEF IInv, TypeInv
<1>8. PlaceInv' BY <1>5, <1>6 DEF IInv, PlaceInv
<1>9. /\ Count("PrepareSleep")' = Count("PrepareSleep")
      /\ Count("TransferDone")' = Count("TransferDone")
      /\ Count("BusFlushed")' = Count("BusFlushed") + 1
  BY <1>1, <1>3 DEF Count
<1>10. ClientInv'
  <2>1. ClientsIn(Coming', pending, flight, asking)
    BY <1>1, <1>3, <1>4, OthersPosted DEF IInv, ClientInv
  <2>. QED BY <1>9, <2>1 DEF IInv, ClientInv
<1>11. OwedInv'
  <2>1. Owed' = Owed BY <1>9 DEF Owed
  <2>2. One(state = "draining" /\ Moving) = 0 /\ One(state = "draining" /\ Moving)' = 1
    BY <1>5 DEF One
  <2>3. Count("BusFlushed")' <= One(state = "draining" /\ Moving)'
    <3>1. Count("BusFlushed") <= 0 BY <2>2 DEF IInv, OwedInv
    <3>2. Count("BusFlushed") \in Nat BY Numbers DEF IInv
    <3>. QED BY <1>9, <2>2, <3>1, <3>2
  <2>. QED BY <1>6, <2>1, <2>3 DEF IInv, OwedInv
<1>12. TimerInv'
  <2>1. ~MayBeLate /\ ~MayBeTimely BY <1>5 DEF MayBeLate, MayBeTimely
  <2>2. ~MayBeLate' /\ ~MayBeTimely' BY <1>5 DEF MayBeLate, MayBeTimely
  <2>3. TimeoutArgs = {} /\ TimeoutArgs' = {} BY <2>1, <2>2 DEF TimeoutArgs
  <2>4. TimeoutsOf(Coming', {}) BY <1>1, <1>3, <1>4, <2>3, Appended DEF IInv, TimerInv
  <2>. QED BY <1>6, <2>3, <2>4 DEF TimerInv
<1>13. OrderInv'
  <2>1. \A k \in 1 .. Len(Coming) : ~Clash(Coming[k], e, seq) BY <1>1 DEF Clash
  <2>. QED BY <1>1, <1>3, <1>4, <2>1, Appended DEF IInv, OrderInv
<1>14. NothingDropped' BY <1>3 DEF IInv, NothingDropped
<1>. QED BY <1>7, <1>8, <1>10, <1>11, <1>12, <1>13, <1>14 DEF IInv

\* A stale time-out, and the completion of a transfer that was timed out.
LEMMA DropIInv == IInv /\ Drop => IInv'
<1>. SUFFICES ASSUME IInv, Drop PROVE IInv' OBVIOUS
<1>. USE DEF Drop
<1>1. TypeInv' BY DEF IInv, TypeInv
<1>2. pc = "handle" /\ Moving /\ Moving' /\ ~TimingOut /\ ~TimingOut'
  BY DEF Dispatching, Moving, TimingOut
<1>3. One(voting)' = One(voting) BY DEF One
<1>4. ASSUME NEW kind \in {"BusTimeout", "TransferDone"}, Dispatching(kind)
      PROVE  /\ ClientInv'
             /\ \A k : Count(k)' = IF k = kind THEN Count(k) - 1 ELSE Count(k)
  <2>1. /\ Coming \in Seq(Message) /\ Coming # <<>> /\ Head(Coming) = cur /\ Coming' = Tail(Coming)
        /\ cur.kind = kind
        /\ \A k : KindCount(Coming', k) =
                    IF k = kind THEN KindCount(Coming, k) - 1 ELSE KindCount(Coming, k)
    BY <1>2, <1>4, Handled DEF IInv, Kinds
  <2>2. ClientsIn(Coming', pending, flight, asking)
    BY <2>1, OthersTaken DEF IInv, ClientInv
  <2>3. KindCount(Coming', "PrepareSleep") = KindCount(Coming, "PrepareSleep") BY <2>1
  <2>4. ClientInv' BY <1>3, <2>2, <2>3 DEF IInv, ClientInv, Count
  <2>. QED BY <2>1, <2>4 DEF Count
<1>5. CASE Dispatching("BusTimeout")
  <2>1. ClientInv' BY <1>4, <1>5
  <2>2. state = "idle" => pending' = <<>> BY DEF IInv, PlaceInv
  <2>. QED BY <1>1, <1>5, <2>1, <2>2, QuietDispatch
<1>6. CASE Dispatching("TransferDone") /\ state # "busy"
  <2>1. /\ ClientInv'
        /\ Count("TransferDone")' = Count("TransferDone") - 1
        /\ Count("BusFlushed")' = Count("BusFlushed")
    BY <1>4, <1>6
  <2>2. PlaceInv' BY <1>2, <1>6 DEF IInv, PlaceInv
  <2>3. TimeoutsOf(Coming', TimeoutArgs) /\ Ordered(Coming', seq)
    BY <1>2, <1>6, HandledOrder DEF Kinds
  <2>4. TimerInv' BY <1>2, <2>3, SameTimer DEF IInv
  <2>5. OrderInv' BY <2>3 DEF OrderInv
  <2>6. OwedInv'
    <3>1. engine = Nobody BY <1>6 DEF IInv, OwedInv
    <3>2. One(engine # Nobody) = 0 /\ One(engine # Nobody)' = 0 BY <3>1 DEF One
    <3>3. KindCount(Coming', "TransferDone") \in Nat
      BY <1>2, <1>6, Handled DEF IInv, Kinds
    <3>4. Count("TransferDone")' \in Nat /\ Count("TransferDone") \in Nat
      BY <3>3, Numbers DEF IInv, Count
    <3>5. Owed = Count("TransferDone") + 0 /\ Owed' = (Count("TransferDone") - 1) + 0
      BY <2>1, <3>2 DEF Owed
    <3>6. Owed > 0 /\ Owed <= 1 BY <2>1, <3>4, <3>5 DEF IInv, OwedInv
    <3>7. Owed' = 0 /\ Owed' <= 1 BY <2>1, <3>4, <3>5, <3>6
    <3>8. Count("BusFlushed")' <= One(state = "draining" /\ Moving)'
      <4>1. One(state = "draining" /\ Moving)' = One(state = "draining" /\ Moving) BY <1>2 DEF One
      <4>. QED BY <2>1, <4>1 DEF IInv, OwedInv
    <3>. QED BY <1>6, <3>1, <3>7, <3>8 DEF OwedInv
  <2>. QED BY <1>1, <2>1, <2>2, <2>4, <2>5, <2>6 DEF IInv, NothingDropped
<1>. QED BY <1>5, <1>6

-----------------------------------------------------------------------------
LEMMA NextIInv ==
  ASSUME Affordable, IInv, [Next]_vars
  PROVE  IInv'
<1>1. CASE Arbiter
  BY <1>1, ServeIInv, BeginRequestIInv, WaitOrRejectIInv, RetryIInv, CompleteIInv, ReleaseIInv,
     TimeoutIInv, TimeoutReleaseIInv, FlushIInv, FlushedIInv, DropIInv, VoteIInv, ReturnIInv
  DEF Arbiter
<1>2. CASE AskToSleep BY <1>2, AskToSleepIInv
<1>3. CASE EngineDone BY <1>3, EngineDoneIInv
<1>4. CASE TimerFire BY <1>4, TimerFireIInv
<1>5. CASE \E c \in Client : Ask(c) BY <1>5, AskIInv
<1>6. CASE UNCHANGED vars
  <2>. USE <1>6 DEF vars
  <2>1. Coming' = Coming BY DEF Coming
  <2>2. (Moving' <=> Moving) /\ (TimingOut' <=> TimingOut) BY DEF Moving, TimingOut
  <2>3. TypeInv' BY DEF IInv, TypeInv
  <2>4. PlaceInv' BY <2>2 DEF IInv, PlaceInv
  <2>. QED BY <2>1, <2>2, <2>3, <2>4, SameComing
<1>. QED BY <1>1, <1>2, <1>3, <1>4, <1>5, <1>6 DEF Next

\* The inductive invariant, while the clients keep to what the queue affords.
THEOREM IInvariant ==
  ASSUME Affordable
  PROVE  Spec => []IInv
<1>1. IInv /\ [Next]_vars => IInv' BY NextIInv
<1>. QED BY <1>1, InitIInv, PTL DEF Spec

\* No request and no control event finds the queue full: the depth's headroom
\* (queue_depth of bus_master.hpp) is enough on either bus, however the
\* engine's interrupt, the timer and the clients cut the dispatches.
THEOREM NeverDrops ==
  ASSUME Affordable
  PROVE  Spec => []NothingDropped
<1>1. IInv => NothingDropped BY DEF IInv
<1>. QED BY <1>1, IInvariant, PTL

\* The engine never moves the bytes of a request that was answered, whatever
\* overtakes what.
THEOREM BuffersAreReturned ==
  ASSUME Affordable
  PROVE  Spec => []BuffersReturned
<1>1. IInv => BuffersReturned
  BY DEF IInv, OwedInv, ClientInv, ClientsIn, BuffersReturned
<1>. QED BY <1>1, IInvariant, PTL

LEMMA TypeIsOK ==
  ASSUME Affordable, IInv
  PROVE  TypeOK
<1>1. Occupied <= Slots BY Room DEF IInv
<1>2. {answered, lent, armed, voting, lost} \subseteq BOOLEAN BY DEF IInv, TypeInv
<1>. QED BY <1>1, <1>2 DEF TypeOK, IInv, TypeInv, Sequence

\* A busy bus is owed one completion, its own; an idle one none; a draining
\* one's is a dead transfer's, ahead of the marker.
THEOREM OwedOnce ==
  ASSUME Affordable
  PROVE  Spec => []OneCompletionOwed
<1>. DEFINE owed == Cardinality(QueuedAt("TransferDone")) + One(engine # Nobody)
                      + One(Dispatching("TransferDone"))
<1>1. ASSUME IInv PROVE OneCompletionOwed
  <2>1. queue \in Seq(Message) BY <1>1 DEF IInv, TypeInv
  <2>2. QueuedAt("TransferDone") = KindAt(queue, "TransferDone") BY DEF QueuedAt, KindAt
  <2>3. owed = Owed
    <3>1. Count("TransferDone") = KindCount(queue, "TransferDone") + One(Dispatching("TransferDone"))
      <4>1. CASE pc = "handle"
        <5>1. /\ Coming \in Seq(Message) /\ Coming # <<>> /\ Head(Coming) = cur
              /\ Tail(Coming) = queue
          BY <1>1, <4>1, ComingFacts DEF IInv
        <5>2. KindCount(queue, "TransferDone") =
                IF cur.kind = "TransferDone" THEN Count("TransferDone") - 1 ELSE Count("TransferDone")
          BY <5>1, CountTail DEF Count
        <5>3. Count("TransferDone") \in Nat BY <1>1, Numbers DEF IInv
        <5>4. One(Dispatching("TransferDone")) = IF cur.kind = "TransferDone" THEN 1 ELSE 0
          BY <4>1 DEF Dispatching, One
        <5>. QED BY <5>2, <5>3, <5>4
      <4>2. CASE pc # "handle"
        <5>1. Count("TransferDone") = KindCount(queue, "TransferDone") BY <4>2 DEF Coming, Count
        <5>2. One(Dispatching("TransferDone")) = 0 BY <4>2 DEF Dispatching, One
        <5>3. Count("TransferDone") \in Nat BY <1>1, Numbers DEF IInv
        <5>. QED BY <5>1, <5>2, <5>3
      <4>. QED BY <4>1, <4>2
    <3>2. One(engine # Nobody) \in Nat /\ One(Dispatching("TransferDone")) \in Nat BY DEF One
    <3>3. KindCount(queue, "TransferDone") \in Nat BY <2>1, KindCountType
    <3>4. owed = KindCount(queue, "TransferDone") + One(engine # Nobody)
                   + One(Dispatching("TransferDone"))
      BY <2>2 DEF KindCount
    <3>5. Owed = KindCount(queue, "TransferDone") + One(Dispatching("TransferDone"))
                   + One(engine # Nobody)
      BY <3>1 DEF Owed
    <3>. QED BY <3>2, <3>3, <3>4, <3>5
  <2>4. \A k \in QueuedAt("TransferDone"), m \in QueuedAt("BusFlushed") : k < m
    <3>1. Ordered(queue, seq)
      <4>1. CASE pc = "handle"
        <5>1. Coming \in Seq(Message) /\ Coming # <<>> /\ Tail(Coming) = queue
          BY <1>1, <4>1, ComingFacts DEF IInv
        <5>. QED BY <1>1, <5>1, Taken DEF IInv, OrderInv
      <4>2. CASE pc # "handle" BY <1>1, <4>2 DEF Coming, IInv, OrderInv
      <4>. QED BY <4>1, <4>2
    <3>2. DOMAIN queue = 1 .. Len(queue) /\ Len(queue) \in Nat BY <2>1
    <3>3. ASSUME NEW k \in QueuedAt("TransferDone"), NEW m \in QueuedAt("BusFlushed") PROVE k < m
      <4>1. /\ k \in 1 .. Len(queue) /\ queue[k].kind = "TransferDone"
            /\ m \in 1 .. Len(queue) /\ queue[m].kind = "BusFlushed"
        BY <3>2, <3>3 DEF QueuedAt
      <4>2. ~(m < k) BY <3>1, <4>1 DEF Ordered, Clash
      <4>3. m # k BY <4>1
      <4>. QED BY <3>2, <4>1, <4>2, <4>3
    <3>. QED BY <3>3
  <2>. HIDE DEF owed
  <2>5. /\ state = "busy" /\ Moving => owed = 1 /\ (engine # Nobody => engine = flight)
        /\ state = "idle" => owed = 0
        /\ state = "draining" => engine = Nobody /\ owed <= 1
    BY <1>1, <2>3 DEF IInv, OwedInv
  <2>6. TypeOK BY <1>1, TypeIsOK
  <2>. QED BY <2>4, <2>5, <2>6 DEF OneCompletionOwed, Moving, owed
<1>2. IInv => OneCompletionOwed BY <1>1
<1>. QED BY <1>2, IInvariant, PTL

\* A time-out answers the transfer in flight only when it is that transfer's:
\* its timer has fired.
THEOREM TimesOutOnlyItsOwn ==
  ASSUME Affordable
  PROVE  Spec => TimesOutItsOwn
<1>1. ASSUME IInv, [Next]_vars, Dispatching("BusTimeout"), asking \ asking' # {}
      PROVE  ~armed
  <2>1. pc = "handle" /\ cur.kind = "BusTimeout" BY <1>1 DEF Dispatching
  <2>2. Timeout
    BY <1>1, <2>1
    DEF Next, Arbiter, vars, Serve, BeginRequest, WaitOrReject, Retry, Complete, Release,
        TimeoutRelease, Flush, Flushed, Drop, Vote, Return, AskToSleep, EngineDone, TimerFire,
        Ask, Dispatching
  <2>3. armed = FALSE BY <1>1, <2>2, TimedOutItself DEF Timeout, Finish
  <2>. QED BY <2>3
<1>2. IInv /\ [Next]_vars => (Dispatching("BusTimeout") /\ asking \ asking' # {} => ~armed)
  BY <1>1
<1>3. IInv /\ [Next]_vars => [Dispatching("BusTimeout") /\ asking \ asking' # {} => ~armed]_vars
  BY <1>2
<1>. QED BY <1>3, IInvariant, PTL DEF Spec, TimesOutItsOwn
-----------------------------------------------------------------------------
\* The requests among the events of a queue. Requests(q) is a value of a
\* recursive function, which there is one of: on the numbers up to the length
\* of q each of its values is given by the one before.
LEMMA Less == IsWellFoundedOn({p \in Nat \X Nat : p[1] < p[2]}, Nat)
<1>1. {p \in Nat \X Nat : p[1] < p[2]} = OpToRel(<, Nat) BY DEF OpToRel
<1>. QED BY <1>1, NatLessThanWellFounded

LEMMA Numbered ==
  ASSUME NEW S \in SUBSET Nat, 0 \in S, \A n \in S : n + 1 \in S
  PROVE  \A n \in Nat : n \in S
<1>. DEFINE R == {p \in Nat \X Nat : p[1] < p[2]}
<1>. SUFFICES ASSUME Nat \ S # {} PROVE FALSE OBVIOUS
<1>1. PICK x \in Nat \ S : \A y \in Nat \ S : <<y, x>> \notin R BY Less, WFMin
<1>2. x # 0 /\ x - 1 \in Nat /\ x - 1 < x BY <1>1
<1>3. <<x - 1, x>> \in R BY <1>1, <1>2
<1>4. x - 1 \in S BY <1>1, <1>2, <1>3
<1>. QED BY <1>1, <1>2, <1>4

\* f gives the requests among the first k events of q, for each k up to n.
Counts(f, q, n) ==
  /\ f = [k \in 0 .. n |-> f[k]] /\ f[0] = <<>>
  /\ \A k \in 1 .. n : f[k] = Asked(f[k - 1], q[k])

LEMMA Counting ==
  ASSUME NEW q, NEW n \in Nat
  PROVE  \E f : Counts(f, q, n)
<1>. DEFINE S == {k \in Nat : \E f : Counts(f, q, k)}
<1>1. 0 \in S
  <2>. DEFINE f == [k \in 0 .. 0 |-> <<>>]
  <2>1. Counts(f, q, 0) BY DEF Counts
  <2>. HIDE DEF f
  <2>. QED BY <2>1
<1>2. ASSUME NEW k \in S PROVE k + 1 \in S
  <2>1. k \in Nat BY <1>2
  <2>2. PICK f : Counts(f, q, k) BY <1>2
  <2>. DEFINE g == [j \in 0 .. k + 1 |-> IF j = k + 1 THEN Asked(f[k], q[k + 1]) ELSE f[j]]
  <2>3. g = [j \in 0 .. k + 1 |-> g[j]] /\ g[k + 1] = Asked(f[k], q[k + 1])
        /\ \A j \in 0 .. k : g[j] = f[j]
    BY <2>1
  <2>. HIDE DEF g
  <2>4. g[0] = <<>> BY <2>1, <2>2, <2>3 DEF Counts
  <2>5. \A j \in 1 .. k + 1 : g[j] = Asked(g[j - 1], q[j])
    <3>. TAKE j \in 1 .. k + 1
    <3>1. CASE j = k + 1
      <4>1. j - 1 = k /\ k \in 0 .. k BY <2>1, <3>1
      <4>2. g[j] = Asked(f[k], q[j]) /\ g[j - 1] = f[k] BY <2>3, <3>1, <4>1
      <4>. QED BY <4>2
    <3>2. CASE j # k + 1
      <4>1. j \in 1 .. k /\ j \in 0 .. k /\ j - 1 \in 0 .. k BY <2>1, <3>2
      <4>. QED BY <2>2, <2>3, <4>1 DEF Counts
    <3>. QED BY <3>1, <3>2
  <2>6. Counts(g, q, k + 1) BY <2>3, <2>4, <2>5 DEF Counts
  <2>. QED BY <2>1, <2>6
<1>. HIDE DEF S
<1>3. S \in SUBSET Nat BY DEF S
<1>4. n \in S BY <1>1, <1>2, <1>3, Numbered
<1>. QED BY <1>4 DEF S

LEMMA CountedOnce ==
  ASSUME NEW p, NEW q, NEW m \in Nat, NEW n \in Nat, m <= n, NEW f, NEW g,
         Counts(f, p, m), Counts(g, q, n), \A k \in 1 .. m : p[k] = q[k]
  PROVE  \A k \in 0 .. m : f[k] = g[k]
<1>. DEFINE S == {k \in Nat : k <= m => f[k] = g[k]}
<1>1. 0 \in S BY DEF Counts
<1>2. ASSUME NEW k \in S PROVE k + 1 \in S
  <2>1. k \in Nat BY <1>2
  <2>2. CASE k + 1 <= m
    <3>1. k + 1 \in 1 .. m /\ k + 1 \in 1 .. n /\ (k + 1) - 1 = k /\ k <= m BY <2>1, <2>2
    <3>2. f[k + 1] = Asked(f[k], p[k + 1]) /\ g[k + 1] = Asked(g[k], q[k + 1])
      BY <3>1 DEF Counts
    <3>. QED BY <1>2, <3>1, <3>2
  <2>3. CASE ~(k + 1 <= m) BY <2>1, <2>3
  <2>. QED BY <2>2, <2>3
<1>. HIDE DEF S
<1>3. S \in SUBSET Nat BY DEF S
<1>4. \A k \in Nat : k \in S BY <1>1, <1>2, <1>3, Numbered
<1>. QED BY <1>4 DEF S

LEMMA RequestsAre ==
  ASSUME NEW q \in Seq(Message), NEW f, Counts(f, q, Len(q))
  PROVE  Requests(q) = f[Len(q)]
<1>. DEFINE n == Len(q)
            upTo[k \in 0 .. n] == IF k = 0 THEN <<>> ELSE Asked(upTo[k - 1], q[k])
<1>1. n \in Nat OBVIOUS
<1>2. Requests(q) = upTo[n] BY DEF Requests
<1>3. f = [k \in 0 .. n |-> IF k = 0 THEN <<>> ELSE Asked(f[k - 1], q[k])]
  <2>. DEFINE g == [k \in 0 .. n |-> IF k = 0 THEN <<>> ELSE Asked(f[k - 1], q[k])]
  <2>1. g = [k \in 0 .. n |-> g[k]] OBVIOUS
  <2>2. ASSUME NEW k \in 0 .. n PROVE f[k] = g[k]
    <3>1. CASE k = 0 BY <3>1 DEF Counts
    <3>2. CASE k # 0
      <4>1. k \in 1 .. n BY <3>2
      <4>. QED BY <3>2, <4>1 DEF Counts
    <3>. QED BY <3>1, <3>2
  <2>. HIDE DEF g
  <2>3. f = g BY <2>1, <2>2 DEF Counts
  <2>. QED BY <2>3 DEF g
<1>. HIDE DEF n
<1>4. upTo = [k \in 0 .. n |-> IF k = 0 THEN <<>> ELSE Asked(upTo[k - 1], q[k])]
  BY <1>3
<1>. HIDE DEF upTo
<1>5. Counts(upTo, q, n)
  <2>1. 0 \in 0 .. n /\ \A k \in 1 .. n : k \in 0 .. n /\ k # 0 BY <1>1
  <2>2. upTo = [k \in 0 .. n |-> upTo[k]] BY <1>4
  <2>3. \A k \in 0 .. n : upTo[k] = IF k = 0 THEN <<>> ELSE Asked(upTo[k - 1], q[k]) BY <1>4
  <2>. QED BY <2>1, <2>2, <2>3 DEF Counts
<1>6. Counts(f, q, n) BY DEF n
<1>7. n \in 0 .. n /\ n <= n BY <1>1
<1>8. upTo[n] = f[n] BY <1>1, <1>5, <1>6, <1>7, CountedOnce
<1>. QED BY <1>2, <1>8 DEF n
\* Each of the requests counted is the clients'.
LEMMA CountedOf ==
  ASSUME NEW S, NEW q \in Seq(Message), RequestsFrom(q, S), NEW f, Counts(f, q, Len(q))
  PROVE  \A k \in 0 .. Len(q) : f[k] \in Seq(S)
<1>. DEFINE n == Len(q)
            T == {k \in Nat : k <= n => f[k] \in Seq(S)}
<1>0. n \in Nat OBVIOUS
<1>1. 0 \in T BY EmptySeq DEF Counts
<1>2. ASSUME NEW k \in T PROVE k + 1 \in T
  <2>1. k \in Nat BY <1>2
  <2>2. CASE k + 1 <= n
    <3>1. k + 1 \in 1 .. n /\ (k + 1) - 1 = k /\ k <= n BY <1>0, <2>1, <2>2
    <3>2. f[k + 1] = Asked(f[k], q[k + 1]) BY <3>1 DEF Counts
    <3>3. f[k] \in Seq(S) BY <1>2, <3>1
    <3>4. q[k + 1].kind = "Request" => q[k + 1].arg \in S BY <3>1 DEF RequestsFrom
    <3>5. f[k + 1] \in Seq(S) BY <3>2, <3>3, <3>4, AppendProperties DEF Asked
    <3>. QED BY <2>1, <3>5
  <2>3. CASE ~(k + 1 <= n) BY <2>1, <2>3
  <2>. QED BY <2>2, <2>3
<1>. HIDE DEF T
<1>3. T \in SUBSET Nat BY DEF T
<1>4. \A k \in Nat : k \in T BY <1>1, <1>2, <1>3, Numbered
<1>. QED BY <1>0, <1>4 DEF T

LEMMA RequestsType ==
  ASSUME NEW S, NEW q \in Seq(Message), RequestsFrom(q, S)
  PROVE  Requests(q) \in Seq(S)
<1>1. Len(q) \in Nat /\ Len(q) \in 0 .. Len(q) OBVIOUS
<1>2. PICK f : Counts(f, q, Len(q)) BY <1>1, Counting
<1>. QED BY <1>1, <1>2, CountedOf, RequestsAre

\* An event posted comes after the requests there are.
LEMMA RequestsAppended ==
  ASSUME NEW q \in Seq(Message), NEW e \in Message
  PROVE  Requests(Append(q, e)) = Asked(Requests(q), e)
<1>. DEFINE p == Append(q, e)
            n == Len(q)
<1>1. /\ p \in Seq(Message) /\ Len(p) = n + 1 /\ n \in Nat
      /\ \A k \in 1 .. n : q[k] = p[k]
      /\ p[n + 1] = e
  BY AppendProperties
<1>. HIDE DEF p, n
<1>2. PICK f : Counts(f, p, Len(p))
  <2>1. Len(p) \in Nat BY <1>1
  <2>. QED BY <2>1, Counting
<1>3. PICK g : Counts(g, q, n) BY <1>1, Counting
<1>4. g[n] = f[n]
  <2>1. n <= Len(p) /\ n \in 0 .. n /\ Len(p) \in Nat BY <1>1
  <2>. QED BY <1>1, <1>2, <1>3, <2>1, CountedOnce
<1>5. f[Len(p)] = Asked(f[n], e)
  <2>1. n + 1 \in 1 .. Len(p) /\ (n + 1) - 1 = n BY <1>1
  <2>2. f[n + 1] = Asked(f[n], p[n + 1]) BY <1>2, <2>1 DEF Counts
  <2>. QED BY <1>1, <2>2
<1>6. Requests(p) = f[Len(p)] BY <1>1, <1>2, RequestsAre
<1>7. Requests(q) = g[n] BY <1>3, RequestsAre DEF n
<1>. QED BY <1>4, <1>5, <1>6, <1>7 DEF p

\* The event served first was the first of the requests, if it was one.
FirstAsked(e) == IF e.kind = "Request" THEN <<e.arg>> ELSE <<>>

LEMMA RequestsOf ==
  ASSUME NEW q \in Seq(Message)
  PROVE  RequestsFrom(q, Client) /\ Requests(q) \in Seq(Client)
<1>1. RequestsFrom(q, Client)
  <2>1. \A k \in 1 .. Len(q) : q[k] \in Message OBVIOUS
  <2>. QED BY <2>1, Messages DEF RequestsFrom
<1>. QED BY <1>1, RequestsType

LEMMA AskedBehind ==
  ASSUME NEW d \in Message, NEW s \in Seq(Client), NEW e \in Message
  PROVE  /\ FirstAsked(d) \in Seq(Client)
         /\ Asked(FirstAsked(d) \o s, e) = FirstAsked(d) \o Asked(s, e)
<1>1. FirstAsked(d) \in Seq(Client)
  <2>1. d.kind = "Request" => d.arg \in Client BY Messages
  <2>2. <<>> \in Seq(Client) BY EmptySeq
  <2>3. d.kind = "Request" => <<d.arg>> \in Seq(Client) BY <2>1
  <2>. QED BY <2>2, <2>3 DEF FirstAsked
<1>2. CASE e.kind = "Request"
  <2>. DEFINE h == FirstAsked(d)
  <2>1. e.arg \in Client BY <1>2, Messages
  <2>2. <<e.arg>> \in Seq(Client) /\ h \o s \in Seq(Client) BY <1>1, <2>1, ConcatProperties
  <2>3. Append(h \o s, e.arg) = (h \o s) \o <<e.arg>> BY <2>1, <2>2, AppendIsConcat
  <2>4. Append(s, e.arg) = s \o <<e.arg>> BY <2>1, AppendIsConcat
  <2>5. (h \o s) \o <<e.arg>> = h \o (s \o <<e.arg>>) BY <1>1, <2>2, ConcatAssociative
  <2>. QED BY <1>1, <1>2, <2>3, <2>4, <2>5 DEF Asked
<1>3. CASE e.kind # "Request" BY <1>1, <1>3 DEF Asked
<1>. QED BY <1>1, <1>2, <1>3

LEMMA RequestsTaken ==
  ASSUME NEW q \in Seq(Message), q # <<>>
  PROVE  Requests(q) = FirstAsked(Head(q)) \o Requests(Tail(q))
<1>. DEFINE p == Tail(q)
            m == Len(p)
            h == FirstAsked(Head(q))
<1>1. /\ p \in Seq(Message) /\ Head(q) \in Message /\ Head(q) = q[1] /\ Len(q) = m + 1 /\ m \in Nat
      /\ \A k \in 1 .. m : p[k] = q[k + 1]
  BY HeadTailProperties, EmptySeq
<1>. HIDE DEF p, m, h
<1>2. PICK f : Counts(f, q, Len(q))
  <2>1. Len(q) \in Nat BY <1>1
  <2>. QED BY <2>1, Counting
<1>3. PICK g : Counts(g, p, m) BY <1>1, Counting
<1>4. \A k \in 0 .. m : g[k] \in Seq(Client)
  <2>1. RequestsFrom(p, Client) BY <1>1, RequestsOf
  <2>. QED BY <1>1, <1>3, <2>1, CountedOf DEF m
<1>5. h \in Seq(Client) /\ h = h \o <<>>
  <2>1. h \in Seq(Client) BY <1>1, EmptySeq, AskedBehind DEF h
  <2>. QED BY <2>1, ConcatEmptySeq
<1>. DEFINE T == {k \in Nat : k <= m => f[k + 1] = h \o g[k]}
<1>6. 0 \in T
  <2>1. 1 \in 1 .. Len(q) /\ 1 - 1 = 0 BY <1>1
  <2>2. f[1] = Asked(<<>>, q[1]) BY <1>2, <2>1 DEF Counts
  <2>3. g[0] = <<>> BY <1>3 DEF Counts
  <2>4. Asked(<<>>, q[1]) = h BY <1>1 DEF Asked, FirstAsked, h
  <2>5. f[0 + 1] = h \o g[0] BY <1>5, <2>2, <2>3, <2>4
  <2>. QED BY <2>5
<1>7. ASSUME NEW k \in T PROVE k + 1 \in T
  <2>1. k \in Nat BY <1>7
  <2>2. CASE k + 1 <= m
    <3>1. /\ k + 1 \in 1 .. m /\ (k + 1) - 1 = k /\ k <= m /\ k \in 0 .. m
          /\ (k + 1) + 1 \in 1 .. Len(q) /\ ((k + 1) + 1) - 1 = k + 1
      BY <1>1, <2>1, <2>2
    <3>2. f[(k + 1) + 1] = Asked(f[k + 1], q[(k + 1) + 1]) BY <1>2, <3>1 DEF Counts
    <3>3. g[k + 1] = Asked(g[k], p[k + 1]) BY <1>3, <3>1 DEF Counts
    <3>4. p[k + 1] = q[(k + 1) + 1] /\ p[k + 1] \in Message BY <1>1, <3>1
    <3>5. f[k + 1] = h \o g[k] BY <1>7, <3>1
    <3>6. Asked(h \o g[k], p[k + 1]) = h \o Asked(g[k], p[k + 1])
      BY <1>1, <1>4, <3>1, <3>4, AskedBehind DEF h
    <3>7. f[(k + 1) + 1] = h \o g[k + 1] BY <3>2, <3>3, <3>4, <3>5, <3>6
    <3>. QED BY <2>1, <3>7
  <2>3. CASE ~(k + 1 <= m) BY <2>1, <2>3
  <2>. QED BY <2>2, <2>3
<1>. HIDE DEF T
<1>8. T \in SUBSET Nat BY DEF T
<1>9. \A k \in Nat : k \in T BY <1>6, <1>7, <1>8, Numbered
<1>10. f[Len(q)] = h \o g[m] BY <1>1, <1>9 DEF T
<1>11. Requests(q) = f[Len(q)] BY <1>2, RequestsAre
<1>12. Requests(p) = g[m] BY <1>1, <1>3, RequestsAre DEF m
<1>. QED BY <1>10, <1>11, <1>12 DEF p, h

LEMMA NoRequests == Requests(<<>>) = <<>>
<1>1. <<>> \in Seq(Message) /\ Len(<<>>) = 0 BY EmptySeq
<1>2. PICK f : Counts(f, <<>>, 0) BY Counting
<1>3. f[0] = <<>> BY <1>2 DEF Counts
<1>. QED BY <1>1, <1>2, <1>3, RequestsAre
-----------------------------------------------------------------------------
\* The line: those waiting, then those who asked.
LEMMA FirstOfLine ==
  ASSUME NEW s \in Seq(Client), NEW t \in Seq(Client), s # <<>>
  PROVE  /\ s \o t # <<>> /\ Head(s \o t) = Head(s) /\ Tail(s \o t) = Tail(s) \o t
<1>1. /\ Head(s) \in Client /\ Tail(s) \in Seq(Client) /\ Len(s) \in Nat \ {0}
      /\ Len(Tail(s)) = Len(s) - 1 /\ Head(s) = s[1] /\ Len(t) \in Nat
      /\ \A k \in 1 .. Len(Tail(s)) : Tail(s)[k] = s[k + 1]
  BY HeadTailProperties, EmptySeq
<1>2. /\ s \o t \in Seq(Client) /\ Len(s \o t) = Len(s) + Len(t)
      /\ \A k \in 1 .. Len(s) + Len(t) : (s \o t)[k] = IF k <= Len(s) THEN s[k] ELSE t[k - Len(s)]
  BY ConcatProperties
<1>3. s \o t # <<>> BY ConcatEqualIffEmpty
<1>4. /\ Head(s \o t) = (s \o t)[1] /\ Tail(s \o t) \in Seq(Client)
      /\ Len(Tail(s \o t)) = Len(s) + Len(t) - 1
      /\ \A k \in 1 .. Len(s) + Len(t) - 1 : Tail(s \o t)[k] = (s \o t)[k + 1]
  BY <1>2, <1>3, HeadTailProperties
<1>5. (s \o t)[1] = s[1]
  <2>1. 1 \in 1 .. Len(s) + Len(t) /\ 1 <= Len(s) BY <1>1
  <2>. QED BY <1>2, <2>1
<1>6. /\ Tail(s) \o t \in Seq(Client) /\ Len(Tail(s) \o t) = (Len(s) - 1) + Len(t)
      /\ \A k \in 1 .. (Len(s) - 1) + Len(t) :
           (Tail(s) \o t)[k] = IF k <= Len(s) - 1 THEN Tail(s)[k] ELSE t[k - (Len(s) - 1)]
  BY <1>1, ConcatProperties
<1>7. \A k \in 1 .. Len(s) + Len(t) - 1 : Tail(s \o t)[k] = (Tail(s) \o t)[k]
  <2>. TAKE k \in 1 .. Len(s) + Len(t) - 1
  <2>1. k \in 1 .. (Len(s) - 1) + Len(t) /\ k + 1 \in 1 .. Len(s) + Len(t) BY <1>1
  <2>2. CASE k <= Len(s) - 1
    <3>1. k + 1 <= Len(s) /\ k \in 1 .. Len(Tail(s)) BY <1>1, <2>2
    <3>. QED BY <1>1, <1>2, <1>4, <1>6, <2>1, <2>2, <3>1
  <2>3. CASE ~(k <= Len(s) - 1)
    <3>1. ~(k + 1 <= Len(s)) /\ (k + 1) - Len(s) = k - (Len(s) - 1) BY <1>1, <2>3
    <3>. QED BY <1>2, <1>4, <1>6, <2>1, <2>3, <3>1
  <2>. QED BY <2>2, <2>3
<1>8. Len(Tail(s \o t)) = Len(Tail(s) \o t) /\ 1 .. Len(Tail(s \o t)) = 1 .. Len(s) + Len(t) - 1
  BY <1>1, <1>4, <1>6
<1>9. Tail(s \o t) = Tail(s) \o t BY <1>4, <1>6, <1>7, <1>8, SeqEqual
<1>. QED BY <1>1, <1>3, <1>4, <1>5, <1>9

LEMMA WithoutOne ==
  ASSUME NEW s \in Seq(Client), NEW c \in Client, NEW t \in Seq(Client)
  PROVE  LET l == s \o (<<c>> \o t)
             n == Len(s)
         IN Len(l) > n /\ s \o t = SubSeq(l, 1, n) \o SubSeq(l, n + 2, Len(l))
<1>. DEFINE h == <<c>> \o t
            l == s \o h
            n == Len(s)
            m == Len(t)
<1>1. <<c>> \in Seq(Client) /\ Len(<<c>>) = 1 /\ n \in Nat /\ m \in Nat OBVIOUS
<1>2. /\ h \in Seq(Client) /\ Len(h) = 1 + m
      /\ \A k \in 1 .. 1 + m : h[k] = IF k <= 1 THEN <<c>>[k] ELSE t[k - 1]
  BY <1>1, ConcatProperties
<1>. HIDE DEF h
<1>3. /\ l \in Seq(Client) /\ Len(l) = n + (1 + m)
      /\ \A k \in 1 .. n + (1 + m) : l[k] = IF k <= n THEN s[k] ELSE h[k - n]
  <2>1. Len(l) = n + Len(h) /\ l \in Seq(Client)
        /\ \A k \in 1 .. n + Len(h) : l[k] = IF k <= n THEN s[k] ELSE h[k - n]
    BY <1>2, ConcatProperties
  <2>. QED BY <1>2, <2>1
<1>. HIDE DEF l
<1>4. SubSeq(l, 1, n) = s
  <2>1. \A k \in 1 .. n : l[k] = s[k] /\ l[k] \in Client
    <3>. TAKE k \in 1 .. n
    <3>1. k \in 1 .. n + (1 + m) /\ k <= n BY <1>1
    <3>. QED BY <1>3, <3>1
  <2>2. /\ SubSeq(l, 1, n) \in Seq(Client) /\ Len(SubSeq(l, 1, n)) = n
        /\ \A k \in 1 .. n : SubSeq(l, 1, n)[k] = l[k]
    <3>1. /\ SubSeq(l, 1, n) \in Seq(Client)
          /\ Len(SubSeq(l, 1, n)) = (IF 1 <= n THEN n - 1 + 1 ELSE 0)
          /\ \A k \in 1 .. n - 1 + 1 : SubSeq(l, 1, n)[k] = l[1 + k - 1]
      BY <1>1, <2>1, SubSeqProperties
    <3>2. n - 1 + 1 = n /\ \A k \in 1 .. n : 1 + k - 1 = k BY <1>1
    <3>. QED BY <1>1, <3>1, <3>2
  <2>. QED BY <2>1, <2>2, SeqEqual
<1>5. SubSeq(l, n + 2, Len(l)) = t
  <2>1. \A k \in 1 .. m : l[n + 2 + k - 1] = t[k] /\ l[n + 2 + k - 1] \in Client
    <3>. TAKE k \in 1 .. m
    <3>1. /\ n + 2 + k - 1 \in 1 .. n + (1 + m) /\ ~(n + 2 + k - 1 <= n)
          /\ (n + 2 + k - 1) - n = k + 1 /\ k + 1 \in 1 .. 1 + m /\ ~(k + 1 <= 1) /\ (k + 1) - 1 = k
      BY <1>1
    <3>2. l[n + 2 + k - 1] = h[k + 1] BY <1>3, <3>1
    <3>3. h[k + 1] = t[k] BY <1>2, <3>1
    <3>. QED BY <3>2, <3>3
  <2>2. \A k \in n + 2 .. Len(l) : l[k] \in Client
    <3>. TAKE k \in n + 2 .. Len(l)
    <3>1. k \in 1 .. Len(l) BY <1>1, <1>3
    <3>. QED BY <1>3, <3>1
  <2>3. /\ SubSeq(l, n + 2, Len(l)) \in Seq(Client)
        /\ Len(SubSeq(l, n + 2, Len(l))) = (IF n + 2 <= Len(l) THEN Len(l) - (n + 2) + 1 ELSE 0)
        /\ \A k \in 1 .. Len(l) - (n + 2) + 1 : SubSeq(l, n + 2, Len(l))[k] = l[n + 2 + k - 1]
    <3>1. n + 2 \in Int /\ Len(l) \in Int BY <1>1, <1>3
    <3>. QED BY <2>2, <3>1, SubSeqProperties
  <2>4. Len(l) - (n + 2) + 1 = m /\ (IF n + 2 <= Len(l) THEN Len(l) - (n + 2) + 1 ELSE 0) = m
    BY <1>1, <1>3
  <2>5. \A k \in 1 .. m : SubSeq(l, n + 2, Len(l))[k] = t[k] BY <2>1, <2>3, <2>4
  <2>6. Len(SubSeq(l, n + 2, Len(l))) = m BY <2>3, <2>4
  <2>. QED BY <2>3, <2>5, <2>6, SeqEqual
<1>6. Len(l) > n BY <1>1, <1>3
<1>. QED BY <1>4, <1>5, <1>6 DEF l, h

\* Who is in the line has had no answer, and is not on the wire.
LEMMA LineFacts ==
  ASSUME IInv
  PROVE  /\ pending \in Seq(Client) /\ Requests(Coming) \in Seq(Client) /\ Line \in Seq(Client)
         /\ {Line[k] : k \in DOMAIN Line} \subseteq asking
<1>1. /\ Coming \in Seq(Message) /\ pending \in Seq(Client)
      /\ RequestsFrom(Coming, asking \ (Members(pending) \cup {flight})) /\ Members(pending) \subseteq asking
  BY ComingFacts DEF IInv, TypeInv, ClientInv, ClientsIn
<1>2. Requests(Coming) \in Seq(Client) BY <1>1, RequestsOf
<1>3. pending \in Seq(asking)
  <2>1. \A k \in 1 .. Len(pending) : pending[k] \in asking BY <1>1 DEF Members
  <2>. QED BY <1>1, <2>1
<1>4. Requests(Coming) \in Seq(asking)
  <2>1. RequestsFrom(Coming, asking) BY <1>1 DEF RequestsFrom
  <2>. QED BY <1>1, <2>1, RequestsType
<1>5. Line \in Seq(asking) BY <1>3, <1>4, ConcatProperties DEF Line
<1>6. Line \in Seq(Client) BY <1>1, <1>2, ConcatProperties DEF Line
<1>7. \A k \in DOMAIN Line : Line[k] \in asking BY <1>5
<1>. QED BY <1>1, <1>2, <1>6, <1>7

\* A post that finds room puts a request behind the line.
LEMMA LinePosted ==
  ASSUME IInv, NEW e \in Message, Occupied < Slots, Post(e),
         UNCHANGED <<pending, cur, flight>>, pc' = "handle" <=> pc = "handle"
  PROVE  /\ e.kind = "Request" => Line' = Append(Line, e.arg)
         /\ e.kind # "Request" => UNCHANGED <<Line, flight>>
<1>1. Coming' = Append(Coming, e) BY Posting DEF IInv
<1>2. Coming \in Seq(Message) BY ComingFacts DEF IInv
<1>3. Line' = pending \o Asked(Requests(Coming), e) BY <1>1, <1>2, RequestsAppended DEF Line
<1>4. pending \in Seq(Client) /\ Requests(Coming) \in Seq(Client) BY LineFacts
<1>5. CASE e.kind = "Request"
  <2>. DEFINE r == Requests(Coming)
  <2>1. e.arg \in Client /\ <<e.arg>> \in Seq(Client) BY <1>5, Messages
  <2>2. Line = pending \o r /\ Line' = pending \o Append(r, e.arg) BY <1>3, <1>5 DEF Line, Asked
  <2>. HIDE DEF r
  <2>3. r \in Seq(Client) BY <1>4 DEF r
  <2>4. Append(r, e.arg) = r \o <<e.arg>> BY <2>1, <2>3, AppendIsConcat
  <2>5. pending \o r \in Seq(Client) BY <1>4, <2>3, ConcatProperties
  <2>6. Append(pending \o r, e.arg) = (pending \o r) \o <<e.arg>> BY <2>1, <2>5, AppendIsConcat
  <2>7. (pending \o r) \o <<e.arg>> = pending \o (r \o <<e.arg>>) BY <1>4, <2>1, <2>3, ConcatAssociative
  <2>. QED BY <1>5, <2>2, <2>4, <2>6, <2>7
<1>6. CASE e.kind # "Request" BY <1>3, <1>6 DEF Asked, Line
<1>. QED BY <1>5, <1>6

\* The end of a dispatch takes a request from the head of those who asked.
LEMMA LineHandled ==
  ASSUME IInv, NEW kind \in Kinds, Dispatching(kind), queue' = queue, pc' # "handle"
  PROVE  /\ Requests(Coming') \in Seq(Client)
         /\ kind # "Request" => Requests(Coming') = Requests(Coming)
         /\ kind = "Request" =>
              cur.arg \in Client /\ Requests(Coming) = <<cur.arg>> \o Requests(Coming')
<1>1. /\ Coming \in Seq(Message) /\ Coming # <<>> /\ Head(Coming) = cur /\ cur \in Message
      /\ cur.kind = kind /\ Coming' = Tail(Coming) /\ Coming' \in Seq(Message)
  BY Handled DEF IInv
<1>2. Requests(Coming) = FirstAsked(cur) \o Requests(Coming') BY <1>1, RequestsTaken
<1>3. Requests(Coming') \in Seq(Client) BY <1>1, RequestsOf
<1>4. <<>> \o Requests(Coming') = Requests(Coming') BY <1>3, ConcatEmptySeq
<1>5. kind = "Request" => cur.arg \in Client BY <1>1, Messages
<1>. QED BY <1>1, <1>2, <1>3, <1>4, <1>5 DEF FirstAsked

\* Outside a dispatch's first step the events before the arbiter are the queue.
LEMMA LineQuiet ==
  ASSUME pc # "handle", pc' # "handle", queue' = queue
  PROVE  Requests(Coming') = Requests(Coming)
BY DEF Coming

-----------------------------------------------------------------------------
\* The steps, as steps of the service.
LEMMA NextWaitingServes ==
  ASSUME IInv, NextWaiting, flight = Nobody, Requests(Coming') = Requests(Coming)
  PROVE  [Service!Next]_Service!vars
<1>. DEFINE r == Requests(Coming)
<1>1. pending \in Seq(Client) /\ r \in Seq(Client) /\ Line = pending \o r /\ Line' = pending' \o r
  BY LineFacts DEF Line
<1>. HIDE DEF r
<1>2. CASE pending = <<>>
  <2>1. pending' = pending /\ flight' = flight BY <1>2 DEF NextWaiting
  <2>. QED BY <1>1, <2>1 DEF Service!vars
<1>3. CASE pending # <<>>
  <2>1. pending' = Tail(pending) /\ (flight' = Head(pending) \/ flight' = flight)
    BY <1>3 DEF NextWaiting, GoesAsync
  <2>2. Line # <<>> /\ Head(Line) = Head(pending) /\ Line' = Tail(Line)
    BY <1>1, <1>3, <2>1, FirstOfLine
  <2>. QED BY <2>1, <2>2 DEF Service!Next, Service!Begin, Service!AnswerAtOnce
<1>. QED BY <1>2, <1>3

\* The one on the wire is answered.
LEMMA FinishServes ==
  ASSUME IInv, NEW kind \in Kinds, kind # "Request", Dispatching(kind), state = "busy",
         Finish, UNCHANGED <<queue, pending>>
  PROVE  Service!Answer
<1>1. pc = "handle" /\ flight' = Nobody /\ pc' = "release" BY DEF Dispatching, Finish
<1>2. flight # Nobody BY <1>1 DEF IInv, PlaceInv, Moving
<1>3. Requests(Coming') = Requests(Coming) BY <1>1, LineHandled
<1>. QED BY <1>1, <1>2, <1>3 DEF Service!Answer, Line

LEMMA BeginRequestServes ==
  ASSUME IInv, BeginRequest
  PROVE  Service!Next
<1>. USE DEF BeginRequest
<1>1. flight = Nobody /\ pending = <<>> BY DEF IInv, PlaceInv
<1>. DEFINE r == Requests(Coming')
<1>2. r \in Seq(Client) /\ cur.arg \in Client /\ Requests(Coming) = <<cur.arg>> \o r
  <2>1. "Request" \in Kinds /\ pc' # "handle" BY DEF Kinds
  <2>. QED BY <2>1, LineHandled
<1>3. Line' = pending' \o r BY DEF Line
<1>. HIDE DEF r
<1>4. Line = <<cur.arg>> \o r /\ Line' = r
  <2>1. <<cur.arg>> \o r \in Seq(Client) BY <1>2, ConcatProperties
  <2>2. Line = <<>> \o (<<cur.arg>> \o r) BY <1>1, <1>2 DEF Line
  <2>3. Line' = <<>> \o r BY <1>1, <1>3
  <2>. QED BY <1>2, <2>1, <2>2, <2>3, ConcatEmptySeq
<1>5. Line # <<>> /\ Head(Line) = cur.arg /\ Tail(Line) = Line'
  <2>1. <<cur.arg>> \in Seq(Client) /\ <<cur.arg>> # <<>> /\ Head(<<cur.arg>>) = cur.arg
        /\ Tail(<<cur.arg>>) = <<>>
    BY <1>2
  <2>2. <<>> \o r = r BY <1>2, ConcatEmptySeq
  <2>. QED BY <1>2, <1>4, <2>1, <2>2, FirstOfLine
<1>6. flight' = cur.arg \/ flight' = flight BY DEF GoesAsync
<1>. QED BY <1>1, <1>5, <1>6 DEF Service!Next, Service!Begin, Service!AnswerAtOnce

LEMMA WaitOrRejectServes ==
  ASSUME IInv, WaitOrReject
  PROVE  [Service!Next]_Service!vars
<1>. USE DEF WaitOrReject
<1>. DEFINE r == Requests(Coming')
            c == cur.arg
<1>1. r \in Seq(Client) /\ c \in Client /\ Requests(Coming) = <<c>> \o r
  <2>1. "Request" \in Kinds /\ pc' # "handle" BY DEF Kinds
  <2>. QED BY <2>1, LineHandled
<1>2. pending \in Seq(Client) BY LineFacts
<1>3. Line = pending \o (<<c>> \o r) /\ Line' = pending' \o r BY <1>1 DEF Line
<1>. HIDE DEF r, c
<1>4. CASE pending' = pending /\ Len(pending) = Depth
  <2>1. /\ Len(Line) > Depth
        /\ Line' = SubSeq(Line, 1, Depth) \o SubSeq(Line, Depth + 2, Len(Line))
    BY <1>1, <1>2, <1>3, <1>4, WithoutOne
  <2>. QED BY <2>1 DEF Service!Next, Service!Refuse
<1>5. CASE pending' = Append(pending, c)
  <2>1. <<c>> \in Seq(Client) BY <1>1
  <2>2. Append(pending, c) = pending \o <<c>> BY <1>1, <1>2, AppendIsConcat
  <2>3. (pending \o <<c>>) \o r = pending \o (<<c>> \o r) BY <1>1, <1>2, <2>1, ConcatAssociative
  <2>. QED BY <1>3, <1>5, <2>2, <2>3 DEF Service!vars
<1>. QED BY <1>4, <1>5 DEF c

\* What is neither a request's nor the end of a transfer leaves the line alone.
LEMMA QuietServes ==
  ASSUME IInv, Drop \/ Vote
  PROVE  UNCHANGED Service!vars
<1>1. PICK kind \in Kinds : Dispatching(kind) /\ kind # "Request" BY DEF Drop, Vote, Kinds
<1>2. queue' = queue /\ pc' # "handle" /\ pending' = pending /\ flight' = flight BY DEF Drop, Vote
<1>3. Requests(Coming') = Requests(Coming) BY <1>1, <1>2, LineHandled
<1>. QED BY <1>2, <1>3 DEF Service!vars, Line

LEMMA ArbiterServes ==
  ASSUME Affordable, IInv, Arbiter
  PROVE  [Service!Next]_Service!vars
<1>1. CASE Serve
  <2>. USE <1>1 DEF Serve
  <2>1. queue \in Seq(Message) BY DEF IInv, TypeInv
  <2>2. Coming' = Coming BY <2>1, InDispatchAgain DEF Coming
  <2>. QED BY <2>2 DEF Service!vars, Line
<1>2. CASE BeginRequest BY <1>2, BeginRequestServes
<1>3. CASE WaitOrReject BY <1>3, WaitOrRejectServes
<1>4. CASE Retry
  <2>. USE <1>4 DEF Retry
  <2>1. "TransferDone" \in Kinds BY DEF Kinds
  <2>2. CASE GoesAsync(flight) /\ pc' = "return"
    <3>1. Requests(Coming') = Requests(Coming) BY <2>1, <2>2, LineHandled
    <3>. QED BY <2>2, <3>1 DEF Service!vars, Line, GoesAsync
  <2>3. CASE Finish BY <2>1, <2>3, FinishServes DEF Service!Next
  <2>. QED BY <2>2, <2>3
<1>5. CASE Complete
  <2>1. "TransferDone" \in Kinds BY DEF Kinds
  <2>. QED BY <1>5, <2>1, FinishServes DEF Complete, Service!Next
<1>6. CASE Release
  <2>. USE <1>6 DEF Release
  <2>1. flight = Nobody BY DEF IInv, PlaceInv, Moving
  <2>2. pc' # "handle" BY DEF NextWaiting
  <2>3. Requests(Coming') = Requests(Coming) BY <2>2, LineQuiet
  <2>. QED BY <2>1, <2>3, NextWaitingServes
<1>7. CASE Timeout
  <2>1. "BusTimeout" \in Kinds BY DEF Kinds
  <2>. QED BY <1>7, <2>1, FinishServes DEF Timeout, Service!Next
<1>8. CASE TimeoutRelease
  <2>. USE <1>8 DEF TimeoutRelease
  <2>1. Requests(Coming') = Requests(Coming) BY LineQuiet
  <2>. QED BY <2>1 DEF Service!vars, Line
<1>9. CASE Flush
  <2>. USE <1>9 DEF Flush
  <2>. DEFINE e == Event("BusFlushed", Nobody)
  <2>1. e \in Message /\ e.kind = "BusFlushed" BY Events
  <2>2. Occupied < Slots BY Room DEF IInv
  <2>. QED BY <2>1, <2>2, LinePosted DEF Service!vars
<1>10. CASE Flushed
  <2>. USE <1>10 DEF Flushed
  <2>1. flight = Nobody BY DEF IInv, PlaceInv
  <2>2. "BusFlushed" \in Kinds /\ pc' # "handle" BY DEF Kinds, NextWaiting
  <2>3. Requests(Coming') = Requests(Coming) BY <2>2, LineHandled
  <2>. QED BY <2>1, <2>3, NextWaitingServes
<1>11. CASE Drop \/ Vote BY <1>11, QuietServes
<1>12. CASE Return
  <2>. USE <1>12 DEF Return
  <2>1. Requests(Coming') = Requests(Coming) BY LineQuiet
  <2>. QED BY <2>1 DEF Service!vars, Line
<1>. QED
  BY <1>1, <1>2, <1>3, <1>4, <1>5, <1>6, <1>7, <1>8, <1>9, <1>10, <1>11, <1>12 DEF Arbiter

LEMMA NextServes ==
  ASSUME Affordable, IInv, [Next]_vars
  PROVE  [Service!Next]_Service!vars
<1>1. CASE Arbiter BY <1>1, ArbiterServes
<1>2. CASE AskToSleep
  <2>. USE <1>2 DEF AskToSleep
  <2>. DEFINE e == Event("PrepareSleep", Nobody)
  <2>1. e \in Message /\ e.kind = "PrepareSleep" BY Events
  <2>2. voting = FALSE BY DEF IInv, TypeInv
  <2>3. Occupied < Slots BY <2>2, Room DEF IInv
  <2>. QED BY <2>1, <2>3, LinePosted DEF Service!vars
<1>3. CASE EngineDone
  <2>. USE <1>3 DEF EngineDone
  <2>1. PICK status \in {"ok", "failed"} : Post(Event("TransferDone", status)) OBVIOUS
  <2>. DEFINE e == Event("TransferDone", status)
  <2>2. e \in Message /\ e.kind = "TransferDone" BY Events
  <2>3. Occupied < Slots BY Room DEF IInv
  <2>. QED BY <2>1, <2>2, <2>3, LinePosted DEF Service!vars
<1>4. CASE TimerFire
  <2>. USE <1>4 DEF TimerFire
  <2>. DEFINE e == Event("BusTimeout", seq)
  <2>1. e \in Message /\ e.kind = "BusTimeout" BY Events DEF IInv, TypeInv
  <2>2. Occupied < Slots
    <3>1. armed = TRUE BY DEF IInv, TypeInv
    <3>. QED BY <3>1, Room DEF IInv
  <2>. QED BY <2>1, <2>2, LinePosted DEF Service!vars
<1>5. CASE \E c \in Client : Ask(c)
  <2>1. PICK c \in Client : Ask(c) BY <1>5
  <2>. USE <2>1 DEF Ask
  <2>. DEFINE e == Event("Request", c)
  <2>2. e \in Message /\ e.kind = "Request" /\ e.arg = c BY Events
  <2>3. Occupied < Slots BY Room DEF IInv
  <2>4. Line' = Append(Line, c) BY <2>2, <2>3, LinePosted
  <2>5. c \notin {Line[k] : k \in DOMAIN Line} BY LineFacts
  <2>6. flight # c BY ClientAssumption DEF IInv, ClientInv, ClientsIn
  <2>. QED BY <2>4, <2>5, <2>6 DEF Service!Next, Service!Ask, Service!Waiting
<1>6. CASE UNCHANGED vars BY <1>6 DEF vars, Service!vars, Line, Coming
<1>. QED BY <1>1, <1>2, <1>3, <1>4, <1>5, <1>6 DEF Next

\* The arbiter serves its clients one at a time, in the order they asked, and
\* refuses only who finds Depth waiting: every step of a queue cut by the
\* engine, the timer and the clients is a step of BusService or leaves it alone.
THEOREM ServesInOrder ==
  ASSUME Affordable
  PROVE  Spec => ImplementsService
<1>1. Init => Service!Init
  <2>. SUFFICES ASSUME Init PROVE Service!Init OBVIOUS
  <2>1. pending = <<>> /\ Coming = <<>> /\ flight = Nobody BY DEF Init, Coming
  <2>2. <<>> \in Seq(Client) BY EmptySeq
  <2>3. Line = <<>> BY <2>1, <2>2, NoRequests, ConcatEmptySeq DEF Line
  <2>. QED BY <2>1, <2>3 DEF Service!Init
<1>2. IInv /\ [Next]_vars => [Service!Next]_Service!vars BY NextServes
<1>. QED BY <1>1, <1>2, IInvariant, PTL DEF Spec, ImplementsService, Service!Spec
=============================================================================
