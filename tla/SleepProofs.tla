------------------------------- MODULE SleepProofs -------------------------------
(***************************************************************************)
(* The two that put the core to sleep: Tenuto, for every number of objects, *)
(* every depth of their queues and any number of posts, whose loop sleeps   *)
(* on empty queues; and PowerManager, for every set of voters, every ladder *)
(* of requests and locks, and any number of requesters, whose arming is     *)
(* agreed even when its queue overflows.  LoopInv and ManagerInv are their  *)
(* inductive invariants.                                                   *)
(***************************************************************************)
EXTENDS Tenuto, PowerManager, FiniteSetTheorems, SequenceTheorems, TLAPS

-----------------------------------------------------------------------------
(* The loop of the cooperative kernel.                                      *)

\* The scan is inside the list only between a step and the dispatch it finds.
ScanInv == pc \notin {"step", "dispatch"} => i = 0

\* The object a dispatch runs for is in the list.
DispatchInv == pc = "dispatch" => i < N

\* Only an object still waiting has been overtaken, and the scan has passed
\* it without its having been overtaken before: a post to an object behind
\* the scan counts from there.
OvertakenInv ==
  \A o \in Objects :
    /\ overtaken[o] <= 1
    /\ overtaken[o] > 0 => waiting[o] > 0
    /\ pc = "step" /\ o < i => overtaken[o] = 0

LoopInv ==
  /\ TypeOK
  /\ ScanInv
  /\ DispatchInv
  /\ OvertakenInv
  /\ SleepsEmpty

-----------------------------------------------------------------------------
\* The loop starts in the invariant.
LEMMA InitLoopInv == Init => LoopInv
BY NAssumption, SlotsAssumption, MaxPostsAssumption
   DEF Init, LoopInv, TypeOK, Objects, ScanInv, DispatchInv, OvertakenInv, SleepsEmpty

\* A push adds an event to one queue or drops it, and takes none away.
LEMMA PushedType ==
  ASSUME TypeOK, NEW o \in Objects
  PROVE  /\ Pushed(o) \in [Objects -> 0 .. Slots]
         /\ \A p \in Objects : Pushed(o)[p] >= waiting[p]
BY SlotsAssumption DEF Pushed, TypeOK, Outstanding

\* A post, from wherever it comes, leaves the scan's facts alone and must
\* not find the core asleep.
LEMMA PostLoopInv ==
  ASSUME LoopInv, NEW o \in Objects, Post(o),
         pc' = (IF pc = "asleep" THEN "process" ELSE pc), UNCHANGED idleUntil
  PROVE  LoopInv'
<1>. USE DEF LoopInv
<1>1. TypeOK' BY PushedType, MaxPostsAssumption DEF Post, TypeOK
<1>2. OvertakenInv'
  <2>. SUFFICES ASSUME NEW p \in Objects
                PROVE  /\ overtaken'[p] <= 1
                       /\ overtaken'[p] > 0 => waiting'[p] > 0
                       /\ pc' = "step" /\ p < i' => overtaken'[p] = 0
    BY DEF OvertakenInv
  <2>1. waiting'[p] >= waiting[p] BY PushedType DEF Post
  <2>2. waiting[p] \in Nat /\ waiting'[p] \in Nat
    BY <1>1, SlotsAssumption DEF TypeOK
  <2>. QED BY <2>1, <2>2 DEF Post, OvertakenInv
<1>3. ScanInv' /\ DispatchInv' /\ SleepsEmpty'
  BY DEF Post, ScanInv, DispatchInv, SleepsEmpty
<1>. QED BY <1>1, <1>2, <1>3

\* process() posts what had matured: the core is awake.
LEMMA ProcessPostLoopInv ==
  ASSUME LoopInv, NEW o \in Objects, ProcessPost(o), UNCHANGED idleUntil PROVE LoopInv'
<1>. USE DEF LoopInv
<1>1. TypeOK' BY PushedType DEF ProcessPost, TypeOK
<1>2. \A p \in Objects : waiting'[p] >= waiting[p] /\ waiting[p] \in Nat /\ waiting'[p] \in Nat
  BY <1>1, PushedType, SlotsAssumption DEF ProcessPost, TypeOK
<1>3. OvertakenInv' BY <1>2 DEF ProcessPost, OvertakenInv
<1>4. ScanInv' /\ DispatchInv' /\ SleepsEmpty'
  BY DEF ProcessPost, ScanInv, DispatchInv, SleepsEmpty
<1>. QED BY <1>1, <1>3, <1>4

\* The scan serves object i: the ones above it that wait came after it had
\* passed them, so this is the first dispatch to overtake them.
LEMMA TryServeLoopInv == ASSUME LoopInv, TryServe, UNCHANGED idleUntil PROVE LoopInv'
<1>. USE DEF LoopInv
<1>1. /\ pc = "step" /\ i \in Objects /\ pc' = "dispatch" /\ i < N
      /\ waiting' = [waiting EXCEPT ![i] = @ - 1] /\ waiting[i] > 0
      /\ UNCHANGED <<due, todo, i, posts, idleUntil>>
  BY NAssumption DEF TryServe, TypeOK, Objects
<1>2. waiting' \in [Objects -> 0 .. Slots] BY <1>1, SlotsAssumption DEF TypeOK
<1>3. ASSUME NEW o \in Objects
      PROVE  overtaken'[o] \in Nat /\ overtaken'[o] <= 1
             /\ (overtaken'[o] > 0 => waiting'[o] > 0)
  <2>1. overtaken'[o] = IF waiting'[o] = 0 \/ o = i THEN 0
                        ELSE IF o < i THEN overtaken[o] + 1 ELSE overtaken[o]
    BY DEF TryServe
  <2>2. o < i => overtaken[o] = 0 BY <1>1 DEF OvertakenInv
  <2>3. overtaken[o] \in Nat /\ overtaken[o] <= 1 /\ waiting'[o] \in Nat
    BY <1>2 DEF TypeOK, OvertakenInv
  <2>. QED BY <2>1, <2>2, <2>3
<1>4. TypeOK'
  <2>1. overtaken' \in [Objects -> Nat] BY <1>3 DEF TryServe
  <2>. QED BY <1>1, <1>2, <2>1 DEF TypeOK
<1>5. OvertakenInv' BY <1>1, <1>3 DEF OvertakenInv
<1>6. ScanInv' /\ DispatchInv' /\ SleepsEmpty'
  BY <1>1 DEF ScanInv, DispatchInv, SleepsEmpty
<1>. QED BY <1>4, <1>5, <1>6

\* The scan goes past an object with nothing waiting, which was therefore
\* never overtaken.
LEMMA TryNoneLoopInv == ASSUME LoopInv, TryNone, UNCHANGED idleUntil PROVE LoopInv'
<1>. USE DEF LoopInv
<1>1. TypeOK' BY NAssumption DEF TryNone, TypeOK
<1>2. i \in Objects /\ overtaken[i] = 0
  BY NAssumption DEF TryNone, TypeOK, Objects, OvertakenInv
<1>3. OvertakenInv'
  <2>. SUFFICES ASSUME NEW o \in Objects, o < i + 1 PROVE overtaken[o] = 0
    BY DEF TryNone, OvertakenInv
  <2>1. o < i \/ o = i BY DEF TypeOK, Objects
  <2>. QED BY <1>2, <2>1 DEF TryNone, OvertakenInv
<1>4. ScanInv' /\ DispatchInv' /\ SleepsEmpty'
  BY DEF TryNone, ScanInv, DispatchInv, SleepsEmpty
<1>. QED BY <1>1, <1>3, <1>4

\* The other steps move the program counter, the scan back to the start and
\* the matured time events.
LEMMA QuietLoopInv ==
  ASSUME LoopInv, UNCHANGED <<waiting, overtaken, idleUntil>>,
         TypeOK', SleepsEmpty', pc' # "dispatch", i' = 0
  PROVE  LoopInv'
BY DEF LoopInv, ScanInv, DispatchInv, OvertakenInv, TypeOK, Objects

\* Every step of the loop, the handlers and the tick keeps the invariant.
LEMMA NextLoopInv == LoopInv /\ [Next]_vars => LoopInv'
<1>. SUFFICES ASSUME LoopInv, [Next]_vars PROVE LoopInv' OBVIOUS
<1>1. ASSUME NEW o \in Objects, ProcessPost(o), UNCHANGED idleUntil PROVE LoopInv'
  BY <1>1, ProcessPostLoopInv
<1>2. ASSUME NEW o \in Objects, HandlerPost(o) \/ DispatchPost(o), UNCHANGED idleUntil
      PROVE  LoopInv'
  BY <1>2, PostLoopInv DEF HandlerPost, DispatchPost
<1>3. CASE TryServe /\ UNCHANGED idleUntil BY <1>3, TryServeLoopInv
<1>4. CASE TryNone /\ UNCHANGED idleUntil BY <1>4, TryNoneLoopInv
<1>5. CASE /\ ProcessStart \/ ProcessEnd \/ DispatchEnd \/ StepNone \/ Idle
           /\ UNCHANGED idleUntil
  <2>. USE DEF LoopInv
  <2>1. /\ UNCHANGED <<waiting, overtaken, idleUntil>>
        /\ pc' # "dispatch" /\ i' = 0
    BY <1>5 DEF ProcessStart, ProcessEnd, DispatchEnd, StepNone, Idle, ScanInv
  <2>2. TypeOK'
    BY <1>5, NAssumption DEF ProcessStart, ProcessEnd, DispatchEnd, StepNone, Idle, TypeOK
  <2>3. SleepsEmpty'
    BY <1>5 DEF ProcessStart, ProcessEnd, DispatchEnd, StepNone, Idle, SleepsEmpty
  <2>. QED BY <2>1, <2>2, <2>3, QuietLoopInv
<1>6. ASSUME NEW o \in Objects, Tick(o), UNCHANGED idleUntil PROVE LoopInv'
  <2>. USE DEF LoopInv
  <2>1. TypeOK' BY <1>6, MaxPostsAssumption DEF Tick, TypeOK
  <2>2. ScanInv' /\ DispatchInv' /\ OvertakenInv' /\ SleepsEmpty'
    BY <1>6 DEF Tick, ScanInv, DispatchInv, OvertakenInv, SleepsEmpty
  <2>. QED BY <2>1, <2>2
<1>7. CASE IdleTick /\ UNCHANGED idleUntil
  BY <1>7 DEF IdleTick, LoopInv, TypeOK, ScanInv, DispatchInv, OvertakenInv, SleepsEmpty
<1>8. CASE UNCHANGED vars
  BY <1>8 DEF vars, LoopInv, TypeOK, ScanInv, DispatchInv, OvertakenInv, SleepsEmpty
<1>. QED BY <1>1, <1>2, <1>3, <1>4, <1>5, <1>6, <1>7, <1>8 DEF Next, Loop, Others

\* The inductive invariant holds in every behaviour.
THEOREM LoopInvariant == Spec => []LoopInv
BY InitLoopInv, NextLoopInv, PTL DEF Spec

\* An object with an event waiting is overtaken by at most one dispatch of
\* lower priority: step() starts again from the top after every dispatch.
THEOREM AlwaysOvertakenOnce == Spec => []OvertakenOnce
<1>1. LoopInv => OvertakenOnce BY DEF LoopInv, OvertakenInv, OvertakenOnce
<1>. QED BY <1>1, LoopInvariant, PTL

\* The core sleeps only on empty queues, and with idle_until() only when no
\* time event is due: idle_if_empty() looks again under the mask.
THEOREM AlwaysSleepsEmpty == Spec => []SleepsEmpty
<1>1. LoopInv => SleepsEmpty BY DEF LoopInv
<1>. QED BY <1>1, LoopInvariant, PTL

-----------------------------------------------------------------------------
(* The manager of the ladder.                                              *)

\* How many events of a kind wait in a queue.
KindAt(q, kind) == {k \in DOMAIN q : q[k].kind = kind}
KindCount(q, kind) == Cardinality(KindAt(q, kind))

LEMMA KindCountType ==
  ASSUME NEW S, NEW q \in Seq(S), NEW kind
  PROVE  /\ IsFiniteSet(KindAt(q, kind)) /\ KindCount(q, kind) \in Nat
         /\ KindCount(q, kind) = 0 <=> \A k \in 1 .. Len(q) : q[k].kind # kind
<1>1. DOMAIN q = 1 .. Len(q) /\ Len(q) \in Nat OBVIOUS
<1>2. IsFiniteSet(1 .. Len(q)) BY <1>1, FS_Interval
<1>3. IsFiniteSet(KindAt(q, kind)) BY <1>1, <1>2, FS_Subset DEF KindAt
<1>4. KindCount(q, kind) = 0 <=> KindAt(q, kind) = {} BY <1>3, FS_EmptySet DEF KindCount
<1>5. KindAt(q, kind) = {} <=> \A k \in 1 .. Len(q) : q[k].kind # kind BY <1>1 DEF KindAt
<1>. QED BY <1>3, <1>4, <1>5, FS_CardinalityType DEF KindCount

LEMMA NoneCounted ==
  ASSUME NEW kind
  PROVE  KindAt(<<>>, kind) = {} /\ KindCount(<<>>, kind) = 0
BY FS_EmptySet DEF KindAt, KindCount

\* An event posted counts for its kind.
LEMMA CountAppend ==
  ASSUME NEW S, NEW q \in Seq(S), NEW e \in S, NEW kind
  PROVE  KindCount(Append(q, e), kind) =
           IF e.kind = kind THEN KindCount(q, kind) + 1 ELSE KindCount(q, kind)
<1>. DEFINE n == Len(q) + 1
            p == Append(q, e)
<1>1. DOMAIN q = 1 .. Len(q) /\ Len(q) \in Nat OBVIOUS
<1>2. /\ p \in Seq(S) /\ Len(p) = n /\ p[n] = e
      /\ \A k \in 1 .. Len(q) : p[k] = q[k]
  BY AppendProperties
<1>. HIDE DEF p
<1>3. DOMAIN p = 1 .. n BY <1>2
<1>4. n \notin KindAt(q, kind) BY <1>1 DEF KindAt
<1>5. CASE e.kind = kind
  <2>1. KindAt(p, kind) = KindAt(q, kind) \cup {n} BY <1>1, <1>2, <1>3, <1>5 DEF KindAt
  <2>. QED BY <1>4, <1>5, <2>1, KindCountType, FS_AddElement DEF KindCount, p
<1>6. CASE e.kind # kind
  <2>1. KindAt(p, kind) = KindAt(q, kind) BY <1>1, <1>2, <1>3, <1>6 DEF KindAt
  <2>. QED BY <1>6, <2>1 DEF KindCount, p
<1>. QED BY <1>5, <1>6

\* The event served first no longer counts: the others move up.
LEMMA CountTail ==
  ASSUME NEW S, NEW q \in Seq(S), q # <<>>, NEW kind
  PROVE  KindCount(Tail(q), kind) =
           IF Head(q).kind = kind THEN KindCount(q, kind) - 1 ELSE KindCount(q, kind)
<1>. DEFINE p == Tail(q)
            rest == KindAt(q, kind) \ {1}
            f == [k \in rest |-> k - 1]
<1>1. DOMAIN q = 1 .. Len(q) /\ Len(q) \in Nat \ {0} BY EmptySeq
<1>2. /\ p \in Seq(S) /\ Len(p) = Len(q) - 1
      /\ \A k \in 1 .. Len(p) : p[k] = q[k + 1]
  BY HeadTailProperties
<1>3. Head(q) = q[1] OBVIOUS
<1>. HIDE DEF p
<1>4. DOMAIN p = 1 .. Len(q) - 1 BY <1>1, <1>2
<1>5. IsFiniteSet(rest)
      /\ Cardinality(rest) = IF Head(q).kind = kind THEN KindCount(q, kind) - 1 ELSE KindCount(q, kind)
  <2>1. 1 \in KindAt(q, kind) <=> Head(q).kind = kind BY <1>1, <1>3 DEF KindAt
  <2>. QED BY <2>1, KindCountType, FS_RemoveElement DEF KindCount
<1>6. f \in Bijection(rest, KindAt(p, kind))
  <2>1. \A k \in rest : k \in 2 .. Len(q) /\ q[k].kind = kind BY <1>1 DEF KindAt
  <2>2. \A k \in rest : k - 1 \in KindAt(p, kind) BY <1>1, <1>2, <1>4, <2>1 DEF KindAt
  <2>3. f \in [rest -> KindAt(p, kind)] BY <2>2
  <2>4. \A j, k \in rest : f[j] = f[k] => j = k BY <2>1
  <2>5. \A k \in KindAt(p, kind) : k + 1 \in rest /\ f[k + 1] = k
    <3>. TAKE k \in KindAt(p, kind)
    <3>1. k \in 1 .. Len(q) - 1 /\ q[k + 1].kind = kind BY <1>2, <1>4 DEF KindAt
    <3>2. k + 1 \in rest BY <1>1, <3>1 DEF KindAt
    <3>. QED BY <3>1, <3>2
  <2>. QED BY <2>3, <2>4, <2>5 DEF Bijection, Injection, IsInjective, Surjection
<1>7. Cardinality(KindAt(p, kind)) = Cardinality(rest)
  BY <1>5, <1>6, FS_Bijection DEF ExistsBijection
<1>. QED BY <1>5, <1>7 DEF KindCount, p

-----------------------------------------------------------------------------

Message == {Vote(ok) : ok \in BOOLEAN} \cup {Request(d) : d \in Depths}

\* A voter owes at most one answer, and the wake it has to read came first.
VoterQueues == {<<>>, <<"prepare">>, <<"wake">>, <<"wake", "prepare">>}
HasPrepare(q) == \E k \in DOMAIN q : q[k] = "prepare"
AskedOf(f) == {v \in Voters : HasPrepare(f[v])}

Requests == KindCount(powerQueue, "request")
Votes == KindCount(powerQueue, "vote")
Collecting == IF power = "collecting" THEN 1 ELSE 0
Due == IF power = "collecting" THEN outstanding ELSE 0

TypeInv ==
  /\ PowerTypeOK
  /\ powerQueue \in Seq(Message) /\ inHand \in BOOLEAN
  /\ voterQueue \in [Voters -> VoterQueues]
  /\ judged \in [most : Ladder, agreed : SUBSET Voters]

\* An event lost by a full queue only makes a round wait for ever.
CountInv ==
  /\ Requests + Collecting <= asking
  /\ Votes + Unanswered <= Due
  /\ MaxAsking <= 4 =>
       /\ Requests + Collecting = asking
       /\ Votes + Unanswered = Due

\* What the voters can hold in each state of the manager.
VoterInv == \A v \in Voters :
  /\ power = "idle" => voterQueue[v] \in {<<>>, <<"wake">>}
  /\ power = "collecting" => voterQueue[v] # <<"wake">>
  /\ power = "armed" => voterQueue[v] = <<>>

AllYes(q) == \A k \in 1 .. Len(q) : q[k].kind = "vote" => q[k].ok

\* A round without an objection so far, in which no vote was lost: who has
\* answered has agreed.
Clean == ~objected /\ AllYes(powerQueue) /\ Votes + Unanswered = outstanding
AgreedInv ==
  power = "collecting" =>
    /\ outstanding > 0 /\ judged.most = requested
    /\ Clean => Voters \ AskedOf(voterQueue) \subseteq judged.agreed

ManagerInv ==
  /\ TypeInv
  /\ CountInv
  /\ VoterInv
  /\ AgreedInv
  /\ ArmedAgreed

-----------------------------------------------------------------------------
\* The voters are finitely many, and so are those who owe an answer.
LEMMA VotersCounted ==
  /\ IsFiniteSet(Voters) /\ Cardinality(Voters) \in Nat \ {0}
  /\ \A S \in SUBSET Voters : IsFiniteSet(S) /\ Cardinality(S) \in 0 .. Cardinality(Voters)
<1>1. IsFiniteSet(Voters) /\ Voters # {} BY PowerAssumption
<1>2. Cardinality(Voters) \in Nat \ {0} BY <1>1, FS_CardinalityType, FS_EmptySet
<1>3. \A S \in SUBSET Voters : IsFiniteSet(S) /\ Cardinality(S) \in 0 .. Cardinality(Voters)
  <2>. TAKE S \in SUBSET Voters
  <2>1. IsFiniteSet(S) /\ Cardinality(S) <= Cardinality(Voters) BY <1>1, FS_Subset
  <2>. QED BY <1>2, <2>1, FS_CardinalityType
<1>. QED BY <1>1, <1>2, <1>3

LEMMA UnansweredIsAsked ==
  /\ Unanswered = Cardinality(AskedOf(voterQueue)) /\ Unanswered \in Nat
  /\ Unanswered' = Cardinality(AskedOf(voterQueue')) /\ Unanswered' \in Nat
<1>1. Unanswered = Cardinality(AskedOf(voterQueue)) BY DEF Unanswered, AskedOf, HasPrepare
<1>2. Unanswered' = Cardinality(AskedOf(voterQueue')) BY DEF Unanswered, AskedOf, HasPrepare
<1>3. \A f : AskedOf(f) \in SUBSET Voters BY DEF AskedOf
<1>. QED BY <1>1, <1>2, <1>3, VotersCounted

\* The shapes of a voter's queue.
LEMMA Shapes ==
  /\ ~HasPrepare(<<>>) /\ HasPrepare(<<"prepare">>)
  /\ ~HasPrepare(<<"wake">>) /\ HasPrepare(<<"wake", "prepare">>)
  /\ Append(<<>>, "prepare") = <<"prepare">> /\ Append(<<"wake">>, "prepare") = <<"wake", "prepare">>
  /\ Append(<<>>, "wake") = <<"wake">>
  /\ Tail(<<"prepare">>) = <<>> /\ Tail(<<"wake">>) = <<>>
  /\ Tail(<<"wake", "prepare">>) = <<"prepare">>
  /\ \A q \in VoterQueues : Len(q) <= 2 /\ (HasPrepare(q) <=> q \in {<<"prepare">>, <<"wake", "prepare">>})
<1>1. ~HasPrepare(<<>>) /\ HasPrepare(<<"prepare">>) BY DEF HasPrepare
<1>2. ~HasPrepare(<<"wake">>) BY DEF HasPrepare
<1>3. HasPrepare(<<"wake", "prepare">>)
  <2>1. 2 \in DOMAIN <<"wake", "prepare">> /\ <<"wake", "prepare">>[2] = "prepare" OBVIOUS
  <2>. QED BY <2>1 DEF HasPrepare
<1>4. Append(<<>>, "prepare") = <<"prepare">> /\ Append(<<"wake">>, "prepare") = <<"wake", "prepare">>
  <2>. DEFINE p == Append(<<"wake">>, "prepare")
              q == <<"wake", "prepare">>
  <2>1. <<"wake">> \in Seq({"wake", "prepare"}) /\ Len(<<"wake">>) = 1 /\ <<"wake">>[1] = "wake" OBVIOUS
  <2>2. q \in Seq({"wake", "prepare"}) /\ Len(q) = 2 /\ q[1] = "wake" /\ q[2] = "prepare" OBVIOUS
  <2>3. p \in Seq({"wake", "prepare"}) /\ Len(p) = 2 /\ p[1] = "wake" /\ p[2] = "prepare"
    <3>1. "prepare" \in {"wake", "prepare"} OBVIOUS
    <3>. QED BY <2>1, <3>1, AppendProperties
  <2>. HIDE DEF p, q
  <2>4. p = q
    <3>1. \A k \in 1 .. 2 : k = 1 \/ k = 2 OBVIOUS
    <3>. QED BY <2>2, <2>3, <3>1, SeqEqual
  <2>5. Append(<<>>, "prepare") = <<"prepare">> OBVIOUS
  <2>. QED BY <2>4, <2>5 DEF p, q
<1>5. Append(<<>>, "wake") = <<"wake">> OBVIOUS
<1>6. Tail(<<"prepare">>) = <<>> /\ Tail(<<"wake">>) = <<>> OBVIOUS
<1>7. Tail(<<"wake", "prepare">>) = <<"prepare">> OBVIOUS
<1>8. \A q \in VoterQueues : Len(q) <= 2
  <2>1. Len(<<>>) = 0 /\ Len(<<"prepare">>) = 1 /\ Len(<<"wake">>) = 1 OBVIOUS
  <2>2. Len(<<"wake", "prepare">>) = 2 OBVIOUS
  <2>3. \A q \in VoterQueues : Len(q) \in {0, 1, 2} BY <2>1, <2>2, Zenon DEF VoterQueues
  <2>4. \A n \in {0, 1, 2} : n <= 2 OBVIOUS
  <2>. QED BY <2>3, <2>4
<1>9. \A q \in VoterQueues : HasPrepare(q) <=> q \in {<<"prepare">>, <<"wake", "prepare">>}
  BY <1>1, <1>2, <1>3 DEF VoterQueues
<1>. QED BY <1>1, <1>2, <1>3, <1>4, <1>5, <1>6, <1>7, <1>8, <1>9

\* What an event of the manager's queue is.
LEMMA Messages ==
  \A m \in Message :
    /\ m.kind \in {"vote", "request"}
    /\ m.kind = "vote" => m.ok \in BOOLEAN
    /\ m.kind = "request" => m.depth \in Ladder
BY PowerAssumption DEF Message, Vote, Request

LEMMA VoteAndRequest ==
  /\ \A ok \in BOOLEAN : Vote(ok) \in Message /\ Vote(ok).kind = "vote" /\ Vote(ok).ok = ok
  /\ \A d \in Depths : Request(d) \in Message /\ Request(d).kind = "request" /\ Request(d).depth = d
BY DEF Message, Vote, Request

\* Every event of the queue is a vote or a request.
LEMMA LenIsCounts ==
  ASSUME NEW q \in Seq(Message)
  PROVE  KindCount(q, "request") + KindCount(q, "vote") = Len(q)
<1>. DEFINE R == KindAt(q, "request")
            W == KindAt(q, "vote")
<1>1. DOMAIN q = 1 .. Len(q) /\ Len(q) \in Nat OBVIOUS
<1>2. \A k \in 1 .. Len(q) : q[k] \in Message BY ElementOfSeq
<1>3. R \cup W = 1 .. Len(q) BY <1>1, <1>2, Messages DEF KindAt
<1>4. R \cap W = {}
  <2>1. \A k \in R \cap W : q[k].kind = "request" /\ q[k].kind = "vote" BY DEF KindAt
  <2>. QED BY <2>1
<1>5. /\ IsFiniteSet(R) /\ IsFiniteSet(W)
      /\ KindCount(q, "request") \in Nat /\ KindCount(q, "vote") \in Nat
  BY KindCountType
<1>6. Cardinality(1 .. Len(q)) = Len(q) BY <1>1, FS_Interval
<1>. HIDE DEF R, W
<1>7. Cardinality(R \cup W) = Cardinality(R) + Cardinality(W) - Cardinality(R \cap W)
  BY <1>5, FS_Union
<1>8. Cardinality(R \cap W) = 0 BY <1>4, FS_EmptySet
<1>9. Cardinality(R) = KindCount(q, "request") /\ Cardinality(W) = KindCount(q, "vote")
  BY DEF R, W, KindCount
<1>10. Cardinality(R \cup W) = Len(q) BY <1>3, <1>6
<1>. QED BY <1>1, <1>5, <1>7, <1>8, <1>9, <1>10

\* A post to the manager: behind the others, or nowhere when no slot is free.
LEMMA Posted ==
  ASSUME NEW q \in Seq(Message), NEW e \in Message, NEW h \in {0, 1}, Len(q) + h <= ManagerSlots,
         NEW p, p = PostedToManager(q, e, h)
  PROVE  /\ p \in Seq(Message) /\ Len(p) + h <= ManagerSlots
         /\ p = Append(q, e) \/ p = q
         /\ \A kind : kind # e.kind => KindCount(p, kind) = KindCount(q, kind)
         /\ \A kind : kind = e.kind => KindCount(p, kind) <= KindCount(q, kind) + 1
         /\ \A kind :
              kind = e.kind /\ Len(q) + h < ManagerSlots => KindCount(p, kind) = KindCount(q, kind) + 1
<1>1. Cardinality(Voters) \in Nat BY VotersCounted
<1>2. \A kind : KindCount(q, kind) \in Nat BY KindCountType
<1>3. CASE Len(q) + h < ManagerSlots
  <2>1. p = Append(q, e) BY <1>3 DEF PostedToManager
  <2>2. p \in Seq(Message) /\ Len(p) = Len(q) + 1 BY <2>1, AppendProperties
  <2>3. Len(p) + h <= ManagerSlots BY <1>1, <1>3, <2>2 DEF ManagerSlots
  <2>4. \A kind : KindCount(p, kind) = IF e.kind = kind THEN KindCount(q, kind) + 1 ELSE KindCount(q, kind)
    BY <2>1, CountAppend
  <2>. QED BY <1>2, <2>1, <2>2, <2>3, <2>4
<1>4. CASE ~(Len(q) + h < ManagerSlots)
  <2>1. p = q BY <1>4 DEF PostedToManager
  <2>. QED BY <1>2, <1>4, <2>1
<1>. QED BY <1>3, <1>4

\* The counts of a state.
LEMMA Counts ==
  ASSUME ManagerInv
  PROVE  /\ Requests \in Nat /\ Votes \in Nat
         /\ Requests + Votes = Len(powerQueue)
         /\ Unanswered \in Nat /\ outstanding \in Nat /\ asking \in Nat /\ Held \in {0, 1}
         /\ Collecting \in {0, 1} /\ Due \in Nat
         /\ Cardinality(Voters) \in Nat \ {0}
<1>1. powerQueue \in Seq(Message) /\ outstanding \in Nat /\ asking \in Nat
  BY VotersCounted, PowerAssumption DEF ManagerInv, TypeInv, PowerTypeOK
<1>. QED
  BY <1>1, KindCountType, LenIsCounts, UnansweredIsAsked, VotersCounted
  DEF Requests, Votes, Held, Collecting, Due

\* The manager starts in the invariant.
LEMMA InitManagerInv == PowerInit => ManagerInv
<1>. SUFFICES ASSUME PowerInit PROVE ManagerInv OBVIOUS
<1>. USE DEF PowerInit
<1>1. AskedOf(voterQueue) = {} BY Shapes DEF AskedOf
<1>2. Unanswered = 0 BY <1>1, UnansweredIsAsked, FS_EmptySet
<1>3. Requests = 0 /\ Votes = 0 BY NoneCounted DEF Requests, Votes
<1>4. PowerTypeOK
  <2>1. Len(powerQueue) + Held <= ManagerSlots BY VotersCounted DEF Held, ManagerSlots
  <2>2. outstanding \in 0 .. Cardinality(Voters) BY VotersCounted
  <2>3. asking \in 0 .. MaxAsking BY PowerAssumption
  <2>4. \A v \in Voters : Len(voterQueue[v]) <= 2 OBVIOUS
  <2>5. requested \in Ladder /\ armedDepth \in Ladder /\ site \in Ladder BY DEF Ladder
  <2>6. power \in {"idle", "collecting", "armed"} /\ objected \in BOOLEAN OBVIOUS
  <2>. QED BY <2>1, <2>2, <2>3, <2>4, <2>5, <2>6 DEF PowerTypeOK
<1>5. TypeInv
  <2>1. powerQueue \in Seq(Message) BY EmptySeq
  <2>2. voterQueue \in [Voters -> VoterQueues] BY DEF VoterQueues
  <2>3. judged \in [most : Ladder, agreed : SUBSET Voters] BY DEF NoRound, Ladder
  <2>. QED BY <1>4, <2>1, <2>2, <2>3 DEF TypeInv
<1>6. CountInv BY <1>2, <1>3 DEF CountInv, Collecting, Due
<1>7. VoterInv BY DEF VoterInv
<1>8. AgreedInv BY DEF AgreedInv
<1>9. ArmedAgreed BY <1>4 DEF ArmedAgreed
<1>. QED BY <1>5, <1>6, <1>7, <1>8, <1>9 DEF ManagerInv

-----------------------------------------------------------------------------
\* Agreement in a longer and in a shorter queue.
LEMMA YesAppend ==
  ASSUME NEW q \in Seq(Message), NEW e \in Message, AllYes(Append(q, e))
  PROVE  AllYes(q) /\ (e.kind = "vote" => e.ok)
<1>1. /\ Len(q) \in Nat /\ Len(Append(q, e)) = Len(q) + 1
      /\ \A k \in 1 .. Len(q) : Append(q, e)[k] = q[k]
      /\ Append(q, e)[Len(q) + 1] = e
  BY AppendProperties
<1>2. \A k \in 1 .. Len(q) : k \in 1 .. Len(q) + 1 BY <1>1
<1>3. Len(q) + 1 \in 1 .. Len(q) + 1 BY <1>1
<1>. QED BY <1>1, <1>2, <1>3 DEF AllYes

LEMMA YesTail ==
  ASSUME NEW q \in Seq(Message), q # <<>>, AllYes(Tail(q)), Head(q).kind = "vote" => Head(q).ok
  PROVE  AllYes(q)
<1>1. /\ Len(q) \in Nat \ {0} /\ Len(Tail(q)) = Len(q) - 1 /\ Head(q) = q[1]
      /\ \A k \in 1 .. Len(q) - 1 : Tail(q)[k] = q[k + 1]
  BY HeadTailProperties, EmptySeq
<1>2. ASSUME NEW k \in 1 .. Len(q), q[k].kind = "vote" PROVE q[k].ok
  <2>1. CASE k = 1 BY <1>1, <1>2, <2>1
  <2>2. CASE k # 1
    <3>1. k - 1 \in 1 .. Len(q) - 1 /\ (k - 1) + 1 = k BY <1>1, <2>2
    <3>2. Tail(q)[k - 1] = q[k] BY <1>1, <3>1
    <3>. QED BY <1>1, <1>2, <3>1, <3>2 DEF AllYes
  <2>. QED BY <2>1, <2>2
<1>. QED BY <1>2 DEF AllYes

LEMMA NoVotesYes ==
  ASSUME NEW q \in Seq(Message), KindCount(q, "vote") = 0
  PROVE  AllYes(q)
BY KindCountType DEF AllYes

\* The event in dispatch has left the queue and keeps its slot.
LEMMA Served ==
  ASSUME ManagerInv, NEW kind \in {"request", "vote"}, Handles(kind)
  PROVE  /\ powerQueue \in Seq(Message) /\ powerQueue # <<>>
         /\ Head(powerQueue) \in Message /\ Head(powerQueue).kind = kind
         /\ Tail(powerQueue) \in Seq(Message) /\ Len(Tail(powerQueue)) = Len(powerQueue) - 1
         /\ Len(Tail(powerQueue)) + 1 <= ManagerSlots
         /\ KindCount(Tail(powerQueue), "request") =
              IF kind = "request" THEN Requests - 1 ELSE Requests
         /\ KindCount(Tail(powerQueue), "vote") = IF kind = "vote" THEN Votes - 1 ELSE Votes
         /\ kind = "request" => Requests > 0
         /\ kind = "vote" => Votes > 0
<1>1. powerQueue \in Seq(Message) /\ powerQueue # <<>> /\ Head(powerQueue).kind = kind
  BY DEF ManagerInv, TypeInv, Handles
<1>2. /\ Head(powerQueue) \in Message /\ Tail(powerQueue) \in Seq(Message)
      /\ Len(Tail(powerQueue)) = Len(powerQueue) - 1
  BY <1>1, HeadTailProperties
<1>3. Len(Tail(powerQueue)) + 1 <= ManagerSlots
  <2>1. Len(powerQueue) + 0 <= ManagerSlots
    BY DEF ManagerInv, TypeInv, PowerTypeOK, Held, Handles
  <2>2. Len(powerQueue) \in Nat BY <1>1
  <2>. QED BY <1>2, <2>1, <2>2
<1>4. KindCount(Tail(powerQueue), "request") = IF kind = "request" THEN Requests - 1 ELSE Requests
  BY <1>1, CountTail DEF Requests
<1>5. KindCount(Tail(powerQueue), "vote") = IF kind = "vote" THEN Votes - 1 ELSE Votes
  BY <1>1, CountTail DEF Votes
<1>6. \A k : KindCount(Tail(powerQueue), k) \in Nat BY <1>2, KindCountType
<1>7. Requests \in Nat /\ Votes \in Nat BY Counts
<1>8. kind = "request" => Requests > 0 BY <1>4, <1>6, <1>7
<1>9. kind = "vote" => Votes > 0 BY <1>5, <1>6, <1>7
<1>. QED BY <1>1, <1>2, <1>3, <1>4, <1>5, <1>8, <1>9

\* The rung of a request: the shallower of its own and of the ceiling.
LEMMA RungInLadder ==
  ASSUME NEW d \in Ladder
  PROVE  Shallower(d, Ceiling) \in Ladder
<1>1. \A S \in SUBSET Ladder : S # {} => Min(S) \in S
  <2>. TAKE S \in SUBSET Ladder
  <2>. HAVE S # {}
  <2>1. \E x \in S : \A y \in S : x <= y
    <3>1. CASE 0 \in S BY <3>1 DEF Ladder
    <3>2. CASE 0 \notin S /\ 1 \in S BY <3>2 DEF Ladder
    <3>3. CASE 0 \notin S /\ 1 \notin S /\ 2 \in S BY <3>3 DEF Ladder
    <3>4. CASE 0 \notin S /\ 1 \notin S /\ 2 \notin S
      <4>1. \A x \in Ladder : x \in {0, 1, 2, 3} BY DEF Ladder
      <4>2. S = {3} BY <3>4, <4>1
      <4>. QED BY <4>2
    <3>. QED BY <3>1, <3>2, <3>3, <3>4
  <2>. QED BY <2>1 DEF Min
<1>2. Ceiling \in Ladder BY <1>1 DEF Ceiling, Ladder
<1>3. {d, Ceiling} \in SUBSET Ladder /\ {d, Ceiling} # {} BY <1>2
<1>. QED BY <1>1, <1>3 DEF Shallower

-----------------------------------------------------------------------------
\* Steps that leave the round as it is: locks, a return.
LEMMA SameRound ==
  ASSUME ManagerInv, UNCHANGED <<managerVars, powerQueue, voterQueue, asking>>,
         inHand' \in BOOLEAN, Len(powerQueue) + Held' <= ManagerSlots
  PROVE  ManagerInv'
<1>. USE DEF managerVars
<1>1. PowerTypeOK' BY DEF ManagerInv, TypeInv, PowerTypeOK
<1>2. TypeInv' BY <1>1 DEF ManagerInv, TypeInv
<1>3. Requests' = Requests /\ Votes' = Votes /\ Unanswered' = Unanswered
  BY DEF Requests, Votes, Unanswered
<1>4. CountInv' BY <1>3 DEF ManagerInv, CountInv, Collecting, Due
<1>5. VoterInv' BY DEF ManagerInv, VoterInv
<1>6. Clean' => Clean BY <1>3 DEF Clean
<1>7. AgreedInv' BY <1>6 DEF ManagerInv, AgreedInv
<1>8. ArmedAgreed' BY <1>1 DEF ManagerInv, ArmedAgreed
<1>. QED BY <1>2, <1>4, <1>5, <1>7, <1>8 DEF ManagerInv

LEMMA LockManagerInv ==
  ASSUME ManagerInv, NEW d \in LockLevels, TakeLock(d) \/ ReleaseLock(d)
  PROVE  ManagerInv'
<1>1. UNCHANGED <<managerVars, powerQueue, voterQueue, asking>> /\ inHand' = inHand
  BY DEF TakeLock, ReleaseLock
<1>2. Held' = Held BY <1>1 DEF Held
<1>3. inHand' \in BOOLEAN /\ Len(powerQueue) + Held' <= ManagerSlots
  BY <1>1, <1>2 DEF ManagerInv, TypeInv, PowerTypeOK
<1>. QED BY <1>1, <1>3, SameRound

LEMMA ReturnManagerInv ==
  ASSUME ManagerInv, Return
  PROVE  ManagerInv'
<1>1. UNCHANGED <<managerVars, powerQueue, voterQueue, asking>> /\ inHand' = FALSE /\ inHand
  BY DEF Return
<1>2. Held' = 0 /\ Held = 1 BY <1>1 DEF Held
<1>3. Len(powerQueue) + Held' <= ManagerSlots
  <2>1. Len(powerQueue) \in Nat /\ Len(powerQueue) + Held <= ManagerSlots
    BY DEF ManagerInv, TypeInv, PowerTypeOK
  <2>2. ManagerSlots \in Nat BY VotersCounted DEF ManagerSlots
  <2>. QED BY <1>2, <2>1, <2>2
<1>. QED BY <1>1, <1>3, SameRound

\* A request: there is a slot for it while no more than four are unanswered.
LEMMA AskManagerInv ==
  ASSUME ManagerInv, NEW d \in Depths, Ask(d)
  PROVE  ManagerInv'
<1>. USE DEF Ask, managerVars
<1>1. /\ powerQueue \in Seq(Message) /\ Len(powerQueue) + Held <= ManagerSlots
      /\ Request(d) \in Message /\ Request(d).kind = "request"
      /\ powerQueue' = PostedToManager(powerQueue, Request(d), Held) /\ Held \in {0, 1}
  BY VoteAndRequest, Counts DEF ManagerInv, TypeInv, PowerTypeOK
<1>2. /\ powerQueue' \in Seq(Message) /\ Len(powerQueue') + Held <= ManagerSlots
      /\ powerQueue' = Append(powerQueue, Request(d)) \/ powerQueue' = powerQueue
      /\ Votes' = Votes /\ Requests' <= Requests + 1
      /\ Len(powerQueue) + Held < ManagerSlots => Requests' = Requests + 1
  <2>. DEFINE q == powerQueue
              p == powerQueue'
              e == Request(d)
              h == Held
  <2>1. /\ q \in Seq(Message) /\ e \in Message /\ h \in {0, 1} /\ Len(q) + h <= ManagerSlots
        /\ p = PostedToManager(q, e, h) /\ e.kind = "request" /\ "request" # "vote"
    BY <1>1
  <2>. HIDE DEF q, p, e, h
  <2>2. /\ p \in Seq(Message) /\ Len(p) + h <= ManagerSlots
        /\ p = Append(q, e) \/ p = q
    BY <2>1, Posted
  <2>3. KindCount(p, "vote") = KindCount(q, "vote") BY <2>1, Posted
  <2>4. KindCount(p, "request") <= KindCount(q, "request") + 1 BY <2>1, Posted
  <2>5. Len(q) + h < ManagerSlots => KindCount(p, "request") = KindCount(q, "request") + 1
    BY <2>1, Posted
  <2>. QED BY <2>2, <2>3, <2>4, <2>5 DEF q, p, e, h, Votes, Requests
<1>3. Held' = Held BY DEF Held
<1>4. asking' \in 0 .. MaxAsking BY PowerAssumption DEF ManagerInv, TypeInv, PowerTypeOK
<1>5. PowerTypeOK' BY <1>2, <1>3, <1>4 DEF ManagerInv, TypeInv, PowerTypeOK
<1>6. TypeInv' BY <1>2, <1>5 DEF ManagerInv, TypeInv
<1>7. Unanswered' = Unanswered /\ Collecting' = Collecting /\ Due' = Due
  BY DEF Unanswered, Collecting, Due
<1>8. Requests' \in Nat BY <1>2, KindCountType DEF Requests
<1>9. CountInv'
  <2>1. Requests' + Collecting' <= asking'
    BY <1>2, <1>7, <1>8, Counts DEF ManagerInv, CountInv
  <2>2. Votes' + Unanswered' <= Due' BY <1>2, <1>7 DEF ManagerInv, CountInv
  <2>3. ASSUME MaxAsking <= 4
        PROVE  Requests' + Collecting' = asking' /\ Votes' + Unanswered' = Due'
    <3>1. Requests + Collecting = asking /\ Votes + Unanswered = Due BY <2>3 DEF ManagerInv, CountInv
    <3>2. asking < 4 BY <2>3, Counts, PowerAssumption
    <3>3. Due <= Cardinality(Voters) /\ (Collecting = 0 => Due = 0)
      BY Counts DEF ManagerInv, TypeInv, PowerTypeOK, Due, Collecting
    <3>4. Len(powerQueue) + Held < Cardinality(Voters) + 4
      BY <3>1, <3>2, <3>3, Counts
    <3>5. Requests' = Requests + 1 BY <1>2, <3>4 DEF ManagerSlots
    <3>. QED BY <1>2, <1>7, <3>1, <3>5, Counts
  <2>. QED BY <2>1, <2>2, <2>3 DEF CountInv
<1>10. VoterInv' BY DEF ManagerInv, VoterInv
<1>11. Clean' => Clean
  <2>1. AllYes(powerQueue') => AllYes(powerQueue) BY <1>1, <1>2, YesAppend
  <2>. QED BY <1>2, <1>7, <2>1 DEF Clean
<1>12. AgreedInv' BY <1>11 DEF ManagerInv, AgreedInv
<1>13. ArmedAgreed' BY <1>5 DEF ManagerInv, ArmedAgreed
<1>. QED BY <1>6, <1>9, <1>10, <1>12, <1>13 DEF ManagerInv

\* Who is asked once a voter has read its first event.
LEMMA AskedTail ==
  ASSUME NEW f \in [Voters -> VoterQueues], NEW v \in Voters, f[v] # <<>>,
         NEW g, g = [f EXCEPT ![v] = Tail(@)]
  PROVE  /\ g \in [Voters -> VoterQueues]
         /\ Head(f[v]) = "prepare" => f[v] = <<"prepare">> /\ AskedOf(g) = AskedOf(f) \ {v} /\ v \in AskedOf(f)
         /\ Head(f[v]) # "prepare" =>
              /\ f[v] \in {<<"wake">>, <<"wake", "prepare">>} /\ AskedOf(g) = AskedOf(f)
              /\ g[v] = IF f[v] = <<"wake">> THEN <<>> ELSE <<"prepare">>
<1>1. f[v] \in {<<"prepare">>, <<"wake">>, <<"wake", "prepare">>} BY DEF VoterQueues
<1>2. Head(<<"prepare">>) = "prepare" /\ Head(<<"wake">>) = "wake" /\ Head(<<"wake", "prepare">>) = "wake"
  OBVIOUS
<1>3. \A u \in Voters : g[u] = IF u = v THEN Tail(f[v]) ELSE f[u] OBVIOUS
<1>4. <<"wake", "prepare">> # <<"wake">>
  <2>1. HasPrepare(<<"wake", "prepare">>) /\ ~HasPrepare(<<"wake">>) BY Shapes
  <2>. QED BY <2>1
<1>5. CASE f[v] = <<"prepare">>
  <2>1. Tail(f[v]) = <<>> BY <1>5, Shapes
  <2>2. g \in [Voters -> VoterQueues] BY <2>1 DEF VoterQueues
  <2>3. HasPrepare(f[v]) /\ ~HasPrepare(g[v]) BY <1>3, <1>5, <2>1, Shapes
  <2>4. v \in AskedOf(f) /\ AskedOf(g) = AskedOf(f) \ {v} BY <1>3, <2>3 DEF AskedOf
  <2>. QED BY <1>2, <1>5, <2>2, <2>4
<1>6. CASE f[v] = <<"wake">>
  <2>1. Tail(f[v]) = <<>> BY <1>6, Shapes
  <2>2. g \in [Voters -> VoterQueues] BY <2>1 DEF VoterQueues
  <2>3. ~HasPrepare(f[v]) /\ ~HasPrepare(g[v]) BY <1>3, <1>6, <2>1, Shapes
  <2>4. AskedOf(g) = AskedOf(f) BY <1>3, <2>3 DEF AskedOf
  <2>. QED BY <1>2, <1>3, <1>6, <2>1, <2>2, <2>4
<1>7. CASE f[v] = <<"wake", "prepare">>
  <2>1. Tail(f[v]) = <<"prepare">> BY <1>7, Shapes
  <2>2. g \in [Voters -> VoterQueues] BY <2>1 DEF VoterQueues
  <2>3. HasPrepare(f[v]) /\ HasPrepare(g[v]) BY <1>3, <1>7, <2>1, Shapes
  <2>4. AskedOf(g) = AskedOf(f) BY <1>3, <2>3 DEF AskedOf
  <2>. QED BY <1>2, <1>3, <1>4, <1>7, <2>1, <2>2, <2>4
<1>. QED BY <1>1, <1>5, <1>6, <1>7

\* A voter answers its PrepareSleep: one owed the less, one vote on its way.
LEMMA VoteManagerInv ==
  ASSUME ManagerInv, NEW v \in Voters, NEW ok \in BOOLEAN, Answer(v, ok), Head(voterQueue[v]) = "prepare"
  PROVE  ManagerInv'
<1>1. /\ powerQueue \in Seq(Message) /\ Len(powerQueue) + Held <= ManagerSlots
      /\ powerQueue' = PostedToManager(powerQueue, Vote(ok), Held) /\ Held \in {0, 1}
      /\ Vote(ok) \in Message /\ Vote(ok).kind = "vote" /\ Vote(ok).ok = ok
  BY VoteAndRequest, Counts DEF Answer, ManagerInv, TypeInv, PowerTypeOK
<1>2. /\ UNCHANGED <<power, requested, outstanding, objected, armedDepth, site, inHand, locks, asking>>
      /\ judged' = [judged EXCEPT !.agreed = IF ok THEN @ \cup {v} ELSE @]
      /\ voterQueue[v] # <<>> /\ voterQueue' = [voterQueue EXCEPT ![v] = Tail(@)]
  BY DEF Answer
<1>3. /\ voterQueue \in [Voters -> VoterQueues] /\ judged \in [most : Ladder, agreed : SUBSET Voters]
  BY DEF ManagerInv, TypeInv
<1>4. /\ voterQueue' \in [Voters -> VoterQueues] /\ voterQueue[v] = <<"prepare">>
      /\ AskedOf(voterQueue') = AskedOf(voterQueue) \ {v} /\ v \in AskedOf(voterQueue)
  <2>1. voterQueue' \in [Voters -> VoterQueues] BY <1>2, <1>3, AskedTail
  <2>2. voterQueue[v] = <<"prepare">> BY <1>2, <1>3, AskedTail
  <2>3. AskedOf(voterQueue') = AskedOf(voterQueue) \ {v}
    <3>. DEFINE f == voterQueue
                g == voterQueue'
    <3>1. /\ f \in [Voters -> VoterQueues] /\ f[v] # <<>> /\ g = [f EXCEPT ![v] = Tail(@)]
          /\ Head(f[v]) = "prepare"
      BY <1>2, <1>3
    <3>. HIDE DEF f, g
    <3>2. AskedOf(g) = AskedOf(f) \ {v} BY <3>1, AskedTail
    <3>. QED BY <3>2 DEF f, g
  <2>4. v \in AskedOf(voterQueue) BY <1>2, <1>3, AskedTail
  <2>. QED BY <2>1, <2>2, <2>3, <2>4
<1>5. power = "collecting"
  <2>1. <<"prepare">> # <<>> OBVIOUS
  <2>2. <<"prepare">> # <<"wake">> BY Shapes
  <2>3. power \in {"idle", "collecting", "armed"} BY DEF ManagerInv, TypeInv, PowerTypeOK
  <2>. QED BY <1>4, <2>1, <2>2, <2>3 DEF ManagerInv, VoterInv
<1>6. Unanswered' = Unanswered - 1
  <2>1. AskedOf(voterQueue) \in SUBSET Voters BY DEF AskedOf
  <2>. QED BY <1>4, <2>1, UnansweredIsAsked, VotersCounted, FS_RemoveElement
<1>7. /\ powerQueue' \in Seq(Message) /\ Len(powerQueue') + Held <= ManagerSlots
      /\ powerQueue' = Append(powerQueue, Vote(ok)) \/ powerQueue' = powerQueue
      /\ Requests' = Requests /\ Votes' <= Votes + 1
      /\ Len(powerQueue) + Held < ManagerSlots => Votes' = Votes + 1
  <2>. DEFINE q == powerQueue
              p == powerQueue'
              e == Vote(ok)
              h == Held
  <2>1. /\ q \in Seq(Message) /\ e \in Message /\ h \in {0, 1} /\ Len(q) + h <= ManagerSlots
        /\ p = PostedToManager(q, e, h) /\ "vote" = e.kind /\ "request" # "vote"
    BY <1>1
  <2>. HIDE DEF q, p, e, h
  <2>2. /\ p \in Seq(Message) /\ Len(p) + h <= ManagerSlots
        /\ p = Append(q, e) \/ p = q
    BY <2>1, Posted
  <2>3. KindCount(p, "request") = KindCount(q, "request") BY <2>1, Posted
  <2>4. KindCount(p, "vote") <= KindCount(q, "vote") + 1 BY <2>1, Posted
  <2>5. ASSUME Len(q) + h < ManagerSlots PROVE KindCount(p, "vote") = KindCount(q, "vote") + 1
    <3>1. p = Append(q, e) BY <2>1, <2>5 DEF PostedToManager
    <3>. QED BY <2>1, <3>1, CountAppend
  <2>. QED BY <2>2, <2>3, <2>4, <2>5 DEF q, p, e, h, Votes, Requests
<1>8. Held' = Held /\ Collecting' = Collecting /\ Due' = Due BY <1>2 DEF Held, Collecting, Due
<1>9. \A u \in Voters : Len(voterQueue'[u]) <= 2 BY <1>4, Shapes
<1>10. PowerTypeOK' BY <1>2, <1>7, <1>8, <1>9 DEF ManagerInv, TypeInv, PowerTypeOK
<1>11. TypeInv'
  <2>1. judged' \in [most : Ladder, agreed : SUBSET Voters] /\ judged'.most = judged.most
    BY <1>2, <1>3
  <2>. QED BY <1>2, <1>4, <1>7, <1>10, <2>1 DEF ManagerInv, TypeInv
<1>12. Votes' \in Nat /\ Unanswered' \in Nat BY <1>7, KindCountType, UnansweredIsAsked DEF Votes
<1>13. CountInv'
  <2>1. Requests' + Collecting' <= asking' BY <1>2, <1>7, <1>8 DEF ManagerInv, CountInv
  <2>2. Votes' + Unanswered' <= Due'
    BY <1>6, <1>7, <1>8, <1>12, Counts DEF ManagerInv, CountInv
  <2>3. ASSUME MaxAsking <= 4
        PROVE  Requests' + Collecting' = asking' /\ Votes' + Unanswered' = Due'
    <3>1. Requests + Collecting = asking /\ Votes + Unanswered = Due BY <2>3 DEF ManagerInv, CountInv
    <3>2. asking <= 4 /\ Collecting = 1 /\ Due <= Cardinality(Voters)
      BY <1>5, <2>3, Counts, PowerAssumption DEF ManagerInv, TypeInv, PowerTypeOK, Collecting, Due
    <3>3. Len(powerQueue) + Held < Cardinality(Voters) + 4
      BY <1>6, <1>12, <3>1, <3>2, Counts
    <3>4. Votes' = Votes + 1 BY <1>7, <3>3 DEF ManagerSlots
    <3>. QED BY <1>2, <1>6, <1>7, <1>8, <3>1, <3>4, Counts
  <2>. QED BY <2>1, <2>2, <2>3 DEF CountInv
<1>14. VoterInv'
  <2>1. \A u \in Voters : voterQueue'[u] # <<"wake">>
    <3>1. \A u \in Voters : voterQueue'[u] = IF u = v THEN Tail(voterQueue[v]) ELSE voterQueue[u]
      BY <1>2, <1>3
    <3>2. Tail(voterQueue[v]) = <<>> BY <1>4, Shapes
    <3>3. <<>> # <<"wake">> BY Shapes
    <3>. QED BY <1>5, <3>1, <3>2, <3>3 DEF ManagerInv, VoterInv
  <2>. QED BY <1>2, <1>5, <2>1 DEF VoterInv
<1>15. AgreedInv'
  <2>1. ASSUME Clean' PROVE Voters \ AskedOf(voterQueue') \subseteq judged'.agreed
    <3>1. Votes' + Unanswered' = outstanding BY <1>2, <2>1 DEF Clean
    <3>2. Votes + Unanswered <= outstanding BY <1>5 DEF ManagerInv, CountInv, Due
    <3>3. Votes' = Votes + 1
      <4>1. Votes' <= Votes + 1 BY <1>7
      <4>2. Votes \in Nat /\ Unanswered \in Nat /\ outstanding \in Nat BY Counts
      <4>3. \A w, u, x, y, o \in Nat :
              x + y = o /\ w + u <= o /\ y = u - 1 /\ x <= w + 1 => x = w + 1
        OBVIOUS
      <4>. QED BY <1>6, <1>12, <3>1, <3>2, <4>1, <4>2, <4>3
    <3>4. powerQueue' = Append(powerQueue, Vote(ok))
      <4>1. Votes' # Votes BY <3>3, Counts
      <4>2. powerQueue' # powerQueue BY <4>1 DEF Votes
      <4>. QED BY <1>7, <4>2
    <3>5. AllYes(powerQueue) /\ ok
      <4>1. AllYes(Append(powerQueue, Vote(ok))) BY <2>1, <3>4 DEF Clean
      <4>. QED BY <1>1, <4>1, YesAppend
    <3>6. Votes + Unanswered = outstanding BY <1>6, <3>1, <3>3, Counts
    <3>7. Clean BY <1>2, <2>1, <3>5, <3>6 DEF Clean
    <3>8. Voters \ AskedOf(voterQueue) \subseteq judged.agreed BY <1>5, <3>7 DEF ManagerInv, AgreedInv
    <3>9. judged'.agreed = judged.agreed \cup {v} BY <1>2, <1>3, <3>5
    <3>. QED BY <1>4, <3>8, <3>9
  <2>2. judged'.most = judged.most BY <1>2, <1>3
  <2>. QED BY <1>2, <1>5, <2>1, <2>2 DEF ManagerInv, AgreedInv
<1>16. ArmedAgreed' BY <1>2, <1>5, <1>10 DEF ManagerInv, ArmedAgreed
<1>. QED BY <1>11, <1>13, <1>14, <1>15, <1>16 DEF ManagerInv

\* A voter reads its WakeReport.
LEMMA ReadWakeManagerInv ==
  ASSUME ManagerInv, NEW v \in Voters, NEW ok \in BOOLEAN, Answer(v, ok), Head(voterQueue[v]) # "prepare"
  PROVE  ManagerInv'
<1>1. /\ UNCHANGED <<power, requested, outstanding, objected, armedDepth, site, inHand, locks, asking,
                     powerQueue, judged>>
      /\ voterQueue[v] # <<>> /\ voterQueue' = [voterQueue EXCEPT ![v] = Tail(@)]
  BY DEF Answer
<1>2. voterQueue \in [Voters -> VoterQueues] BY DEF ManagerInv, TypeInv
<1>3. /\ voterQueue' \in [Voters -> VoterQueues] /\ AskedOf(voterQueue') = AskedOf(voterQueue)
      /\ voterQueue[v] \in {<<"wake">>, <<"wake", "prepare">>}
      /\ voterQueue'[v] = IF voterQueue[v] = <<"wake">> THEN <<>> ELSE <<"prepare">>
  BY <1>1, <1>2, AskedTail
<1>4. Requests' = Requests /\ Votes' = Votes /\ Unanswered' = Unanswered
  BY <1>1, <1>3, UnansweredIsAsked DEF Requests, Votes
<1>5. Held' = Held /\ Collecting' = Collecting /\ Due' = Due BY <1>1 DEF Held, Collecting, Due
<1>6. \A u \in Voters : Len(voterQueue'[u]) <= 2 BY <1>3, Shapes
<1>7. PowerTypeOK' BY <1>1, <1>5, <1>6 DEF ManagerInv, TypeInv, PowerTypeOK
<1>8. TypeInv' BY <1>1, <1>3, <1>7 DEF ManagerInv, TypeInv
<1>9. CountInv' BY <1>1, <1>4, <1>5 DEF ManagerInv, CountInv
<1>10. VoterInv'
  <2>1. <<"prepare">> # <<"wake">> /\ <<"wake", "prepare">> # <<>> /\ <<"wake">> # <<>>
        /\ <<"wake", "prepare">> # <<"wake">> /\ <<>> # <<"wake">>
    BY Shapes
  <2>2. \A u \in Voters : u # v => voterQueue'[u] = voterQueue[u] BY <1>1, <1>2
  <2>3. power = "idle" => voterQueue'[v] = <<>>
    BY <1>3, <2>1 DEF ManagerInv, VoterInv
  <2>4. power = "collecting" => voterQueue'[v] # <<"wake">> BY <1>3, <2>1
  <2>5. power # "armed" BY <1>3, <2>1 DEF ManagerInv, VoterInv
  <2>. QED BY <1>1, <2>2, <2>3, <2>4, <2>5 DEF ManagerInv, VoterInv
<1>11. Clean' => Clean BY <1>1, <1>4 DEF Clean
<1>12. AgreedInv' BY <1>1, <1>3, <1>11 DEF ManagerInv, AgreedInv
<1>13. ArmedAgreed' BY <1>1, <1>7 DEF ManagerInv, ArmedAgreed
<1>. QED BY <1>8, <1>9, <1>10, <1>12, <1>13 DEF ManagerInv

-----------------------------------------------------------------------------
\* A request answered in its dispatch: the round, if any, goes on.
LEMMA AnsweredManagerInv ==
  ASSUME ManagerInv, Handles("request"), powerQueue' = Tail(powerQueue), inHand' = TRUE,
         asking' = asking - 1, site' \in {site, 0},
         UNCHANGED <<power, requested, outstanding, objected, armedDepth, voterQueue, judged>>,
         power # "armed"
  PROVE  ManagerInv'
<1>1. /\ powerQueue' \in Seq(Message) /\ Len(powerQueue') + 1 <= ManagerSlots
      /\ Requests' = Requests - 1 /\ Votes' = Votes /\ Requests > 0
  BY Served DEF Requests, Votes
<1>2. Held' = 1 /\ Collecting' = Collecting /\ Due' = Due /\ Unanswered' = Unanswered
  BY DEF Held, Collecting, Due, Unanswered
<1>3. asking' \in 0 .. MaxAsking
  <2>1. asking \in 0 .. MaxAsking /\ Requests + Collecting <= asking
    BY DEF ManagerInv, TypeInv, PowerTypeOK, CountInv
  <2>. QED BY <1>1, <2>1, Counts, PowerAssumption
<1>4. site' \in Ladder BY DEF ManagerInv, TypeInv, PowerTypeOK, Ladder
<1>5. PowerTypeOK' BY <1>1, <1>2, <1>3, <1>4 DEF ManagerInv, TypeInv, PowerTypeOK
<1>6. TypeInv' BY <1>1, <1>5 DEF ManagerInv, TypeInv
<1>7. CountInv'
  <2>1. Requests' + Collecting' <= asking' BY <1>1, <1>2, Counts DEF ManagerInv, CountInv
  <2>2. Votes' + Unanswered' <= Due' BY <1>1, <1>2 DEF ManagerInv, CountInv
  <2>3. MaxAsking <= 4 => Requests' + Collecting' = asking'
    BY <1>1, <1>2, Counts DEF ManagerInv, CountInv
  <2>4. MaxAsking <= 4 => Votes' + Unanswered' = Due' BY <1>1, <1>2 DEF ManagerInv, CountInv
  <2>. QED BY <2>1, <2>2, <2>3, <2>4 DEF CountInv
<1>8. VoterInv' BY DEF ManagerInv, VoterInv
<1>9. Clean' => Clean
  <2>1. AllYes(Tail(powerQueue)) => AllYes(powerQueue)
    <3>1. "request" # "vote" OBVIOUS
    <3>. QED BY <3>1, Served, YesTail
  <2>. QED BY <1>1, <1>2, <2>1 DEF Clean
<1>10. AgreedInv' BY <1>9 DEF ManagerInv, AgreedInv
<1>11. ArmedAgreed'
  <2>1. site = 0
    <3>1. site \in 0 .. 3 /\ ~(site > 0) BY DEF ManagerInv, TypeInv, PowerTypeOK, Ladder, ArmedAgreed
    <3>. QED BY <3>1
  <2>2. site' = 0 BY <2>1
  <2>. QED BY <1>5, <2>2 DEF ArmedAgreed
<1>. QED BY <1>6, <1>7, <1>8, <1>10, <1>11 DEF ManagerInv

LEMMA RefuseManagerInv ==
  ASSUME ManagerInv, RefuseRequest
  PROVE  ManagerInv'
BY AnsweredManagerInv DEF RefuseRequest, managerVars

\* begin_round(): every voter is asked, none owes an answer to another round.
LEMMA BeginManagerInv ==
  ASSUME ManagerInv, BeginRound, power' # "idle"
  PROVE  ManagerInv'
<1>. DEFINE d == Shallower(Head(powerQueue).depth, Ceiling)
<1>1. /\ Handles("request") /\ power = "idle" /\ requested' = d /\ objected' = FALSE
      /\ outstanding' = Cardinality(Voters) /\ voterQueue' = Tell("prepare")
      /\ power' = "collecting" /\ judged' = [most |-> d, agreed |-> {}]
      /\ powerQueue' = Tail(powerQueue) /\ inHand' = TRUE
      /\ UNCHANGED <<asking, site, armedDepth, locks>>
  BY DEF BeginRound
<1>2. d \in Ladder
  <2>1. Head(powerQueue).depth \in Ladder BY <1>1, Served, Messages
  <2>. QED BY <2>1, RungInLadder
<1>. HIDE DEF d
<1>3. /\ powerQueue' \in Seq(Message) /\ Len(powerQueue') + 1 <= ManagerSlots
      /\ Requests' = Requests - 1 /\ Votes' = Votes /\ Requests > 0
  BY <1>1, Served DEF Requests, Votes
<1>4. /\ voterQueue \in [Voters -> VoterQueues]
      /\ \A v \in Voters : voterQueue[v] \in {<<>>, <<"wake">>}
      /\ \A v \in Voters : voterQueue'[v] = Append(voterQueue[v], "prepare")
  BY <1>1 DEF ManagerInv, TypeInv, VoterInv, Tell
<1>5. \A v \in Voters : voterQueue'[v] \in {<<"prepare">>, <<"wake", "prepare">>}
  BY <1>4, Shapes
<1>6. voterQueue' \in [Voters -> VoterQueues] BY <1>1, <1>5 DEF Tell, VoterQueues
<1>7. AskedOf(voterQueue') = Voters BY <1>5, Shapes DEF AskedOf
<1>8. Unanswered' = Cardinality(Voters) BY <1>7, UnansweredIsAsked
<1>9. Held' = 1 /\ Collecting' = 1 /\ Collecting = 0 /\ Due = 0 /\ Due' = Cardinality(Voters)
  BY <1>1 DEF Held, Collecting, Due
<1>10. Votes' = 0
  <2>1. Votes + Unanswered <= 0 BY <1>9 DEF ManagerInv, CountInv
  <2>. QED BY <1>3, <2>1, Counts
<1>11. PowerTypeOK'
  <2>1. \A v \in Voters : Len(voterQueue'[v]) <= 2 BY <1>6, Shapes
  <2>2. outstanding' \in 0 .. Cardinality(Voters) BY <1>1, VotersCounted
  <2>. QED BY <1>1, <1>2, <1>3, <1>9, <2>1, <2>2 DEF ManagerInv, TypeInv, PowerTypeOK
<1>12. TypeInv'
  <2>1. judged' \in [most : Ladder, agreed : SUBSET Voters] BY <1>1, <1>2
  <2>. QED BY <1>1, <1>3, <1>6, <1>11, <2>1 DEF TypeInv
<1>13. CountInv'
  <2>1. Requests' + Collecting' <= asking'
    BY <1>1, <1>3, <1>9, Counts DEF ManagerInv, CountInv
  <2>2. MaxAsking <= 4 => Requests' + Collecting' = asking'
    BY <1>1, <1>3, <1>9, Counts DEF ManagerInv, CountInv
  <2>3. Votes' + Unanswered' = Due' BY <1>8, <1>9, <1>10, VotersCounted
  <2>4. Due' \in Nat BY <1>9, VotersCounted
  <2>5. Votes' + Unanswered' <= Due' BY <2>3, <2>4
  <2>. QED BY <2>1, <2>2, <2>3, <2>5 DEF CountInv
<1>14. VoterInv'
  <2>1. <<"prepare">> # <<"wake">> /\ <<"wake", "prepare">> # <<"wake">> BY Shapes
  <2>. QED BY <1>1, <1>5, <2>1 DEF VoterInv
<1>15. AgreedInv'
  <2>1. outstanding' > 0 BY <1>1, VotersCounted
  <2>2. judged'.most = requested' BY <1>1
  <2>. QED BY <1>7, <2>1, <2>2 DEF AgreedInv
<1>16. ArmedAgreed' BY <1>1, <1>11 DEF ManagerInv, ArmedAgreed
<1>. QED BY <1>12, <1>13, <1>14, <1>15, <1>16 DEF ManagerInv

LEMMA BeginRoundManagerInv ==
  ASSUME ManagerInv, BeginRound
  PROVE  ManagerInv'
<1>1. CASE power' # "idle" BY <1>1, BeginManagerInv
<1>2. CASE power' = "idle"
  <2>1. /\ Handles("request") /\ powerQueue' = Tail(powerQueue) /\ inHand' = TRUE
        /\ asking' = asking - 1 /\ site' \in {site, 0} /\ power = "idle"
        /\ UNCHANGED <<power, requested, outstanding, objected, armedDepth, voterQueue, judged>>
    BY <1>2 DEF BeginRound
  <2>. QED BY <2>1, AnsweredManagerInv
<1>. QED BY <1>1, <1>2

-----------------------------------------------------------------------------
\* A vote that is not the last.
LEMMA OneMoreManagerInv ==
  ASSUME ManagerInv, CountVote, outstanding > 1
  PROVE  ManagerInv'
<1>1. /\ Handles("vote") /\ power = "collecting" /\ outstanding' = outstanding - 1
      /\ objected' = Objection(Head(powerQueue).ok)
      /\ UNCHANGED <<power, site, armedDepth, asking, requested, judged, locks, voterQueue>>
      /\ powerQueue' = Tail(powerQueue) /\ inHand' = TRUE
  BY DEF CountVote
<1>2. /\ powerQueue' \in Seq(Message) /\ Len(powerQueue') + 1 <= ManagerSlots
      /\ Requests' = Requests /\ Votes' = Votes - 1
  <2>1. "request" # "vote" OBVIOUS
  <2>. QED BY <1>1, <2>1, Served DEF Requests, Votes
<1>3. Head(powerQueue).ok \in BOOLEAN BY <1>1, Served, Messages
<1>4. /\ Held' = 1 /\ Collecting' = Collecting /\ Due = outstanding /\ Due' = outstanding - 1
      /\ Unanswered' = Unanswered
  BY <1>1 DEF Held, Collecting, Due, Unanswered
<1>5. outstanding' \in 0 .. Cardinality(Voters) /\ outstanding' > 0
  BY <1>1, Counts DEF ManagerInv, TypeInv, PowerTypeOK
<1>6. objected' \in BOOLEAN BY <1>1, <1>3 DEF Objection, ManagerInv, TypeInv, PowerTypeOK
<1>7. PowerTypeOK' BY <1>1, <1>2, <1>4, <1>5, <1>6 DEF ManagerInv, TypeInv, PowerTypeOK
<1>8. TypeInv' BY <1>1, <1>2, <1>7 DEF ManagerInv, TypeInv
<1>9. CountInv'
  <2>1. Requests' + Collecting' <= asking' BY <1>1, <1>2, <1>4 DEF ManagerInv, CountInv
  <2>2. Votes' + Unanswered' <= Due' BY <1>2, <1>4, Counts DEF ManagerInv, CountInv
  <2>3. MaxAsking <= 4 => Requests' + Collecting' = asking'
    BY <1>1, <1>2, <1>4 DEF ManagerInv, CountInv
  <2>4. MaxAsking <= 4 => Votes' + Unanswered' = Due' BY <1>2, <1>4, Counts DEF ManagerInv, CountInv
  <2>. QED BY <2>1, <2>2, <2>3, <2>4 DEF CountInv
<1>10. VoterInv' BY <1>1 DEF ManagerInv, VoterInv
<1>11. ASSUME Clean' PROVE Clean
  <2>1. ~objected /\ Head(powerQueue).ok BY <1>1, <1>11 DEF Clean, Objection
  <2>2. AllYes(powerQueue) BY <1>1, <1>11, <2>1, Served, YesTail DEF Clean
  <2>3. Votes + Unanswered = outstanding
    <3>1. (Votes - 1) + Unanswered = outstanding - 1 BY <1>1, <1>2, <1>4, <1>11 DEF Clean
    <3>. QED BY <3>1, Counts
  <2>. QED BY <2>1, <2>2, <2>3 DEF Clean
<1>12. AgreedInv' BY <1>1, <1>5, <1>11 DEF ManagerInv, AgreedInv
<1>13. ArmedAgreed' BY <1>1, <1>7 DEF ManagerInv, ArmedAgreed
<1>. QED BY <1>8, <1>9, <1>10, <1>12, <1>13 DEF ManagerInv

\* The last vote of a round: no voter owes one, and none is on its way.
LEMMA LastVote ==
  ASSUME ManagerInv, CountVote, ~(outstanding > 1)
  PROVE  /\ outstanding = 1 /\ Votes = 1 /\ Unanswered = 0
         /\ \A v \in Voters : voterQueue[v] = <<>>
         /\ ~Objection(Head(powerQueue).ok) => judged.agreed = Voters
<1>1. Handles("vote") /\ power = "collecting" BY DEF CountVote
<1>2. outstanding = 1 BY <1>1, Counts DEF ManagerInv, AgreedInv
<1>3. Votes > 0 /\ Votes + Unanswered <= 1 BY <1>1, <1>2, Served DEF ManagerInv, CountInv, Due
<1>4. Votes = 1 /\ Unanswered = 0 BY <1>3, Counts
<1>5. AskedOf(voterQueue) = {}
  <2>1. AskedOf(voterQueue) \in SUBSET Voters BY DEF AskedOf
  <2>. QED BY <1>4, <2>1, UnansweredIsAsked, VotersCounted, FS_EmptySet
<1>6. \A v \in Voters : voterQueue[v] = <<>>
  <2>1. \A v \in Voters : ~HasPrepare(voterQueue[v]) BY <1>5 DEF AskedOf
  <2>2. \A v \in Voters : voterQueue[v] \in VoterQueues /\ voterQueue[v] # <<"wake">>
    BY <1>1 DEF ManagerInv, TypeInv, VoterInv
  <2>. QED BY <2>1, <2>2, Shapes DEF VoterQueues
<1>7. ASSUME ~Objection(Head(powerQueue).ok) PROVE judged.agreed = Voters
  <2>1. ~objected /\ Head(powerQueue).ok BY <1>7 DEF Objection
  <2>2. KindCount(Tail(powerQueue), "vote") = 0 BY <1>1, <1>4, Served
  <2>3. AllYes(powerQueue) BY <1>1, <2>1, <2>2, Served, NoVotesYes, YesTail
  <2>4. Clean BY <1>2, <1>4, <2>1, <2>3 DEF Clean
  <2>5. Voters \subseteq judged.agreed BY <1>1, <1>5, <2>4 DEF ManagerInv, AgreedInv
  <2>6. judged.agreed \subseteq Voters BY DEF ManagerInv, TypeInv
  <2>. QED BY <2>5, <2>6
<1>. QED BY <1>2, <1>4, <1>6, <1>7

\* conclude(): the site is armed only by a round all the voters agreed to.
LEMMA ConcludeManagerInv ==
  ASSUME ManagerInv, CountVote, ~(outstanding > 1)
  PROVE  ManagerInv'
<1>1. /\ Handles("vote") /\ power = "collecting" /\ outstanding' = outstanding - 1
      /\ objected' = Objection(Head(powerQueue).ok)
      /\ Conclude(Objection(Head(powerQueue).ok)) /\ asking' = asking - 1
      /\ UNCHANGED <<requested, judged, locks, voterQueue>>
      /\ powerQueue' = Tail(powerQueue) /\ inHand' = TRUE
  BY DEF CountVote
<1>2. /\ powerQueue' \in Seq(Message) /\ Len(powerQueue') + 1 <= ManagerSlots
      /\ Requests' = Requests /\ Votes' = Votes - 1
  <2>1. "request" # "vote" OBVIOUS
  <2>. QED BY <1>1, <2>1, Served DEF Requests, Votes
<1>3. Head(powerQueue).ok \in BOOLEAN BY <1>1, Served, Messages
<1>4. /\ outstanding = 1 /\ Votes = 1 /\ Unanswered = 0
      /\ \A v \in Voters : voterQueue[v] = <<>>
      /\ ~Objection(Head(powerQueue).ok) => judged.agreed = Voters
  BY LastVote
<1>5. power' \in {"idle", "armed"} BY <1>1 DEF Conclude
<1>6. Held' = 1 /\ Collecting = 1 /\ Collecting' = 0 /\ Due' = 0 /\ Unanswered' = 0
  BY <1>1, <1>4, <1>5 DEF Held, Collecting, Due, Unanswered
<1>7. requested \in Ladder /\ judged.most = requested
  BY <1>1 DEF ManagerInv, TypeInv, PowerTypeOK, AgreedInv
<1>8. /\ site' \in Ladder /\ armedDepth' \in Ladder
      /\ power' = "idle" => site' = 0
      /\ power' = "armed" => site' = armedDepth' /\ site' <= judged.most /\ judged.agreed = Voters
  <2>1. CASE /\ ~Objection(Head(powerQueue).ok) /\ site' \in 0 .. requested
             /\ armedDepth' = site' /\ power' = "armed"
    <3>1. site' \in 0 .. 3 /\ site' <= requested BY <1>7, <2>1 DEF Ladder
    <3>. QED BY <1>4, <1>7, <2>1, <3>1 DEF Ladder
  <2>2. CASE site' = 0 /\ power' = "idle" /\ UNCHANGED armedDepth
    BY <2>2 DEF ManagerInv, TypeInv, PowerTypeOK, Ladder
  <2>. QED BY <1>1, <2>1, <2>2 DEF Conclude
<1>9. asking' \in 0 .. MaxAsking
  <2>1. asking \in 0 .. MaxAsking /\ Requests + Collecting <= asking
    BY DEF ManagerInv, TypeInv, PowerTypeOK, CountInv
  <2>. QED BY <1>1, <1>6, <2>1, Counts, PowerAssumption
<1>10. PowerTypeOK'
  <2>1. outstanding' \in 0 .. Cardinality(Voters) BY <1>1, <1>4, VotersCounted
  <2>2. objected' \in BOOLEAN BY <1>1, <1>3 DEF Objection, ManagerInv, TypeInv, PowerTypeOK
  <2>3. power' \in {"idle", "collecting", "armed"} BY <1>5
  <2>. QED BY <1>1, <1>2, <1>6, <1>8, <1>9, <2>1, <2>2, <2>3 DEF ManagerInv, TypeInv, PowerTypeOK
<1>11. TypeInv' BY <1>1, <1>2, <1>10 DEF ManagerInv, TypeInv
<1>12. CountInv'
  <2>1. Requests' + Collecting' <= asking' BY <1>1, <1>2, <1>6, Counts DEF ManagerInv, CountInv
  <2>2. Votes' + Unanswered' = Due' BY <1>2, <1>4, <1>6
  <2>3. Votes' + Unanswered' <= Due' BY <1>6, <2>2
  <2>4. MaxAsking <= 4 => Requests' + Collecting' = asking'
    BY <1>1, <1>2, <1>6, Counts DEF ManagerInv, CountInv
  <2>. QED BY <2>1, <2>2, <2>3, <2>4 DEF CountInv
<1>13. VoterInv' BY <1>1, <1>4, <1>5 DEF VoterInv
<1>14. AgreedInv' BY <1>5 DEF AgreedInv
<1>15. ArmedAgreed'
  <2>1. site' > 0 => power' = "armed" BY <1>5, <1>8
  <2>. QED BY <1>1, <1>8, <1>10, <2>1 DEF ArmedAgreed
<1>. QED BY <1>11, <1>12, <1>13, <1>14, <1>15 DEF ManagerInv

\* wake(): the site disarmed, the voters told, the event behind the others.
LEMMA WakeManagerInv ==
  ASSUME ManagerInv, Wake
  PROVE  ManagerInv'
<1>1. /\ Handles("request") /\ power = "armed" /\ site' = 0 /\ armedDepth' = 0
      /\ voterQueue' = Tell("wake")
      /\ powerQueue' = PostedToManager(Tail(powerQueue), Head(powerQueue), 1)
      /\ power' = "idle" /\ inHand' = TRUE
      /\ UNCHANGED <<requested, outstanding, objected, locks, asking, judged>>
  BY DEF Wake
<1>2. /\ Head(powerQueue) \in Message /\ Head(powerQueue).kind = "request"
      /\ Tail(powerQueue) \in Seq(Message) /\ Len(Tail(powerQueue)) + 1 <= ManagerSlots
      /\ Len(Tail(powerQueue)) = Len(powerQueue) - 1
      /\ KindCount(Tail(powerQueue), "request") = Requests - 1
      /\ KindCount(Tail(powerQueue), "vote") = Votes
  BY <1>1, Served
<1>3. /\ powerQueue' \in Seq(Message) /\ Len(powerQueue') + 1 <= ManagerSlots
      /\ Votes' = Votes /\ Requests' <= (Requests - 1) + 1
      /\ Len(Tail(powerQueue)) + 1 < ManagerSlots => Requests' = (Requests - 1) + 1
  <2>. DEFINE q == Tail(powerQueue)
              p == powerQueue'
              e == Head(powerQueue)
              h == 1
  <2>1. /\ q \in Seq(Message) /\ e \in Message /\ h \in {0, 1} /\ Len(q) + h <= ManagerSlots
        /\ p = PostedToManager(q, e, h) /\ e.kind = "request" /\ "request" # "vote"
    BY <1>1, <1>2
  <2>. HIDE DEF q, p, e, h
  <2>2. p \in Seq(Message) /\ Len(p) + h <= ManagerSlots BY <2>1, Posted
  <2>3. KindCount(p, "vote") = KindCount(q, "vote")
    <3>1. \A kind : kind # e.kind => KindCount(p, kind) = KindCount(q, kind) BY <2>1, Posted
    <3>. QED BY <2>1, <3>1
  <2>4. KindCount(p, "request") <= KindCount(q, "request") + 1
    <3>1. \A kind : kind = e.kind => KindCount(p, kind) <= KindCount(q, kind) + 1 BY <2>1, Posted
    <3>. QED BY <2>1, <3>1
  <2>5. ASSUME Len(q) + h < ManagerSlots
        PROVE  KindCount(p, "request") = KindCount(q, "request") + 1
    <3>1. p = Append(q, e) BY <2>1, <2>5 DEF PostedToManager
    <3>. QED BY <2>1, <3>1, CountAppend
  <2>. QED BY <1>2, <2>2, <2>3, <2>4, <2>5 DEF q, p, e, h, Votes, Requests
<1>4. Held' = 1 /\ Collecting = 0 /\ Collecting' = 0 /\ Due = 0 /\ Due' = 0
  BY <1>1 DEF Held, Collecting, Due
<1>5. \A v \in Voters : voterQueue'[v] = <<"wake">>
  <2>1. \A v \in Voters : voterQueue[v] = <<>> BY <1>1 DEF ManagerInv, VoterInv
  <2>2. \A v \in Voters : voterQueue'[v] = Append(voterQueue[v], "wake") BY <1>1 DEF Tell
  <2>. QED BY <2>1, <2>2, Shapes
<1>6. voterQueue' \in [Voters -> VoterQueues] BY <1>1, <1>5 DEF Tell, VoterQueues
<1>7. Unanswered' = 0
  <2>1. AskedOf(voterQueue') = {} BY <1>5, Shapes DEF AskedOf
  <2>. QED BY <2>1, UnansweredIsAsked, FS_EmptySet
<1>8. Votes = 0 /\ Unanswered = 0
  <2>1. Votes + Unanswered <= 0 BY <1>4 DEF ManagerInv, CountInv
  <2>. QED BY <2>1, Counts
<1>9. PowerTypeOK'
  <2>1. \A v \in Voters : Len(voterQueue'[v]) <= 2 BY <1>6, Shapes
  <2>2. site' \in Ladder /\ armedDepth' \in Ladder BY <1>1 DEF Ladder
  <2>. QED BY <1>1, <1>3, <1>4, <2>1, <2>2 DEF ManagerInv, TypeInv, PowerTypeOK
<1>10. TypeInv' BY <1>1, <1>3, <1>6, <1>9 DEF ManagerInv, TypeInv
<1>11. CountInv'
  <2>1. Requests + 0 <= asking BY <1>4 DEF ManagerInv, CountInv
  <2>2. Requests' \in Nat BY <1>3, KindCountType DEF Requests
  <2>3. Requests' + Collecting' <= asking' BY <1>1, <1>3, <1>4, <2>1, <2>2, Counts
  <2>4. ASSUME MaxAsking <= 4 PROVE Requests' + Collecting' = asking'
    <3>1. Requests + 0 = asking /\ asking <= MaxAsking
      BY <1>4, <2>4 DEF ManagerInv, TypeInv, PowerTypeOK, CountInv
    <3>2. Len(powerQueue) = Requests BY <1>8, Counts
    <3>3. Len(Tail(powerQueue)) + 1 < Cardinality(Voters) + 4
      BY <1>2, <2>4, <3>1, <3>2, Counts, PowerAssumption
    <3>4. Requests' = (Requests - 1) + 1 BY <1>3, <3>3 DEF ManagerSlots
    <3>. QED BY <1>1, <1>4, <3>1, <3>4, Counts
  <2>5. Votes' + Unanswered' = Due' BY <1>3, <1>4, <1>7, <1>8
  <2>6. Votes' + Unanswered' <= Due' BY <1>4, <2>5
  <2>. QED BY <2>3, <2>4, <2>5, <2>6 DEF CountInv
<1>12. VoterInv' BY <1>1, <1>5 DEF VoterInv
<1>13. AgreedInv' BY <1>1 DEF AgreedInv
<1>14. ArmedAgreed'
  <2>1. ~(site' > 0) BY <1>1
  <2>. QED BY <1>1, <1>9, <2>1 DEF ArmedAgreed
<1>. QED BY <1>10, <1>11, <1>12, <1>13, <1>14 DEF ManagerInv

-----------------------------------------------------------------------------
\* No step of the manager or of those around it breaks the invariant.
LEMMA NextManagerInv == ManagerInv /\ [PowerNext]_powerVars => ManagerInv'
<1>. SUFFICES ASSUME ManagerInv, [PowerNext]_powerVars PROVE ManagerInv' OBVIOUS
<1>1. CASE UNCHANGED powerVars
  <2>1. UNCHANGED <<managerVars, powerQueue, voterQueue, asking>> /\ inHand' = inHand
    BY <1>1 DEF powerVars
  <2>2. Held' = Held BY <2>1 DEF Held
  <2>3. inHand' \in BOOLEAN /\ Len(powerQueue) + Held' <= ManagerSlots
    BY <2>1, <2>2 DEF ManagerInv, TypeInv, PowerTypeOK
  <2>. QED BY <2>1, <2>3, SameRound
<1>2. CASE \E d \in LockLevels : TakeLock(d) \/ ReleaseLock(d) BY <1>2, LockManagerInv
<1>3. CASE \E d \in Depths : Ask(d) BY <1>3, AskManagerInv
<1>4. ASSUME NEW v \in Voters, NEW ok \in BOOLEAN, Answer(v, ok) PROVE ManagerInv'
  BY <1>4, VoteManagerInv, ReadWakeManagerInv
<1>5. CASE BeginRound BY <1>5, BeginRoundManagerInv
<1>6. CASE RefuseRequest BY <1>6, RefuseManagerInv
<1>7. CASE CountVote BY <1>7, OneMoreManagerInv, ConcludeManagerInv
<1>8. CASE Wake BY <1>8, WakeManagerInv
<1>9. CASE Return BY <1>9, ReturnManagerInv
<1>. QED BY <1>1, <1>2, <1>3, <1>4, <1>5, <1>6, <1>7, <1>8, <1>9 DEF PowerNext

THEOREM ManagerInvariant == PowerSpec => []ManagerInv
<1>1. PowerInit => ManagerInv BY InitManagerInv
<1>2. ManagerInv /\ [PowerNext]_powerVars => ManagerInv' BY NextManagerInv
<1>. QED BY <1>1, <1>2, PTL DEF PowerSpec

\* The machine is armed only by a round in force that all its voters agreed
\* to, no deeper than it was judged, whatever requests, votes and locks came
\* meanwhile and even when the manager's queue overflowed (util/power.hpp).
THEOREM AlwaysArmedAgreed == PowerSpec => []ArmedAgreed
<1>1. ManagerInv => ArmedAgreed BY DEF ManagerInv
<1>. QED BY <1>1, ManagerInvariant, PTL

\* With no more than four requests unanswered at once, which is what the
\* queue holds beside the votes, none is dropped or answered twice and the
\* votes waited for are with their voters or on their way, for any number of
\* voters.
THEOREM NeverForgets ==
  ASSUME MaxAsking <= 4
  PROVE  PowerSpec => []NoneForgotten
<1>1. ManagerInv => NoneForgotten
  <2>. SUFFICES ASSUME ManagerInv PROVE NoneForgotten OBVIOUS
  <2>1. EventsIn("request") = Requests /\ EventsIn("vote") = Votes
    BY DEF EventsIn, Requests, Votes, KindCount, KindAt
  <2>. QED BY <2>1 DEF ManagerInv, CountInv, NoneForgotten, Collecting, Due
<1>. QED BY <1>1, ManagerInvariant, PTL
=============================================================================
