----------------------------- MODULE TimeEvents -----------------------------
(***************************************************************************)
(* kernel/time_event.hpp: the armed list, arm and disarm, the walk of      *)
(* process() on both platforms, and the two questions about the nearest    *)
(* deadline.                                                               *)
(*                                                                         *)
(* The list is intrusive, so a place in it is a LINK: Head, or the next_   *)
(* of a timer, named by that timer.  Time is the tick counter, modulo      *)
(* Span (2^32 in the code), and every distance is a signed difference.    *)
(* A step is one critical section of the preemptive platform; on a         *)
(* cooperative one nothing else touches the list, so the same steps with   *)
(* no other between them are its process().                                *)
(***************************************************************************)
EXTENDS Integers, FiniteSets

CONSTANTS
  Timer,       \* the time events
  Null,        \* nullptr
  Head,        \* the link head_
  Half,        \* half the counter's range: 2^31
  Delays,      \* the delays given to arm(): less than Half
  Periods,     \* the periods, 0 for a one-shot: less than Half
  MaxLate      \* bound: how far behind a deadline the loop falls

ASSUME TimerAssumption ==
  IsFiniteSet(Timer) /\ Null \notin Timer \cup Int /\ Head \notin Timer \cup {Null}
ASSUME HalfAssumption == Half \in Nat \ {0}
ASSUME DelayAssumption ==
  Delays \subseteq 0 .. Half - 1 /\ Periods \subseteq 0 .. Half - 1
ASSUME LateAssumption == MaxLate \in 0 .. Half - 1

VARIABLES
  head, next, deadline, period, armed,   \* head_ and the fields of each timer
  walk,     \* walk_: the link process() reads next, Null when no walk goes on
  clock,    \* P::now()
  now,      \* process()'s local: the counter as it read it, 0 between turns
  due,      \* process()'s local: the timer to fire, Null once fired
  pc,       \* where process() is
  preempt   \* whether the platform is preemptive: its own, never changed

list == <<head, next, deadline, period, armed>>
vars == <<list, walk, clock, now, due, pc, preempt>>

Span == 2 * Half
Wrap(n) == n % Span
Signed(n) == IF Wrap(n) < Half THEN Wrap(n) ELSE Wrap(n) - Span

Init ==
  /\ head = Null /\ next = [t \in Timer |-> Null]
  /\ deadline = [t \in Timer |-> 0] /\ period = [t \in Timer |-> 0]
  /\ armed = [t \in Timer |-> FALSE]
  /\ walk = Null /\ clock = 0 /\ now = 0 /\ due = Null /\ pc = "idle"
  /\ preempt \in BOOLEAN

-----------------------------------------------------------------------------
\* A link read in a list (h, n), and the links a loop from l goes through.
Deref(h, n, l) == IF l = Head THEN h ELSE n[l]

LinksFrom(h, n, l) ==
  LET at[k \in 0 .. Cardinality(Timer)] ==
        IF k = 0 THEN l
        ELSE LET before == at[k - 1] IN IF before = Null THEN Null ELSE Deref(h, n, before)
  IN {at[k] : k \in 0 .. Cardinality(Timer)} \ {Null}

NodesFrom(l) == {Deref(head, next, k) : k \in LinksFrom(head, next, l)} \ {Null}

Store(l, t, h, n) == IF l = Head THEN <<t, n>> ELSE <<h, [n EXCEPT ![l] = t]>>

\* Mutant of Unlink: the walk left on the node taken out.
UnlinkKeepsWalk(te) ==
  LET to == {l \in LinksFrom(head, next, Head) : Deref(head, next, l) = te}
      cut == Store(CHOOSE k \in to : TRUE, next[te], head, next)
  IN IF to = {} THEN <<head, [next EXCEPT ![te] = Null], walk>>
     ELSE <<cut[1], [cut[2] EXCEPT ![te] = Null], walk>>

\* unlink(te), as <<head_, next_, walk_>>: the walk moves back to the link
\* that pointed at te when it stands on te's own.
Unlink(te) ==
  LET to == {l \in LinksFrom(head, next, Head) : Deref(head, next, l) = te}
      l == CHOOSE k \in to : TRUE
      cut == Store(l, next[te], head, next)
  IN IF to = {} THEN <<head, [next EXCEPT ![te] = Null], walk>>
     ELSE <<cut[1], [cut[2] EXCEPT ![te] = Null], IF walk = te THEN l ELSE walk>>

\* Nobody touches the list while a walk goes on, except what a fire set off
\* on a preemptive platform, between two critical sections of the walk.
MayTouch == pc = "idle" \/ (preempt /\ pc = "fired")

\* Mutant of Arm: a walk that stands at the head stays there.
ArmAheadOfWalk(te, d, p) ==
  /\ MayTouch
  /\ LET u == Unlink(te) IN next' = [u[2] EXCEPT ![te] = u[1]] /\ walk' = u[3]
  /\ head' = te
  /\ deadline' = [deadline EXCEPT ![te] = Wrap(clock + d)]
  /\ period' = [period EXCEPT ![te] = p]
  /\ armed' = [armed EXCEPT ![te] = TRUE]
  /\ UNCHANGED <<clock, now, due, pc, preempt>>

\* The new node is linked at the head, behind the walk.
Arm(te, d, p) ==
  /\ MayTouch
  /\ LET u == Unlink(te) IN
       /\ next' = [u[2] EXCEPT ![te] = u[1]]
       /\ walk' = IF u[3] = Head THEN te ELSE u[3]
  /\ head' = te
  /\ deadline' = [deadline EXCEPT ![te] = Wrap(clock + d)]
  /\ period' = [period EXCEPT ![te] = p]
  /\ armed' = [armed EXCEPT ![te] = TRUE]
  /\ UNCHANGED <<clock, now, due, pc, preempt>>

Disarm(te) ==
  /\ MayTouch
  /\ LET u == Unlink(te) IN head' = u[1] /\ next' = u[2] /\ walk' = u[3]
  /\ armed' = [armed EXCEPT ![te] = FALSE]
  /\ UNCHANGED <<deadline, period, clock, now, due, pc, preempt>>

\* clear_all(), a test's, between two turns.
ClearAll ==
  /\ pc = "idle"
  /\ head' = Null
  /\ next' = [t \in Timer |-> IF t \in NodesFrom(Head) THEN Null ELSE next[t]]
  /\ armed' = [t \in Timer |-> armed[t] /\ t \notin NodesFrom(Head)]
  /\ UNCHANGED <<deadline, period, walk, clock, now, due, pc, preempt>>

-----------------------------------------------------------------------------
\* Mutant of Mature: only on the very tick.
MatureExact(t, n) == n = deadline[t]

Mature(t, n) == Signed(n - deadline[t]) >= 0

\* next_due(n) from the link `from`: the first mature node, its list update
\* made, or the end of the walk.
NextDue(from, n) ==
  LET ahead == LinksFrom(head, next, from)
      stops == {l \in ahead : Deref(head, next, l) # Null /\ Mature(Deref(head, next, l), n)}
      first == CHOOSE l \in stops : stops \subseteq LinksFrom(head, next, l)
      te == Deref(head, next, first)
      cut == Store(first, next[te], head, next)
  IN \/ /\ stops = {}
        /\ walk' = Null /\ due' = Null /\ now' = 0 /\ pc' = "idle"
        /\ UNCHANGED list
     \/ /\ stops # {} /\ period[te] # 0
        /\ deadline' = [deadline EXCEPT ![te] = Wrap(@ + period[te])]
        /\ walk' = te /\ due' = te /\ now' = n /\ pc' = "fire"
        /\ UNCHANGED <<head, next, period, armed>>
     \/ /\ stops # {} /\ period[te] = 0
        /\ head' = cut[1]
        /\ next' = [cut[2] EXCEPT ![te] = Null]
        /\ armed' = [armed EXCEPT ![te] = FALSE]
        /\ walk' = first /\ due' = te /\ now' = n /\ pc' = "fire"
        /\ UNCHANGED <<deadline, period>>

ProcessStart ==
  /\ pc = "idle"
  /\ NextDue(Head, clock)
  /\ UNCHANGED <<clock, preempt>>

\* The post, with the guard dropped.
Fire ==
  /\ pc = "fire"
  /\ pc' = "fired" /\ due' = Null
  /\ UNCHANGED <<list, walk, clock, now, preempt>>

ProcessNext ==
  /\ pc = "fired"
  /\ NextDue(walk, now)
  /\ UNCHANGED <<clock, preempt>>

\* The tick interrupt.  The loop leaves no deadline unserved for half the
\* counter's range ("Limits of the deadline arithmetic").
Tick ==
  /\ \A t \in Timer : armed[t] => Signed(deadline[t] - clock) > -MaxLate
  /\ clock' = Wrap(clock + 1)
  /\ UNCHANGED <<list, walk, now, due, pc, preempt>>

Process == ProcessStart \/ Fire \/ ProcessNext

Next ==
  \/ Process \/ Tick \/ ClearAll
  \/ \E te \in Timer : Disarm(te) \/ \E d \in Delays, p \in Periods : Arm(te, d, p)

\* The loop keeps turning.
Spec == Init /\ [][Next]_vars /\ WF_vars(Process)

-----------------------------------------------------------------------------
\* ticks_to_next() and next_deadline(), Null where they answer empty.
Distances == {Signed(deadline[t] - clock) : t \in NodesFrom(Head)}
LeastOf(S) == CHOOSE x \in S : \A y \in S : x <= y

\* Mutant of NextDeadline: the deadlines compared as numbers.
NextDeadlineUnsigned ==
  IF Distances = {} THEN Null ELSE LeastOf({deadline[t] : t \in NodesFrom(Head)})

TicksToNext ==
  IF Distances = {} THEN Null ELSE LeastOf({IF d > 0 THEN d ELSE 0 : d \in Distances})

NextDeadline ==
  IF Distances = {} THEN Null
  ELSE deadline[CHOOSE t \in NodesFrom(Head) : Signed(deadline[t] - clock) = LeastOf(Distances)]

-----------------------------------------------------------------------------
Link == Timer \cup {Head}

\* Every variable keeps its type.
TypeOK ==
  /\ head \in Timer \cup {Null} /\ next \in [Timer -> Timer \cup {Null}]
  /\ deadline \in [Timer -> 0 .. Span - 1] /\ clock \in 0 .. Span - 1
  /\ now \in 0 .. Span - 1
  /\ period \in [Timer -> Periods \cup {0}] /\ armed \in [Timer -> BOOLEAN]
  /\ walk \in Link \cup {Null} /\ due \in Timer \cup {Null}
  /\ pc \in {"idle", "fire", "fired"} /\ preempt \in BOOLEAN

\* The list is the armed timers, each once, and the walk stands on a link of
\* it: no arm, disarm or fire made during a walk leaves the walk on a node
\* that is out of the list.
ListIsArmed ==
  /\ TypeOK
  /\ NodesFrom(Head) = {t \in Timer : armed[t]}
  /\ Cardinality(LinksFrom(head, next, Head)) = Cardinality(NodesFrom(Head)) + 1
  /\ pc # "idle" => walk \in LinksFrom(head, next, Head)

\* What the loop is told before it sleeps is what process() will do: 0 ticks
\* exactly when a timer would fire, else the instant the first one does.
QuestionsAgree ==
  /\ TicksToNext = 0 <=> \E t \in NodesFrom(Head) : Mature(t, clock)
  /\ TicksToNext # Null =>
       /\ Signed(NextDeadline - clock) <= TicksToNext
       /\ TicksToNext > 0 => Wrap(clock + TicksToNext) = NextDeadline
       /\ \E t \in NodesFrom(Head) : Mature(t, clock + TicksToNext)
       /\ \A k \in 0 .. TicksToNext - 1, t \in NodesFrom(Head) : ~Mature(t, clock + k)

Listed == {t \in Timer : armed[t]}    \* by ListIsArmed

Promise == INSTANCE Timers WITH
  Nobody <- Null,
  left <- [t \in Listed |-> Signed(deadline[t] - clock)],
  every <- [t \in Listed |-> period[t]],
  walking <- pc # "idle",
  todo <- IF pc = "idle" THEN {} ELSE {t \in NodesFrom(walk) : Mature(t, now)},
  firing <- IF pc = "fire" THEN due ELSE Null

\* The list, its walk and the wrapping counter do what Timers says: no node
\* skipped, none visited twice, none early, none fired once disarmed.
ImplementsTimers == Promise!Spec

\* A timer that is due fires, unless its owner disarms or restarts it.  (On a
\* preemptive platform a fire may set off an arm that sets off a fire, in one
\* turn for ever.)
DueFires ==
  ~preempt => \A t \in Timer :
    armed[t] /\ Signed(deadline[t] - clock) <= 0 ~>
      ~armed[t] \/ Signed(deadline[t] - clock) > 0 \/ (pc = "fire" /\ due = t)
=============================================================================
