------------------------------- MODULE Tenuto -------------------------------
(***************************************************************************)
(* The cooperative kernel, kernel/tenuto.hpp: run()'s loop of time events, *)
(* one dispatch, sleep when idle, with the interrupt handlers that post    *)
(* between any two of its steps.  A queue is the number of events waiting  *)
(* in it (EventQueue keeps the rest); a time event is the object it posts  *)
(* to, due from the tick that matures it (TimeEvents keeps the rest).      *)
(***************************************************************************)
EXTENDS Naturals

CONSTANTS
  N,          \* objects in the pack
  Slots,      \* the slots of each queue, depth + 1
  MaxPosts    \* bound: posts of handlers and dispatches in a behaviour

ASSUME NAssumption == N \in Nat \ {0}
ASSUME SlotsAssumption == Slots \in Nat \ {0}
ASSUME MaxPostsAssumption == MaxPosts \in Nat

VARIABLES
  waiting,    \* the events waiting for each object
  due,        \* the objects with a matured time event not posted yet
  todo,       \* of those, the ones process() found when it read the time
  pc, i,      \* where the loop is, and the object step() has reached
  posts,      \* posts of handlers and dispatches so far
  overtaken   \* history: for each object with an event waiting, how many
              \* dispatches of lower priority have begun since it has
VARIABLE
  idleUntil   \* the platform, fixed: whether it has idle_until()

vars == <<waiting, due, todo, pc, i, posts, overtaken, idleUntil>>

Objects == 0 .. N - 1

Init ==
  /\ waiting = [o \in Objects |-> 0] /\ due = {} /\ todo = {}
  /\ pc = "process" /\ i = 0 /\ posts = 0
  /\ overtaken = [o \in Objects |-> 0]
  /\ idleUntil \in BOOLEAN

Outstanding(o) == IF pc = "dispatch" /\ i = o THEN 1 ELSE 0

\* push(): a full queue drops.
Pushed(o) ==
  IF waiting[o] + Outstanding(o) < Slots THEN [waiting EXCEPT ![o] = @ + 1] ELSE waiting

Post(o) ==
  /\ posts < MaxPosts
  /\ posts' = posts + 1
  /\ waiting' = Pushed(o)
  /\ UNCHANGED <<due, todo, i, overtaken>>

\* An interrupt handler posts; asleep, the core wakes.
HandlerPost(o) ==
  /\ Post(o)
  /\ pc' = IF pc = "asleep" THEN "process" ELSE pc

\* The tick interrupt, here one that matures a time event; it posts nothing.
Tick(o) ==
  /\ posts < MaxPosts
  /\ posts' = posts + 1
  /\ due' = due \cup {o}
  /\ pc' = IF pc = "asleep" THEN "process" ELSE pc
  /\ UNCHANGED <<waiting, todo, i, overtaken>>

\* A tick that matures nothing wakes the core all the same.
IdleTick ==
  /\ pc = "asleep"
  /\ pc' = "process"
  /\ UNCHANGED <<waiting, due, todo, i, posts, overtaken>>

-----------------------------------------------------------------------------
\* Mutant of ProcessPost: the one-shot stays armed.
ProcessPostKeepsArmed(o) ==
  /\ pc = "walk" /\ o \in todo
  /\ todo' = todo \ {o}
  /\ waiting' = Pushed(o)
  /\ UNCHANGED <<due, pc, i, posts, overtaken>>

\* Mutant of ProcessEnd: the scan starts one object late.
ProcessEndSkipsFirst ==
  /\ pc = "walk" /\ todo = {}
  /\ pc' = "step" /\ i' = 1
  /\ UNCHANGED <<waiting, due, todo, posts, overtaken>>

\* Mutant of DispatchEnd: the scan goes on down the list after a dispatch.
DispatchEndGoesOn ==
  /\ pc = "dispatch"
  /\ pc' = "step" /\ i' = i + 1
  /\ UNCHANGED <<waiting, due, todo, posts, overtaken>>

\* Mutant of Idle: no second look under the mask.
IdleUnchecked ==
  /\ pc = "idle"
  /\ pc' = "asleep"
  /\ UNCHANGED <<waiting, due, todo, i, posts, overtaken>>

\* TimeEvents::process(): the payloads matured when it reads the time,
\* posted one after the other.
ProcessStart ==
  /\ pc = "process"
  /\ todo' = due
  /\ pc' = "walk"
  /\ UNCHANGED <<waiting, due, i, posts, overtaken>>

ProcessPost(o) ==
  /\ pc = "walk" /\ o \in todo
  /\ todo' = todo \ {o} /\ due' = due \ {o}
  /\ waiting' = Pushed(o)
  /\ UNCHANGED <<pc, i, posts, overtaken>>

ProcessEnd ==
  /\ pc = "walk" /\ todo = {}
  /\ pc' = "step" /\ i' = 0
  /\ UNCHANGED <<waiting, due, todo, posts, overtaken>>

\* step(): one object of the list, in order; a queue with an event is served.
TryNone ==
  /\ pc = "step" /\ i < N /\ waiting[i] = 0
  /\ i' = i + 1
  /\ UNCHANGED <<waiting, due, todo, pc, posts, overtaken>>

TryServe ==
  /\ pc = "step" /\ i < N /\ waiting[i] > 0
  /\ waiting' = [waiting EXCEPT ![i] = @ - 1]
  /\ pc' = "dispatch"
  /\ overtaken' = [o \in Objects |->
                     IF waiting'[o] = 0 \/ o = i THEN 0
                     ELSE IF o < i THEN overtaken[o] + 1 ELSE overtaken[o]]
  /\ UNCHANGED <<due, todo, i, posts>>

DispatchPost(o) ==
  /\ pc = "dispatch"
  /\ Post(o)
  /\ UNCHANGED pc

DispatchEnd ==
  /\ pc = "dispatch"
  /\ pc' = "process" /\ i' = 0
  /\ UNCHANGED <<waiting, due, todo, posts, overtaken>>

StepNone ==
  /\ pc = "step" /\ i = N
  /\ pc' = "idle" /\ i' = 0
  /\ UNCHANGED <<waiting, due, todo, posts, overtaken>>

\* idle_if_empty(): the queues checked again under the mask, and the core
\* asleep before an interrupt can come between; idle_until() does not sleep
\* past a deadline that is already there, idle() knows of none.
Idle ==
  /\ pc = "idle"
  /\ pc' = IF (\A o \in Objects : waiting[o] = 0) /\ (idleUntil => due = {})
           THEN "asleep" ELSE "process"
  /\ UNCHANGED <<waiting, due, todo, i, posts, overtaken>>

Loop ==
  \/ \E o \in Objects : ProcessPost(o)
  \/ ProcessStart \/ ProcessEnd \/ TryNone \/ TryServe \/ DispatchEnd \/ StepNone \/ Idle

Others == IdleTick \/ \E o \in Objects : HandlerPost(o) \/ Tick(o) \/ DispatchPost(o)

Next == (Loop \/ Others) /\ UNCHANGED idleUntil

\* The loop goes on, and the tick keeps coming.
Spec ==
  /\ Init /\ [][Next]_vars
  /\ WF_vars(Loop /\ UNCHANGED idleUntil) /\ WF_vars(IdleTick /\ UNCHANGED idleUntil)

-----------------------------------------------------------------------------
\* Every variable keeps its type, and no queue holds more than its slots.
TypeOK ==
  /\ waiting \in [Objects -> 0 .. Slots] /\ due \subseteq Objects /\ todo \subseteq Objects
  /\ pc \in {"process", "walk", "step", "dispatch", "idle", "asleep"}
  /\ i \in 0 .. N /\ posts \in 0 .. MaxPosts
  /\ overtaken \in [Objects -> Nat] /\ idleUntil \in BOOLEAN

\* An object with an event waiting is overtaken by at most one dispatch of
\* lower priority, the one whose turn the scan had reached when it came:
\* however many events the lower ones have, the running dispatch and that
\* one are all it waits for.
OvertakenOnce == TypeOK /\ \A o \in Objects : overtaken[o] <= 1

\* The core sleeps only when every queue is empty, whatever an interrupt
\* posted between the scan and the sleep; with idle_until(), only when no
\* time event is due either.
SleepsEmpty ==
  pc = "asleep" => (\A o \in Objects : waiting[o] = 0) /\ (idleUntil => due = {})

\* Every event posted is served in the end, posts being bounded.
AllServed == \A o \in Objects : waiting[o] > 0 ~> waiting[o] = 0

\* A time event that matured is posted, even one that matured after the
\* turn's process() and before the sleep.
DuePosted == \A o \in Objects : o \in due ~> o \notin due
=============================================================================
