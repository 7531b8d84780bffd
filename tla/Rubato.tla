------------------------------- MODULE Rubato -------------------------------
(***************************************************************************)
(* The preemptive kernel: kernel/rubato.hpp, the post() of kernel/post.hpp *)
(* on a preemptive platform, and the entry and exit kernel/platform.hpp    *)
(* asks of the platform, as cortexm/schedule.hpp and the host's            *)
(* RubatoHostPlatform keep them.                                           *)
(*                                                                         *)
(* One stack, `runs`: a record for each run of the scheduler in progress,  *)
(* the last one running, the others suspended.  A run is activate(base)    *)
(* with its locals; pc is one of the places where an interrupt can land.   *)
(* An interrupt handler is the posts it makes; it ends before anything     *)
(* below it goes on, and a request it made is taken at its exit.           *)
(*                                                                         *)
(* A queue is the number of events waiting in it (EventQueue keeps the     *)
(* rest), the object's pack index is its priority, and the byte 255 of the *)
(* ceiling at the base is N.                                               *)
(***************************************************************************)
EXTENDS Naturals, Sequences, FiniteSets, SequencesExt

CONSTANTS
  N,          \* objects in the pack
  Slots,      \* the slots of each queue, depth + 1
  QuietMod,   \* the quiet-post count wraps here: 256
  MaxPosts,   \* bound: posts of a behaviour
  Window      \* whether a handler can land between the request and the entry

ASSUME NAssumption == N \in Nat \ {0}
ASSUME SlotsAssumption == Slots \in Nat \ {0}
ASSUME QuietModAssumption == QuietMod \in Nat \ {0}
ASSUME MaxPostsAssumption == MaxPosts \in Nat
ASSUME WindowAssumption == Window \in BOOLEAN

VARIABLES
  waiting,    \* the events waiting for each object
  ceiling,    \* P::ceiling
  quiet,      \* the quiet posts so far: the byte quiet_posts<P> is Byte(quiet)
  pending,    \* the scheduling request, made and not yet taken
  handler,    \* an interrupt handler is running
  main,       \* where run()'s loop is
  runs,       \* the runs of the scheduler, the innermost last
  posts       \* posts made so far

vars == <<waiting, ceiling, quiet, pending, handler, main, runs, posts>>

Objects == 0 .. N - 1
Base == N                             \* the ceiling at the loop's base
NoHold == N                           \* activate()'s no_hold
Nobody == N

Byte(count) == count % QuietMod

Top == runs[Len(runs)]
Running(pc) == runs # <<>> /\ Top.pc = pc

\* Code outside a handler goes on only when none runs and no request waits:
\* the request would be taken before its next instruction.
Thread == ~handler /\ ~pending

Init ==
  /\ waiting = [i \in Objects |-> 0]
  /\ ceiling = Base /\ quiet = 0 /\ pending = FALSE /\ handler = FALSE
  /\ main = "top" /\ runs = <<>> /\ posts = 0

-----------------------------------------------------------------------------
Dispatching(i) == \E k \in DOMAIN runs : runs[k].pc = "dispatch" /\ runs[k].i = i

\* push(): a full queue drops.
Push(i) ==
  /\ posts < MaxPosts
  /\ posts' = posts + 1
  /\ waiting' = IF waiting[i] + (IF Dispatching(i) THEN 1 ELSE 0) < Slots
                THEN [waiting EXCEPT ![i] = @ + 1] ELSE waiting

\* post() after its push: ask for the scheduler, or count.
Ask(i) ==
  IF i < ceiling THEN pending' = TRUE /\ UNCHANGED quiet
                 ELSE quiet' = quiet + 1 /\ UNCHANGED pending

\* A post of an interrupt handler, at any place where one can land.
HandlerPost(i) ==
  /\ Running("taken") => Window
  /\ Push(i) /\ Ask(i)
  /\ handler' = TRUE
  /\ main' = IF main = "asleep" THEN "top" ELSE main
  /\ UNCHANGED <<ceiling, runs>>

HandlerExit ==
  /\ handler
  /\ handler' = FALSE
  /\ UNCHANGED <<waiting, ceiling, quiet, pending, main, runs, posts>>

-----------------------------------------------------------------------------
\* The loop of run(): the ceiling to 0, the matured time events posted, one
\* run of the scheduler at the base.
LoopTop ==
  /\ Thread /\ runs = <<>> /\ main = "top"
  /\ ceiling' = 0
  /\ main' = "walk"
  /\ UNCHANGED <<waiting, quiet, pending, handler, runs, posts>>

WalkPost(i) ==
  /\ Thread /\ main = "walk"
  /\ Push(i) /\ Ask(i)
  /\ UNCHANGED <<ceiling, handler, main, runs>>

NewRun(b, pc) ==
  [pc |-> pc, base |-> b, count |-> 0, above |-> b, held |-> NoHold, i |-> 0,
   post |-> Nobody, served |-> FALSE]

LoopRun ==
  /\ Thread /\ main = "walk"
  /\ main' = "run"
  /\ runs' = <<NewRun(Base, "choose")>>
  /\ UNCHANGED <<waiting, ceiling, quiet, pending, handler, posts>>

\* Mutant of Idle: no second look under the mask.
IdleUnchecked ==
  /\ Thread /\ runs = <<>> /\ main = "idle"
  /\ ceiling' = Base
  /\ main' = "asleep"
  /\ UNCHANGED <<waiting, quiet, pending, handler, runs, posts>>

\* A run that served nothing: idle_if_empty(), its check under the mask.
Idle ==
  /\ Thread /\ runs = <<>> /\ main = "idle"
  /\ ceiling' = Base
  /\ main' = IF \A i \in Objects : waiting[i] = 0 THEN "asleep" ELSE "top"
  /\ UNCHANGED <<waiting, quiet, pending, handler, runs, posts>>

-----------------------------------------------------------------------------
\* The platform takes a request over whatever thread code is running; the
\* entry reads the ceiling and stores 0.
TakeRequest ==
  /\ pending /\ ~handler /\ ~Running("taken")
  /\ pending' = FALSE
  /\ runs' = Append(runs, NewRun(Base, "taken"))
  /\ UNCHANGED <<waiting, ceiling, quiet, handler, main, posts>>

\* Mutant of Entry: the ceiling left where it was.
EntryKeepsCeiling ==
  /\ ~handler /\ Running("taken")
  /\ runs' = [runs EXCEPT ![Len(runs)] = NewRun(ceiling, "call")]
  /\ UNCHANGED <<ceiling, waiting, quiet, pending, handler, main, posts>>

Entry ==
  /\ ~handler /\ Running("taken")
  /\ runs' = [runs EXCEPT ![Len(runs)] = NewRun(ceiling, "call")]
  /\ ceiling' = 0
  /\ UNCHANGED <<waiting, quiet, pending, handler, main, posts>>

SetTop(r) == runs' = [runs EXCEPT ![Len(runs)] = r]

Call ==
  /\ Thread /\ Running("call")
  /\ SetTop([Top EXCEPT !.pc = "choose"])
  /\ UNCHANGED <<waiting, ceiling, quiet, pending, handler, main, posts>>

\* Mutants: a choice over the whole list whatever the base; a scan that
\* stops one object short; a raise whose count is not read again.
ChooseFromBase ==
  /\ Thread /\ Running("choose")
  /\ SetTop([Top EXCEPT !.pc = "look", !.count = quiet, !.above = Base,
                        !.held = NoHold, !.i = 0])
  /\ UNCHANGED <<waiting, ceiling, quiet, pending, handler, main, posts>>

LookStopsShort ==
  /\ Thread /\ Running("look")
  /\ SetTop(IF Top.i + 1 >= Top.above THEN [Top EXCEPT !.pc = "nothing"]
            ELSE IF waiting[Top.i] = 0 THEN [Top EXCEPT !.i = @ + 1]
            ELSE [Top EXCEPT !.pc = "found"])
  /\ UNCHANGED <<waiting, ceiling, quiet, pending, handler, main, posts>>

RecheckNothing ==
  /\ Thread /\ Running("raised")
  /\ SetTop([Top EXCEPT !.pc = "serve"])
  /\ UNCHANGED <<waiting, ceiling, quiet, pending, handler, main, posts>>

\* activate(): one choice begins with the count.
Choose ==
  /\ Thread /\ Running("choose")
  /\ SetTop([Top EXCEPT !.pc = "look", !.count = quiet, !.above = Top.base,
                        !.held = NoHold, !.i = 0])
  /\ UNCHANGED <<waiting, ceiling, quiet, pending, handler, main, posts>>

\* look() of one object: the scan ends at the limit or at a queue not empty.
Look ==
  /\ Thread /\ Running("look")
  /\ SetTop(IF Top.i >= Top.above THEN [Top EXCEPT !.pc = "nothing"]
            ELSE IF waiting[Top.i] = 0 THEN [Top EXCEPT !.i = @ + 1]
            ELSE [Top EXCEPT !.pc = "found"])
  /\ UNCHANGED <<waiting, ceiling, quiet, pending, handler, main, posts>>

Raise ==
  /\ Thread /\ Running("found")
  /\ ceiling' = Top.i
  /\ SetTop([Top EXCEPT !.pc = "raised"])
  /\ UNCHANGED <<waiting, quiet, pending, handler, main, posts>>

\* In a first scan the count is read again: moved, and the second scan
\* starts, above the object the ceiling was raised to.
Recheck ==
  /\ Thread /\ Running("raised")
  /\ SetTop(IF Top.held = NoHold /\ Byte(quiet) # Byte(Top.count)
            THEN [Top EXCEPT !.pc = "look", !.held = Top.i, !.above = Top.i, !.i = 0]
            ELSE [Top EXCEPT !.pc = "serve"])
  /\ UNCHANGED <<waiting, ceiling, quiet, pending, handler, main, posts>>

\* serve_one(): the event is taken, or the queue was emptied meanwhile.
Serve ==
  /\ Thread /\ Running("serve")
  /\ IF waiting[Top.i] > 0
     THEN /\ waiting' = [waiting EXCEPT ![Top.i] = @ - 1]
          /\ SetTop([Top EXCEPT !.pc = "dispatch", !.served = TRUE])
     ELSE /\ SetTop([Top EXCEPT !.pc = "gap"])
          /\ UNCHANGED waiting
  /\ UNCHANGED <<ceiling, quiet, pending, handler, main, posts>>

\* A post made by the object being dispatched: the push, then the question.
DispatchPush(j) ==
  /\ Thread /\ Running("dispatch") /\ Top.post = Nobody
  /\ Push(j)
  /\ SetTop([Top EXCEPT !.post = j])
  /\ UNCHANGED <<ceiling, quiet, pending, handler, main>>

DispatchAsk ==
  /\ Thread /\ Running("dispatch") /\ Top.post # Nobody
  /\ Ask(Top.post)
  /\ SetTop([Top EXCEPT !.post = Nobody])
  /\ UNCHANGED <<waiting, ceiling, handler, main, posts>>

DispatchEnd ==
  /\ Thread /\ Running("dispatch") /\ Top.post = Nobody
  /\ SetTop([Top EXCEPT !.pc = "gap"])
  /\ UNCHANGED <<waiting, ceiling, quiet, pending, handler, main, posts>>

Gap ==
  /\ Thread /\ Running("gap")
  /\ ceiling' = 0
  /\ SetTop([Top EXCEPT !.pc = "choose"])
  /\ UNCHANGED <<waiting, quiet, pending, handler, main, posts>>

\* A scan found nothing: the first ends the run, the second is followed by
\* the third, which takes in the held object; after that one, choose again.
ScanAgain ==
  /\ Thread /\ Running("nothing") /\ Top.held # NoHold
  /\ SetTop(IF Top.above > Top.held THEN [Top EXCEPT !.pc = "gap"]
            ELSE [Top EXCEPT !.pc = "look", !.above = Top.held + 1, !.i = 0])
  /\ UNCHANGED <<waiting, ceiling, quiet, pending, handler, main, posts>>

\* The end of a run the platform started: the base back and the count
\* compared in one step, the request made again when it moved.
Exit ==
  /\ Thread /\ Running("nothing") /\ Top.held = NoHold
  /\ Len(runs) > 1 \/ main # "run"
  /\ ceiling' = Top.base
  /\ pending' = (Byte(quiet) # Byte(Top.count))
  /\ runs' = Front(runs)
  /\ UNCHANGED <<waiting, quiet, handler, main, posts>>

\* The end of the loop's own run.
LoopReturn ==
  /\ Thread /\ Running("nothing") /\ Top.held = NoHold
  /\ Len(runs) = 1 /\ main = "run"
  /\ main' = IF Top.served THEN "top" ELSE "idle"
  /\ runs' = <<>>
  /\ UNCHANGED <<waiting, ceiling, quiet, pending, handler, posts>>

Kernel ==
  \/ LoopTop \/ LoopRun \/ Idle \/ TakeRequest \/ Entry \/ Call
  \/ Choose \/ Look \/ Raise \/ Recheck \/ Serve
  \/ DispatchAsk \/ DispatchEnd \/ Gap \/ ScanAgain \/ Exit \/ LoopReturn

Next ==
  \/ \E i \in Objects : HandlerPost(i) \/ WalkPost(i) \/ DispatchPush(i)
  \/ HandlerExit
  \/ Kernel

\* The core executes and handlers return.
Spec == Init /\ [][Next]_vars /\ WF_vars(Kernel \/ HandlerExit)

-----------------------------------------------------------------------------
Pcs == {"taken", "call", "choose", "look", "found", "raised", "serve", "dispatch",
        "gap", "nothing"}

Run == [pc : Pcs, base : 0 .. N, count : Nat, above : 0 .. N,
        held : 0 .. N, i : 0 .. N, post : 0 .. N, served : BOOLEAN]

\* Every variable keeps its type, and no queue holds more than its slots.
TypeOK ==
  /\ waiting \in [Objects -> 0 .. Slots]
  /\ ceiling \in 0 .. N /\ quiet \in Nat
  /\ pending \in BOOLEAN /\ handler \in BOOLEAN
  /\ main \in {"top", "walk", "run", "idle", "asleep"}
  /\ runs \in Seq(Run)
  /\ posts \in 0 .. MaxPosts

\* "A pack of n objects holds at most n runs, whatever the interrupts'
\* timing" (rubato.hpp, "The stack"): the runs that have begun choosing.  A
\* request taken in the window adds one entry that has not.
RunsWithinPack ==
  /\ TypeOK
  /\ Cardinality({k \in DOMAIN runs : runs[k].pc \notin {"taken", "call"}}) <= N
  /\ Len(runs) <= N + 1

\* The dispatches on the stack have strictly decreasing indices: no handler
\* is re-entered, and nothing of lower priority stands over a dispatch.
StackDecreases ==
  \A k, l \in DOMAIN runs :
    k < l /\ runs[k].pc = "dispatch" /\ runs[l].pc = "dispatch" => runs[l].i < runs[k].i

\* No choice sees so many quiet posts that the byte comes round to the value
\* it had: the wrap the comment on quiet_posts calls a miss (platform.hpp).
NoWrap ==
  runs # <<>> /\ Top.pc \in {"look", "found", "raised", "nothing"} /\ Top.held = NoHold =>
    quiet - Top.count < QuietMod

\* While a dispatch goes on, nothing of higher priority waits: a post above
\* it is served before its next instruction, whether it landed in a scan, in
\* the gap, behind the last scan of a run over it, or in its own code.
NoInversion ==
  Thread /\ Running("dispatch") =>
    \A j \in Objects : j < Top.i /\ Top.post # j => waiting[j] = 0

\* The core sleeps only when every queue is empty: idle_if_empty()'s check
\* under the mask leaves no window for a post made after the last scan.
SleepsEmpty ==
  Thread /\ main = "asleep" /\ runs = <<>> => \A i \in Objects : waiting[i] = 0

\* Every event posted is served in the end, its receiver's and everybody's
\* posts being bounded.
AllServed == \A i \in Objects : waiting[i] > 0 ~> waiting[i] = 0
=============================================================================
