----------------------------- MODULE BusMaster -----------------------------
(***************************************************************************)
(* util/bus_master.hpp: the arbiter of a serial bus, from its queue to its *)
(* engine.  The requests wait, and fly, in held slots of the queue, so the *)
(* slots are counted: an event that finds none free is dropped.            *)
(*                                                                         *)
(* A dispatch is cut where another context can change something it still   *)
(* uses: between a reply and the release of the slot the reply left from,  *)
(* and before the marker that follows a recovery is posted.  The engine's  *)
(* interrupt lands anywhere; a client posts between the dispatches, and    *)
(* inside one where it may preempt (an object above the arbiter on         *)
(* Rubato, or an interrupt handler).  The timers' walk runs between        *)
(* dispatches on both kernels.                                             *)
(***************************************************************************)
EXTENDS Integers, Sequences, FiniteSets

CONSTANTS
  Client,       \* those who post requests, one each at a time
  Nobody,       \* not one of them
  Depth,        \* pending_depth
  Timings,      \* the buses: with a time-out (timeout_ticks # 0), without one
  MaxAttempts,  \* the retries the policy allows a failing transfer
  SeqRange,     \* the sequence number is modulo this: 256
  Budget,       \* bound: the requests posted and not answered
  Preempt       \* whether a client may post inside a dispatch

ASSUME ClientAssumption == Nobody \notin Client /\ IsFiniteSet(Client)
ASSUME DepthAssumption == Depth \in Nat \ {0}
ASSUME TimingsAssumption == Timings \subseteq BOOLEAN
ASSUME CountsAssumption ==
  MaxAttempts \in Nat /\ SeqRange \in Nat \ {0, 1} /\ Budget \in Nat

VARIABLES
  timed,     \* which bus this one is: never changes
  queue,     \* the events waiting, oldest first
  cur,       \* the event being dispatched
  lent,      \* its slot is the kernel's, which gives it back after the dispatch
  state,     \* the Fsm's state: idle, busy, draining
  flight,    \* in_flight_: whose request lies in that slot
  pending,   \* pending_: whose requests lie in those slots, in FIFO order
  answered,  \* a held slot whose requester is answered, not given back yet
  attempt,   \* attempt_
  seq,       \* TState::seq
  armed,     \* the timer of TState is armed
  engine,    \* whose transfer the engine moves under interrupts
  asking,    \* the clients whose request has had no answer
  voting,    \* the power manager waits for this object's SleepVote
  lost,      \* an event was dropped by the queue
  pc         \* where the arbiter's context is

vars == <<timed, queue, cur, lent, state, flight, pending, answered, attempt, seq,
          armed, engine, asking, voting, lost, pc>>

Event(kind, arg) == [kind |-> kind, arg |-> arg]
NoEvent == Event("none", Nobody)

\* Mutant of Slots: the headroom of the control events left out.
SlotsNoHeadroom == 2 * Depth + 2

\* The queue's depth and the spare slot.
Slots == 2 * Depth + (IF timed THEN 6 ELSE 3) + 1

One(b) == IF b THEN 1 ELSE 0
Occupied == Len(queue) + Len(pending) + One(flight # Nobody) + One(answered) + One(lent)

Post(e) ==
  IF Occupied < Slots
  THEN queue' = Append(queue, e) /\ UNCHANGED lost
  ELSE lost' = TRUE /\ UNCHANGED queue

Init ==
  /\ timed \in Timings
  /\ queue = <<>> /\ cur = NoEvent /\ lent = FALSE /\ state = "idle"
  /\ flight = Nobody /\ pending = <<>> /\ answered = FALSE /\ attempt = 0
  /\ seq = 0 /\ armed = FALSE /\ engine = Nobody /\ asking = {}
  /\ voting = FALSE /\ lost = FALSE /\ pc = "loop"

-----------------------------------------------------------------------------
\* The others: a client, the power manager, the engine's interrupt through the
\* program's glue, and the timer's firing.
MayPost == Preempt \/ pc = "loop"

Ask(c) ==
  /\ MayPost
  /\ c \notin asking /\ Cardinality(asking) < Budget
  /\ asking' = asking \cup {c}
  /\ Post(Event("Request", c))
  /\ UNCHANGED <<timed, cur, lent, state, flight, pending, answered, attempt, seq,
                 armed, engine, voting, pc>>

AskToSleep ==
  /\ MayPost /\ ~voting
  /\ voting' = TRUE
  /\ Post(Event("PrepareSleep", Nobody))
  /\ UNCHANGED <<timed, cur, lent, state, flight, pending, answered, attempt, seq,
                 armed, engine, asking, pc>>

EngineDone ==
  /\ engine # Nobody
  /\ engine' = Nobody
  /\ \E status \in {"ok", "failed"} : Post(Event("TransferDone", status))
  /\ UNCHANGED <<timed, cur, lent, state, flight, pending, answered, attempt, seq,
                 armed, asking, voting, pc>>

TimerFire ==
  /\ armed /\ pc = "loop"
  /\ armed' = FALSE
  /\ Post(Event("BusTimeout", seq))
  /\ UNCHANGED <<timed, cur, lent, state, flight, pending, answered, attempt, seq,
                 engine, asking, voting, pc>>

-----------------------------------------------------------------------------
\* Bus::start() returning false, with arm_timeout(); and what is unchanged
\* when it returns true.
GoesAsync(c) ==
  /\ engine' = c /\ flight' = c
  /\ seq' = IF timed THEN (seq + 1) % SeqRange ELSE seq
  /\ armed' = timed

Reply(c) == asking' = asking \ {c}

Dispatching(kind) == pc = "handle" /\ cur.kind = kind

Serve ==
  /\ pc = "loop" /\ queue # <<>>
  /\ cur' = Head(queue) /\ queue' = Tail(queue) /\ lent' = TRUE
  /\ pc' = "handle"
  /\ UNCHANGED <<timed, state, flight, pending, answered, attempt, seq, armed, engine,
                 asking, voting, lost>>

\* begin(): a request finds the bus idle.
BeginRequest ==
  /\ Dispatching("Request") /\ state = "idle"
  /\ attempt' = 0
  /\ \/ GoesAsync(cur.arg) /\ lent' = FALSE /\ state' = "busy" /\ UNCHANGED asking
     \/ Reply(cur.arg) /\ UNCHANGED <<engine, flight, seq, armed, lent, state>>
  /\ pc' = "return"
  /\ UNCHANGED <<timed, queue, cur, pending, answered, voting, lost>>

\* wait_or_reject(), in busy and in draining.
WaitOrReject ==
  /\ Dispatching("Request") /\ state # "idle"
  /\ \/ Len(pending) = Depth /\ Reply(cur.arg) /\ UNCHANGED <<pending, lent>>
     \/ Len(pending) < Depth /\ pending' = Append(pending, cur.arg)
        /\ lent' = FALSE /\ UNCHANGED asking
  /\ pc' = "return"
  /\ UNCHANGED <<timed, queue, cur, state, flight, answered, attempt, seq, armed,
                 engine, voting, lost>>

\* finish(): the reply; its release is a step of its own.
Finish ==
  /\ Reply(flight) /\ flight' = Nobody /\ answered' = TRUE
  /\ pc' = "release"

\* TransferDone in busy, the policy judging it: retried, or answered.
Retry ==
  /\ Dispatching("TransferDone") /\ state = "busy"
  /\ cur.arg = "failed" /\ attempt < MaxAttempts
  /\ \/ /\ attempt' = attempt + 1 /\ GoesAsync(flight)
        /\ pc' = "return" /\ UNCHANGED <<asking, answered>>
     \/ attempt' = 0 /\ armed' = FALSE /\ Finish /\ UNCHANGED <<engine, seq>>
  /\ UNCHANGED <<timed, queue, cur, lent, state, pending, voting, lost>>

\* The answer.
Complete ==
  /\ Dispatching("TransferDone") /\ state = "busy"
  /\ ~(cur.arg = "failed" /\ attempt < MaxAttempts)
  /\ attempt' = 0 /\ armed' = FALSE /\ Finish
  /\ UNCHANGED <<timed, queue, cur, lent, state, pending, seq, engine, voting, lost>>

\* begin_waiting(), one request of its loop, and the state it leaves.  Mutant:
\* the ones that wait are left to the next request.
NextWaitingForgets ==
  /\ state' = "idle" /\ answered' = FALSE /\ pc' = "return"
  /\ UNCHANGED <<pending, attempt, engine, flight, seq, armed, asking>>
NextWaiting ==
  \/ /\ pending = <<>>
     /\ state' = "idle" /\ answered' = FALSE /\ pc' = "return"
     /\ UNCHANGED <<pending, attempt, engine, flight, seq, armed, asking>>
  \/ /\ pending # <<>>
     /\ pending' = Tail(pending) /\ attempt' = 0
     /\ \/ /\ GoesAsync(Head(pending))
           /\ state' = "busy" /\ answered' = FALSE /\ pc' = "return"
           /\ UNCHANGED asking
        \/ /\ Reply(Head(pending)) /\ answered' = TRUE /\ pc' = "release"
           /\ UNCHANGED <<engine, flight, seq, armed, state>>

Release ==
  /\ pc = "release" /\ cur.kind # "BusTimeout"
  /\ NextWaiting
  /\ UNCHANGED <<timed, queue, cur, lent, voting, lost>>

-----------------------------------------------------------------------------
\* Mutants of Timeout: the engine not recovered; any time-out believed.
TimeoutNoRecover ==
  /\ Dispatching("BusTimeout") /\ state = "busy" /\ cur.arg = seq
  /\ attempt' = 0 /\ Finish
  /\ UNCHANGED <<timed, queue, cur, lent, state, pending, seq, armed, engine, voting, lost>>
TimeoutAnySeq ==
  /\ Dispatching("BusTimeout") /\ state = "busy"
  /\ engine' = Nobody /\ attempt' = 0 /\ Finish
  /\ UNCHANGED <<timed, queue, cur, lent, state, pending, seq, armed, voting, lost>>

\* BusTimeout in busy, of the transfer in flight: Bus::recover(), the answer,
\* then the slot, then the marker.
Timeout ==
  /\ Dispatching("BusTimeout") /\ state = "busy" /\ cur.arg = seq
  /\ engine' = Nobody /\ attempt' = 0 /\ Finish
  /\ UNCHANGED <<timed, queue, cur, lent, state, pending, seq, armed, voting, lost>>

TimeoutRelease ==
  /\ pc = "release" /\ cur.kind = "BusTimeout"
  /\ answered' = FALSE /\ pc' = "flush"
  /\ UNCHANGED <<timed, queue, cur, lent, state, flight, pending, attempt, seq, armed,
                 engine, asking, voting, lost>>

\* Mutants of Flush: straight to the next request; the marker not posted.
FlushGoesIdle ==
  /\ pc = "flush"
  /\ pc' = "return"
  /\ NextWaiting
  /\ UNCHANGED <<timed, queue, cur, lent, voting, lost>>

FlushUnposted ==
  /\ pc = "flush"
  /\ state' = "draining" /\ pc' = "return"
  /\ UNCHANGED <<timed, queue, cur, lent, flight, pending, answered, attempt, seq, armed,
                 engine, asking, voting, lost>>

Flush ==
  /\ pc = "flush"
  /\ Post(Event("BusFlushed", Nobody))
  /\ state' = "draining" /\ pc' = "return"
  /\ UNCHANGED <<timed, cur, lent, flight, pending, answered, attempt, seq, armed,
                 engine, asking, voting>>

Flushed ==
  /\ Dispatching("BusFlushed") /\ state = "draining"
  /\ NextWaiting
  /\ UNCHANGED <<timed, queue, cur, lent, voting, lost>>

\* The events that change nothing where they are served: a stale time-out, a
\* dead transfer's completion.
Drop ==
  /\ \/ Dispatching("BusTimeout") /\ (state = "busy" => cur.arg # seq)
     \/ Dispatching("TransferDone") /\ state # "busy"
  /\ pc' = "return"
  /\ UNCHANGED <<timed, queue, cur, lent, state, flight, pending, answered, attempt,
                 seq, armed, engine, asking, voting, lost>>

Vote ==
  /\ Dispatching("PrepareSleep")
  /\ voting' = FALSE /\ pc' = "return"
  /\ UNCHANGED <<timed, queue, cur, lent, state, flight, pending, answered, attempt,
                 seq, armed, engine, asking, lost>>

\* serve_one(): the slot goes back unless the dispatch held it.
Return ==
  /\ pc = "return"
  /\ lent' = FALSE /\ cur' = NoEvent /\ pc' = "loop"
  /\ UNCHANGED <<timed, queue, state, flight, pending, answered, attempt, seq, armed,
                 engine, asking, voting, lost>>

Arbiter ==
  \/ Serve \/ BeginRequest \/ WaitOrReject \/ Retry \/ Complete \/ Release
  \/ Timeout \/ TimeoutRelease \/ Flush \/ Flushed \/ Drop \/ Vote \/ Return

Next == Arbiter \/ AskToSleep \/ EngineDone \/ TimerFire \/ \E c \in Client : Ask(c)

\* The kernel serves the arbiter.  On a timed bus the walk of the timers comes
\* back between its dispatches, and the engine owes nothing; on an untimed one
\* the engine completes.
Fairness ==
  /\ WF_vars(Arbiter)
  /\ SF_vars(timed /\ TimerFire)
  /\ WF_vars(~timed /\ EngineDone)

Spec == Init /\ [][Next]_vars /\ Fairness

-----------------------------------------------------------------------------
QueuedAt(kind) == {k \in DOMAIN queue : queue[k].kind = kind}

\* Every variable keeps its type.
TypeOK ==
  /\ Occupied <= Slots
  /\ state \in {"idle", "busy", "draining"}
  /\ flight \in Client \cup {Nobody} /\ engine \in Client \cup {Nobody}
  /\ pending \in Seq(Client) /\ Len(pending) <= Depth
  /\ attempt \in 0 .. MaxAttempts /\ seq \in 0 .. SeqRange - 1
  /\ asking \in SUBSET Client
  /\ {answered, lent, armed, voting, lost} \subseteq BOOLEAN
  /\ pc \in {"loop", "handle", "release", "flush", "return"}

\* "never silent while the clients keep at most 2 x pending_depth + 2 requests
\* outstanding at once" (bus_master.hpp, the paragraph on the held slots): no
\* request and no control event finds the queue full.
NothingDropped == ~lost

\* A busy bus is owed exactly one completion, its own: the engine still runs,
\* or one TransferDone is on its way and the engine does not.  An idle one is
\* owed none; a draining one's is a dead transfer's, ahead of the marker.
OneCompletionOwed ==
  LET owed == Cardinality(QueuedAt("TransferDone")) + One(engine # Nobody)
                + One(Dispatching("TransferDone"))
  IN TypeOK /\ (pc \in {"loop", "handle", "return"} =>
       /\ state = "busy" => owed = 1 /\ (engine # Nobody => engine = flight)
       /\ state = "idle" => owed = 0
       /\ state = "draining" =>
            /\ engine = Nobody /\ owed <= 1
            /\ \A k \in QueuedAt("TransferDone"), m \in QueuedAt("BusFlushed") : k < m)

\* The engine never moves the bytes of a request that was answered: its
\* buffers are the client's again.
BuffersReturned == engine # Nobody => engine \in asking

\* Nobody is answered bus_timeout while the timer of the transfer in flight
\* still runs: a time-out overtaken by its own transfer's completion, the next
\* one already on the wire, is told apart.
TimesOutItsOwn ==
  [][Dispatching("BusTimeout") /\ asking \ asking' # {} => ~armed]_vars

\* The events before the arbiter: the one in dispatch, then the queue; and
\* whose requests are among the events of a queue, oldest first.
Coming == IF pc = "handle" THEN <<cur>> \o queue ELSE queue

Asked(before, e) == IF e.kind = "Request" THEN Append(before, e.arg) ELSE before

Requests(q) ==
  LET upTo[k \in 0 .. Len(q)] == IF k = 0 THEN <<>> ELSE Asked(upTo[k - 1], q[k])
  IN upTo[Len(q)]

\* The clients are served in order, one at a time, each answered once.
Line == pending \o Requests(Coming)

Service == INSTANCE BusService WITH line <- Line, wire <- flight

ImplementsService == Service!Spec

\* Every request is answered: on a timed bus even if the engine never speaks.
AllAnswered == \A c \in Client : c \in asking ~> c \notin asking
=============================================================================
