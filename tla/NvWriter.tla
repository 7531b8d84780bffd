------------------------------- MODULE NvWriter -------------------------------
(***************************************************************************)
(* util/nv_writer.hpp: requests to write nonvolatile memory, one operation *)
(* of the store at a time, begun by a dispatch and ended by the store's    *)
(* ready interrupt.  A step is what the dispatch does up to its next reply *)
(* or the start of an operation: after either, the requester answered or   *)
(* the interrupt may come before the dispatch has ended.                   *)
(***************************************************************************)
EXTENDS Naturals, Sequences, SequencesExt

CONSTANTS
  Requesters,    \* each with one request unanswered at most
  PendingDepth,  \* pending_depth
  OpCounts,      \* how many operations of the store a request may take
  OutOfStore,    \* in the place of a count: the request leaves the store
  Backlog,       \* how many requests the requesters leave in the queue at once
  MaxRequests    \* bound: the requests

ASSUME WriterAssumption ==
  PendingDepth \in Nat \ {0} /\ OpCounts \subseteq Nat /\ OutOfStore \notin Nat /\ Backlog \in Nat /\ MaxRequests \in Nat

NvReady == "ready"  \* the event the ready interrupt posts
ASSUME ReadyAssumption == NvReady \notin Requesters

VARIABLES
  nvQueue,    \* the writer's queue: NvReady, or the requester of an NvWrite
  nvCurrent,  \* the event in dispatch, as a sequence of one or none
  nvPlace,    \* where the dispatch is: rest, begin, step, next, end
  nvState,    \* idle or busy
  active,     \* active_: its requester
  fifo,       \* pending_
  left,       \* the operations each request still has to start
  inFlight,   \* the store is at work
  armed,      \* its ready interrupt is enabled
  answer,     \* what each requester was told last, none while it waits
  requests    \* how many there were

nvVars == <<nvQueue, nvCurrent, nvPlace, nvState, active, fifo, left, inFlight, armed, answer, requests>>

NvInit ==
  /\ nvQueue = <<>> /\ nvCurrent = <<>> /\ nvPlace = "rest" /\ nvState = "idle"
  /\ active = (CHOOSE r \in Requesters : TRUE) /\ fifo = <<>>
  /\ left = [r \in Requesters |-> 0]
  /\ inFlight = FALSE /\ armed = FALSE
  /\ answer = [r \in Requesters |-> "ok"] /\ requests = 0

NvSlots == PendingDepth + 2
NvTaken == Len(nvQueue) + Len(nvCurrent)
NvPosted(e) == IF NvTaken < NvSlots THEN Append(nvQueue, e) ELSE nvQueue

-----------------------------------------------------------------------------
\* A requester's post of an NvWrite that takes `ops` operations.
Request(r, ops) ==
  /\ answer[r] # "none" /\ requests < MaxRequests
  /\ Cardinality({i \in DOMAIN (nvQueue \o nvCurrent) : (nvQueue \o nvCurrent)[i] # NvReady}) < Backlog
  /\ requests' = requests + 1
  /\ nvQueue' = NvPosted(r)
  /\ IF NvTaken < NvSlots
     THEN answer' = [answer EXCEPT ![r] = "none"] /\ left' = [left EXCEPT ![r] = ops]
     ELSE UNCHANGED <<answer, left>>
  /\ UNCHANGED <<nvCurrent, nvPlace, nvState, active, fifo, inFlight, armed>>

\* The store's operation ends.
StoreDone ==
  /\ inFlight
  /\ inFlight' = FALSE
  /\ UNCHANGED <<nvQueue, nvCurrent, nvPlace, nvState, active, fifo, left, armed, answer, requests>>

\* The ready interrupt, a level: the program's handler disables it and posts.
ReadyInterrupt ==
  /\ armed /\ ~inFlight
  /\ armed' = FALSE
  /\ nvQueue' = NvPosted(NvReady)
  /\ UNCHANGED <<nvCurrent, nvPlace, nvState, active, fifo, left, inFlight, answer, requests>>

-----------------------------------------------------------------------------
\* The kernel hands the writer its next event, in the state it was found in.
ServeRequest ==
  LET r == Head(nvQueue) IN
  /\ nvPlace = "rest" /\ nvQueue # <<>> /\ r # NvReady
  /\ nvQueue' = Tail(nvQueue) /\ nvCurrent' = <<r>>
  /\ \/ /\ nvState = "idle"
        /\ active' = r /\ nvPlace' = "begin"
        /\ UNCHANGED <<fifo, answer>>
     \/ /\ nvState = "busy" /\ nvPlace' = "end" /\ UNCHANGED active
        /\ \/ Len(fifo) < PendingDepth /\ fifo' = Append(fifo, r) /\ UNCHANGED answer
           \/ Len(fifo) = PendingDepth /\ answer' = [answer EXCEPT ![r] = "rejected"] /\ UNCHANGED fifo
  /\ UNCHANGED <<nvState, left, inFlight, armed, requests>>

ServeReady ==
  /\ nvPlace = "rest" /\ nvQueue # <<>> /\ Head(nvQueue) = NvReady
  /\ nvQueue' = Tail(nvQueue) /\ nvCurrent' = <<NvReady>>
  /\ nvPlace' = IF nvState = "busy" THEN "step" ELSE "end"
  /\ UNCHANGED <<nvState, active, fifo, left, inFlight, armed, answer, requests>>

\* begin_chain(): the range of the request.
BeginChain ==
  /\ nvPlace = "begin"
  /\ IF left[active] = OutOfStore
     THEN answer' = [answer EXCEPT ![active] = "bad_range"] /\ nvPlace' = "next"
     ELSE nvPlace' = "step" /\ UNCHANGED answer
  /\ UNCHANGED <<nvQueue, nvCurrent, nvState, active, fifo, left, inFlight, armed, requests>>

\* step(): the next operation is started, and its interrupt armed.
StepInFlight ==
  /\ nvPlace = "step" /\ left[active] > 0
  /\ left' = [left EXCEPT ![active] = @ - 1]
  /\ inFlight' = TRUE /\ armed' = TRUE
  /\ nvState' = "busy" /\ nvPlace' = "end"
  /\ UNCHANGED <<nvQueue, nvCurrent, active, fifo, answer, requests>>

\* step() and finish(): nothing is left to write, or the store refuses.
StepEnds(status) ==
  /\ nvPlace = "step"
  /\ \/ left[active] = 0 /\ status = "ok"
     \/ left[active] > 0 /\ status = "refused"
  /\ answer' = [answer EXCEPT ![active] = status]
  /\ armed' = FALSE /\ nvPlace' = "next"
  /\ UNCHANGED <<nvQueue, nvCurrent, nvState, active, fifo, left, inFlight, requests>>

\* Mutant of ChainNext: a chain ends at the first request that took no operation.
ChainNextOnce ==
  /\ nvPlace = "next"
  /\ IF fifo = <<>> \/ nvCurrent # <<NvReady>> \/ answer[active] = "bad_range"
     THEN nvState' = "idle" /\ nvPlace' = "end" /\ UNCHANGED <<active, fifo>>
     ELSE active' = Head(fifo) /\ fifo' = Tail(fifo) /\ nvPlace' = "begin" /\ UNCHANGED nvState
  /\ UNCHANGED <<nvQueue, nvCurrent, left, inFlight, armed, answer, requests>>

\* The next of the FIFO, in the same dispatch, or idle.
ChainNext ==
  /\ nvPlace = "next"
  /\ IF fifo = <<>>
     THEN nvState' = "idle" /\ nvPlace' = "end" /\ UNCHANGED <<active, fifo>>
     ELSE active' = Head(fifo) /\ fifo' = Tail(fifo) /\ nvPlace' = "begin" /\ UNCHANGED nvState
  /\ UNCHANGED <<nvQueue, nvCurrent, left, inFlight, armed, answer, requests>>

\* The dispatch ends, and its event's slot is free.
NvReturn ==
  /\ nvPlace = "end"
  /\ nvPlace' = "rest" /\ nvCurrent' = <<>>
  /\ UNCHANGED <<nvQueue, nvState, active, fifo, left, inFlight, armed, answer, requests>>

Writing ==
  \/ ServeRequest \/ ServeReady \/ BeginChain \/ StepInFlight
  \/ \E status \in {"ok", "refused"} : StepEnds(status)
  \/ ChainNext \/ NvReturn

NvNext ==
  \/ Writing \/ StoreDone \/ ReadyInterrupt
  \/ \E r \in Requesters, ops \in OpCounts \cup {OutOfStore} : Request(r, ops)

\* The kernel serves the writer, the store ends what it began, and an
\* enabled interrupt is taken.
NvSpec ==
  /\ NvInit /\ [][NvNext]_nvVars
  /\ WF_nvVars(Writing) /\ WF_nvVars(StoreDone) /\ WF_nvVars(ReadyInterrupt)

-----------------------------------------------------------------------------
\* Where the requests are that wait: the queue, the FIFO, the active one.
IsActive(r) == active = r /\ (nvPlace \in {"begin", "step"} \/ (nvState = "busy" /\ nvPlace # "next"))
Places(r) ==
  Cardinality({i \in DOMAIN nvQueue : nvQueue[i] = r}) + Cardinality({i \in DOMAIN fifo : fifo[i] = r})
    + (IF IsActive(r) THEN 1 ELSE 0)

\* A request unanswered is in one place, a request answered in none.
InOnePlace == \A r \in Requesters : Places(r) = IF answer[r] = "none" THEN 1 ELSE 0

\* The store is at rest whenever the writer looks into it.
StoreAtRest == nvPlace \in {"begin", "step", "next"} => ~inFlight

\* "Sent once per request the writer received": no request is lost or answered
\* twice, none is told ok before the store holds it, and what was received is
\* answered.
ReceivedAnswered ==
  /\ [](InOnePlace /\ StoreAtRest)
  /\ []<>(\A r \in Requesters : answer[r] # "none")
=============================================================================
