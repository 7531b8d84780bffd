----------------------------- MODULE EventQueue -----------------------------
(***************************************************************************)
(* kernel/event_queue.hpp, with the kernel's step that serves it           *)
(* (serve_one() of kernel/active_object.hpp).  push() runs under the       *)
(* critical section, so one push is one step, possible between any two     *)
(* shared accesses of the consumer.  The consumer masks nothing: take()    *)
(* and release() are one step per shared access, the boundaries the code   *)
(* marks with point().                                                     *)
(*                                                                         *)
(* ring[q] is the slot number at place q, that is ring_[q] ^ q: the code   *)
(* keeps it XOR the place, so that the state below is all zero in memory.  *)
(* Position p of the queue is at place NextPos(p), as in the code.         *)
(***************************************************************************)
EXTENDS Naturals, Sequences, FiniteSets

CONSTANTS
  Depth,      \* the template parameter depth
  CountMax,   \* UINT16_MAX, where both counters saturate
  Events,     \* what an event can be
  NoEvent     \* the value-initialised event a slot holds before its first push

ASSUME DepthAssumption == Depth \in Nat \ {0}
ASSUME CountMaxAssumption == CountMax \in Nat
ASSUME EventsAssumption == NoEvent \notin Events

VARIABLES
  slots, ring, alloc, take, fence,   \* the queue's data members
  held,                              \* held_
  overflows, misposts,
  pc,        \* where the consumer is
  mode,      \* whether in serve_one() or in pop()
  t, h,      \* take()'s locals: the cursor it read, the number it read
  gone,      \* the handle release() is giving back
  owned      \* the active object's own: the handles it holds

queue == <<slots, ring, alloc, take, fence, held, overflows, misposts>>
consumer == <<pc, mode, t, h, gone, owned>>
vars == <<queue, consumer>>

SlotCount == Depth + 1
Positions == SlotCount + 1
Places == 0 .. SlotCount
Slots == 1 .. SlotCount
None == 0                            \* EventQueue::none

NextPos(i) == IF i + 1 = Positions THEN 0 ELSE i + 1

Saturated(n) == IF n = CountMax THEN n ELSE n + 1

Init ==
  /\ slots = [s \in Slots |-> NoEvent]
  /\ ring = [q \in Places |-> q]
  /\ alloc = 0 /\ take = 0 /\ fence = 0 /\ held = 0
  /\ overflows = 0 /\ misposts = 0
  /\ pc = "loop" /\ mode = "serve"
  /\ t = 0 /\ h = None /\ gone = None /\ owned = {}

-----------------------------------------------------------------------------
\* Mutants of Push: no test for a full queue; a test one place too early.
PushUnguarded(e) ==
  /\ slots' = [s \in Slots |-> IF s = ring[NextPos(alloc)] THEN e ELSE slots[s]]
  /\ alloc' = NextPos(alloc)
  /\ UNCHANGED <<ring, take, fence, held, overflows, misposts, consumer>>

PushEarlyFull(e) ==
  LET n == NextPos(alloc) IN
  \/ /\ n # fence /\ NextPos(n) # fence
     /\ slots' = [slots EXCEPT ![ring[n]] = e]
     /\ alloc' = n
     /\ UNCHANGED <<ring, take, fence, held, overflows, misposts, consumer>>
  \/ /\ n = fence \/ NextPos(n) = fence
     /\ overflows' = Saturated(overflows)
     /\ UNCHANGED <<slots, ring, alloc, take, fence, held, misposts, consumer>>

\* push(), from any context of the owning core.
Push(e) ==
  LET n == NextPos(alloc) IN
  \/ /\ n # fence
     /\ slots' = [slots EXCEPT ![ring[n]] = e]
     /\ alloc' = n
     /\ UNCHANGED <<ring, take, fence, held, overflows, misposts, consumer>>
  \/ /\ n = fence
     /\ overflows' = Saturated(overflows)
     /\ UNCHANGED <<slots, ring, alloc, take, fence, held, misposts, consumer>>

\* push() from another core, where the platform can tell.
Mispost ==
  /\ misposts' = Saturated(misposts)
  /\ UNCHANGED <<slots, ring, alloc, take, fence, held, overflows, consumer>>

-----------------------------------------------------------------------------
\* take(), and the same accesses in pop(): one step each.
TakeStart ==
  /\ pc = "loop"
  /\ t' = take
  /\ mode' \in {"serve", "pop"}
  /\ pc' = "test"
  /\ UNCHANGED <<queue, h, gone, owned>>

TakeTest ==
  /\ pc = "test"
  /\ pc' = IF t = alloc THEN "loop" ELSE "read"
  /\ UNCHANGED <<queue, mode, t, h, gone, owned>>

\* Mutant of TakeRead: the number read at the cursor, not a place ahead.
TakeReadAtCursor ==
  /\ pc = "read"
  /\ h' = ring[t]
  /\ pc' = "move"
  /\ UNCHANGED <<queue, mode, t, gone, owned>>

TakeRead ==
  /\ pc = "read"
  /\ h' = ring[NextPos(t)]
  /\ pc' = "move"
  /\ UNCHANGED <<queue, mode, t, gone, owned>>

TakeMove ==
  /\ pc = "move"
  /\ take' = NextPos(t)
  /\ pc' = "dispatch"
  /\ UNCHANGED <<slots, ring, alloc, fence, held, overflows, misposts>>
  /\ UNCHANGED <<mode, t, h, gone, owned>>

\* hold(), inside a dispatch; a second one names the same slot.
Hold ==
  /\ pc = "dispatch" /\ mode = "serve"
  /\ held' = 1
  /\ owned' = owned \cup {ring[take]}
  /\ UNCHANGED <<slots, ring, alloc, take, fence, overflows, misposts>>
  /\ UNCHANGED <<pc, mode, t, h, gone>>

\* Mutant of ReleaseWrite: the number written at the other consumer cursor.
ReleaseWriteAtTake(s) ==
  /\ ring' = [ring EXCEPT ![take] = s]
  /\ gone' = s
  /\ UNCHANGED <<slots, alloc, take, fence, overflows, misposts>>

\* The first half of release(s): the number goes where the free run ends.
ReleaseWrite(s) ==
  /\ ring' = [ring EXCEPT ![fence] = s]
  /\ gone' = s
  /\ UNCHANGED <<slots, alloc, take, fence, overflows, misposts>>

\* A dispatch releases a slot an earlier dispatch held.
OwnerRelease ==
  /\ pc = "dispatch" /\ mode = "serve"
  /\ \E s \in owned \ (IF held = 1 THEN {h} ELSE {}) : ReleaseWrite(s)
  /\ pc' = "ownerReleasing"
  /\ UNCHANGED <<held, mode, t, h, owned>>

\* The dispatch is over: take_hold(), and the release of a slot not held.
DispatchEnd ==
  /\ pc = "dispatch"
  /\ \/ /\ held = 1
        /\ held' = 0
        /\ pc' = "loop"
        /\ h' = None
        /\ UNCHANGED <<slots, ring, alloc, take, fence, overflows, misposts>>
        /\ UNCHANGED gone
     \/ /\ held = 0
        /\ ReleaseWrite(h)
        /\ pc' = "releasing"
        /\ UNCHANGED <<held, h>>
  /\ UNCHANGED <<mode, t, owned>>

\* The second half of release(): the slot is free from here.
ReleaseMove ==
  /\ pc \in {"ownerReleasing", "releasing"}
  /\ fence' = NextPos(fence)
  /\ owned' = owned \ {gone}
  /\ IF pc = "releasing" THEN pc' = "loop" /\ h' = None
                         ELSE pc' = "dispatch" /\ UNCHANGED h
  /\ gone' = None
  /\ UNCHANGED <<slots, ring, alloc, take, held, overflows, misposts>>
  /\ UNCHANGED <<mode, t>>

Serve == TakeStart \/ TakeTest \/ TakeRead \/ TakeMove \/ DispatchEnd \/ ReleaseMove

Next ==
  \/ \E e \in Events : Push(e)
  \/ Mispost
  \/ TakeStart \/ TakeTest \/ TakeRead \/ TakeMove
  \/ Hold \/ OwnerRelease \/ DispatchEnd \/ ReleaseMove

\* The kernel's loop keeps running and every handler returns (run to
\* completion).
Spec == Init /\ [][Next]_vars /\ WF_vars(Serve)

-----------------------------------------------------------------------------
\* The three runs of the ring, in places: pending, then free, then the rest.
Dist(i, j) == IF j >= i THEN j - i ELSE j + Positions - i

Waiting == Dist(take, alloc)                  \* size()
Live == Dist(NextPos(take), fence)            \* waiting and free together

IsPending(q) == q # take /\ Dist(take, q) <= Waiting
IsFree(q) == q # take /\ Waiting < Dist(take, q) /\ Dist(take, q) <= Live

Current == IF pc \in {"dispatch", "ownerReleasing", "releasing"} THEN {h} ELSE {}
Outstanding == owned \cup Current

\* Every variable keeps its type: the cursors index the ring, a byte read
\* back from the ring is a slot number, the counters stay within a counter.
TypeOK ==
  /\ slots \in [Slots -> Events \cup {NoEvent}]
  /\ ring \in [Places -> Places]
  /\ alloc \in Places /\ take \in Places /\ fence \in Places /\ t \in Places
  /\ held \in 0 .. 1 /\ mode \in {"serve", "pop"}
  /\ overflows \in 0 .. CountMax /\ misposts \in 0 .. CountMax
  /\ pc \in {"loop", "test", "read", "move", "dispatch", "ownerReleasing", "releasing"}
  /\ h \in Places /\ gone \in Places
  /\ owned \subseteq Slots

\* Each slot number is in exactly one of the three hands: at one place of
\* the pending run, at one place of the free run, or outstanding.  This is
\* what keeps a producer and the consumer off each other's slots with no
\* lock on the consumer's side ("The consumer's side, which never masks").
SlotsPartitioned ==
  /\ Waiting <= Live
  /\ Live + Cardinality(Outstanding) = SlotCount
  /\ \A s \in Slots :
       s \in Outstanding <=> ~ \E q \in Places : (IsPending(q) \/ IsFree(q)) /\ ring[q] = s

\* Whenever a dispatch runs, hold() would name the very slot being
\* dispatched: no release made meanwhile has reached the place it reads
\* ("the last of the outstanding run, which no release reaches").
HoldNamesCurrent == pc \in {"dispatch", "ownerReleasing"} => ring[take] = h

\* A slot the active object has and nobody is releasing keeps its event:
\* no post, however many and whenever it lands, rebuilds it.
OutstandingUntouched ==
  [][\A s \in Outstanding : s \in Outstanding' => slots'[s] = slots[s]]_vars

\* The queue as its users see it.
Fifo == INSTANCE EventFifo WITH
  Handles <- Slots,
  waiting <- [i \in 1 .. Waiting |->
                slots[ring[IF take + i < Positions THEN take + i ELSE take + i - Positions]]],
  out <- [s \in Outstanding |-> slots[s]],
  dropped <- overflows

\* The queue implements the bounded FIFO, its liveness included.
ImplementsFifo == Fifo!Spec
=============================================================================
