------------------------------ MODULE EventFifo ------------------------------
(***************************************************************************)
(* What the event queue of one active object promises its users            *)
(* (kernel/event_queue.hpp, the part of the header before "The rest of     *)
(* this comment is the implementation"): a bounded FIFO whose oldest event *)
(* is handed over under a handle, stays readable and unchanged under that  *)
(* handle until it is given back, and takes a place until then.  A post to *)
(* a full queue is dropped and counted; nothing else is ever lost,         *)
(* duplicated or reordered.  EventQueue implements this module.            *)
(***************************************************************************)
EXTENDS Naturals, Sequences, FiniteSets

CONSTANTS
  Events,      \* what an event can be
  Handles,     \* the names a handed-over event can go by: one per place
  CountMax     \* where the overflow counter saturates

VARIABLES
  waiting,     \* the events waiting, oldest first
  out,         \* the events handed over: a partial function of Handles
  dropped      \* posts refused so far, up to CountMax

vars == <<waiting, out, dropped>>

Occupied == Len(waiting) + Cardinality(DOMAIN out)

Init == waiting = <<>> /\ out = [h \in {} |-> {}] /\ dropped = 0

Accept(e) ==
  /\ Occupied < Cardinality(Handles)
  /\ waiting' = Append(waiting, e)
  /\ UNCHANGED <<out, dropped>>

Refuse ==
  /\ Occupied = Cardinality(Handles)
  /\ dropped' = IF dropped = CountMax THEN dropped ELSE dropped + 1
  /\ UNCHANGED <<waiting, out>>

HandOver ==
  /\ waiting # <<>>
  /\ waiting' = Tail(waiting)
  /\ \E h \in Handles \ DOMAIN out :
       out' = [k \in DOMAIN out \cup {h} |-> IF k = h THEN Head(waiting) ELSE out[k]]
  /\ UNCHANGED dropped

GiveBack(h) ==
  /\ out' = [k \in DOMAIN out \ {h} |-> out[k]]
  /\ UNCHANGED <<waiting, dropped>>

Next ==
  \/ \E e \in Events : Accept(e)
  \/ Refuse
  \/ HandOver
  \/ \E h \in DOMAIN out : GiveBack(h)

\* The owner keeps serving: an event that waits is handed over in the end.
Spec == Init /\ [][Next]_vars /\ WF_vars(HandOver)
==============================================================================
