------------------------------ MODULE Crossing ------------------------------
(***************************************************************************)
(* What the bridge between two cores promises (util/inbox.hpp, "Order" and *)
(* the fourth discipline): to each receiving object, what was let in comes *)
(* out once, whole, in the order it was sent.  No more than Depth wait.    *)
(***************************************************************************)
EXTENDS Sequences, Naturals

CONSTANTS
  Ao,       \* the objects that receive from the other core
  Ev,       \* what is sent
  Nothing,  \* not an event
  Depth     \* how many an inbox holds

VARIABLES
  transit,  \* what was sent to each object and is not posted yet
  arrived   \* the last event posted to each object

vars == <<transit, arrived>>

Init == transit = [ao \in Ao |-> <<>>] /\ arrived = [ao \in Ao |-> Nothing]

\* One more may be in the receiver's hand.
Send(ao, e) ==
  /\ Len(transit[ao]) <= Depth
  /\ transit' = [transit EXCEPT ![ao] = Append(@, e)]
  /\ UNCHANGED arrived

Arrive(ao) ==
  /\ transit[ao] # <<>>
  /\ transit' = [transit EXCEPT ![ao] = Tail(@)]
  /\ arrived' = [arrived EXCEPT ![ao] = Head(transit[ao])]

Next == \E ao \in Ao : Arrive(ao) \/ \E e \in Ev : Send(ao, e)

\* What was sent arrives.
Spec == Init /\ [][Next]_vars /\ \A ao \in Ao : WF_vars(Arrive(ao))
=============================================================================
