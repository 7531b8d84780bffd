-------------------------------- MODULE Inbox --------------------------------
(***************************************************************************)
(* util/inbox.hpp: the bridge between two cores.  One core sends, the      *)
(* other's doorbell handler pops the bells and drains every inbox into     *)
(* local posts.  A step is one access to a word the two cores share: the   *)
(* fences of the code are what makes the accesses take effect in this      *)
(* order.  The sender's critical section lets one send go on at a time.    *)
(***************************************************************************)
EXTENDS Naturals, Sequences

CONSTANTS
  Aos,      \* the receiving objects, in the order Inboxes drains them
  Ev,       \* what is sent
  Nothing,  \* the value a slot starts with
  Depth,    \* inbox_depth
  Bells,    \* how many bells the doorbell keeps: 8 on the RP2040, 1 on the RP2350
  MaxSends  \* bound: the sends

ASSUME DepthAssumption == Depth \in Nat \ {0} /\ Bells \in Nat \ {0}
ASSUME MaxSendsAssumption == MaxSends \in Nat
ASSUME AosAssumption ==
  /\ Aos \in Seq({Aos[k] : k \in DOMAIN Aos}) /\ Aos # <<>>
  /\ \A j, k \in DOMAIN Aos : Aos[j] = Aos[k] => j = k

VARIABLES
  slots, head, tail,   \* each inbox
  bells,               \* the bells pending
  enabled,             \* the doorbell's interrupt is enabled on the receiving core
  sender,              \* where the sending core is: away, write, publish, ring
  to, sending,         \* send()'s object and event
  receiver,            \* where the receiving core is: main, look, copy, free, post
  at,                  \* the inbox its handler drains, as a place in Aos
  hand,                \* drain()'s copy
  arrived,             \* the last event posted to each object
  sends                \* how many sends there were

inbox == <<slots, head, tail>>
vars == <<inbox, bells, enabled, sender, to, sending, receiver, at, hand, arrived, sends>>

Ao == {Aos[k] : k \in DOMAIN Aos}
Size == Depth + 1
Succ(i) == (i + 1) % Size

Init ==
  /\ slots = [ao \in Ao |-> [i \in 0 .. Depth |-> Nothing]]
  /\ head = [ao \in Ao |-> 0] /\ tail = [ao \in Ao |-> 0]
  /\ bells = 0 /\ enabled = FALSE
  /\ sender = "away" /\ to = Aos[1] /\ sending = Nothing
  /\ receiver = "main" /\ at = 1 /\ hand = Nothing
  /\ arrived = [ao \in Ao |-> Nothing] /\ sends = 0

-----------------------------------------------------------------------------
\* Inbox::send(): its test of the tail, the slot, the head, the bell.
\* Mutant of Full: the slot between full and empty used.
FullOneLate(ao) == (head[ao] + Size - tail[ao]) % Size > Depth
Full(ao) == Succ(head[ao]) = tail[ao]

Send(ao, e) ==
  /\ sender = "away" /\ sends < MaxSends
  /\ sends' = sends + 1
  /\ \/ Full(ao) /\ UNCHANGED <<sender, to, sending>>
     \/ ~Full(ao) /\ sender' = "write" /\ to' = ao /\ sending' = e
  /\ UNCHANGED <<inbox, bells, enabled, receiver, at, hand, arrived>>

Write ==
  /\ sender = "write"
  /\ slots' = [slots EXCEPT ![to][head[to]] = sending]
  /\ sender' = "publish"
  /\ UNCHANGED <<head, tail, bells, enabled, to, sending, receiver, at, hand, arrived, sends>>

Publish ==
  /\ sender = "publish"
  /\ head' = [head EXCEPT ![to] = Succ(@)]
  /\ sender' = "ring"
  /\ UNCHANGED <<slots, tail, bells, enabled, to, sending, receiver, at, hand, arrived, sends>>

\* Bell::ring(): skipped when there is no room for one more.
Ring ==
  /\ sender = "ring"
  /\ bells' = IF bells < Bells THEN bells + 1 ELSE bells
  /\ sender' = "away"
  /\ UNCHANGED <<inbox, enabled, to, sending, receiver, at, hand, arrived, sends>>

-----------------------------------------------------------------------------
\* Inboxes::enable().
Enable ==
  /\ ~enabled /\ receiver = "main"
  /\ enabled' = TRUE
  /\ UNCHANGED <<inbox, bells, sender, to, sending, receiver, at, hand, arrived, sends>>

\* Inboxes::isr(): pop_all().
Isr ==
  /\ enabled /\ bells > 0 /\ receiver = "main"
  /\ bells' = 0 /\ receiver' = "look" /\ at' = 1
  /\ UNCHANGED <<inbox, enabled, sender, to, sending, hand, arrived, sends>>

Empty(ao) == tail[ao] = head[ao]

\* Mutant of LookNone: the bells popped after the drain.
LookNonePops ==
  /\ receiver = "look" /\ Empty(Aos[at])
  /\ \/ at < Len(Aos) /\ at' = at + 1 /\ UNCHANGED <<receiver, bells>>
     \/ at = Len(Aos) /\ receiver' = "main" /\ bells' = 0 /\ UNCHANGED at
  /\ UNCHANGED <<inbox, enabled, sender, to, sending, hand, arrived, sends>>

\* drain()'s test: on to the next inbox, and out after the last.
LookNone ==
  /\ receiver = "look" /\ Empty(Aos[at])
  /\ \/ at < Len(Aos) /\ at' = at + 1 /\ UNCHANGED receiver
     \/ at = Len(Aos) /\ receiver' = "main" /\ UNCHANGED at
  /\ UNCHANGED <<inbox, bells, enabled, sender, to, sending, hand, arrived, sends>>

LookOne ==
  /\ receiver = "look" /\ ~Empty(Aos[at])
  /\ receiver' = "copy"
  /\ UNCHANGED <<inbox, bells, enabled, sender, to, sending, at, hand, arrived, sends>>

Copy ==
  /\ receiver = "copy"
  /\ hand' = slots[Aos[at]][tail[Aos[at]]]
  /\ receiver' = "free"
  /\ UNCHANGED <<inbox, bells, enabled, sender, to, sending, at, arrived, sends>>

Free ==
  /\ receiver = "free"
  /\ tail' = [tail EXCEPT ![Aos[at]] = Succ(@)]
  /\ receiver' = "post"
  /\ UNCHANGED <<slots, head, bells, enabled, sender, to, sending, at, hand, arrived, sends>>

\* post<Ao>(), and the loop's next turn.
Post ==
  /\ receiver = "post"
  /\ arrived' = [arrived EXCEPT ![Aos[at]] = hand]
  /\ receiver' = "look"
  /\ UNCHANGED <<inbox, bells, enabled, sender, to, sending, at, hand, sends>>

Sender == Write \/ Publish \/ Ring
Receiver == Isr \/ LookNone \/ LookOne \/ Copy \/ Free \/ Post

Next == Sender \/ Receiver \/ Enable \/ \E ao \in Ao, e \in Ev : Send(ao, e)

\* A send once begun goes on, the enabled interrupt is taken while a bell is
\* pending, and the receiving program enables it.
Spec == Init /\ [][Next]_vars /\ WF_vars(Sender) /\ WF_vars(Receiver) /\ WF_vars(Enable)

-----------------------------------------------------------------------------
\* Every variable keeps its type.
TypeOK ==
  /\ slots \in [Ao -> [0 .. Depth -> Ev \cup {Nothing}]]
  /\ head \in [Ao -> 0 .. Depth] /\ tail \in [Ao -> 0 .. Depth]
  /\ bells \in 0 .. Bells /\ enabled \in BOOLEAN
  /\ sender \in {"away", "write", "publish", "ring"}
  /\ to \in Ao /\ sending \in Ev \cup {Nothing}
  /\ receiver \in {"main", "look", "copy", "free", "post"}
  /\ at \in DOMAIN Aos /\ hand \in Ev \cup {Nothing}
  /\ arrived \in [Ao -> Ev \cup {Nothing}] /\ sends \in 0 .. MaxSends

\* The lost wakeup ("why the bells are popped before the drain"): what waits
\* has a bell pending, a sender about to ring, or a handler that has not
\* passed its inbox yet.
EveryEventHasABell ==
  TypeOK /\
  \A k \in DOMAIN Aos :
    ~Empty(Aos[k]) =>
      \/ bells > 0 \/ sender = "ring"
      \/ receiver # "main" /\ at <= k

\* The events of an inbox, those in the receiver's hand first.
Held(k) == IF receiver = "post" /\ at = k THEN <<hand>> ELSE <<>>
Stored(ao) ==
  [i \in 1 .. (head[ao] + Size - tail[ao]) % Size |-> slots[ao][(tail[ao] + i - 1) % Size]]
PlaceOf(ao) == CHOOSE k \in DOMAIN Aos : Aos[k] = ao

Bridge == INSTANCE Crossing WITH
  transit <- [ao \in Ao |-> Held(PlaceOf(ao)) \o Stored(ao)]

\* Across the cores each event sent arrives, once, whole and in order, with
\* no later bell needed.
ImplementsCrossing == Bridge!Spec
=============================================================================
