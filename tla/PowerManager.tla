---------------------------- MODULE PowerManager ----------------------------
(***************************************************************************)
(* util/power.hpp: the round of votes before a sleep, between requesters,   *)
(* voters and standing restrictions taken by interrupts. A dispatch of the  *)
(* manager has two steps, its handler and its return: in between its event  *)
(* still holds a slot and, under the preemptive kernel, what its posts woke *)
(* has run. Requests are told apart by their depth alone.                   *)
(***************************************************************************)
EXTENDS Integers, Sequences, FiniteSetsExt

CONSTANTS
  Voters,
  Depths,        \* what is asked for: rungs of the ladder
  LockLevels,    \* the rungs locks are taken at
  MaxLocks,      \* bound: locks alive at one rung
  MaxAsking      \* requests unanswered at once

Ladder == 0..3   \* none, light, standby, deep
IsDeepMode(d) == d >= 2

ASSUME PowerAssumption ==
  /\ IsFiniteSet(Voters) /\ Voters # {}
  /\ Depths \subseteq Ladder /\ LockLevels \subseteq Ladder
  /\ MaxLocks \in Nat /\ MaxAsking \in Nat \ {0}

VARIABLES
  power,         \* the manager's state
  powerQueue,    \* its queue: requests as depths, votes as BOOLEANs
  inHand,        \* the handler has run and its event still holds a slot
  requested, outstanding, objected,   \* requested_, outstanding_, refused_
  armedDepth, site,   \* armed_depth_, and what the site is armed at
  locks,
  voterQueue,    \* PrepareSleep and WakeReport waiting with each voter
  asking,        \* requests unanswered
  judged         \* history: what the round in force may come to, and who agreed

managerVars == <<power, requested, outstanding, objected, armedDepth, site, judged>>
powerVars == <<managerVars, powerQueue, inHand, locks, voterQueue, asking>>

Vote(ok) == [kind |-> "vote", ok |-> ok]
Request(d) == [kind |-> "request", depth |-> d]
NoRound == [most |-> 0, agreed |-> {}]

PowerInit ==
  /\ power = "idle" /\ powerQueue = <<>> /\ inHand = FALSE
  /\ requested = 0 /\ outstanding = 0 /\ objected = FALSE /\ armedDepth = 0 /\ site = 0
  /\ locks = [d \in Ladder |-> 0]
  /\ voterQueue = [v \in Voters |-> <<>>]
  /\ asking = 0 /\ judged = NoRound

(* Mutant of ManagerSlots: one place of margin less.                         *)
ManagerSlotsTight == Cardinality(Voters) + 3

(* The slots of the queue, the one in dispatch among them.                   *)
ManagerSlots == Cardinality(Voters) + 4
PostedToManager(queue, e, held) ==
  IF Len(queue) + held < ManagerSlots THEN Append(queue, e) ELSE queue
Held == IF inHand THEN 1 ELSE 0

Shallower(a, b) == Min({a, b})

(* ceiling(): the shallowest rung with a live lock.                          *)
Ceiling == Min({3} \cup {d \in Ladder : locks[d] > 0})

-----------------------------------------------------------------------------
(* Around the manager: interrupts, requesters, voters.                      *)

TakeLock(d) ==
  /\ locks[d] < MaxLocks
  /\ locks' = [locks EXCEPT ![d] = @ + 1]
  /\ UNCHANGED <<managerVars, powerQueue, inHand, voterQueue, asking>>

ReleaseLock(d) ==
  /\ locks[d] > 0
  /\ locks' = [locks EXCEPT ![d] = @ - 1]
  /\ UNCHANGED <<managerVars, powerQueue, inHand, voterQueue, asking>>

(* A requester, or the wake path with depth 0, from any context.             *)
Ask(d) ==
  /\ asking < MaxAsking
  /\ asking' = asking + 1
  /\ powerQueue' = PostedToManager(powerQueue, Request(d), Held)
  /\ UNCHANGED <<managerVars, inHand, locks, voterQueue>>

(* A voter answers each PrepareSleep once.                                   *)
Answer(v, ok) ==
  /\ voterQueue[v] # <<>>
  /\ voterQueue' = [voterQueue EXCEPT ![v] = Tail(@)]
  /\ IF Head(voterQueue[v]) = "prepare"
     THEN /\ powerQueue' = PostedToManager(powerQueue, Vote(ok), Held)
          /\ judged' = [judged EXCEPT !.agreed = IF ok THEN @ \cup {v} ELSE @]
     ELSE UNCHANGED <<powerQueue, judged>>
  /\ UNCHANGED <<power, requested, outstanding, objected, armedDepth, site, inHand, locks,
                 asking>>

-----------------------------------------------------------------------------
(* The manager's handlers, on the event at the front.                        *)

Handles(kind) == ~inHand /\ powerQueue # <<>> /\ Head(powerQueue).kind = kind

Tell(what) == [v \in Voters |-> Append(voterQueue[v], what)]

(* conclude(): the site armed, at most as deep as asked for, or disarmed     *)
(* when a voter or the site objects.                                        *)
Conclude(objects) ==
  \/ /\ ~objects
     /\ site' \in 0..requested
     /\ armedDepth' = site'
     /\ power' = "armed"
  \/ /\ site' = 0
     /\ power' = "idle"
     /\ UNCHANGED armedDepth

(* begin_round(): the depth clamped; nothing to do, too near a deadline (the *)
(* answer of the timers is theirs), or the voters asked.                    *)
BeginRound ==
  LET d == Shallower(Head(powerQueue).depth, Ceiling) IN
  /\ Handles("request") /\ power = "idle"
  /\ \/ /\ d = 0
        /\ site' = 0
        /\ asking' = asking - 1
        /\ UNCHANGED <<power, requested, outstanding, objected, voterQueue, judged>>
     \/ /\ IsDeepMode(d)
        /\ asking' = asking - 1
        /\ UNCHANGED <<power, requested, outstanding, objected, voterQueue, judged, site>>
     \/ /\ d # 0
        /\ requested' = d /\ objected' = FALSE
        /\ outstanding' = Cardinality(Voters)
        /\ voterQueue' = Tell("prepare")
        /\ power' = "collecting"
        /\ judged' = [most |-> d, agreed |-> {}]
        /\ UNCHANGED <<asking, site>>
  /\ powerQueue' = Tail(powerQueue) /\ inHand' = TRUE
  /\ UNCHANGED <<armedDepth, locks>>

(* A request while a round runs is refused.                                  *)
RefuseRequest ==
  /\ Handles("request") /\ power = "collecting"
  /\ asking' = asking - 1
  /\ powerQueue' = Tail(powerQueue) /\ inHand' = TRUE
  /\ UNCHANGED <<managerVars, locks, voterQueue>>

(* Mutant of Objection: the last vote decides.                                 *)
ObjectionLast(ok) == ~ok

Objection(ok) == objected \/ ~ok

(* A vote counted; the last one ends the round and answers its requester.    *)
CountVote ==
  LET objects == Objection(Head(powerQueue).ok) IN
  /\ Handles("vote") /\ power = "collecting"
  /\ objected' = objects
  /\ outstanding' = outstanding - 1
  /\ IF outstanding > 1 THEN UNCHANGED <<power, site, armedDepth, asking>>
     ELSE Conclude(objects) /\ asking' = asking - 1
  /\ powerQueue' = Tail(powerQueue) /\ inHand' = TRUE
  /\ UNCHANGED <<requested, judged, locks, voterQueue>>

(* The first event after the arming: wake(), and the request judged afresh.  *)
Wake ==
  /\ Handles("request") /\ power = "armed"
  /\ site' = 0 /\ armedDepth' = 0
  /\ voterQueue' = Tell("wake")
  /\ powerQueue' = PostedToManager(Tail(powerQueue), Head(powerQueue), 1)
  /\ power' = "idle"
  /\ inHand' = TRUE
  /\ UNCHANGED <<requested, outstanding, objected, locks, asking, judged>>

Return ==
  /\ inHand
  /\ inHand' = FALSE
  /\ UNCHANGED <<managerVars, powerQueue, locks, voterQueue, asking>>

PowerNext ==
  \/ \E d \in LockLevels : TakeLock(d) \/ ReleaseLock(d)
  \/ \E d \in Depths : Ask(d)
  \/ \E v \in Voters, ok \in BOOLEAN : Answer(v, ok)
  \/ BeginRound \/ RefuseRequest \/ CountVote \/ Wake \/ Return

PowerSpec == PowerInit /\ [][PowerNext]_powerVars

-----------------------------------------------------------------------------
(* Properties.                                                              *)

PowerTypeOK ==
  /\ power \in {"idle", "collecting", "armed"} /\ Len(powerQueue) + Held <= ManagerSlots
  /\ requested \in Ladder /\ outstanding \in 0..Cardinality(Voters) /\ objected \in BOOLEAN
  /\ armedDepth \in Ladder /\ site \in Ladder /\ asking \in 0..MaxAsking
  /\ \A v \in Voters : Len(voterQueue[v]) <= 2

(* The machine is never left armed to stop deeper than its idle but by a      *)
(* round in force, no deeper than the request and the locks alive when it   *)
(* was judged let, and that every voter agreed to when asked in that very   *)
(* round, whatever requests, votes and locks came meanwhile (power.hpp:     *)
(* begin_round(), conclude(), wake()). A voter never has more than a        *)
(* PrepareSleep and a WakeReport to hold.                                    *)
ArmedAgreed ==
  /\ PowerTypeOK
  /\ site > 0 => power = "armed"
  /\ power = "armed" => site = armedDepth /\ site <= judged.most /\ judged.agreed = Voters

EventsIn(kind) == Cardinality({k \in DOMAIN powerQueue : powerQueue[k].kind = kind})
Unanswered == Cardinality({v \in Voters : \E k \in DOMAIN voterQueue[v] : voterQueue[v][k] = "prepare"})

(* With as many requests unanswered as the queue has room for behind the     *)
(* votes, none is dropped or answered twice, and the votes the manager waits *)
(* for are each with their voter or on their way: a round cannot wait for a *)
(* vote that will never come, nor take one of another round (power.hpp: the *)
(* queue's depth, collecting(), armed_state()).                             *)
NoneForgotten ==
  /\ asking = EventsIn("request") + (IF power = "collecting" THEN 1 ELSE 0)
  /\ EventsIn("vote") + Unanswered = IF power = "collecting" THEN outstanding ELSE 0
=============================================================================
