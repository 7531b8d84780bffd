------------------------------- MODULE Timers -------------------------------
(***************************************************************************)
(* What the time events promise (kernel/time_event.hpp, "When a timer      *)
(* matures" and the paragraph on the walk): a timer posts when its ticks   *)
(* are up, never before; a turn of the loop posts every timer that is due  *)
(* when it looks, once each; one disarmed before its post never posts, one *)
(* armed during the turn waits for the next; a periodic one keeps its      *)
(* sequence of deadlines.  Time here is the ticks really left, with no     *)
(* counter that wraps, and the armed timers are a set.                     *)
(***************************************************************************)
EXTENDS Integers

CONSTANTS
  Timer,     \* the time events
  Nobody,    \* not one of them
  Delays,    \* the delays they are armed with
  Periods    \* the periods, 0 a one-shot's

VARIABLES
  left,      \* the ticks left of each armed timer, negative when overdue
  every,     \* the period of each armed timer
  walking,   \* a turn is under way
  todo,      \* due when the turn looked, and not yet taken
  firing     \* taken, its post to be made

vars == <<left, every, walking, todo, firing>>

Init ==
  /\ left = [t \in {} |-> 0] /\ every = [t \in {} |-> 0]
  /\ walking = FALSE /\ todo = {} /\ firing = Nobody

Only(f, S) == [t \in S |-> f[t]]
With(f, u, x) == [t \in DOMAIN f \cup {u} |-> IF t = u THEN x ELSE f[t]]

Tick ==
  /\ left' = [t \in DOMAIN left |-> left[t] - 1]
  /\ UNCHANGED <<every, walking, todo, firing>>

Arm(t, d, p) ==
  /\ firing = Nobody
  /\ left' = With(left, t, d) /\ every' = With(every, t, p)
  /\ todo' = todo \ {t}
  /\ UNCHANGED <<walking, firing>>

Disarm(t) ==
  /\ firing = Nobody
  /\ left' = Only(left, DOMAIN left \ {t}) /\ every' = Only(every, DOMAIN every \ {t})
  /\ todo' = todo \ {t}
  /\ UNCHANGED <<walking, firing>>

ClearAll ==
  /\ ~walking
  /\ left' = Only(left, {}) /\ every' = Only(every, {})
  /\ UNCHANGED <<walking, todo, firing>>

Take(t) ==
  IF every[t] # 0
  THEN left' = [left EXCEPT ![t] = @ + every[t]] /\ UNCHANGED every
  ELSE left' = Only(left, DOMAIN left \ {t}) /\ every' = Only(every, DOMAIN every \ {t})

Visit(due) ==
  \/ /\ due = {}
     /\ walking' = FALSE /\ todo' = {} /\ firing' = Nobody
     /\ UNCHANGED <<left, every>>
  \/ \E t \in due :
       /\ walking' = TRUE /\ todo' = due \ {t} /\ firing' = t
       /\ Take(t)

Turn == ~walking /\ Visit({t \in DOMAIN left : left[t] <= 0})
Post == firing # Nobody /\ firing' = Nobody /\ UNCHANGED <<left, every, walking, todo>>
Resume == walking /\ firing = Nobody /\ Visit(todo)

Next ==
  \/ Tick \/ ClearAll \/ Turn \/ Post \/ Resume
  \/ \E t \in Timer : Disarm(t) \/ \E d \in Delays, p \in Periods : Arm(t, d, p)

Spec == Init /\ [][Next]_vars
=============================================================================
