----------------------------- MODULE ValueStore -----------------------------
(***************************************************************************)
(* What NvJournal promises (src/brio/util/nv_journal.hpp:4-10): a current  *)
(* value per id, kept over any loss of power, where a save either makes    *)
(* its value the current one or leaves the previous one, and costs no      *)
(* other id anything.                                                      *)
(***************************************************************************)
CONSTANTS Ids, Vals, Nothing, PanicId, PanicVal

VARIABLES value,    \* id -> its current value, Nothing where it never had one
          want,     \* the save under way, Nothing when there is none
          answer    \* what the last save said

vars == <<value, want, answer>>

Holding(s) == [value EXCEPT ![s.id] = s.val]

Init == /\ value \in [Ids -> Vals \cup {Nothing}]
        /\ want = Nothing
        /\ answer = "none"

Ask(i, v) == /\ want = Nothing
             /\ want' = [id |-> i, val |-> v]
             /\ answer' = "none"
             /\ UNCHANGED value

\* A save whose id is one too many is refused within the call.
RefuseAtOnce == /\ want = Nothing
                /\ answer' = "refused"
                /\ UNCHANGED <<value, want>>

Take == /\ want # Nothing
        /\ value' = Holding(want)
        /\ want' = Nothing
        /\ answer' = "taken"

Refuse == /\ want # Nothing
          /\ want' = Nothing
          /\ answer' = "refused"
          /\ UNCHANGED value

\* The power goes: a save under way has happened or it has not.
Lose == /\ value' \in {value} \cup {Holding(s) : s \in {want} \ {Nothing}}
        /\ want' = Nothing
        /\ answer' = "none"

\* A panic: the record is there or it is not, and the save under way,
\* which will never go on, has not happened.
Panic == /\ value' \in {value, Holding([id |-> PanicId, val |-> PanicVal])}
         /\ want' = Nothing
         /\ answer' = "none"

Next == \/ \E i \in Ids, v \in Vals : Ask(i, v)
        \/ RefuseAtOnce
        \/ Take
        \/ Refuse
        \/ Lose
        \/ Panic

Spec == Init /\ [][Next]_vars
=============================================================================
