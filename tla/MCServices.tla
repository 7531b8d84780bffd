----------------------------- MODULE MCServices -----------------------------
(* Instances of LineWriter and of PowerManager, which share nothing: a         *)
(* behaviour is one of the writer or one of the manager.                       *)
EXTENDS LineWriter, PowerManager

VARIABLE live     \* the component that runs
services == <<live, vars, powerVars>>

ServicesInit ==
  /\ live \in {"writer", "manager"}
  /\ Init /\ PowerInit

OfWriter(A) == live = "writer" /\ A /\ UNCHANGED <<live, powerVars>>
OfManager(A) == live = "manager" /\ A /\ UNCHANGED <<live, vars>>

ServicesNext == OfWriter(Next) \/ OfManager(PowerNext)

ServicesSpec ==
  /\ ServicesInit /\ [][ServicesNext]_services
  /\ WF_services(OfWriter(Step \/ Leave)) /\ WF_services(OfWriter(Transmit))
=============================================================================
