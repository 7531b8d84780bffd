---------------------------- MODULE MCEventQueue ----------------------------
\* EventQueue for TLC.  Depth 2 is three slots and four positions: every
\* cursor wraps, a slot can be held across dispatches while two others
\* circulate, and slots come back out of order.
EXTENDS EventQueue
CONSTANTS e1, e2

MCEvents == {e1, e2}
=============================================================================
