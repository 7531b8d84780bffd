---------------------------- MODULE MCTimeEvents ----------------------------
\* TimeEvents for TLC: a counter of eight ticks, so that deadlines cross its
\* wrap all the time, and two timers: while the walk stands at or behind one,
\* the other is ahead of it or behind, in every order of the list.
EXTENDS TimeEvents
CONSTANTS a, b

TwoTimers == {a, b}
SomeDelays == {0, 3}
OnePeriod == {0, 2}
=============================================================================
