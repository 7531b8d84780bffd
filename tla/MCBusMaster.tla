---------------------------- MODULE MCBusMaster ----------------------------
\* BusMaster for TLC: one request may wait; the budget the header states for
\* that depth is four clients with a request each.
EXTENDS BusMaster
CONSTANTS a, b, c, d

FourClients == {a, b, c, d}
ThreeClients == {a, b, c}

EitherBus == BOOLEAN
UntimedBus == {FALSE}
=============================================================================
