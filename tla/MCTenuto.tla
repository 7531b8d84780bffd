------------------------------ MODULE MCTenuto ------------------------------
\* Tenuto for TLC: three objects, so that the scan can have passed one and
\* not yet reached another, and queues of two slots that fill.
EXTENDS Tenuto
=============================================================================
