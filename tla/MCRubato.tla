------------------------------ MODULE MCRubato ------------------------------
\* Rubato for TLC: three objects, so that a dispatch can be preempted by one
\* that is itself preempted, queues of two slots, and a count that does not
\* wrap within the posts of a behaviour.
EXTENDS Rubato
=============================================================================
