----------------------------- MODULE MCMessages -----------------------------
\* Three publishes, one of which a subscriber of another may make, as it may
\* make a dispatch.
EXTENDS Messages, TLC

CONSTANTS p1, p2, p3, d1

OneInside == [p \in Callers |-> IF p = p2 THEN p1 ELSE None]

OneWithin == [d \in Dispatches |-> p1]
=============================================================================
