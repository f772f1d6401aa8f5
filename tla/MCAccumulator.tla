--------------------------- MODULE MCAccumulator ---------------------------
\* Accumulator with four calls of Add, among them one of a negative amount.
EXTENDS Accumulator, TLC

CONSTANTS one, two, three, less

Amounts == [a \in Adds |-> CASE a = one -> 1 [] a = two -> 2 [] a = three -> 3 [] a = less -> -2]
=============================================================================
