------------------------------ MODULE MCQueue ------------------------------
\* Queue with model values for TLC, and the symmetry of its interchangeable calls.
EXTENDS Queue, TLC

Interchangeable ==
    Permutations(Pushes) \cup Permutations(PushWaits) \cup Permutations(Workers)
=============================================================================
