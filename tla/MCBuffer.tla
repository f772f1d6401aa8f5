------------------------------ MODULE MCBuffer ------------------------------
\* Buffer with model values for TLC, and the symmetry of its calls.
EXTENDS Buffer, TLC

Interchangeable ==
    Permutations(Pushes) \cup Permutations(Takes) \cup Permutations(TryTakes)
=============================================================================
