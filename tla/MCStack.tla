------------------------------ MODULE MCStack ------------------------------
\* Stack with the symmetry of its calls.
EXTENDS Stack, TLC

Interchangeable ==
    Permutations(Pushes) \cup Permutations(Takes) \cup Permutations(TryTakes)
=============================================================================
