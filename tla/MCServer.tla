------------------------------ MODULE MCServer ------------------------------
\* Calls of Start and Stop against requests.
EXTENDS Server, TLC

CONSTANTS r1, r2, s1, s2, t1, t2
=============================================================================
