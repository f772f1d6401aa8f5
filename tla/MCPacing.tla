------------------------------ MODULE MCPacing ------------------------------
\* Functions and direct calls against the clock.
EXTENDS Pacing, TLC

CONSTANTS f1, f2, f3, c1
=============================================================================
