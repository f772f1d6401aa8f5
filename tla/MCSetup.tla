------------------------------ MODULE MCSetup ------------------------------
\* Two containers, the first one of a factory.
EXTENDS Setup, TLC

CONSTANT v
=============================================================================
