---------------------------- MODULE MCFirstSolver ----------------------------
EXTENDS FirstSolver
=============================================================================
