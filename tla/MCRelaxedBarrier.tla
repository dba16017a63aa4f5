-------------------------- MODULE MCRelaxedBarrier --------------------------
\* A small instance of RelaxedBarrier for TLC.
EXTENDS RelaxedBarrier
=============================================================================
