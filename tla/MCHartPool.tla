---------------------------- MODULE MCHartPool -----------------------------
\* Small instances of HartPool for TLC.
EXTENDS HartPool
=============================================================================
