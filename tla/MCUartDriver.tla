---------------------------- MODULE MCUartDriver ----------------------------
\* Small instances of UartDriver for TLC.
EXTENDS UartDriver
=============================================================================
