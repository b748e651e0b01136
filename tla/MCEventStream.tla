---------------------------- MODULE MCEventStream ----------------------------
\* A small instance of EventStream for TLC.
EXTENDS EventStream

CONSTANTS o1, o2
=============================================================================
