------------------------------ MODULE MCLedger ------------------------------
\* A small instance of Ledger for TLC.
EXTENDS Ledger

CONSTANTS c1, c2, c3, s1
=============================================================================
