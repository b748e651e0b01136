---------------------------- MODULE MCTranscript ----------------------------
\* Small instances of Transcript for TLC.
EXTENDS Transcript

CONSTANTS t1, t2
=============================================================================
