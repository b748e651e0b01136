--------------------------- MODULE MCIdempotency ---------------------------
\* Small instances of Idempotency for TLC.
EXTENDS Idempotency

CONSTANTS r1, r2, r3, k1, b1, b2, b3, s1, s2, i1

\* Two different submissions of one item; the third body plans a session.
MCItemOf == [b \in {b1, b2} |-> i1]
=============================================================================
