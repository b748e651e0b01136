----------------------------- MODULE MCSessions -----------------------------
\* Small instances of Sessions for TLC: requests are model values.
EXTENDS Sessions

CONSTANTS t1, t2, s1, s2, s3, e1
=============================================================================
