------------------------------ MODULE MCChecks ------------------------------
EXTENDS Checks, TLC
CONSTANTS p1, p2, h1, h2
MCmon_t == [s \in Server |-> IF s \in {p1, p2} THEN "ping" ELSE "http"]
=============================================================================
