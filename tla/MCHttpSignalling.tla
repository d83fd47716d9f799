-------------------------- MODULE MCHttpSignalling --------------------------
EXTENDS HttpSignalling

MCRequest == {"r1", "r2", "r3"}
=============================================================================
