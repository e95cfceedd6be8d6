---------------------------- MODULE MCOnebrcSweep ----------------------------
\* The constants are numbers: each configuration gives them directly.
EXTENDS OnebrcSweep
=============================================================================
