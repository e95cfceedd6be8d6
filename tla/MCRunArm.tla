------------------------------- MODULE MCRunArm -------------------------------
\* The bounds are numbers: the configuration gives them directly.
EXTENDS RunArm
=============================================================================
