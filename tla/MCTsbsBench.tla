----------------------------- MODULE MCTsbsBench -----------------------------
\* Sweeps and midnights for TLC.
EXTENDS TsbsBench

CONSTANTS s1, s2

OneScale == {<<s1>>}
BothScales == {<<s2, s1>>}
OneDay == {0}
=============================================================================
