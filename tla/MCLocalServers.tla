--------------------------- MODULE MCLocalServers ---------------------------
\* The constants are numbers and flags: each configuration gives them directly.
EXTENDS LocalServers
=============================================================================
