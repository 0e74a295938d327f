--------------------------- MODULE MCServerStatus ---------------------------
\* Finite instances of ServerStatus for TLC.
EXTENDS ServerStatus
=============================================================================
