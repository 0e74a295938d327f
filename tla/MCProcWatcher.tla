--------------------------- MODULE MCProcWatcher ---------------------------
\* Finite instances of ProcWatcher for TLC.
EXTENDS ProcWatcher
=============================================================================
