------------------------------ MODULE MCConsole ------------------------------
EXTENDS Console
=============================================================================
