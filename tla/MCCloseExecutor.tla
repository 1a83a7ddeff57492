-------------------------- MODULE MCCloseExecutor --------------------------
EXTENDS CloseLedger
=============================================================================
