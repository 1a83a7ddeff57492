--------------------------- MODULE MCPendingEntry ---------------------------
EXTENDS PendingEntryLifecycle
=============================================================================
