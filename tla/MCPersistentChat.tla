-------------------------- MODULE MCPersistentChat --------------------------
EXTENDS PersistentChat, TLC
=============================================================================
