-------------------------- MODULE MCEngineReconnect --------------------------
EXTENDS EngineReconnect
=============================================================================
