----------------------------- MODULE MCPipeConns -----------------------------
EXTENDS PipeConns, TLC
===============================================================================
