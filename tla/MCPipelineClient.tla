--------------------------- MODULE MCPipelineClient ---------------------------
EXTENDS PipelineClient, TLC
===============================================================================
