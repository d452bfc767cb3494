---------------------------- MODULE MCConnSetup ----------------------------
EXTENDS ConnSetup, TLC

MCRawCalls  == {"r1", "r2"}
MCPipeCalls == {"p1", "p2", "p3"}
\* Raw and pipeline calls share nothing: one mix of both is enough.
MCMixes == {MCRawCalls, MCPipeCalls, {"r1", "p1"}}
=============================================================================
