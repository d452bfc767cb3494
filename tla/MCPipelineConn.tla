---------------------------- MODULE MCPipelineConn ----------------------------
(***************************************************************************)
(* Model values for TLC.  The calls are interchangeable: no definition of  *)
(* PipelineConn names one of them, so the runs that check only safety use  *)
(* Symmetry; the runs with liveness do not.                                *)
(***************************************************************************)
EXTENDS PipelineConn, TLC

Symmetry == Permutations(Calls)
===============================================================================
