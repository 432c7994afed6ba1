----------------------------- MODULE MCPipeline -----------------------------
(* A small platform for TLC: the two projects the server itself seeds, one  *)
(* or two deployments that may fall in the same project, and one or two     *)
(* host ports (two so that a restarted container can come back elsewhere).  *)
EXTENDS Pipeline

ASSUME SmallInstance == Cardinality(Deps) <= 2 /\ Cardinality(Ports) <= 2
=============================================================================
