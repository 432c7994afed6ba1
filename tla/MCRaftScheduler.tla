--------------------------- MODULE MCRaftScheduler ---------------------------
(* Two calls about one deployment, on a leader and a node that lags.       *)
EXTENDS RaftScheduler, TLC

Symmetry == Permutations(Nodes) \cup Permutations(Calls)
              \cup Permutations(Images) \cup Permutations(Counts)
=============================================================================
