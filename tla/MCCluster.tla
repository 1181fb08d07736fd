------------------------------ MODULE MCCluster ------------------------------
(* An instance of Cluster for TLC. *)
EXTENDS Cluster

\* Every node knows the one before it, and only neighbours reach each other.
Line == [n \in GNodes |-> GNodes \cap {n - 1}]
LineLinks == {l \in GNodes \X GNodes : l[1] - l[2] \in {-1, 1}}
Sizes == [mode \in {"push", "pull", "push_pull"} |-> IF mode = "push" THEN GNodes ELSE {1, 2}]
=============================================================================
