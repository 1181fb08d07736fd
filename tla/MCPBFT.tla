-------------------------------- MODULE MCPBFT --------------------------------
(* Instances of PBFT for TLC.  Requests are interchangeable; so are replicas  *)
(* that are primary of none of the views in reach.                            *)
EXTENDS PBFT, TLC

CONSTANTS n0, n1, n2, n3

Four == 0 :> n0 @@ 1 :> n1 @@ 2 :> n2 @@ 3 :> n3

Backups == Permutations(Node \ {n0}) \cup Permutations(Request)
===============================================================================
