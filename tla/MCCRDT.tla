------------------------------- MODULE MCCRDT -------------------------------
(* An instance of CRDT for TLC. *)
EXTENDS CRDT
=============================================================================
