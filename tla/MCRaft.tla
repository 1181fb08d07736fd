-------------------------------- MODULE MCRaft --------------------------------
(* Instances of Raft for TLC.  Commands are interchangeable, and so are the   *)
(* nodes that the bounds do not tell apart.                                   *)
EXTENDS Raft, TLC

Symmetry == Permutations(Node) \cup Permutations(Command)
CommandSymmetry == Permutations(Command)
ContenderSymmetry == Permutations(Contender) \cup Permutations(Command)
===============================================================================
