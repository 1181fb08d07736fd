------------------------------ MODULE MCToolkit ------------------------------
(* An instance of Toolkit for TLC. *)
EXTENDS Toolkit

CONSTANTS c1, c2, c3

\* The ways three clients use one lock together.
Usage(a, b, c) == (c1 :> a) @@ (c2 :> b) @@ (c3 :> c)
AnyUsage == {Usage("owner", "token", "owner"), Usage("token", "owner", "token"),
             Usage("with", "fenced", "owner"), Usage("fenced", "with", "token")}

\* One direction between two nodes may be blocked on its own.
OnePair == {<<1, 2>>}

\* One bucket, three and four; the keys fall into them unevenly.
Bucketings == {<<1, <<0, 0, 0, 0, 0, 0>>>>, <<3, <<0, 2, 2, 1, 0, 1>>>>, <<4, <<3, 3, 0, 1, 0, 1>>>>}

\* The helpers without state of QuorumSystem, over all small inputs.
ASSUME QuorumMathHolds == QuorumMath
=============================================================================
