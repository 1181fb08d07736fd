--------------------------- MODULE MCTwoPhaseCommit ---------------------------
(* Instances of TwoPhaseCommit for TLC.  Participants and threads are told    *)
(* apart by name; where each has one operation, they are interchangeable.     *)
EXTENDS TwoPhaseCommit, TLC

CONSTANTS p1, p2, p3

OneEach == <<p1, p2, p3>>
Pair == <<p1, p2>>

\* p1 can always be reached once it has voted.
AllButOne == {"commit", "abort"} \X {p2, p3}

\* Clients that abort only while another has the commit phase under way.
AbortsComeLate == state' = "ABORTING" => state \in {"COMMITTING", "ABORTING"}
===============================================================================
