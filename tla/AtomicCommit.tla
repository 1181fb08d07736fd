----------------------------- MODULE AtomicCommit -----------------------------
(***************************************************************************)
(* What two_phase_commit.py promises ("Atomic commit protocol"): the       *)
(* participants of one transaction settle one by one, and they all settle  *)
(* the same way.                                                           *)
(***************************************************************************)
CONSTANT Participant
VARIABLE fate

Undecided == {"working", "prepared"}

Init == fate = [p \in Participant |-> "working"]

\* A participant that can still go either way reserves its resources.
Reserve(p) ==
    /\ fate[p] = "working"
    /\ fate' = [fate EXCEPT ![p] = "prepared"]

\* The first commit needs everyone's reservation; later ones find it kept.
Commit(p) ==
    /\ fate[p] = "prepared"
    /\ \A q \in Participant : fate[q] \in {"prepared", "committed"}
    /\ fate' = [fate EXCEPT ![p] = "committed"]

Abort(p) ==
    /\ fate[p] \in Undecided
    /\ \A q \in Participant : fate[q] # "committed"
    /\ fate' = [fate EXCEPT ![p] = "aborted"]

Next == \E p \in Participant : Reserve(p) \/ Commit(p) \/ Abort(p)

Spec == Init /\ [][Next]_fate
===============================================================================
