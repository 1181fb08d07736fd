------------------------------ MODULE Selection ------------------------------
(***************************************************************************)
(* What a list comprehension with a condition returns (the registry's       *)
(* discover, the windows of the rate limiters) and what a pop of one element *)
(* leaves (deregister), written as a recursive function on positions so     *)
(* that proofs can follow it.                                               *)
(***************************************************************************)
EXTENDS Naturals, Sequences

\* What is left of each beginning of seq.
KeepSteps(seq, S) ==
    LET kept[n \in 0 .. Len(seq)] ==
            IF n = 0 THEN << >>
            ELSE IF seq[n] \in S THEN Append(kept[n - 1], seq[n]) ELSE kept[n - 1]
    IN kept

\* The elements of seq that are in S, in their order.
KeepOnly(seq, S) == KeepSteps(seq, S)[Len(seq)]

=============================================================================
