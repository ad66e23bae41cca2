---------------------------- MODULE Subsequence ----------------------------
(***************************************************************************)
(* SelectSeq for a set instead of a test, as a recursive function of the   *)
(* position.  An operator that takes an operator as a parameter cannot be  *)
(* reasoned about in the proofs of RowPathProofs; its values on positions  *)
(* can, by a smallest counterexample.                                      *)
(***************************************************************************)
EXTENDS Naturals, Sequences

\* The elements of a sequence that are in S, in their order.
Kept(seq, S) ==
    LET kept[n \in 0..Len(seq)] ==
            IF n = 0 THEN <<>>
            ELSE IF seq[n] \in S THEN Append(kept[n - 1], seq[n]) ELSE kept[n - 1]
    IN  kept[Len(seq)]
=============================================================================
