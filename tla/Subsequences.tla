---------------------------- MODULE Subsequences ----------------------------
(***************************************************************************)
(* What a Python comprehension or dict leaves of an ordered collection.    *)
(* The recursion is a function on the positions, about which more can be   *)
(* proved than about SelectSeq.                                            *)
(***************************************************************************)
EXTENDS Naturals, Sequences

(* The elements of q at the positions in S, in their order.                *)
Kept(q, S) ==
    LET upto[n \in 0..Len(q)] ==
          IF n = 0 THEN <<>>
          ELSE IF n \in S THEN Append(upto[n - 1], q[n]) ELSE upto[n - 1]
    IN upto[Len(q)]
=============================================================================
