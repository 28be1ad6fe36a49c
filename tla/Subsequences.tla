---------------------------- MODULE Subsequences ----------------------------
(***************************************************************************)
(* What is left of a sequence when only some positions are kept. SelectSeq *)
(* selects by an operator, which no prover can be told about; this selects *)
(* by a set.                                                               *)
(***************************************************************************)
EXTENDS Integers, Sequences

\* Of the first elements of s, up to each of them, those at the positions P.
Picked(s, P) ==
    LET picked[n \in 0..Len(s)] ==
            IF n = 0 THEN <<>>
            ELSE IF n \in P THEN Append(picked[n - 1], s[n]) ELSE picked[n - 1]
    IN  picked

Pick(s, P) == Picked(s, P)[Len(s)]

=============================================================================
