------------------------------ MODULE DmbSequences ------------------------------
(***************************************************************************)
(* What is picked out of a sequence.                                       *)
(***************************************************************************)
EXTENDS Naturals, Sequences

(* The elements of s that are in the set, in their order: SelectSeq, with  *)
(* a set in place of the test and as a recursive function, which can be    *)
(* reasoned about.                                                         *)
Select(s, set) ==
  LET upTo[n \in 0 .. Len(s)] ==
        IF n = 0 THEN <<>>
        ELSE IF s[n] \in set THEN Append(upTo[n - 1], s[n]) ELSE upTo[n - 1]
  IN  upTo[Len(s)]

================================================================================
