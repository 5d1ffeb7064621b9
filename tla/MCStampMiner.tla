---------------------------- MODULE MCStampMiner ----------------------------
(***************************************************************************)
(* A small instance of StampMiner for TLC: every cost from one too low to  *)
(* one too high.                                                           *)
(***************************************************************************)
EXTENDS StampMiner, SequencesExt

AllCosts == 0..Bits

\* big.Int.SetBytes: the number that a digest is.
Number(d) == FoldLeft(LAMBDA n, i : 2 * n + d[i - 1], 0, [i \in 1..Bits |-> i])

\* Target and AtMost are the shift and the comparison of the numbers.
ASSUME ComparesNumbers ==
  \A d \in Digest, cost \in 1..(Bits - 1) :
    /\ Number(Target(cost)) = 2 ^ (Bits - cost)
    /\ AtMost(d, Target(cost)) <=> Number(d) <= 2 ^ (Bits - cost)
=============================================================================
