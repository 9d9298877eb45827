---------------------------- MODULE MCVerifiers ----------------------------
(***************************************************************************)
(* One token, one-bit words, blindings modulo 3; among the points two that *)
(* cancel out.                                                             *)
(***************************************************************************)
EXTENDS Verifiers

MCTokens == {HTR}
MCAmounts == 0 .. MaxWord
MCClaimedAmounts == {-1, 0, 1, 2}

MCPlus(a, b) == (a + b) % 3
MCNegate(a) == (3 - a) % 3
MCTimes(n, s) == (n * s) % 3

MCChainPoints ==
  {[h |-> Units(0, HTR), g |-> 1], [h |-> Units(0, HTR), g |-> 2],
   [h |-> Units(1, HTR), g |-> 0], [h |-> Units(1, HTR), g |-> 1]}
=============================================================================
