----------------------------- MODULE MCBalance -----------------------------
(***************************************************************************)
(* Balance on a small group: the scalars are the integers modulo 3.        *)
(***************************************************************************)
EXTENDS Balance, Integers

CONSTANT Custom   \* a token other than HTR

MCTokens == {HTR, Custom}

MCScalars == 0 .. 2
MCPlus(a, b) == (a + b) % 3
MCNegate(a) == (3 - a) % 3
MCTimes(n, s) == (n * s) % 3

\* 0, the two ends of the provable range and one amount beyond it.
MCAmounts == 0 .. 3
============================================================================
