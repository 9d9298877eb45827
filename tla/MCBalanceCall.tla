---------------------------- MODULE MCBalanceCall ----------------------------
(***************************************************************************)
(* BalanceCall with the scalars modulo 2: enough for lists and loops, which *)
(* do not compute with them.  MCBalance has the signs.                     *)
(***************************************************************************)
EXTENDS BalanceCall, Integers

CONSTANT Custom   \* a token other than HTR

MCTokens == {HTR, Custom}

MCScalars == 0 .. 1
MCPlus(a, b) == (a + b) % 2
MCNegate(a) == a
MCTimes(k, s) == (k * s) % 2

\* 0, which is skipped, and one amount that is not.
MCAmounts == 0 .. 1
============================================================================
