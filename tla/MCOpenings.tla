----------------------------- MODULE MCOpenings -----------------------------
(***************************************************************************)
(* Two calls over two Buffers; words of one bit, scalars modulo 2.         *)
(***************************************************************************)
EXTENDS Openings

CONSTANT Custom

MCTokens == {HTR, Custom}

MCScalars == {0, 1}
MCPlus(a, b) == (a + b) % 2
MCNegate(a) == a
MCTimes(n, s) == (n * s) % 2

MCAmounts == {0, 1}

\* Both words, a negative value, and a word plus 2^WORD_BITS.
MCClaimedValues == {-1, 0, 1, 3}
=============================================================================
