-------------------------- MODULE MCShieldedLedger --------------------------
(***************************************************************************)
(* Two tokens, multiples of tags modulo 7, words up to two, and more than  *)
(* a word of HTR.                                                          *)
(***************************************************************************)
EXTENDS ShieldedLedger

CONSTANT Custom

MCTokens == {HTR, Custom}

MCPlus(a, b) == (a + b) % Cardinality(Scalars)
MCNegate(a) == (Cardinality(Scalars) - a) % Cardinality(Scalars)
MCTimes(n, s) == (n * s) % Cardinality(Scalars)

MCAmounts == {0, 1, 2}

Transparent(token, amount) == [kind |-> "transparent", token |-> token, amount |-> amount]

MCGenesis == SetToBag({Transparent(HTR, 1), Transparent(HTR, 2), Transparent(Custom, 1)})
=============================================================================
