------------------------------ MODULE MCWallet ------------------------------
(***************************************************************************)
(* Plans of two drafts in every combination of forms, for each form of the *)
(* input, that conserve the token; one whose change is too large to prove; *)
(* and one that does not conserve.  Blindings are scalars modulo 3.        *)
(***************************************************************************)
EXTENDS Wallet

CONSTANT Custom

MCTokens == {HTR, Custom}
MCAmounts == 0 .. 4

MCPlus(a, b) == (a + b) % Cardinality(Scalars)
MCNegate(a) == (Cardinality(Scalars) - a) % Cardinality(Scalars)
MCTimes(n, s) == (n * s) % Cardinality(Scalars)

Input(form, value) ==
  [form |-> form, token |-> HTR, value |-> value,
   vbf |-> IF form = "transparent" THEN ZERO_TWEAK ELSE 1,
   abf |-> IF form = "full" THEN 2 ELSE ZERO_TWEAK]

Draft(form, token, value) == [form |-> form, token |-> token, value |-> value]

MCPlans ==
  {[input |-> Input(inForm, 3), drafts |-> <<Draft(form, HTR, 1), Draft(lastForm, HTR, 2)>>] :
     inForm \in Form, form, lastForm \in {"amount", "full"}}
    \cup {[input |-> Input("amount", 2), drafts |-> <<Draft("full", Custom, 1), Draft("amount", HTR, 1)>>],
          [input |-> Input("transparent", 4), drafts |-> <<Draft("full", HTR, 4)>>]}
=============================================================================
