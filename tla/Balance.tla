------------------------------ MODULE Balance ------------------------------
(***************************************************************************)
(* A transaction's balance equation, from the wallet that assembles it to  *)
(* the verdict on it (crypto-core/src/balance.rs, with the creation of     *)
(* shielded outputs in ecdh.rs and the excess rules of the bindings).      *)
(*                                                                         *)
(* verify_balance reads its two lists only to add their commitments up, so *)
(* the module keeps each side as the sum of its commitments and their      *)
(* number, and grows it as the wallet adds entries.  The prover is         *)
(* unconstrained: it may take any blinding factors, in any order, and any  *)
(* excess.  A wallet that follows the protocol asks                        *)
(* compute_balancing_blinding_factor for the last one.                     *)
(***************************************************************************)
EXTENDS Commitments

CONSTANTS MAX_PROVABLE_AMOUNT,  \* 2^40 in the code
          NoExcess,             \* None, for the excess blinding factor
          MaxInputs, MaxOutputs \* bounds on the size of a transaction

ASSUME BoundAssumption ==
  /\ MAX_PROVABLE_AMOUNT \in Nat
  /\ NoExcess \notin Scalars
  /\ MaxInputs \in Nat
  /\ MaxOutputs \in Nat

VARIABLES
  positive,    \* the commitments of the inputs
  negative,    \* the commitments of the outputs
  inSecret,    \* sum of v * gbf + vbf over the inputs
  outSecret,   \* the same over the outputs
  inValue,     \* what the inputs are worth, by token
  outValue,    \* what the outputs are worth, by token
  nInputs,     \* entries added, the skipped ones included
  nOutputs,
  shieldedIn,  \* whether the list of shielded inputs is not empty
  shieldedOut,
  excess,      \* the excess blinding factor, or NoExcess
  sealed,      \* the last blinding factor balances all the entries there are
  result       \* of the last call

vars == <<positive, negative, inSecret, outSecret, inValue, outValue,
          nInputs, nOutputs, shieldedIn, shieldedOut, excess, sealed, result>>

CallResults == {"none", "ok", "InvalidCommitment", "RangeProofError"}
Verdicts == {"true", "false", "throw", "abort"}

\* The sum and the number of the commitments, and whether building one of them
\* aborted, as libsecp256k1 does at the identity point.
Side == [sum : Point, n : Nat, aborted : BOOLEAN]

TypeOK ==
  /\ positive \in Side /\ negative \in Side
  /\ inSecret \in Scalars /\ outSecret \in Scalars
  /\ inValue \in [Tokens -> Nat] /\ outValue \in [Tokens -> Nat]
  /\ nInputs \in 0 .. MaxInputs /\ nOutputs \in 0 .. MaxOutputs
  /\ shieldedIn \in BOOLEAN /\ shieldedOut \in BOOLEAN
  /\ excess \in Scalars \cup {NoExcess}
  /\ sealed \in BOOLEAN
  /\ result \in CallResults \cup Verdicts

EmptySide == [sum |-> Identity, n |-> 0, aborted |-> FALSE]

Push(side, c) == [sum |-> PointAdd(side.sum, c), n |-> side.n + 1,
                  aborted |-> side.aborted \/ c = Identity]

\* What verify_balance collects for a transparent entry: nothing for zero.
PushTransparent(side, amount, token) ==
  IF amount = 0 THEN side
                ELSE Push(side, Commit(amount, ZERO_TWEAK, derive_asset_tag(token)))

Init ==
  /\ positive = EmptySide /\ negative = EmptySide
  /\ inSecret = ZERO_TWEAK /\ outSecret = ZERO_TWEAK
  /\ inValue = NoValue /\ outValue = NoValue
  /\ nInputs = 0 /\ nOutputs = 0
  /\ shieldedIn = FALSE /\ shieldedOut = FALSE
  /\ excess = NoExcess /\ sealed = FALSE
  /\ result = "none"

----------------------------------------------------------------------------
(* Assembling the transaction.                                             *)

AddTransparentInput(amount, token) ==
  /\ nInputs < MaxInputs
  /\ positive' = PushTransparent(positive, amount, token)
  /\ inValue' = AddValue(inValue, Units(amount, token))
  /\ nInputs' = nInputs + 1
  /\ result' = "ok"
  /\ UNCHANGED <<negative, inSecret, outSecret, outValue, nOutputs,
                 shieldedIn, shieldedOut, excess, sealed>>

\* A transparent output, or the fee, which callers pass as one.
AddTransparentOutput(amount, token) ==
  /\ nOutputs < MaxOutputs
  /\ negative' = PushTransparent(negative, amount, token)
  /\ outValue' = AddValue(outValue, Units(amount, token))
  /\ nOutputs' = nOutputs + 1
  /\ result' = "ok"
  /\ UNCHANGED <<positive, inSecret, outSecret, inValue, nInputs,
                 shieldedIn, shieldedOut, excess, sealed>>

\* A shielded output of an earlier transaction, made by create_*_shielded_output:
\* its value is one that create_range_proof accepts.
AddShieldedInput(value, token, vbf, abf) ==
  /\ nInputs < MaxInputs
  /\ value \in 1 .. MAX_PROVABLE_AMOUNT
  /\ positive' = Push(positive, Commit(value, vbf, create_asset_commitment(token, abf)))
  /\ inSecret' = Plus(inSecret, Opening(value, vbf, abf))
  /\ inValue' = AddValue(inValue, Units(value, token))
  /\ nInputs' = nInputs + 1
  /\ shieldedIn' = TRUE
  /\ sealed' = FALSE
  /\ result' = "ok"
  /\ UNCHANGED <<negative, outSecret, outValue, nOutputs, shieldedOut, excess>>

\* What create_full_shielded_output returns, by the first of its checks that
\* fails; create_amount_shielded_output is the same with a zero asset blinding.
CreateResult(value, vbf, commitment) ==
  CASE RejectedByCreateCommitment(value, vbf) -> "InvalidCommitment"
    [] ~RejectedByCreateCommitment(value, vbf) /\ commitment = Identity -> "abort"
    [] OTHER -> IF value = 0 \/ value > MAX_PROVABLE_AMOUNT
                THEN "RangeProofError" ELSE "ok"

\* create_*_shielded_output followed, when it succeeds, by the wallet adding
\* the output; isLast says that vbf was computed to balance the transaction.
ShieldOutput(value, token, vbf, abf, isLast) ==
  LET commitment == Commit(value, vbf, create_asset_commitment(token, abf))
  IN  /\ nOutputs < MaxOutputs
      /\ result' = CreateResult(value, vbf, commitment)
      /\ IF result' = "ok"
         THEN /\ negative' = Push(negative, commitment)
              /\ outSecret' = Plus(outSecret, Opening(value, vbf, abf))
              /\ outValue' = AddValue(outValue, Units(value, token))
              /\ nOutputs' = nOutputs + 1
              /\ shieldedOut' = TRUE
              /\ sealed' = (isLast /\ excess = NoExcess)
         ELSE UNCHANGED <<negative, outSecret, outValue, nOutputs, shieldedOut, sealed>>
      /\ UNCHANGED <<positive, inSecret, inValue, nInputs, shieldedIn, excess>>

AddShieldedOutput(value, token, vbf, abf) == ShieldOutput(value, token, vbf, abf, FALSE)

\* Variant: forgets that the last output's own generator is blinded.
BalanceIgnoringGenerator(value, gbf) == Minus(inSecret, outSecret)

\* The blinding factor of an output of this value and generator blinding that
\* makes the blindings of both sides cancel.
compute_balancing_blinding_factor(value, gbf) ==
  Minus(Minus(inSecret, outSecret), Times(value, gbf))

AddBalancedOutput(value, token, abf) ==
  ShieldOutput(value, token, compute_balancing_blinding_factor(value, abf), abf, TRUE)

SetExcess(bf, isLast) ==
  /\ excess' = bf
  /\ sealed' = isLast
  /\ result' = "ok"
  /\ UNCHANGED <<positive, negative, inSecret, outSecret, inValue, outValue,
                 nInputs, nOutputs, shieldedIn, shieldedOut>>

\* Any scalar a sender may put in the UnshieldBalanceHeader.
ClaimExcess(bf) == SetExcess(bf, FALSE)

\* The excess of a full unshield: the balancing factor of a zero output.
RevealExcess == SetExcess(compute_balancing_blinding_factor(0, ZERO_TWEAK), TRUE)

----------------------------------------------------------------------------
(* The verdict.                                                            *)

\* Variants: the excess on the wrong side; no exception for the zero excess.
PushExcessWithWrongSign(side) ==
  IF excess \in {NoExcess, ZERO_TWEAK} THEN side
  ELSE Push(side, Commit(0, Negate(excess), htr_asset_tag))
PushZeroExcess(side) ==
  IF excess = NoExcess THEN side ELSE Push(side, Commit(0, excess, htr_asset_tag))

\* verify_balance adds the commitment to zero under the excess to the outputs.
PushExcess(side) ==
  IF excess \in {NoExcess, ZERO_TWEAK} THEN side
  ELSE Push(side, Commit(0, excess, htr_asset_tag))

\* The rules the bindings enforce before they call the core.
ExcessMisplaced == excess # NoExcess /\ (shieldedOut \/ ~shieldedIn)

\* Variant: one empty side is taken to balance, like two.
EquationOfAnyEmptySide(pos, neg) ==
  IF pos.aborted \/ neg.aborted THEN "abort"
  ELSE IF pos.n = 0 \/ neg.n = 0 \/ pos.sum = neg.sum THEN "true" ELSE "false"

\* Ok(()) and BalanceError(_) of the core, true and false at the binding.
Equation(pos, neg) ==
  IF pos.aborted \/ neg.aborted THEN "abort"
  ELSE IF (pos.n = 0) # (neg.n = 0) THEN "false"
  ELSE IF pos.n = 0 \/ pos.sum = neg.sum THEN "true" ELSE "false"

Verdict == IF ExcessMisplaced THEN "throw"
           ELSE Equation(positive, PushExcess(negative))

VerifyBalance ==
  /\ result' = Verdict
  /\ UNCHANGED <<positive, negative, inSecret, outSecret, inValue, outValue,
                 nInputs, nOutputs, shieldedIn, shieldedOut, excess, sealed>>

Next ==
  \/ \E amount \in Amounts, token \in Tokens :
       \/ AddTransparentInput(amount, token)
       \/ AddTransparentOutput(amount, token)
  \/ \E value \in Amounts, token \in Tokens, abf \in Scalars :
       \/ \E vbf \in Scalars : AddShieldedInput(value, token, vbf, abf)
       \/ \E vbf \in Scalars : AddShieldedOutput(value, token, vbf, abf)
       \/ AddBalancedOutput(value, token, abf)
  \/ \E bf \in Scalars : ClaimExcess(bf)
  \/ RevealExcess
  \/ VerifyBalance

Spec == Init /\ [][Next]_vars

----------------------------------------------------------------------------
(* Properties.                                                             *)

Verified == result = "true"

\* The multiples of G of the two sides, the excess included, are equal.
BlindingsCancel ==
  inSecret = IF excess = NoExcess THEN outSecret ELSE Plus(outSecret, excess)

\* A transaction that verify_balance accepts creates and destroys nothing, in
\* any token, whatever blinding factors and excess the prover chose.
AcceptedConserves == Verified => inValue = outValue

\* The verdict depends on nothing else: a transaction whose excess is where it
\* may be is accepted exactly when its values and its blindings cancel.  The
\* skipped zero entries, the skipped zero excess and the rule on one empty side
\* turn none down and let none through.
VerdictIsExact ==
  result \in Verdicts /\ ~ExcessMisplaced =>
    (Verified <=> inValue = outValue /\ BlindingsCancel)

\* The factor compute_balancing_blinding_factor returns for the last output, or
\* as the excess, does cancel the blindings: a wallet that computes it last gets
\* every transaction that conserves its tokens accepted.
SealedIsAccepted ==
  sealed /\ result \in Verdicts /\ ~ExcessMisplaced /\ inValue = outValue => Verified

\* No sequence of calls reaches the assertion of secp256k1-zkp at the identity
\* point, which would take the process down.
NeverAborts == result # "abort"

\* An excess is accepted in a full unshield only: with shielded inputs, and
\* without shielded outputs, even when they were added after it was set.
ExcessOnlyInFullUnshield ==
  Verified /\ excess # NoExcess => shieldedIn /\ ~shieldedOut
----------------------------------------------------------------------------
(* The inductive invariant from which BalanceProofs proves the above.      *)

\* Each sum is the commitment to what its entries are worth and hide.
SumsAreOpenings ==
  /\ positive.sum = [h |-> inValue, g |-> inSecret]
  /\ negative.sum = [h |-> outValue, g |-> outSecret]

\* A side with a commitment is worth something, and none of them aborted.
CommitmentsHaveValue(side) ==
  /\ side.n = 0 => side.sum = Identity
  /\ side.n # 0 => \E t \in Tokens : side.sum.h[t] # 0
  /\ ~side.aborted

SealedCancels == sealed => BlindingsCancel

VerdictIsCurrent == result \in Verdicts => result = Verdict

BalanceInv ==
  /\ TypeOK
  /\ SumsAreOpenings
  /\ CommitmentsHaveValue(positive)
  /\ CommitmentsHaveValue(negative)
  /\ shieldedIn => positive.n # 0
  /\ SealedCancels
  /\ VerdictIsCurrent
  /\ NeverAborts
============================================================================
