--------------------------- MODULE BalanceProofs ---------------------------
(***************************************************************************)
(* Proofs about Balance, for every set of tokens, every commutative group  *)
(* of blinding factors, every set of amounts and every transaction size.   *)
(***************************************************************************)
EXTENDS Balance, CommitmentsProofs

----------------------------------------------------------------------------
(* One side of the equation.                                               *)

\* A commitment to a value other than zero keeps a side in order, and adds what
\* it is worth and what it hides to the side's sum.
LEMMA PushKeeps ==
  ASSUME NEW side \in Side, CommitmentsHaveValue(side),
         NEW n \in Amounts \ {0}, NEW bf \in Scalars, NEW t \in Tokens, NEW r \in Scalars
  PROVE  LET c == Commit(n, bf, create_asset_commitment(t, r))
         IN  /\ Push(side, c) \in Side
             /\ CommitmentsHaveValue(Push(side, c))
             /\ Push(side, c).n # 0
             /\ Push(side, c).sum = [h |-> AddValue(side.sum.h, Units(n, t)),
                                     g |-> Plus(side.sum.g, Opening(n, bf, r))]
<1> DEFINE c == Commit(n, bf, create_asset_commitment(t, r))
           next == Push(side, c)
<1>1. c \in Point /\ c.h = Units(n, t) /\ c.g = Opening(n, bf, r)
  BY CommitIsPoint
<1>2. c # Identity
  BY IdentityIsRejected DEF RejectedByCreateCommitment
<1> HIDE DEF c
<1>3. side.sum \in Point /\ side.n \in Nat /\ ~side.aborted
  BY DEF Side, CommitmentsHaveValue
<1>4. next.n = side.n + 1 /\ next.sum = PointAdd(side.sum, c) /\ ~next.aborted
  BY <1>2, <1>3 DEF Push
<1>5. next.sum = [h |-> AddValue(side.sum.h, Units(n, t)),
                  g |-> Plus(side.sum.g, Opening(n, bf, r))]
  BY <1>1, <1>4 DEF PointAdd
<1>6. next.sum \in Point
  <2>1. AddValue(side.sum.h, Units(n, t)) \in [Tokens -> Nat]
    BY <1>3, ValueClosure, AmountAssumption DEF Point
  <2>2. Plus(side.sum.g, Opening(n, bf, r)) \in Scalars
    BY <1>3, ScalarClosure DEF Point
  <2> QED  BY <1>5, <2>1, <2>2 DEF Point
<1>7. next \in Side /\ next.n # 0
  BY <1>2, <1>3, <1>4, <1>6 DEF Side, Push
<1>8. next.sum.h[t] # 0
  <2>1. next.sum.h[t] = side.sum.h[t] + n
    BY <1>5 DEF AddValue, Units
  <2>2. side.sum.h[t] \in Nat /\ n \in Nat /\ n # 0
    BY <1>3, AmountAssumption DEF Point
  <2> QED  BY <2>1, <2>2
<1> HIDE DEF next
<1>9. CommitmentsHaveValue(next)
  BY <1>4, <1>7, <1>8 DEF CommitmentsHaveValue
<1> QED  BY <1>5, <1>7, <1>9 DEF next, c

\* A transparent entry of any amount, zero included, adds what it is worth and
\* hides nothing.
LEMMA PushTransparentKeeps ==
  ASSUME NEW side \in Side, CommitmentsHaveValue(side),
         NEW n \in Amounts, NEW t \in Tokens
  PROVE  /\ PushTransparent(side, n, t) \in Side
         /\ CommitmentsHaveValue(PushTransparent(side, n, t))
         /\ side.n # 0 => PushTransparent(side, n, t).n # 0
         /\ PushTransparent(side, n, t).sum
              = [h |-> AddValue(side.sum.h, Units(n, t)), g |-> side.sum.g]
<1>1. side.sum = [h |-> side.sum.h, g |-> side.sum.g]
      /\ side.sum.h \in [Tokens -> Nat] /\ side.sum.g \in Scalars
  BY DEF Side, Point
<1>2. CASE n = 0
  BY <1>1, <1>2, AddNothing DEF PushTransparent
<1>3. CASE n # 0
  <2>1. Plus(side.sum.g, Opening(n, ZERO_TWEAK, ZERO_TWEAK)) = side.sum.g
    BY <1>1, OpeningZero, ScalarAssumption
  <2>2. PushTransparent(side, n, t)
          = Push(side, Commit(n, ZERO_TWEAK, create_asset_commitment(t, ZERO_TWEAK)))
    BY <1>3 DEF PushTransparent, derive_asset_tag
  <2> QED  BY <1>3, <2>1, <2>2, PushKeeps, ScalarClosure
<1> QED  BY <1>2, <1>3

----------------------------------------------------------------------------
(* The invariant.                                                          *)

LEMMA InitEstablishesInv == Init => BalanceInv
<1> SUFFICES ASSUME Init PROVE BalanceInv
  OBVIOUS
<1>1. Identity \in Point
  BY ValueClosure, ScalarClosure DEF Identity, Point
<1>2. EmptySide \in Side /\ CommitmentsHaveValue(EmptySide)
  BY <1>1 DEF EmptySide, Side, CommitmentsHaveValue
<1>3. TypeOK
  <2>1. 0 \in 0 .. MaxInputs /\ 0 \in 0 .. MaxOutputs
    BY BoundAssumption
  <2>2. nInputs \in 0 .. MaxInputs /\ nOutputs \in 0 .. MaxOutputs
    BY <2>1 DEF Init
  <2> QED
    BY <1>2, <2>2, ValueClosure, ScalarClosure DEF Init, TypeOK, CallResults
<1>4. SumsAreOpenings
  BY DEF Init, SumsAreOpenings, EmptySide, Identity
<1> QED
  BY <1>2, <1>3, <1>4
     DEF Init, BalanceInv, SealedCancels, VerdictIsCurrent, NeverAborts, Verdicts

\* The parts of the invariant that speak of one side, the values and the secrets
\* it has, for a step that leaves the other side alone.
InOrder(side, value, secret) ==
  /\ side \in Side
  /\ value \in [Tokens -> Nat]
  /\ secret \in Scalars
  /\ side.sum = [h |-> value, g |-> secret]
  /\ CommitmentsHaveValue(side)

LEMMA InvInOrder ==
  ASSUME BalanceInv
  PROVE  InOrder(positive, inValue, inSecret) /\ InOrder(negative, outValue, outSecret)
BY DEF BalanceInv, TypeOK, SumsAreOpenings, InOrder

LEMMA TransparentInOrder ==
  ASSUME NEW side, NEW value, NEW secret, InOrder(side, value, secret),
         NEW n \in Amounts, NEW t \in Tokens
  PROVE  /\ InOrder(PushTransparent(side, n, t), AddValue(value, Units(n, t)), secret)
         /\ side.n # 0 => PushTransparent(side, n, t).n # 0
<1>1. AddValue(value, Units(n, t)) \in [Tokens -> Nat]
  BY ValueClosure, AmountAssumption DEF InOrder
<1>2. side \in Side /\ CommitmentsHaveValue(side) /\ side.sum.h = value /\ side.sum.g = secret
  BY DEF InOrder
<1> QED  BY <1>1, <1>2, PushTransparentKeeps DEF InOrder

LEMMA ShieldedInOrder ==
  ASSUME NEW side, NEW value, NEW secret, InOrder(side, value, secret),
         NEW n \in Amounts \ {0}, NEW bf \in Scalars, NEW t \in Tokens, NEW r \in Scalars
  PROVE  LET next == Push(side, Commit(n, bf, create_asset_commitment(t, r)))
         IN  /\ InOrder(next, AddValue(value, Units(n, t)), Plus(secret, Opening(n, bf, r)))
             /\ next.n # 0
<1>1. AddValue(value, Units(n, t)) \in [Tokens -> Nat]
  BY ValueClosure, AmountAssumption DEF InOrder
<1>2. Plus(secret, Opening(n, bf, r)) \in Scalars
  BY ScalarClosure DEF InOrder
<1>3. side \in Side /\ CommitmentsHaveValue(side) /\ side.sum.h = value /\ side.sum.g = secret
  BY DEF InOrder
<1> QED  BY <1>1, <1>2, <1>3, PushKeeps DEF InOrder

----------------------------------------------------------------------------
(* The steps.                                                              *)

\* The two cases of an output of create_*_shielded_output: it fails and changes
\* nothing, or it is in range and joins the outputs.
LEMMA ShieldOutputCases ==
  ASSUME BalanceInv, NEW n \in Amounts, NEW t \in Tokens,
         NEW bf \in Scalars, NEW r \in Scalars, NEW isLast \in BOOLEAN,
         ShieldOutput(n, t, bf, r, isLast)
  PROVE  \/ /\ result' \in {"InvalidCommitment", "RangeProofError"}
            /\ UNCHANGED <<positive, negative, inSecret, outSecret, inValue, outValue,
                           nInputs, nOutputs, shieldedIn, shieldedOut, excess, sealed>>
         \/ /\ result' = "ok" /\ n # 0
            /\ negative' = Push(negative, Commit(n, bf, create_asset_commitment(t, r)))
            /\ outSecret' = Plus(outSecret, Opening(n, bf, r))
            /\ outValue' = AddValue(outValue, Units(n, t))
            /\ nOutputs < MaxOutputs /\ nOutputs' = nOutputs + 1
            /\ shieldedOut' = TRUE
            /\ sealed' = (isLast /\ excess = NoExcess)
            /\ UNCHANGED <<positive, inSecret, inValue, nInputs, shieldedIn, excess>>
<1> DEFINE c == Commit(n, bf, create_asset_commitment(t, r))
<1>1. c = Identity <=> RejectedByCreateCommitment(n, bf)
  BY IdentityIsRejected
<1> HIDE DEF c
<1>2. CreateResult(n, bf, c) \in {"InvalidCommitment", "RangeProofError", "ok"}
      /\ (CreateResult(n, bf, c) = "ok" => n # 0)
  BY <1>1 DEF CreateResult
<1> USE DEF c
<1>3. result' = CreateResult(n, bf, c)
  BY DEF ShieldOutput
<1>4. CASE result' = "ok"
  BY <1>2, <1>3, <1>4 DEF ShieldOutput
<1>5. CASE result' # "ok"
  BY <1>2, <1>3, <1>5 DEF ShieldOutput
<1> QED  BY <1>4, <1>5

\* How the parts make up the invariant, primed, after a step that adds an entry:
\* such a step leaves no verdict behind.
LEMMA InvFromParts ==
  ASSUME InOrder(positive', inValue', inSecret'), InOrder(negative', outValue', outSecret'),
         nInputs' \in 0 .. MaxInputs, nOutputs' \in 0 .. MaxOutputs,
         shieldedIn' \in BOOLEAN, shieldedOut' \in BOOLEAN,
         excess' \in Scalars \cup {NoExcess}, sealed' \in BOOLEAN,
         result' \in CallResults,
         shieldedIn' => positive'.n # 0,
         SealedCancels'
  PROVE  BalanceInv'
<1>1. TypeOK'
  BY DEF TypeOK, InOrder
<1>2. SumsAreOpenings' /\ CommitmentsHaveValue(positive)' /\ CommitmentsHaveValue(negative)'
  BY DEF SumsAreOpenings, InOrder, CommitmentsHaveValue
<1>3. VerdictIsCurrent' /\ NeverAborts'
  BY DEF VerdictIsCurrent, NeverAborts, CallResults, Verdicts
<1> QED  BY <1>1, <1>2, <1>3 DEF BalanceInv

\* The verdict is never an abort: the excess commitment is built for an excess
\* other than zero only.
LEMMA VerdictDoesNotAbort ==
  ASSUME BalanceInv
  PROVE  Verdict \in Verdicts \ {"abort"}
<1>1. ~positive.aborted /\ ~negative.aborted
  BY DEF BalanceInv, CommitmentsHaveValue
<1>2. ~PushExcess(negative).aborted
  <2>1. CASE excess \in {NoExcess, ZERO_TWEAK}
    BY <1>1, <2>1 DEF PushExcess
  <2>2. CASE excess \notin {NoExcess, ZERO_TWEAK}
    <3>1. excess \in Scalars
      BY <2>2 DEF BalanceInv, TypeOK
    <3>2. Commit(0, excess, create_asset_commitment(HTR, ZERO_TWEAK)) # Identity
      BY <2>2, <3>1, IdentityIsRejected, ScalarAssumption, TokenAssumption, AmountAssumption
         DEF RejectedByCreateCommitment
    <3> QED
      BY <1>1, <2>2, <3>2 DEF PushExcess, Push, htr_asset_tag, derive_asset_tag
  <2> QED  BY <2>1, <2>2
<1> QED  BY <1>1, <1>2 DEF Verdict, Equation, Verdicts

LEMMA StepKeepsInv == BalanceInv /\ [Next]_vars => BalanceInv'
<1> SUFFICES ASSUME BalanceInv, [Next]_vars PROVE BalanceInv'
  OBVIOUS
<1> USE InvInOrder
<1>0. /\ nInputs \in 0 .. MaxInputs /\ nOutputs \in 0 .. MaxOutputs
      /\ shieldedIn \in BOOLEAN /\ shieldedOut \in BOOLEAN /\ sealed \in BOOLEAN
      /\ excess \in Scalars \cup {NoExcess} /\ SealedCancels
      /\ (shieldedIn => positive.n # 0)
  BY DEF BalanceInv, TypeOK
<1>1. nInputs < MaxInputs => nInputs + 1 \in 0 .. MaxInputs
  BY <1>0, BoundAssumption
<1>2. nOutputs < MaxOutputs => nOutputs + 1 \in 0 .. MaxOutputs
  BY <1>0, BoundAssumption
<1>3. "ok" \in CallResults /\ "InvalidCommitment" \in CallResults
      /\ "RangeProofError" \in CallResults
  BY DEF CallResults
<1>a. ASSUME NEW n \in Amounts, NEW t \in Tokens, AddTransparentInput(n, t)
      PROVE  BalanceInv'
  <2>1. InOrder(positive', inValue', inSecret') /\ (positive.n # 0 => positive'.n # 0)
    BY <1>a, TransparentInOrder DEF AddTransparentInput
  <2>2. SealedCancels'
    BY <1>0, <1>a DEF AddTransparentInput, SealedCancels, BlindingsCancel
  <2> QED
    BY <1>0, <1>1, <1>3, <1>a, <2>1, <2>2, InvFromParts DEF AddTransparentInput
<1>b. ASSUME NEW n \in Amounts, NEW t \in Tokens, AddTransparentOutput(n, t)
      PROVE  BalanceInv'
  <2>1. InOrder(negative', outValue', outSecret')
    BY <1>b, TransparentInOrder DEF AddTransparentOutput
  <2>2. SealedCancels'
    BY <1>0, <1>b DEF AddTransparentOutput, SealedCancels, BlindingsCancel
  <2> QED
    BY <1>0, <1>2, <1>3, <1>b, <2>1, <2>2, InvFromParts DEF AddTransparentOutput
<1>c. ASSUME NEW n \in Amounts, NEW t \in Tokens, NEW r \in Scalars, NEW bf \in Scalars,
             AddShieldedInput(n, t, bf, r)
      PROVE  BalanceInv'
  <2>1. n # 0
    BY <1>c DEF AddShieldedInput
  <2>2. InOrder(positive', inValue', inSecret') /\ positive'.n # 0
    BY <1>c, <2>1, ShieldedInOrder DEF AddShieldedInput
  <2>3. SealedCancels'
    BY <1>c DEF AddShieldedInput, SealedCancels
  <2> QED
    BY <1>0, <1>1, <1>3, <1>c, <2>2, <2>3, InvFromParts DEF AddShieldedInput
<1>d. ASSUME NEW n \in Amounts, NEW t \in Tokens, NEW r \in Scalars, NEW bf \in Scalars,
             NEW isLast \in BOOLEAN, ShieldOutput(n, t, bf, r, isLast),
             isLast => bf = compute_balancing_blinding_factor(n, r)
      PROVE  BalanceInv'
  <2>1. CASE result' = "ok"
    <3>1. /\ n # 0
          /\ negative' = Push(negative, Commit(n, bf, create_asset_commitment(t, r)))
          /\ outSecret' = Plus(outSecret, Opening(n, bf, r))
          /\ outValue' = AddValue(outValue, Units(n, t))
          /\ nOutputs < MaxOutputs /\ nOutputs' = nOutputs + 1
          /\ shieldedOut' = TRUE
          /\ sealed' = (isLast /\ excess = NoExcess)
          /\ UNCHANGED <<positive, inSecret, inValue, nInputs, shieldedIn, excess>>
      BY <1>d, <2>1, ShieldOutputCases
    <3>2. InOrder(negative', outValue', outSecret')
      BY <3>1, ShieldedInOrder
    <3>3. sealed' => outSecret' = inSecret'
      <4>1. SUFFICES ASSUME sealed' PROVE outSecret' = inSecret
        BY <3>1
      <4>2. bf = Minus(Minus(inSecret, outSecret), Times(n, r))
        BY <1>d, <3>1, <4>1 DEF compute_balancing_blinding_factor
      <4>3. inSecret \in Scalars /\ outSecret \in Scalars /\ Times(n, r) \in Scalars
        BY ScalarAssumption DEF InOrder
      <4> QED  BY <3>1, <4>2, <4>3, BalancingFactor DEF Opening
    <3>4. SealedCancels'
      BY <3>1, <3>3 DEF SealedCancels, BlindingsCancel
    <3> QED
      BY <1>0, <1>2, <1>3, <2>1, <3>1, <3>2, <3>4, InvFromParts
  <2>2. CASE result' # "ok"
    <3>1. /\ result' \in {"InvalidCommitment", "RangeProofError"}
          /\ UNCHANGED <<positive, negative, inSecret, outSecret, inValue, outValue,
                         nInputs, nOutputs, shieldedIn, shieldedOut, excess, sealed>>
      BY <1>d, <2>2, ShieldOutputCases
    <3>2. SealedCancels'
      BY <1>0, <3>1 DEF SealedCancels, BlindingsCancel
    <3> QED
      BY <1>0, <1>3, <3>1, <3>2, InvFromParts
  <2> QED  BY <2>1, <2>2
<1>e. ASSUME NEW bf \in Scalars, NEW isLast \in BOOLEAN, SetExcess(bf, isLast),
             isLast => bf = compute_balancing_blinding_factor(0, ZERO_TWEAK)
      PROVE  BalanceInv'
  <2>1. isLast => Plus(outSecret, bf) = inSecret
    <3>1. inSecret \in Scalars /\ outSecret \in Scalars
      BY DEF InOrder
    <3>2. Times(0, ZERO_TWEAK) = ZERO_TWEAK
      BY ScalarAssumption
    <3>3. isLast => bf = Minus(inSecret, outSecret)
      BY <1>e, <3>1, <3>2, MinusZero, ScalarClosure DEF compute_balancing_blinding_factor
    <3> QED  BY <3>1, <3>3, PlusMinus
  <2>2. SealedCancels'
    BY <1>e, <2>1, BoundAssumption DEF SetExcess, SealedCancels, BlindingsCancel
  <2> QED
    BY <1>0, <1>3, <1>e, <2>2, InvFromParts DEF SetExcess
<1>f. CASE VerifyBalance
  <2>1. result' = Verdict /\ Verdict \in Verdicts \ {"abort"}
    BY <1>f, VerdictDoesNotAbort DEF VerifyBalance
  <2>2. Verdict' = Verdict
    BY <1>f DEF VerifyBalance, Verdict, ExcessMisplaced, Equation, PushExcess
  <2>3. TypeOK'
    BY <1>f, <2>1 DEF VerifyBalance, BalanceInv, TypeOK
  <2>4. VerdictIsCurrent' /\ NeverAborts'
    BY <2>1, <2>2 DEF VerdictIsCurrent, NeverAborts
  <2> QED
    BY <1>f, <2>3, <2>4
       DEF VerifyBalance, BalanceInv, SumsAreOpenings, CommitmentsHaveValue,
           SealedCancels, BlindingsCancel
<1>g. CASE UNCHANGED vars
  BY <1>g DEF vars, BalanceInv, TypeOK, SumsAreOpenings, CommitmentsHaveValue,
     SealedCancels, BlindingsCancel, VerdictIsCurrent, NeverAborts, Verdict,
     ExcessMisplaced, Equation, PushExcess
<1>h. \A n \in Amounts, r \in Scalars : compute_balancing_blinding_factor(n, r) \in Scalars
  BY ScalarClosure, ScalarAssumption DEF compute_balancing_blinding_factor, InOrder
<1> QED
  <2>1. ASSUME NEW n \in Amounts, NEW t \in Tokens, NEW r \in Scalars,
               AddBalancedOutput(n, t, r)
        PROVE  BalanceInv'
    BY <1>d, <1>h, <2>1 DEF AddBalancedOutput
  <2>2. ASSUME NEW n \in Amounts, NEW t \in Tokens, NEW r \in Scalars, NEW bf \in Scalars,
               AddShieldedOutput(n, t, bf, r)
        PROVE  BalanceInv'
    BY <1>d, <2>2 DEF AddShieldedOutput
  <2>3. ASSUME NEW bf \in Scalars, ClaimExcess(bf) PROVE BalanceInv'
    BY <1>e, <2>3 DEF ClaimExcess
  <2>4. ASSUME RevealExcess PROVE BalanceInv'
    BY <1>e, <1>h, <2>4, ScalarAssumption, AmountAssumption DEF RevealExcess
  <2> QED
    BY <1>a, <1>b, <1>c, <1>f, <1>g, <2>1, <2>2, <2>3, <2>4 DEF Next

\* BalanceInv holds in every reachable state.
THEOREM BalanceInvariant == Spec => []BalanceInv
BY InitEstablishesInv, StepKeepsInv, PTL DEF Spec

----------------------------------------------------------------------------
(* What the invariant gives.                                               *)

\* Nothing on a side is the same as nothing of value and nothing hidden there.
LEMMA EmptySides ==
  ASSUME BalanceInv
  PROVE  /\ positive.n = 0 <=> inValue = NoValue
         /\ negative.n = 0 <=> outValue = NoValue
         /\ positive.n = 0 => inSecret = ZERO_TWEAK
         /\ negative.n = 0 => outSecret = ZERO_TWEAK
<1> SUFFICES ASSUME NEW side, NEW value, NEW secret, InOrder(side, value, secret)
             PROVE  (side.n = 0 <=> value = NoValue) /\ (side.n = 0 => secret = ZERO_TWEAK)
  BY InvInOrder
<1>1. side.sum.h = value /\ side.sum.g = secret
  BY DEF InOrder
<1>2. CASE side.n = 0
  BY <1>1, <1>2 DEF InOrder, CommitmentsHaveValue, Identity
<1>3. CASE side.n # 0
  <2>1. \E t \in Tokens : value[t] # 0
    BY <1>1, <1>3 DEF InOrder, CommitmentsHaveValue
  <2> QED  BY <1>3, <2>1 DEF NoValue
<1> QED  BY <1>2, <1>3

\* The sum with the excess: the outputs' value, and their blindings plus the excess.
LEMMA ExcessSum ==
  ASSUME BalanceInv
  PROVE  /\ PushExcess(negative).sum.h = outValue
         /\ BlindingsCancel <=> inSecret = PushExcess(negative).sum.g
         /\ excess \in {NoExcess, ZERO_TWEAK} => PushExcess(negative) = negative
         /\ excess \notin {NoExcess, ZERO_TWEAK} => PushExcess(negative).n # 0
<1>1. negative \in Side /\ negative.sum.h = outValue /\ negative.sum.g = outSecret
      /\ outValue \in [Tokens -> Nat] /\ outSecret \in Scalars
  BY InvInOrder DEF InOrder
<1>2. CASE excess \in {NoExcess, ZERO_TWEAK}
  <2>1. Plus(outSecret, ZERO_TWEAK) = outSecret
    BY <1>1, ScalarAssumption
  <2> QED  BY <1>1, <1>2, <2>1 DEF PushExcess, BlindingsCancel
<1>3. CASE excess \notin {NoExcess, ZERO_TWEAK}
  <2> DEFINE c == Commit(0, excess, htr_asset_tag)
  <2>1. excess \in Scalars
    BY <1>3 DEF BalanceInv, TypeOK
  <2>2. c.h = Units(0, HTR) /\ c.g = Plus(Times(0, ZERO_TWEAK), excess)
    BY DEF Commit, htr_asset_tag, derive_asset_tag, create_asset_commitment, Opening
  <2>3. Plus(Times(0, ZERO_TWEAK), excess) = excess
    BY <2>1, ScalarAssumption
  <2>4. PushExcess(negative) = Push(negative, c)
    BY <1>3 DEF PushExcess
  <2> HIDE DEF c
  <2>5. PushExcess(negative).sum.h = outValue
    BY <1>1, <2>2, <2>4, AddNothing, TokenAssumption DEF Push, PointAdd
  <2>6. PushExcess(negative).sum.g = Plus(outSecret, excess)
    BY <1>1, <2>2, <2>3, <2>4 DEF Push, PointAdd
  <2>7. PushExcess(negative).n # 0
    BY <1>1, <2>4 DEF Push, Side
  <2> QED  BY <1>3, <2>5, <2>6, <2>7 DEF BlindingsCancel
<1> QED  BY <1>2, <1>3

LEMMA InvGivesExactVerdict == BalanceInv => VerdictIsExact
<1> SUFFICES ASSUME BalanceInv, result \in Verdicts, ~ExcessMisplaced
             PROVE  Verified <=> inValue = outValue /\ BlindingsCancel
  BY DEF VerdictIsExact
<1> DEFINE neg == PushExcess(negative)
<1>1. result = Equation(positive, neg) /\ result # "abort"
  BY DEF BalanceInv, VerdictIsCurrent, Verdict, NeverAborts
<1>2. neg.sum.h = outValue /\ (BlindingsCancel <=> inSecret = neg.sum.g)
      /\ (excess \in {NoExcess, ZERO_TWEAK} => neg = negative)
      /\ (excess \notin {NoExcess, ZERO_TWEAK} => neg.n # 0)
  BY ExcessSum
<1>3. positive.sum = [h |-> inValue, g |-> inSecret]
  BY DEF BalanceInv, SumsAreOpenings
<1>4. negative.sum = [h |-> outValue, g |-> outSecret]
  BY DEF BalanceInv, SumsAreOpenings
<1>5. positive.sum = neg.sum <=> inValue = outValue /\ BlindingsCancel
  <2>1. neg.sum = [h |-> neg.sum.h, g |-> neg.sum.g]
    <3>1. CASE excess \in {NoExcess, ZERO_TWEAK}
      BY <1>2, <1>4, <3>1
    <3>2. CASE excess \notin {NoExcess, ZERO_TWEAK}
      BY <3>2 DEF PushExcess, Push, PointAdd
    <3> QED  BY <3>1, <3>2
  <2> QED  BY <1>2, <1>3, <2>1
<1>6. neg.n = 0 => neg = negative
  BY <1>2
<1>7. positive.n = 0 => excess = NoExcess
  <2>1. positive.n = 0 => ~shieldedIn
    BY DEF BalanceInv
  <2> QED  BY <2>1 DEF ExcessMisplaced
<1> HIDE DEF neg
<1>8. CASE positive.n = 0
  <2>1. neg = negative /\ inValue = NoValue /\ inSecret = ZERO_TWEAK
    BY <1>2, <1>7, <1>8, EmptySides
  <2>2. Verified <=> negative.n = 0
    BY <1>1, <1>8, <2>1 DEF Equation, Verified
  <2>3. negative.n = 0 <=> outValue = NoValue
    BY EmptySides
  <2>4. negative.n = 0 => BlindingsCancel
    BY <1>7, <1>8, <2>1, EmptySides DEF BlindingsCancel
  <2> QED  BY <2>1, <2>2, <2>3, <2>4
<1>9. CASE positive.n # 0
  <2>1. CASE neg.n = 0
    <3>1. ~Verified
      BY <1>1, <1>9, <2>1 DEF Equation, Verified
    <3>2. inValue # outValue
      BY <1>6, <1>9, <2>1, EmptySides
    <3> QED  BY <3>1, <3>2
  <2>2. CASE neg.n # 0
    BY <1>1, <1>5, <1>9, <2>2 DEF Equation, Verified
  <2> QED  BY <2>1, <2>2
<1> QED  BY <1>8, <1>9

LEMMA InvGivesExcessRule == BalanceInv => ExcessOnlyInFullUnshield
<1>1. BalanceInv /\ Verified => Verdict = "true"
  BY DEF BalanceInv, VerdictIsCurrent, Verified, Verdicts
<1>2. Verdict = "true" => ~ExcessMisplaced
  BY DEF Verdict
<1> QED  BY <1>1, <1>2 DEF ExcessOnlyInFullUnshield, ExcessMisplaced

----------------------------------------------------------------------------
(* The theorems.                                                           *)

\* Every call leaves every variable in its type.
THEOREM TypeCorrect == Spec => []TypeOK
<1>1. BalanceInv => TypeOK
  BY DEF BalanceInv
<1> QED  BY <1>1, BalanceInvariant, PTL

\* No sequence of calls reaches the identity-point assertion.
THEOREM NoCallAborts == Spec => []NeverAborts
<1>1. BalanceInv => NeverAborts
  BY DEF BalanceInv
<1> QED  BY <1>1, BalanceInvariant, PTL

\* The verdict is "true" exactly when values and blindings cancel.
THEOREM VerdictExact == Spec => []VerdictIsExact
BY InvGivesExactVerdict, BalanceInvariant, PTL

\* What verify_balance accepts conserves every token.
THEOREM Conservation == Spec => []AcceptedConserves
<1>1. BalanceInv => AcceptedConserves
  <2> SUFFICES ASSUME BalanceInv, Verified PROVE inValue = outValue
    BY DEF AcceptedConserves
  <2>1. VerdictIsExact
    BY InvGivesExactVerdict
  <2>2. result \in Verdicts
    BY DEF Verified, Verdicts
  <2>3. ~ExcessMisplaced
    BY <2>2 DEF BalanceInv, VerdictIsCurrent, Verdict, Verified
  <2> QED  BY <2>1, <2>2, <2>3 DEF VerdictIsExact
<1> QED  BY <1>1, BalanceInvariant, PTL

\* A wallet that balances last is never turned down.
THEOREM BalancingCompletes == Spec => []SealedIsAccepted
<1>1. BalanceInv => SealedIsAccepted
  BY InvGivesExactVerdict DEF BalanceInv, SealedCancels, SealedIsAccepted, VerdictIsExact
<1> QED  BY <1>1, BalanceInvariant, PTL

\* An accepted excess belongs to a full unshield.
THEOREM ExcessRule == Spec => []ExcessOnlyInFullUnshield
BY InvGivesExcessRule, BalanceInvariant, PTL
============================================================================
