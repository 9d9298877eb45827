----------------------------- MODULE BalanceCall -----------------------------
(***************************************************************************)
(* verify_balance as the bindings and the core run it: the lists of        *)
(* entries a transaction is handed over as, the order the binding puts     *)
(* them in, the two collecting loops entry by entry, the excess and the    *)
(* comparison (crypto-core/src/balance.rs, verify_balance of the node and  *)
(* browser bindings).  It implements Balance, which has neither lists nor  *)
(* loops and decides in one step.                                          *)
(***************************************************************************)
EXTENDS Commitments, Sequences

CONSTANTS MAX_PROVABLE_AMOUNT, NoExcess, MaxInputs, MaxOutputs

ASSUME CallAssumption ==
  /\ MAX_PROVABLE_AMOUNT \in Nat /\ MaxInputs \in Nat /\ MaxOutputs \in Nat
  /\ NoExcess \notin Scalars

VARIABLES
  transparentInputs, shieldedInputs,    \* the four lists, as the caller
  transparentOutputs, shieldedOutputs,  \* has filled them so far
  excess,                               \* the excess, or NoExcess
  sealed,                               \* see Balance
  pc,                                   \* where the call under way is
  n,                                    \* the entries its loop has done
  positive_commitments, negative_commitments, aborted,  \* its locals
  result                                \* of the last call

lists == <<transparentInputs, shieldedInputs, transparentOutputs, shieldedOutputs>>
locals == <<pc, n, positive_commitments, negative_commitments, aborted>>
vars == <<lists, excess, sealed, locals, result>>

\* A shielded entry is a commitment; what it commits to is its wallet's secret.
Transparent == [amount : Amounts, token : Tokens]
Shielded == [value : Amounts, token : Tokens, vbf : Scalars, abf : Scalars]

CommitmentOf(e) == Commit(e.value, e.vbf, create_asset_commitment(e.token, e.abf))

TypeOK ==
  /\ transparentInputs \in Seq(Transparent) /\ transparentOutputs \in Seq(Transparent)
  /\ shieldedInputs \in Seq(Shielded) /\ shieldedOutputs \in Seq(Shielded)
  /\ excess \in Scalars \cup {NoExcess} /\ sealed \in BOOLEAN /\ aborted \in BOOLEAN
  /\ pc \in {"idle", "inputs", "outputs", "excess", "compare"}
  /\ n \in 0 .. MaxInputs + MaxOutputs
  /\ positive_commitments \in Seq(Point) /\ negative_commitments \in Seq(Point)
  /\ result \in {"none", "ok", "InvalidCommitment", "RangeProofError",
                 "true", "false", "throw", "abort"}

Init ==
  /\ transparentInputs = <<>> /\ shieldedInputs = <<>>
  /\ transparentOutputs = <<>> /\ shieldedOutputs = <<>>
  /\ excess = NoExcess /\ sealed = FALSE
  /\ pc = "idle" /\ n = 0 /\ aborted = FALSE
  /\ positive_commitments = <<>> /\ negative_commitments = <<>>
  /\ result = "none"

----------------------------------------------------------------------------
(* Filling the lists.                                                      *)

MayAddInput ==
  pc = "idle" /\ Len(transparentInputs) + Len(shieldedInputs) < MaxInputs
MayAddOutput ==
  pc = "idle" /\ Len(transparentOutputs) + Len(shieldedOutputs) < MaxOutputs

AddTransparentInput(e) ==
  /\ MayAddInput
  /\ transparentInputs' = Append(transparentInputs, e)
  /\ result' = "ok"
  /\ UNCHANGED <<shieldedInputs, transparentOutputs, shieldedOutputs, excess, sealed, locals>>

AddTransparentOutput(e) ==
  /\ MayAddOutput
  /\ transparentOutputs' = Append(transparentOutputs, e)
  /\ result' = "ok"
  /\ UNCHANGED <<transparentInputs, shieldedInputs, shieldedOutputs, excess, sealed, locals>>

AddShieldedInput(e) ==
  /\ MayAddInput /\ e.value \in 1 .. MAX_PROVABLE_AMOUNT
  /\ shieldedInputs' = Append(shieldedInputs, e)
  /\ sealed' = FALSE
  /\ result' = "ok"
  /\ UNCHANGED <<transparentInputs, transparentOutputs, shieldedOutputs, excess, locals>>

\* Like Balance, an output that cannot be created leaves the lists alone.
AddShieldedOutput(e, isLast) ==
  /\ MayAddOutput
  /\ result' = IF RejectedByCreateCommitment(e.value, e.vbf) THEN "InvalidCommitment"
               ELSE IF e.value = 0 \/ e.value > MAX_PROVABLE_AMOUNT THEN "RangeProofError"
               ELSE "ok"
  /\ IF result' = "ok"
     THEN /\ shieldedOutputs' = Append(shieldedOutputs, e)
          /\ sealed' = (isLast /\ excess = NoExcess)
     ELSE UNCHANGED <<shieldedOutputs, sealed>>
  /\ UNCHANGED <<transparentInputs, shieldedInputs, transparentOutputs, excess, locals>>

SecretOf(entries) ==
  ScalarSum([k \in DOMAIN entries |->
               Opening(entries[k].value, entries[k].vbf, entries[k].abf)])

\* compute_adaptive_blinding_factor over the wallet's lists of secrets.
compute_balancing_blinding_factor(value, gbf) ==
  Minus(Minus(SecretOf(shieldedInputs), SecretOf(shieldedOutputs)), Times(value, gbf))

AddBalancedOutput(value, token, abf) ==
  AddShieldedOutput([value |-> value, token |-> token, abf |-> abf,
                     vbf |-> compute_balancing_blinding_factor(value, abf)], TRUE)

SetExcess(bf, isLast) ==
  /\ pc = "idle"
  /\ excess' = bf /\ sealed' = isLast /\ result' = "ok"
  /\ UNCHANGED <<lists, locals>>

----------------------------------------------------------------------------
(* The call.                                                               *)

\* The binding checks where the excess is and appends the shielded entries to
\* the transparent ones; the core starts with empty vectors.
CallVerify ==
  /\ pc = "idle"
  /\ IF excess # NoExcess /\ (shieldedOutputs # <<>> \/ shieldedInputs = <<>>)
     THEN result' = "throw" /\ UNCHANGED locals
     ELSE /\ pc' = "inputs" /\ n' = 0 /\ aborted' = FALSE
          /\ positive_commitments' = <<>> /\ negative_commitments' = <<>>
          /\ UNCHANGED result
  /\ UNCHANGED <<lists, excess, sealed>>

IsTransparent(e) == "amount" \in DOMAIN e

\* What one iteration pushes for an entry.
Collected(e) ==
  IF ~IsTransparent(e) THEN <<CommitmentOf(e)>>
  ELSE IF e.amount = 0 THEN <<>>
  ELSE <<Commit(e.amount, ZERO_TWEAK, derive_asset_tag(e.token))>>

Aborts(commitments) == \E k \in DOMAIN commitments : commitments[k] = Identity

\* Variant: the loop over the inputs ends one entry early.
OneShort(entries) == n + 1 >= Len(entries)

Done(entries) == n >= Len(entries)

CollectInput ==
  LET entries == transparentInputs \o shieldedInputs
  IN  /\ pc = "inputs"
      /\ IF Done(entries)
         THEN pc' = "outputs" /\ n' = 0 /\ UNCHANGED <<positive_commitments, aborted>>
         ELSE /\ positive_commitments' = positive_commitments \o Collected(entries[n + 1])
              /\ aborted' = (aborted \/ Aborts(Collected(entries[n + 1])))
              /\ n' = n + 1 /\ UNCHANGED pc
      /\ UNCHANGED <<lists, excess, sealed, negative_commitments, result>>

CollectOutput ==
  LET entries == transparentOutputs \o shieldedOutputs
  IN  /\ pc = "outputs"
      /\ IF Done(entries)
         THEN pc' = "excess" /\ UNCHANGED <<n, negative_commitments, aborted>>
         ELSE /\ negative_commitments' = negative_commitments \o Collected(entries[n + 1])
              /\ aborted' = (aborted \/ Aborts(Collected(entries[n + 1])))
              /\ n' = n + 1 /\ UNCHANGED pc
      /\ UNCHANGED <<lists, excess, sealed, positive_commitments, result>>

PushExcess ==
  /\ pc = "excess"
  /\ pc' = "compare"
  /\ negative_commitments' =
       IF excess \in {NoExcess, ZERO_TWEAK} THEN negative_commitments
       ELSE Append(negative_commitments, Commit(0, excess, htr_asset_tag))
  /\ UNCHANGED <<lists, excess, sealed, n, positive_commitments, aborted, result>>

\* Variant: the binding lets the core's error through.
EquationUnmapped ==
  IF aborted THEN "abort"
  ELSE IF (positive_commitments = <<>>) # (negative_commitments = <<>>) THEN "BalanceError"
  ELSE IF PointSum(positive_commitments) = PointSum(negative_commitments) THEN "true" ELSE "false"

\* Ok(()) and BalanceError(_) of the core, true and false at the binding.  Two
\* empty vectors have equal sums too.
Equation ==
  IF aborted THEN "abort"
  ELSE IF (positive_commitments = <<>>) # (negative_commitments = <<>>) THEN "false"
  ELSE IF PointSum(positive_commitments) = PointSum(negative_commitments) THEN "true" ELSE "false"

Compare ==
  /\ pc = "compare"
  /\ result' = Equation
  /\ pc' = "idle" /\ n' = 0 /\ aborted' = FALSE
  /\ positive_commitments' = <<>> /\ negative_commitments' = <<>>
  /\ UNCHANGED <<lists, excess, sealed>>

Next ==
  \/ \E e \in Transparent : AddTransparentInput(e) \/ AddTransparentOutput(e)
  \/ \E e \in Shielded : AddShieldedInput(e) \/ AddShieldedOutput(e, FALSE)
  \/ \E value \in Amounts, token \in Tokens, abf \in Scalars :
       AddBalancedOutput(value, token, abf)
  \/ \E bf \in Scalars : SetExcess(bf, FALSE)
  \/ SetExcess(compute_balancing_blinding_factor(0, ZERO_TWEAK), TRUE)
  \/ CallVerify
  \/ CollectInput
  \/ CollectOutput
  \/ PushExcess
  \/ Compare

Spec == Init /\ [][Next]_vars

----------------------------------------------------------------------------
(* Properties.                                                             *)

ValueOf(t, s) ==
  AddValue(ValueSum([k \in DOMAIN t |-> Units(t[k].amount, t[k].token)]),
           ValueSum([k \in DOMAIN s |-> Units(s[k].value, s[k].token)]))

CollectedFrom(entries) == Joined([k \in DOMAIN entries |-> Collected(entries[k])])

\* The sum and number of what is to be collected from these lists.
SideOf(t, s) ==
  LET collected == CollectedFrom(t \o s)
  IN  [sum |-> PointSum(collected), n |-> Len(collected), aborted |-> FALSE]

Abstract == INSTANCE Balance WITH
  positive <- SideOf(transparentInputs, shieldedInputs),
  negative <- SideOf(transparentOutputs, shieldedOutputs),
  inSecret <- SecretOf(shieldedInputs),
  outSecret <- SecretOf(shieldedOutputs),
  inValue <- ValueOf(transparentInputs, shieldedInputs),
  outValue <- ValueOf(transparentOutputs, shieldedOutputs),
  nInputs <- Len(transparentInputs) + Len(shieldedInputs),
  nOutputs <- Len(transparentOutputs) + Len(shieldedOutputs),
  shieldedIn <- shieldedInputs # <<>>,
  shieldedOut <- shieldedOutputs # <<>>

\* Filling the lists and running the loops over them is what Balance says: the
\* grouping into four lists, the binding's order of the entries, the loops and
\* the locals make no difference to any verdict.
ImplementsBalance == Abstract!Spec
============================================================================
