------------------------------- MODULE Wallet -------------------------------
(***************************************************************************)
(* A wallet that assembles one transaction through the provider            *)
(* (packages/ct-crypto-provider/src/abstract.ts over the three bindings).  *)
(*                                                                         *)
(* The wallet draws the blindings of every output but the last, shields    *)
(* these outputs in any order, asks for the factor that balances the last  *)
(* one, shields that, and submits.  Every step is a promise; the blindings *)
(* live in Buffers, to which any other code may write at any time, and one *)
(* of them, ZERO_TWEAK, is the same object for everybody.  The node addon  *)
(* gets the Buffers themselves and reads them in the turn of the call; the *)
(* mobile bridge gets a copy, in base64; the browser provider refuses.     *)
(*                                                                         *)
(* The wallet is not part of the repository.  It is modelled from the      *)
(* documentation of the provider's contract (types.ts).                    *)
(***************************************************************************)
EXTENDS Commitments, Sequences, FiniteSets

CONSTANTS Platforms,            \* among "node", "mobile" and "browser"
          Plans,                \* the transactions a user may ask for
          MAX_PROVABLE_AMOUNT, NoExcess,
          Malformed,            \* 32 bytes that are no scalar
          Unset,                \* a Buffer that is not allocated yet
          MaxDrafts,            \* bound on the outputs of a plan
          MaxWrites             \* bound on the writes of other code

Form == {"transparent", "amount", "full"}

\* A plan spends one input and has the last draft balance the others.
ASSUME PlanAssumption ==
  \A p \in Plans :
    /\ p.input \in [form : Form, token : Tokens, value : Amounts \ {0},
                    vbf : Scalars, abf : Scalars]
    /\ p.input.form # "transparent" => p.input.value <= MAX_PROVABLE_AMOUNT
    /\ p.input.form = "transparent" => p.input.vbf = ZERO_TWEAK
    /\ p.input.form # "full" => p.input.abf = ZERO_TWEAK
    /\ Len(p.drafts) \in 1 .. MaxDrafts
    /\ p.drafts \in Seq([form : Form \ {"transparent"}, token : Tokens, value : Amounts])

ASSUME WalletAssumption ==
  /\ MAX_PROVABLE_AMOUNT \in Nat /\ MaxDrafts \in Nat /\ MaxWrites \in Nat
  /\ Malformed \notin Scalars /\ Unset \notin Scalars /\ Malformed # Unset
  /\ NoExcess \notin Scalars

VARIABLES
  platform, plan,
  spent,      \* the input is in the transaction
  buffers,    \* what the Buffers hold
  stage,      \* how far each draft is
  call,       \* the call under way for each draft, or None
  output,     \* what was created for each draft, or None
  result,     \* of the last creation or verification
  writes,     \* number of writes of other code
  disturbed   \* Buffers that other code changed before they were last read

vars == <<platform, plan, spent, buffers, stage, call, output, result, writes, disturbed>>

None == [none |-> TRUE]

Drafts == DOMAIN plan.drafts
Last == Len(plan.drafts)

----------------------------------------------------------------------------
(* Buffers.                                                                *)

Zero == <<"ZERO_TWEAK", 0>>
Vbf(d) == <<"vbf", d>>   \* drawn, or the balancing factor of the last draft
Abf(d) == <<"abf", d>>   \* drawn
BlindingFactor(d) == <<"blindingFactor", d>>             \* of what was created,
AssetBlindingFactor(d) == <<"assetBlindingFactor", d>>   \* 0 for the input

Buffers == {Zero} \cup ({"vbf", "abf", "blindingFactor", "assetBlindingFactor"} \X (0 .. Last))

\* The Buffers a wallet puts in the blinding entry of the input or of a draft.
EntryVbf(d) ==
  IF d = 0 /\ plan.input.form = "transparent" THEN Zero ELSE BlindingFactor(d)

\* Variant: the generator blinding of an entry is lost on the way.
EntryGbfLost(d) == Zero

EntryGbf(d) ==
  IF (IF d = 0 THEN plan.input.form ELSE plan.drafts[d].form) = "full"
  THEN AssetBlindingFactor(d) ELSE Zero

\* What a call reads.
CreateReads(d) ==
  {Vbf(d)} \cup (IF plan.drafts[d].form = "full" THEN {Abf(d)} ELSE {})

LastGbf == IF plan.drafts[Last].form = "full" THEN Abf(Last) ELSE Zero

BalanceReads ==
  {LastGbf} \cup UNION {{EntryVbf(d), EntryGbf(d)} : d \in (0 .. Last) \ {Last}}

Reads(d, op) == IF op = "create" THEN CreateReads(d) ELSE BalanceReads

\* The calls that are still to be made.
ToCreate ==
  {d \in Drafts : /\ stage[d] \in {"planned", "drawn", "balanced"}
                  /\ call[d] = None \/ call[d].op \in {"balance", "factored"}}
ToBalance == call[Last] = None /\ stage[Last] \in {"planned", "drawn"}

ReadLater ==
  (UNION {CreateReads(d) : d \in ToCreate}) \cup (IF ToBalance THEN BalanceReads ELSE {})

\* _encodeBytes: the identity on node, a copy in base64 on mobile.
EncodeBytes(b) ==
  IF platform = "node" THEN [is |-> "reference", of |-> b] ELSE [is |-> "copy", of |-> buffers[b]]

\* What native code reads in an argument.
Contents(arg) == IF arg.is = "reference" THEN buffers[arg.of] ELSE arg.of

----------------------------------------------------------------------------
(* The primitives.                                                         *)

Refused == [op |-> "refused"]   \* by a check of the code, or by its environment

Parse(arguments) == Malformed \notin {Contents(arguments[b]) : b \in DOMAIN arguments}

\* create_*_shielded_output, by the first of its checks that fails; there are no
\* identity points among the commitments to positive values.
CreateResult(value, vbf) ==
  IF RejectedByCreateCommitment(value, vbf) THEN "InvalidCommitment"
  ELSE IF value = 0 \/ value > MAX_PROVABLE_AMOUNT THEN "RangeProofError" ELSE "ok"

\* Variant: an amount output is a full one under the ZERO_TWEAK of the provider.
AbfOfSharedZero(d, arguments) ==
  IF plan.drafts[d].form = "full" THEN Contents(arguments[Abf(d)])
  ELSE IF buffers[Zero] \in Scalars THEN buffers[Zero] ELSE ZERO_TWEAK

\* The asset blinding of a new output; the core has its own zero.
AbfOf(d, arguments) ==
  IF plan.drafts[d].form = "full" THEN Contents(arguments[Abf(d)]) ELSE ZERO_TWEAK

CreateAnswer(d, arguments) ==
  LET vbf == Contents(arguments[Vbf(d)])
      abf == AbfOf(d, arguments)
      draft == plan.drafts[d]
      gen == create_asset_commitment(draft.token, abf)
  IN  [op |-> "created", result |-> CreateResult(draft.value, vbf), generator |-> gen,
       commitment |-> Commit(draft.value, vbf, gen), vbf |-> vbf, abf |-> abf]

\* The value of an entry, and the secret that the arguments of a call give for it.
EntryValue(d) == IF d = 0 THEN plan.input.value ELSE plan.drafts[d].value

EntrySecret(d, arguments) ==
  Opening(EntryValue(d), Contents(arguments[EntryVbf(d)]), Contents(arguments[EntryGbf(d)]))

\* compute_balancing_blinding_factor on the entries.
FactorAnswer(arguments) ==
  [op |-> "factored",
   factor |-> Minus(Minus(EntrySecret(0, arguments),
                          ScalarSum([d \in 1 .. Last - 1 |-> EntrySecret(d, arguments)])),
                    Times(plan.drafts[Last].value, Contents(arguments[LastGbf])))]

Answer(d, op, arguments) ==
  IF ~Parse(arguments) THEN Refused
  ELSE IF op = "create" THEN CreateAnswer(d, arguments) ELSE FactorAnswer(arguments)

----------------------------------------------------------------------------
(* The wallet and its calls.                                               *)

TypeOK ==
  /\ platform \in Platforms /\ plan \in Plans /\ spent \in BOOLEAN
  /\ buffers \in [Buffers -> Scalars \cup {Malformed, Unset}]
  /\ stage \in [Drafts -> {"planned", "drawn", "balanced", "created", "failed"}]
  /\ \A d \in Drafts :
       /\ call[d] # None =>
            \/ call[d].op \in {"refused", "created", "factored"}
            \/ call[d].op = "create" /\ stage[d] \in {"drawn", "balanced"}
            \/ call[d].op = "balance" /\ d = Last /\ stage[d] \in {"planned", "drawn"}
       /\ stage[d] = "created" <=> output[d] # None
       /\ output[d] # None =>
            output[d] \in [generator : Generator, commitment : Point, vbf : Scalars, abf : Scalars]
  /\ result \in {"none", "ok", "InvalidCommitment", "RangeProofError",
                 "true", "false", "throw", "abort"}
  /\ writes \in 0 .. MaxWrites /\ disturbed \subseteq Buffers

Init ==
  /\ platform \in Platforms /\ plan \in Plans
  /\ spent = FALSE
  /\ buffers = [b \in Buffers |->
       CASE b = Zero -> ZERO_TWEAK
         [] b = BlindingFactor(0) /\ plan.input.form # "transparent" -> plan.input.vbf
         [] b = AssetBlindingFactor(0) /\ plan.input.form = "full" -> plan.input.abf
         [] OTHER -> Unset]
  /\ stage = [d \in Drafts |-> "planned"]
  /\ call = [d \in Drafts |-> None] /\ output = [d \in Drafts |-> None]
  /\ result = "none" /\ writes = 0 /\ disturbed = {}

Failed == \E d \in Drafts : stage[d] = "failed"

Spend ==
  /\ ~spent
  /\ spent' = TRUE /\ result' = "ok"
  /\ UNCHANGED <<platform, plan, buffers, stage, call, output, writes, disturbed>>

Fail(d) ==
  /\ stage' = [stage EXCEPT ![d] = "failed"]
  /\ UNCHANGED <<platform, plan, spent, buffers, output, result, writes, disturbed>>

\* generate_random_blinding_factor rejects what is no secret key, zero too.
RandomBlindingFactor == Scalars \ {ZERO_TWEAK}

\* generateRandomBlindingFactor for the blindings a draft needs.
Draw(d) ==
  /\ spent /\ ~Failed /\ stage[d] = "planned" /\ call[d] = None
  /\ LET needs == (IF d = Last THEN {} ELSE {Vbf(d)})
                   \cup (IF plan.drafts[d].form = "full" THEN {Abf(d)} ELSE {})
     IN  /\ needs # {}
         /\ platform # "browser"
         /\ \E drawn \in [needs -> RandomBlindingFactor] :
              buffers' = [b \in Buffers |-> IF b \in needs THEN drawn[b] ELSE buffers[b]]
  /\ stage' = [stage EXCEPT ![d] = "drawn"]
  /\ UNCHANGED <<platform, plan, spent, call, output, result, writes, disturbed>>

\* Variant: the factor is asked for again when it is already there.
ReadyAgain(d, op) ==
  IF op = "create" THEN stage[d] = IF d = Last THEN "balanced" ELSE "drawn"
  ELSE /\ d = Last
       /\ stage[d] \in {"balanced", IF plan.drafts[d].form = "full" THEN "drawn" ELSE "planned"}
       /\ \A other \in Drafts \ {d} : stage[other] = "created"

Ready(d, op) ==
  IF op = "create" THEN stage[d] = IF d = Last THEN "balanced" ELSE "drawn"
  ELSE /\ d = Last
       /\ stage[d] = IF plan.drafts[d].form = "full" THEN "drawn" ELSE "planned"
       /\ \A other \in Drafts \ {d} : stage[other] = "created"

\* Variant: the addon runs on a worker thread.
AddonOnWorker == FALSE

\* The addon runs before its call returns; the bridge only queues a message.
RunsInTurn == platform = "node"

\* create*ShieldedOutput or computeBalancingBlindingFactor, up to its await.  The
\* addon may panic, which it catches and throws.
Call(d, op) ==
  /\ spent /\ ~Failed /\ call[d] = None /\ Ready(d, op) /\ platform # "browser"
  /\ LET arguments == [b \in Reads(d, op) |-> EncodeBytes(b)]
     IN  \E answer \in IF RunsInTurn THEN {Answer(d, op, arguments), Refused}
                       ELSE {[op |-> op, arguments |-> arguments]} :
           call' = [call EXCEPT ![d] = answer]
  /\ UNCHANGED <<platform, plan, spent, buffers, stage, output, result, writes, disturbed>>

\* _unsupported: the browser provider rejects every call a wallet starts with.
Unsupported(d) ==
  /\ spent /\ ~Failed /\ stage[d] = "planned" /\ platform = "browser"
  /\ d = Last => plan.drafts[d].form = "full" \/ Ready(d, "balance")
  /\ Fail(d) /\ UNCHANGED call

OnItsWay(d) == call[d] # None /\ call[d].op \in {"create", "balance"}

\* The native module runs the call.
Run(d) ==
  /\ OnItsWay(d)
  /\ call' = [call EXCEPT ![d] = Answer(d, call[d].op, call[d].arguments)]
  /\ UNCHANGED <<platform, plan, spent, buffers, stage, output, result, writes, disturbed>>

\* A panic, or a native library that does not link; it rejects all the same.
Break(d) ==
  /\ OnItsWay(d)
  /\ call' = [call EXCEPT ![d] = Refused]
  /\ UNCHANGED <<platform, plan, spent, buffers, stage, output, result, writes, disturbed>>

\* Variant: the created record refers to the Buffer of the caller.
CallersBlindingFactor(d) == buffers[Vbf(d)]

\* The blinding factor in the created record: the one that was used.
ReturnedBlindingFactor(d) == call[d].vbf

\* The promise of a creation settles.
Created(d) ==
  /\ call[d] # None /\ call[d].op = "created"
  /\ call' = [call EXCEPT ![d] = None]
  /\ result' = call[d].result
  /\ IF result' = "ok"
     THEN /\ stage' = [stage EXCEPT ![d] = "created"]
          /\ output' = [output EXCEPT ![d] =
               [generator |-> call[d].generator, commitment |-> call[d].commitment,
                vbf |-> ReturnedBlindingFactor(d), abf |-> call[d].abf]]
          /\ buffers' = [b \in Buffers |->
               CASE b = BlindingFactor(d) -> ReturnedBlindingFactor(d)
                 [] b = AssetBlindingFactor(d) /\ plan.drafts[d].form = "full" -> call[d].abf
                 [] OTHER -> buffers[b]]
     ELSE stage' = [stage EXCEPT ![d] = "failed"] /\ UNCHANGED <<output, buffers>>
  /\ UNCHANGED <<platform, plan, spent, writes, disturbed>>

\* The promise of the balancing factor settles.
Balanced(d) ==
  /\ call[d] # None /\ call[d].op = "factored"
  /\ call' = [call EXCEPT ![d] = None]
  /\ stage' = [stage EXCEPT ![d] = "balanced"]
  /\ buffers' = [buffers EXCEPT ![Vbf(d)] = call[d].factor]
  /\ UNCHANGED <<platform, plan, spent, output, result, writes, disturbed>>

\* Variant: only what came from native code is rejected.
RejectsNothing(d) == FALSE

Rejects(d) == call[d] # None /\ call[d].op = "refused"

\* The promise is rejected, and the wallet gives the transaction up.
Rejected(d) ==
  /\ Rejects(d)
  /\ Fail(d) /\ call' = [call EXCEPT ![d] = None]

\* Other code writes to a Buffer it shares with the wallet.
Write(b, bytes) ==
  /\ writes < MaxWrites
  /\ buffers[b] \notin {Unset, bytes}
  /\ buffers' = [buffers EXCEPT ![b] = bytes]
  /\ writes' = writes + 1
  /\ disturbed' = IF b \in ReadLater THEN disturbed \cup {b} ELSE disturbed
  /\ UNCHANGED <<platform, plan, spent, stage, call, output, result>>

----------------------------------------------------------------------------
(* The transaction, as the peer that verifies it sees it.                  *)

CreatedDrafts == {d \in Drafts : output[d] # None}

\* What each draft adds to the transaction so far.
CreatedCommitment(d) == IF output[d] = None THEN Identity ELSE output[d].commitment
CreatedSecret(d) ==
  IF output[d] = None THEN ZERO_TWEAK
  ELSE Opening(plan.drafts[d].value, output[d].vbf, output[d].abf)
CreatedValue(d) ==
  IF output[d] = None THEN NoValue ELSE Units(plan.drafts[d].value, plan.drafts[d].token)

InputCommitment ==
  Commit(plan.input.value, plan.input.vbf,
         create_asset_commitment(plan.input.token, plan.input.abf))

OutputSum == PointSum([d \in Drafts |-> CreatedCommitment(d)])

OutSecret == ScalarSum([d \in Drafts |-> CreatedSecret(d)])

InValue == IF spent THEN Units(plan.input.value, plan.input.token) ELSE NoValue

OutValue == ValueSum([d \in Drafts |-> CreatedValue(d)])

\* What other code did to the Buffers that the balance depends on: the entries,
\* ZERO_TWEAK among them, the factor, and the asset blinding of the last draft.
Disturbed ==
  disturbed \cap (BalanceReads \cup CreateReads(Last)) # {}

Peer == INSTANCE Balance WITH
  MaxInputs <- 1, MaxOutputs <- MaxDrafts, excess <- NoExcess,
  positive <- [sum |-> IF spent THEN InputCommitment ELSE Identity,
               n |-> IF spent THEN 1 ELSE 0, aborted |-> FALSE],
  negative <- [sum |-> OutputSum, n |-> Cardinality(CreatedDrafts), aborted |-> FALSE],
  inSecret <- IF spent THEN InputCommitment.g ELSE ZERO_TWEAK,
  outSecret <- OutSecret,
  inValue <- InValue, outValue <- OutValue,
  nInputs <- IF spent THEN 1 ELSE 0, nOutputs <- Cardinality(CreatedDrafts),
  shieldedIn <- spent /\ plan.input.form # "transparent",
  shieldedOut <- CreatedDrafts # {},
  sealed <- stage[Last] = "created" /\ ~Disturbed

\* The wallet submits a transaction that is complete, and a peer verifies it.
Submit ==
  /\ CreatedDrafts = Drafts /\ result \notin Peer!Verdicts
  /\ result' = Peer!Verdict
  /\ UNCHANGED <<platform, plan, spent, buffers, stage, call, output, writes, disturbed>>

Ended == Failed \/ result \in Peer!Verdicts

WalletNext ==
  \/ Spend \/ Submit
  \/ \E d \in Drafts :
       \/ Draw(d) \/ Unsupported(d) \/ Call(d, "create") \/ Call(d, "balance")
       \/ Created(d) \/ Balanced(d) \/ Rejected(d)

NativeNext == \E d \in Drafts : Run(d) \/ Break(d)

Next ==
  \/ WalletNext
  \/ NativeNext
  \/ \E b \in Buffers, bytes \in Scalars \cup {Malformed} : Write(b, bytes)

Spec == Init /\ [][Next]_vars

\* The program of the wallet goes on, and native code answers every call.
FairSpec ==
  /\ Spec
  /\ WF_vars(Spend) /\ WF_vars(Submit)
  /\ \A d \in 1 .. MaxDrafts :
       /\ WF_vars(d \in Drafts /\ (Draw(d) \/ Unsupported(d)))
       /\ WF_vars(d \in Drafts /\ (Call(d, "create") \/ Call(d, "balance")))
       /\ WF_vars(d \in Drafts /\ (Created(d) \/ Balanced(d) \/ Rejected(d)))
       /\ WF_vars(d \in Drafts /\ (Run(d) \/ Break(d)))

----------------------------------------------------------------------------
(* Properties.                                                             *)

\* A wallet that computes the factor from what the creations returned, and whose
\* Buffers are left alone from then until they are last read, gets a transaction
\* that conserves its tokens accepted, whatever is written to a Buffer before its
\* value is drawn, or after the call that reads it was made, and though nobody
\* tells the core that the ZERO_TWEAK of the provider is still zero.
HeldIsAccepted ==
  result \in Peer!Verdicts /\ ~Disturbed /\ InValue = OutValue => result = "true"

\* The blindings that come back with a created output open its commitment under
\* its generator, though the Buffers they were passed in may hold something else
\* by then: the wallet can spend what it created, and balance it.
CreatedOpensItself ==
  \A d \in CreatedDrafts :
    LET gen == create_asset_commitment(plan.drafts[d].token, output[d].abf)
    IN  /\ output[d].vbf \in Scalars /\ output[d].abf \in Scalars
        /\ output[d].generator = gen
        /\ output[d].commitment = Commit(plan.drafts[d].value, output[d].vbf, gen)

\* The token is in sight where it has to be and nowhere else.  Whatever becomes of
\* ZERO_TWEAK, an amount output is committed to under the tag of its token, which
\* is all that a verifier of its range proof has; and a full output is not, unless
\* somebody wrote to its drawn asset blinding before the creation read it.
TokenShowsIfItShould ==
  \A d \in CreatedDrafts :
    LET shows == output[d].generator = derive_asset_tag(plan.drafts[d].token)
    IN  IF plan.drafts[d].form = "amount" THEN shows ELSE Abf(d) \notin disturbed => ~shows

\* Whatever other code writes, the wallet is one of the provers of Balance, and
\* an honest one, which seals with the balancing factor, as long as no Buffer
\* that matters is disturbed.  What is proved of Balance holds of its transaction.
ImplementsBalance == Peer!Spec

\* On every platform the wallet ends with a verdict or with an error, even when
\* native code breaks in every call.
AssemblyEnds == <>Ended
=============================================================================
