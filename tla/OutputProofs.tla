--------------------------- MODULE OutputProofs -----------------------------
(***************************************************************************)
(* Proofs about what is shown of an output: that its asset is an input's   *)
(* (Surjection), for any tags and blindings, domains of any size and any   *)
(* possible proofs made elsewhere, and that it hides what somebody claims  *)
(* (Openings), for any calls, Buffers, claims and word size.               *)
(***************************************************************************)
EXTENDS Surjection, Openings, FiniteSetTheorems, TLAPS

----------------------------------------------------------------------------
(* Surjection proofs.                                                      *)

\* The retry loop runs on a domain that create_surjection_proof let through.
LoopIsInBounds ==
  /\ attempt \in 0 .. SURJECTION_PROOF_ATTEMPTS
  /\ attempt # 0 => /\ MalformedBytes \notin {codomain} \cup Range(Gens(domain))
                    /\ ~OutOfBounds
                    /\ last = NoCall

MadeArePossible == \A p \in proof : Possible(p)

DomainTyped ==
  domain \in Seq(Entries) /\ codomain \in AssetGenerator \cup {MalformedBytes}

SurjectionTyped ==
  /\ Len(domain) <= MaxInputs
  /\ proof = {} \/ \E p \in Proof : proof = {p}
  /\ \/ last = NoCall
     \/ last \in [call : {"create"}, verdict : {"ok", "throw", "abort"},
                  tries : 0 .. SURJECTION_PROOF_ATTEMPTS]
     \/ last.call = "verify" /\ last.verdict \in {"true", "false", "throw"}

SurjectionInvariant ==
  /\ DomainTyped /\ SurjectionTyped /\ LoopIsInBounds /\ MadeArePossible
  /\ NeverAborts /\ FailureIsFinal /\ CreatedIsForThisOutput /\ VerifiedAssetIsSpent

----------------------------------------------------------------------------
(* Proofs and their verification.                                          *)

\* The generators of a domain are those of its entries.
LEMMA GensOfDomain ==
  ASSUME DomainTyped
  PROVE  /\ DOMAIN Gens(domain) = DOMAIN domain
         /\ \A j \in DOMAIN domain : Gens(domain)[j] = domain[j].gen /\ domain[j] \in Entries
BY DEF Gens, DomainTyped

\* A proof is sound only if its output has the tag of one of its inputs.
LEMMA NewProofIsPossible ==
  ASSUME DomainTyped, NEW j \in Matching
  PROVE  Possible(NewProof(j))
<1>1. j \in DOMAIN domain /\ domain[j].tag = codomain.tag BY DEF Matching
<1>2. Truthful(domain[j]) => domain[j].gen.tag = codomain.tag BY <1>1 DEF Truthful
<1>3. Gens(domain)[j] = domain[j].gen /\ j \in DOMAIN Gens(domain) BY <1>1, GensOfDomain
<1> QED  BY <1>2, <1>3 DEF Possible, NewProof, TagsOf

\* What is made from a domain that was let through is a proof.
LEMMA NewProofIsProof ==
  ASSUME SurjectionInvariant, attempt # 0, NEW j \in Matching
  PROVE  NewProof(j) \in Proof
<1>1. MalformedBytes \notin {codomain} \cup Range(Gens(domain))
  BY DEF SurjectionInvariant, LoopIsInBounds
<1>2. codomain \in AssetGenerator BY <1>1 DEF SurjectionInvariant, DomainTyped
<1>3. \A k \in DOMAIN domain : Gens(domain)[k] \in AssetGenerator
  BY <1>1, GensOfDomain, SurjectionAssumption DEF SurjectionInvariant, Range, Entry
<1>4. Gens(domain) \in Seq(AssetGenerator)
  BY <1>3 DEF Gens, SurjectionInvariant, DomainTyped
<1> QED  BY <1>2, <1>4 DEF NewProof, Proof, Truthful

\* A made proof verifies against the domain it was made from, if that was true.
LEMMA NewProofVerifies ==
  ASSUME SurjectionInvariant, attempt # 0, NEW j \in Matching, Truthful(domain[j])
  PROVE  BindingVerdict(NewProof(j), codomain, Gens(domain)) = "true"
<1>1. MalformedBytes \notin {codomain} \cup Range(Gens(domain))
  BY DEF SurjectionInvariant, LoopIsInBounds
<1>2. NewProof(j) \in Proof BY NewProofIsProof
<1>3. ProofParses(NewProof(j)) BY <1>2, SurjectionAssumption DEF ProofParses
<1>4. verify_surjection_proof(NewProof(j), codomain, Gens(domain))
  BY DEF verify_surjection_proof, NewProof
<1> QED  BY <1>1, <1>3, <1>4 DEF BindingVerdict

\* A proof that verifies is about an output with the tag of one of the inputs.
LEMMA TrueIsSpent ==
  ASSUME SurjectionInvariant, NEW p \in proof \cup ForeignProofs \cup {MalformedBytes}, NEW c,
         BindingVerdict(p, c, Gens(domain)) = "true"
  PROVE  c.tag \in TagsOf(Gens(domain))
<1>1. p # MalformedBytes /\ p.sound /\ p.codomain = c /\ p.domain = Gens(domain)
  BY DEF BindingVerdict, ProofParses, verify_surjection_proof
<1>2. Possible(p)
  BY <1>1, SurjectionAssumption DEF SurjectionInvariant, MadeArePossible
<1> QED  BY <1>1, <1>2 DEF Possible

----------------------------------------------------------------------------
(* The steps.                                                              *)

\* What was said of the last call holds of none.
LEMMA NothingSaid ==
  last = NoCall => NeverAborts /\ FailureIsFinal /\ CreatedIsForThisOutput /\ VerifiedAssetIsSpent
BY DEF NoCall, NeverAborts, FailureIsFinal, CreatedIsForThisOutput, VerifiedAssetIsSpent

LEMMA InitSurjection == SurjectionInit => SurjectionInvariant
<1> SUFFICES ASSUME SurjectionInit PROVE SurjectionInvariant
  OBVIOUS
<1>1. DomainTyped /\ LoopIsInBounds /\ MadeArePossible
  BY SurjectionAssumption DEF SurjectionInit, DomainTyped, LoopIsInBounds, MadeArePossible
<1>2. SurjectionTyped BY SurjectionAssumption DEF SurjectionInit, SurjectionTyped
<1> QED  BY <1>1, <1>2, NothingSaid DEF SurjectionInit, SurjectionInvariant

LEMMA InputsStep ==
  ASSUME SurjectionInvariant, (\E entry \in Entries : AddInput(entry)) \/ SwapLastInputs
  PROVE  SurjectionInvariant'
<1>1. attempt = 0 /\ last' = NoCall /\ UNCHANGED <<codomain, attempt, proof>>
  BY DEF AddInput, SwapLastInputs
<1>2. domain' \in Seq(Entries) /\ Len(domain') <= MaxInputs
  <2>1. domain \in Seq(Entries) /\ Len(domain) \in Nat /\ Len(domain) <= MaxInputs
        /\ MaxInputs \in Nat
    BY SurjectionAssumption DEF SurjectionInvariant, DomainTyped, SurjectionTyped
  <2>2. ASSUME NEW entry \in Entries, AddInput(entry)
        PROVE  domain' \in Seq(Entries) /\ Len(domain') <= MaxInputs
    <3>1. domain' = Append(domain, entry) /\ Len(domain) < MaxInputs BY <2>2 DEF AddInput
    <3>2. Append(domain, entry) \in Seq(Entries) /\ Len(Append(domain, entry)) = Len(domain) + 1
      BY <2>1
    <3> QED  BY <2>1, <3>1, <3>2
  <2>3. CASE SwapLastInputs
    BY <2>1, <2>3 DEF SwapLastInputs
  <2> QED  BY <2>2, <2>3
<1>3. DomainTyped' /\ LoopIsInBounds' /\ MadeArePossible'
  BY <1>1, <1>2 DEF SurjectionInvariant, DomainTyped, LoopIsInBounds, MadeArePossible
<1>4. SurjectionTyped' BY <1>1, <1>2 DEF SurjectionInvariant, SurjectionTyped
<1> QED
  BY <1>1, <1>3, <1>4 DEF NoCall, SurjectionInvariant, NeverAborts, FailureIsFinal,
                          CreatedIsForThisOutput, VerifiedAssetIsSpent

LEMMA CallStep ==
  ASSUME SurjectionInvariant, NEW c \in AssetGenerator \cup {MalformedBytes}, CreateSurjectionProof(c)
  PROVE  SurjectionInvariant'
<1>1. codomain' = c /\ UNCHANGED <<domain, proof>> BY DEF CreateSurjectionProof
<1>2. DomainTyped' /\ MadeArePossible'
  BY <1>1 DEF SurjectionInvariant, DomainTyped, MadeArePossible
<1>3. CASE MalformedBytes \in {c} \cup Range(Gens(domain)) \/ OutOfBounds
  <2>1. attempt' = 0 /\ last' = [call |-> "create", verdict |-> "throw", tries |-> 0]
    BY <1>3 DEF CreateSurjectionProof, CreateReturns
  <2>2. FailureIsFinal'
    BY <1>1, <1>3, <2>1 DEF FailureIsFinal, OutOfBounds, Gens
  <2>3. SurjectionTyped'
    BY <1>1, <2>1, SurjectionAssumption DEF SurjectionInvariant, SurjectionTyped
  <2> QED
    BY <1>2, <2>1, <2>2, <2>3, SurjectionAssumption
    DEF SurjectionInvariant, LoopIsInBounds, NeverAborts, CreatedIsForThisOutput,
        VerifiedAssetIsSpent
<1>4. CASE ~(MalformedBytes \in {c} \cup Range(Gens(domain)) \/ OutOfBounds)
  <2>1. attempt' = 1 /\ last' = NoCall BY <1>4 DEF CreateSurjectionProof
  <2>2. LoopIsInBounds'
    BY <1>1, <1>4, <2>1, SurjectionAssumption DEF LoopIsInBounds, OutOfBounds, Gens
  <2>3. SurjectionTyped' BY <1>1, <2>1 DEF SurjectionInvariant, SurjectionTyped
  <2> QED
    BY <1>2, <2>1, <2>2, <2>3 DEF NoCall, SurjectionInvariant, NeverAborts, FailureIsFinal,
                            CreatedIsForThisOutput, VerifiedAssetIsSpent
<1> QED  BY <1>3, <1>4

\* A pass of the loop: the library never sees a domain it aborts on, gives up on
\* a proof only after the last pass, or makes one for this output.
LEMMA AttemptStep ==
  ASSUME SurjectionInvariant, Attempt
  PROVE  SurjectionInvariant'
<1>1. /\ attempt \in 1 .. SURJECTION_PROOF_ATTEMPTS /\ last = NoCall
      /\ MalformedBytes \notin {codomain} \cup Range(Gens(domain)) /\ ~OutOfBounds
      /\ UNCHANGED <<domain, codomain>>
  BY DEF Attempt, SurjectionInvariant, LoopIsInBounds
<1>2. ~LibraryAborts BY <1>1 DEF LibraryAborts, OutOfBounds
<1>3. DomainTyped' BY <1>1 DEF SurjectionInvariant, DomainTyped
<1>4. CASE NoProof
  <2>1. \A j \in Matching : {NewProof(j)} # {} OBVIOUS
  <2>2. MayMiss \/ \E j \in Matching : MayRefuse(domain[j])
    BY <1>4, <2>1 DEF NoProof, AttemptOutcomes
  <2>3. MadeArePossible' BY <1>4 DEF NoProof, SurjectionInvariant, MadeArePossible
  <2>4. CASE attempt < SURJECTION_PROOF_ATTEMPTS
    <3>1. attempt' = attempt + 1 /\ UNCHANGED last BY <1>4, <2>4 DEF NoProof
    <3>2. LoopIsInBounds'
      BY <1>1, <2>4, <3>1, SurjectionAssumption DEF LoopIsInBounds, OutOfBounds, Gens
    <3>3. SurjectionTyped'
      BY <1>1, <1>4, <3>1 DEF NoProof, SurjectionInvariant, SurjectionTyped
    <3> QED
      BY <1>1, <1>3, <2>3, <3>1, <3>2, <3>3 DEF NoCall, SurjectionInvariant, NeverAborts, FailureIsFinal,
                                          CreatedIsForThisOutput, VerifiedAssetIsSpent
  <2>5. CASE ~(attempt < SURJECTION_PROOF_ATTEMPTS)
    <3>1. /\ attempt' = 0
          /\ last' = [call |-> "create", verdict |-> "throw",
                      tries |-> SURJECTION_PROOF_ATTEMPTS]
      BY <1>1, <1>4, <2>5, SurjectionAssumption DEF NoProof, CreateReturns
    <3>2. FailureIsFinal'
      BY <1>1, <2>2, <3>1 DEF FailureIsFinal, MayMiss, Matching, MayRefuse
    <3>3. SurjectionTyped'
      BY <1>1, <1>4, <3>1, SurjectionAssumption DEF NoProof, SurjectionInvariant, SurjectionTyped
    <3> QED
      BY <1>3, <2>3, <3>1, <3>2, <3>3, SurjectionAssumption
      DEF SurjectionInvariant, LoopIsInBounds, NeverAborts, CreatedIsForThisOutput,
          VerifiedAssetIsSpent
  <2> QED  BY <2>4, <2>5
<1>5. CASE proof' \in AttemptOutcomes \ {{}} /\ CreateReturns("ok", attempt)
  <2>1. PICK j \in Matching : proof' = {NewProof(j)} BY <1>5 DEF AttemptOutcomes
  <2>2. attempt' = 0 /\ last' = [call |-> "create", verdict |-> "ok", tries |-> attempt]
    BY <1>5 DEF CreateReturns
  <2>3. MadeArePossible'
    BY <2>1, NewProofIsPossible DEF SurjectionInvariant, MadeArePossible
  <2>4. codomain.tag \in TagsOf(domain) BY DEF Matching, TagsOf
  <2>5. (\A k \in Matching : Truthful(domain[k])) =>
          BindingVerdict(NewProof(j), codomain, Gens(domain)) = "true"
    BY <1>1, NewProofVerifies
  <2>6. CreatedIsForThisOutput'
    BY <1>1, <2>1, <2>4, <2>5 DEF CreatedIsForThisOutput, Matching, Truthful, Gens, TagsOf
  <2>7. NewProof(j) \in Proof BY <1>1, NewProofIsProof
  <2>8. SurjectionTyped'
    BY <1>1, <2>1, <2>2, <2>7, SurjectionAssumption DEF SurjectionInvariant, SurjectionTyped
  <2> QED
    BY <1>3, <2>2, <2>3, <2>6, <2>8, SurjectionAssumption
    DEF SurjectionInvariant, LoopIsInBounds, NeverAborts, FailureIsFinal, VerifiedAssetIsSpent
<1> QED  BY <1>2, <1>4, <1>5 DEF Attempt

LEMMA VerifyStep ==
  ASSUME SurjectionInvariant, VerifySurjectionProof
  PROVE  SurjectionInvariant'
<1>1. attempt = 0 /\ UNCHANGED <<domain, codomain, attempt, proof>>
  BY DEF VerifySurjectionProof
<1>2. PICK p \in proof \cup ForeignProofs \cup {MalformedBytes},
           c \in AssetGenerator \cup {MalformedBytes} :
        last' = [call |-> "verify", verdict |-> BindingVerdict(p, c, Gens(domain)),
                 proof |-> p, codomain |-> c]
  BY DEF VerifySurjectionProof
<1>3. BindingVerdict(p, c, Gens(domain)) = "true" => c.tag \in TagsOf(Gens(domain))
  BY TrueIsSpent
<1>4. VerifiedAssetIsSpent'
  BY <1>1, <1>2, <1>3 DEF VerifiedAssetIsSpent, Gens
<1>5. DomainTyped' /\ LoopIsInBounds' /\ MadeArePossible'
  BY <1>1 DEF SurjectionInvariant, DomainTyped, LoopIsInBounds, MadeArePossible
<1>6. SurjectionTyped'
  BY <1>1, <1>2 DEF BindingVerdict, SurjectionInvariant, SurjectionTyped
<1> QED
  BY <1>2, <1>4, <1>5, <1>6
  DEF SurjectionInvariant, NeverAborts, FailureIsFinal, CreatedIsForThisOutput

LEMMA StepSurjection == SurjectionInvariant /\ [SurjectionNext]_surjectionVars => SurjectionInvariant'
<1> SUFFICES ASSUME SurjectionInvariant, [SurjectionNext]_surjectionVars PROVE SurjectionInvariant'
  OBVIOUS
<1>1. CASE UNCHANGED surjectionVars
  BY <1>1 DEF surjectionVars, SurjectionInvariant, DomainTyped, SurjectionTyped, LoopIsInBounds,
              MadeArePossible, OutOfBounds,
              NeverAborts, FailureIsFinal, CreatedIsForThisOutput, VerifiedAssetIsSpent, Gens,
              MayMiss, Matching, MayRefuse
<1>2. CASE SurjectionNext
  BY <1>2, InputsStep, CallStep, AttemptStep, VerifyStep DEF SurjectionNext
<1> QED  BY <1>1, <1>2

----------------------------------------------------------------------------
(* The theorems.                                                           *)

\* The inductive invariant, every property of the three calls in it.
THEOREM SurjectionCorrect == SurjectionSpec => []SurjectionInvariant
<1> QED  BY InitSurjection, StepSurjection, PTL DEF SurjectionSpec

\* The domain, the loop, the proof and what was said of the last call keep their type.
THEOREM SurjectionType == SurjectionSpec => []SurjectionTypeOK
<1>1. SurjectionInvariant => SurjectionTypeOK
  <2> SUFFICES ASSUME SurjectionInvariant PROVE SurjectionTypeOK
    OBVIOUS
  <2>1. proof \subseteq Proof /\ Cardinality(proof) <= 1
    <3>1. CASE proof = {} BY <3>1, FS_EmptySet
    <3>2. ASSUME NEW p \in Proof, proof = {p}
          PROVE  proof \subseteq Proof /\ Cardinality(proof) <= 1
      <4>1. Cardinality({p}) = 1 BY FS_Singleton
      <4> QED  BY <3>2, <4>1
    <3> QED  BY <3>1, <3>2 DEF SurjectionInvariant, SurjectionTyped
  <2> QED  BY <2>1 DEF SurjectionInvariant, SurjectionTyped, DomainTyped, LoopIsInBounds, SurjectionTypeOK
<1> QED  BY SurjectionCorrect, <1>1, PTL

\* No domain takes the process down.
THEOREM NoDomainAborts == SurjectionSpec => []NeverAborts
<1>1. SurjectionInvariant => NeverAborts BY DEF SurjectionInvariant
<1> QED  BY SurjectionCorrect, <1>1, PTL

\* Making a proof fails for a reason, after every attempt the code has.
THEOREM FailuresAreFinal == SurjectionSpec => []FailureIsFinal
<1>1. SurjectionInvariant => FailureIsFinal BY DEF SurjectionInvariant
<1> QED  BY SurjectionCorrect, <1>1, PTL

\* A proof that was made is for this output and these inputs, and verifies.
THEOREM MadeForThisOutput == SurjectionSpec => []CreatedIsForThisOutput
<1>1. SurjectionInvariant => CreatedIsForThisOutput BY DEF SurjectionInvariant
<1> QED  BY SurjectionCorrect, <1>1, PTL

\* What verifies has the asset of an input of the time of the verification.
THEOREM VerifiedAreSpent == SurjectionSpec => []VerifiedAssetIsSpent
<1>1. SurjectionInvariant => VerifiedAssetIsSpent BY DEF SurjectionInvariant
<1> QED  BY SurjectionCorrect, <1>1, PTL

----------------------------------------------------------------------------
(* Openings.                                                               *)

\* What each stage of a call says, apart from what else it is.
TagStage == [stage : {"tag"}, value : ClaimedValues, token : Tokens,
             vbf : Buffers, abf : Buffers]
GeneratorStage == [stage : {"generator"}, value : ClaimedValues, token : Tokens,
                   gen : Generator, vbf : Buffers, abf : Buffers \cup {"none"}]
OpenedStage == [stage : {"opened"}, value : ClaimedValues, token : Tokens,
                gen : Generator, commitment : RecomputedPoint]
State == {Idle, Refused, Broken} \cup TagStage \cup GeneratorStage \cup OpenedStage

\* The generator is the claimed token's, and under the claimed blinding as long
\* as that is in the Buffer it was read from.
GeneratorIsClaimed ==
  \A c \in Calls : call[c].stage = "generator" =>
    /\ call[c].gen.tag = call[c].token
    /\ c \notin touched => call[c].gen.r = Claimed(c).abf

\* A recomputed commitment is to the claimed value of the claimed token.
OpenedIsClaimed ==
  \A c \in Calls : call[c].stage = "opened" =>
    /\ call[c].value \in Amounts
    /\ call[c].gen.tag = call[c].token
    /\ \E vbf \in Scalars : call[c].commitment = Commit(call[c].value, vbf, call[c].gen)

OpeningInvariant == TypeOK /\ GeneratorIsClaimed /\ OpenedIsClaimed

----------------------------------------------------------------------------
(* Types.                                                                  *)

LEMMA StateType == TypeOK <=> /\ buffers \in [Buffers -> Scalars \cup {Malformed}]
                              /\ DOMAIN call = Calls /\ \A c \in Calls : call[c] \in State
                              /\ touched \subseteq {c \in Calls : UnderWay(c)}
BY DEF TypeOK, State, TagStage, GeneratorStage, OpenedStage

\* Where a call is tells what is known of it.
LEMMA Stages ==
  ASSUME NEW s \in State
  PROVE  /\ s.stage = "tag" <=> s \in TagStage
         /\ s.stage = "generator" <=> s \in GeneratorStage
         /\ s.stage = "opened" <=> s \in OpenedStage
         /\ s.stage = "idle" <=> s = Idle
BY DEF State, TagStage, GeneratorStage, OpenedStage, Idle, Refused, Broken

----------------------------------------------------------------------------
(* The steps.                                                              *)

LEMMA InitOpening == Init => OpeningInvariant
BY DEF Init, OpeningInvariant, TypeOK, GeneratorIsClaimed, OpenedIsClaimed, Idle

\* A step of one call that leaves the Buffers alone keeps the invariant when its
\* new state does.
LEMMA StepOfOneCall ==
  ASSUME OpeningInvariant, UNCHANGED buffers, NEW c \in Calls, NEW s \in State,
         Becomes(c, s),
         touched' = touched \/ touched' = touched \ {c},
         c \in touched' => s.stage \in {"tag", "generator"},
         s.stage = "generator" =>
           /\ s.gen.tag = s.token
           /\ c \notin touched' =>
                s.gen.r = IF s.abf = "none" THEN ZERO_TWEAK ELSE buffers[s.abf],
         s.stage = "opened" =>
           /\ s.value \in Amounts /\ s.gen.tag = s.token
           /\ \E vbf \in Scalars : s.commitment = Commit(s.value, vbf, s.gen)
  PROVE  OpeningInvariant'
<1>1. /\ DOMAIN call' = Calls /\ call'[c] = s
      /\ \A d \in Calls \ {c} : call'[d] = call[d]
      /\ touched' \subseteq touched /\ \A d \in Calls \ {c} : d \in touched <=> d \in touched'
  BY DEF Becomes, OpeningInvariant, TypeOK
<1>2. TypeOK'
  <2>1. \A d \in Calls : call'[d] \in State BY <1>1, StateType DEF OpeningInvariant
  <2>2. touched' \subseteq {d \in Calls : UnderWay(d)'}
    BY <1>1 DEF OpeningInvariant, TypeOK, UnderWay
  <2> QED  BY <1>1, <2>1, <2>2
           DEF OpeningInvariant, TypeOK, State, TagStage, GeneratorStage, OpenedStage
<1>3. GeneratorIsClaimed'
  <2> SUFFICES ASSUME NEW d \in Calls, call'[d].stage = "generator"
               PROVE  /\ call'[d].gen.tag = call'[d].token
                      /\ d \notin touched' => call'[d].gen.r = Claimed(d)'.abf
    BY DEF GeneratorIsClaimed
  <2>1. CASE d = c BY <1>1, <2>1 DEF Claimed
  <2>2. CASE d # c
    BY <1>1, <2>2 DEF Claimed, OpeningInvariant, GeneratorIsClaimed
  <2> QED  BY <2>1, <2>2
<1>4. OpenedIsClaimed'
  BY <1>1 DEF OpeningInvariant, OpenedIsClaimed
<1> QED  BY <1>2, <1>3, <1>4 DEF OpeningInvariant

LEMMA OpenAmountStep ==
  ASSUME OpeningInvariant, NEW c \in Calls, NEW value \in ClaimedValues,
         NEW token \in Tokens \cup {Malformed}, NEW vbf \in Buffers,
         OpenAmount(c, value, token, vbf)
  PROVE  OpeningInvariant'
<1> DEFINE s == IF ~TokenParses(token) THEN Refused
                ELSE [stage |-> "generator", value |-> value, token |-> token,
                      gen |-> derive_asset_tag(token), vbf |-> vbf, abf |-> "none"]
<1>1. Becomes(c, s) /\ UNCHANGED <<buffers, touched>> BY DEF OpenAmount
<1>2. s = Refused \/ /\ s \in GeneratorStage /\ s.abf = "none"
                     /\ s.gen.tag = s.token /\ s.gen.r = ZERO_TWEAK
  BY ScalarAssumption DEF TokenParses, GeneratorStage, derive_asset_tag,
     create_asset_commitment, Generator
<1>3. c \notin touched BY DEF OpenAmount, OpeningInvariant, TypeOK, UnderWay, Idle
<1> HIDE DEF s
<1>4. s \in State /\ s.stage # "opened" BY <1>2 DEF State, GeneratorStage, Refused
<1>5. Refused.stage # "generator" BY DEF Refused
<1> QED  BY <1>1, <1>2, <1>3, <1>4, <1>5, StepOfOneCall

LEMMA OpenFullStep ==
  ASSUME OpeningInvariant, NEW c \in Calls, NEW value \in ClaimedValues,
         NEW token \in Tokens \cup {Malformed}, NEW vbf \in Buffers, NEW abf \in Buffers,
         OpenFull(c, value, token, vbf, abf)
  PROVE  OpeningInvariant'
<1> DEFINE s == IF ~TokenParses(token) THEN Refused
                ELSE [stage |-> "tag", value |-> value, token |-> token,
                      vbf |-> vbf, abf |-> abf]
<1>1. Becomes(c, s) /\ UNCHANGED <<buffers, touched>> BY DEF OpenFull
<1>2. s = Refused \/ s \in TagStage BY DEF TokenParses, TagStage
<1>3. c \notin touched BY DEF OpenFull, OpeningInvariant, TypeOK, UnderWay, Idle
<1> HIDE DEF s
<1>4. s \in State /\ s.stage \notin {"generator", "opened"}
  BY <1>2 DEF State, TagStage, Refused
<1> QED  BY <1>1, <1>3, <1>4, StepOfOneCall

LEMMA CreateAssetCommitmentStep ==
  ASSUME OpeningInvariant, NEW c \in Calls, CreateAssetCommitment(c)
  PROVE  OpeningInvariant'
<1> DEFINE abf == buffers[call[c].abf]
           s == [stage |-> "generator", value |-> call[c].value, token |-> call[c].token,
                 gen |-> AssetCommitment(call[c].token, abf),
                 vbf |-> call[c].vbf, abf |-> call[c].abf]
<1>1. call[c] \in TagStage
  BY StateType, Stages DEF OpeningInvariant, CreateAssetCommitment
<1>2. abf \in Scalars \cup {Malformed} /\ call[c].abf \in Buffers
  BY <1>1 DEF TagStage, OpeningInvariant, TypeOK
<1>3. CASE TweakParses(abf)
  <2>1. Becomes(c, s) /\ UNCHANGED <<buffers, touched>> BY <1>3 DEF CreateAssetCommitment
  <2>2. s \in GeneratorStage /\ s.gen.tag = s.token /\ s.gen.r = abf /\ s.abf = call[c].abf
    BY <1>1, <1>2, <1>3
    DEF TweakParses, TagStage, GeneratorStage, AssetCommitment, create_asset_commitment, Generator
  <2>3. s \in State /\ s.stage = "generator" BY <2>2 DEF State
  <2> HIDE DEF s
  <2>4. s.abf # "none" BY <1>2, <2>2, OpeningAssumption
  <2> QED  BY <2>1, <2>2, <2>3, <2>4, StepOfOneCall
<1>4. CASE ~TweakParses(abf)
  <2>1. Becomes(c, Refused) /\ touched' = touched \ {c} /\ UNCHANGED buffers
    BY <1>4 DEF CreateAssetCommitment, Settles
  <2>2. Refused \in State /\ Refused.stage \notin {"generator", "opened"}
    BY DEF State, Refused
  <2> QED  BY <2>1, <2>2, StepOfOneCall
<1> QED  BY <1>3, <1>4

\* The conversion of a BigInt is an error, or a word that equals it.
LEMMA WordOfValue ==
  ASSUME NEW value \in ClaimedValues
  PROVE  /\ ToU64(value) = -1 <=> value \notin Amounts
         /\ ToU64(value) # -1 => value \in Amounts /\ ToU64(value) = value
<1> DEFINE end == 2 ^ WORD_BITS - 1
<1>1. Amounts = 0 .. end /\ value \in Int BY OpeningAssumption
<1>2. ToU64(value) = IF value \in 0 .. end THEN value ELSE -1 BY DEF ToU64
<1> HIDE DEF end
<1>3. -1 \notin Amounts /\ Amounts \subseteq Nat BY <1>1, AmountAssumption
<1> QED  BY <1>1, <1>2, <1>3

LEMMA CreateCommitmentStep ==
  ASSUME OpeningInvariant, NEW c \in Calls, CreateCommitment(c)
  PROVE  OpeningInvariant'
<1> DEFINE amount == ToU64(call[c].value)
           vbf == buffers[call[c].vbf]
           opened == [stage |-> "opened", value |-> call[c].value, token |-> call[c].token,
                      gen |-> call[c].gen, commitment |-> Commit(amount, vbf, call[c].gen)]
           s == IF amount = -1 \/ ~TweakParses(vbf) THEN Refused
                ELSE IF RejectedByCreateCommitment(amount, vbf) THEN Refused
                ELSE opened
<1>1. call[c] \in GeneratorStage
  BY StateType, Stages DEF OpeningInvariant, CreateCommitment
<1>2. vbf \in Scalars \cup {Malformed} /\ call[c].value \in ClaimedValues
  BY <1>1 DEF GeneratorStage, OpeningInvariant, TypeOK
<1>3. Settles(c, s) /\ UNCHANGED buffers BY DEF CreateCommitment
<1>4. s = Refused \/ (s = opened /\ amount \in Amounts /\ amount = call[c].value /\ vbf \in Scalars)
  BY <1>2, WordOfValue DEF TweakParses
<1>5. call[c].gen \in Generator /\ call[c].gen.tag = call[c].token
  BY <1>1 DEF OpeningInvariant, GeneratorIsClaimed, GeneratorStage
<1>6. CASE s = Refused
  <2>1. Refused \in State /\ Refused.stage \notin {"generator", "opened"}
    BY DEF State, Refused
  <2> HIDE DEF s
  <2> QED  BY <1>3, <1>6, <2>1, StepOfOneCall DEF Settles
<1>7. CASE s = opened /\ amount \in Amounts /\ amount = call[c].value /\ vbf \in Scalars
  <2>1. opened.commitment \in RecomputedPoint
    BY <1>5, <1>7 DEF RecomputedPoint
  <2>2. opened \in OpenedStage BY <1>1, <1>5, <2>1 DEF OpenedStage, GeneratorStage
  <2>3. /\ opened.stage = "opened" /\ opened.value \in Amounts
        /\ opened.gen.tag = opened.token
        /\ opened.commitment = Commit(opened.value, vbf, opened.gen)
    BY <1>5, <1>7
  <2> HIDE DEF s, opened, amount, vbf
  <2>4. opened \in State BY <2>2 DEF State
  <2> QED  BY <1>3, <1>7, <2>3, <2>4, StepOfOneCall DEF Settles
<1> QED  BY <1>4, <1>6, <1>7

LEMMA BreakStep ==
  ASSUME OpeningInvariant, NEW c \in Calls, Break(c)
  PROVE  OpeningInvariant'
<1>1. Broken \in State /\ Broken.stage \notin {"generator", "opened"} BY DEF State, Broken
<1> QED  BY <1>1, StepOfOneCall DEF Break, Settles

\* A write to a Buffer is either none of a call's or touches it.
LEMMA WriteStep ==
  ASSUME OpeningInvariant, NEW buffer \in Buffers, NEW bytes \in Scalars \cup {Malformed},
         Write(buffer, bytes)
  PROVE  OpeningInvariant'
<1>1. /\ buffers' = [buffers EXCEPT ![buffer] = bytes] /\ UNCHANGED call
      /\ touched' = touched \cup {c \in Calls : UnderWay(c) /\ buffer \in {call[c].vbf, call[c].abf}}
  BY DEF Write
<1>2. TypeOK' BY <1>1 DEF OpeningInvariant, TypeOK, UnderWay
<1>3. ASSUME NEW c \in Calls, call[c].stage = "generator", c \notin touched'
      PROVE  c \notin touched /\ Claimed(c)'.abf = Claimed(c).abf
  <2>1. call[c] \in GeneratorStage BY <1>3, StateType, Stages DEF OpeningInvariant
  <2>2. c \notin touched /\ buffer # call[c].abf BY <1>1, <1>3 DEF UnderWay
  <2> QED  BY <1>1, <2>1, <2>2 DEF Claimed, GeneratorStage, OpeningInvariant, TypeOK
<1>4. GeneratorIsClaimed'
  BY <1>1, <1>3 DEF OpeningInvariant, GeneratorIsClaimed
<1>5. OpenedIsClaimed' BY <1>1 DEF OpeningInvariant, OpenedIsClaimed
<1> QED  BY <1>2, <1>4, <1>5 DEF OpeningInvariant

LEMMA StepOpening == OpeningInvariant /\ [Next]_vars => OpeningInvariant'
<1> SUFFICES ASSUME OpeningInvariant, [Next]_vars PROVE OpeningInvariant'
  OBVIOUS
<1>1. CASE UNCHANGED vars
  BY <1>1 DEF vars, OpeningInvariant, TypeOK, UnderWay, GeneratorIsClaimed, OpenedIsClaimed, Claimed
<1>2. CASE Next
  BY <1>2, OpenAmountStep, OpenFullStep, CreateAssetCommitmentStep, CreateCommitmentStep,
     BreakStep, WriteStep DEF Next
<1> QED  BY <1>1, <1>2

----------------------------------------------------------------------------
(* The theorems.                                                           *)

\* What is known of every call in every state.
THEOREM OpeningCorrect == Spec => []OpeningInvariant
<1> QED  BY InitOpening, StepOpening, PTL DEF Spec

\* The state of the calls and of the Buffers keeps its type.
THEOREM OpeningType == Spec => []TypeOK
<1>1. OpeningInvariant => TypeOK BY DEF OpeningInvariant
<1> QED  BY OpeningCorrect, <1>1, PTL

\* Commitments to units of tokens are equal for equal amounts of equal tokens only.
LEMMA CommitBinds ==
  ASSUME NEW v \in Amounts, NEW w \in Amounts \ {0}, NEW a \in Scalars, NEW b \in Scalars,
         NEW f \in Generator, NEW g \in Generator, Commit(v, a, f) = Commit(w, b, g)
  PROVE  v = w /\ f.tag = g.tag
<1>1. Units(v, f.tag) = Units(w, g.tag) BY DEF Commit
<1>2. f.tag \in Tokens /\ g.tag \in Tokens BY DEF Generator
<1>3. Units(v, f.tag)[g.tag] = w BY <1>1, <1>2 DEF Units
<1> QED  BY <1>2, <1>3 DEF Units

\* No false claim ever matches an output that hides at least one unit.
THEOREM MatchesAreProofs == Spec => []MatchProvesClaim
<1>1. OpeningInvariant => MatchProvesClaim
  <2> SUFFICES ASSUME OpeningInvariant, NEW c \in Calls, NEW value \in Amounts \ {0},
                      NEW vbf \in Scalars, NEW gen \in Generator,
                      call[c].stage = "opened", call[c].commitment = Commit(value, vbf, gen)
               PROVE  call[c].value = value /\ call[c].token = gen.tag
    BY DEF MatchProvesClaim
  <2>1. call[c] \in OpenedStage BY StateType, Stages DEF OpeningInvariant
  <2>2. PICK b \in Scalars : call[c].commitment = Commit(call[c].value, b, call[c].gen)
    BY DEF OpeningInvariant, OpenedIsClaimed
  <2>3. call[c].value \in Amounts /\ call[c].gen.tag = call[c].token
    BY DEF OpeningInvariant, OpenedIsClaimed
  <2>4. call[c].gen \in Generator BY <2>1 DEF OpenedStage
  <2>5. Commit(call[c].value, b, call[c].gen) = Commit(value, vbf, gen) BY <2>2
  <2>6. call[c].value = value /\ call[c].gen.tag = gen.tag
    BY <2>3, <2>4, <2>5, CommitBinds
  <2> QED  BY <2>3, <2>6
<1> QED  BY OpeningCorrect, <1>1, PTL

\* A call that is under way is moved by its own primitives, or breaks.
LEMMA Movers ==
  ASSUME OpeningInvariant, Next, NEW c \in Calls, UnderWay(c), call'[c] # call[c],
         call'[c] # Broken
  PROVE  CreateAssetCommitment(c) \/ CreateCommitment(c)
<1>1. call[c] # Idle BY DEF UnderWay, Idle
<1>2. DOMAIN call = Calls BY DEF OpeningInvariant, TypeOK
<1>3. ASSUME NEW d \in Calls, NEW s, Becomes(d, s) PROVE d = c /\ call'[c] = s
  BY <1>2, <1>3 DEF Becomes
<1>4. ASSUME NEW d \in Calls, NEW value \in ClaimedValues, NEW token \in Tokens \cup {Malformed},
             NEW vbf \in Buffers,
             \/ OpenAmount(d, value, token, vbf)
             \/ \E abf \in Buffers : OpenFull(d, value, token, vbf, abf)
      PROVE  FALSE
  <2>1. call[d] = Idle BY <1>4 DEF OpenAmount, OpenFull
  <2>2. d = c BY <1>3, <1>4 DEF OpenAmount, OpenFull
  <2> QED  BY <1>1, <2>1, <2>2
<1>5. ASSUME NEW d \in Calls, CreateAssetCommitment(d) \/ CreateCommitment(d) PROVE d = c
  BY <1>3, <1>5 DEF CreateAssetCommitment, CreateCommitment, Settles
<1>6. ASSUME NEW d \in Calls, Break(d) PROVE FALSE
  BY <1>3, <1>6 DEF Break, Settles
<1>7. ASSUME NEW buffer \in Buffers, NEW bytes \in Scalars \cup {Malformed}, Write(buffer, bytes)
      PROVE  FALSE
  BY <1>7 DEF Write
<1> QED  BY <1>4, <1>5, <1>6, <1>7 DEF Next

\* What the last primitive of a call makes of it.
LEMMA LastPrimitive ==
  ASSUME OpeningInvariant, NEW c \in Calls, CreateCommitment(c)
  PROVE  /\ call[c] \in GeneratorStage
         /\ call'[c] \in {Refused, [stage |-> "opened", value |-> call[c].value,
               token |-> call[c].token, gen |-> call[c].gen,
               commitment |-> Commit(call[c].value, buffers[call[c].vbf], call[c].gen)]}
         /\ call'[c] = Refused =>
              \/ call[c].value \notin Amounts
              \/ buffers[call[c].vbf] = Malformed
              \/ call[c].value = 0 /\ buffers[call[c].vbf] = ZERO_TWEAK
<1> DEFINE amount == ToU64(call[c].value)
           vbf == buffers[call[c].vbf]
           Opened(v) == [stage |-> "opened", value |-> call[c].value, token |-> call[c].token,
                         gen |-> call[c].gen, commitment |-> Commit(v, vbf, call[c].gen)]
<1>1. call[c] \in GeneratorStage
  BY StateType, Stages DEF OpeningInvariant, CreateCommitment
<1>2. call[c].value \in ClaimedValues BY <1>1 DEF GeneratorStage
<1>3. call'[c] = IF amount = -1 \/ ~TweakParses(vbf) THEN Refused
                 ELSE IF RejectedByCreateCommitment(amount, vbf) THEN Refused
                 ELSE Opened(amount)
  BY DEF CreateCommitment, Settles, Becomes, OpeningInvariant, TypeOK
<1> HIDE DEF amount, vbf
<1>4. /\ amount = -1 <=> call[c].value \notin Amounts
      /\ amount # -1 => amount = call[c].value
  BY <1>2, WordOfValue DEF amount
<1>5. call'[c] = Refused \/ (call'[c] = Opened(amount) /\ amount = call[c].value)
  BY <1>3, <1>4
<1>6. Opened(amount) # Refused BY DEF Refused
<1>7. call'[c] = Refused =>
        call[c].value \notin Amounts \/ vbf = Malformed \/ (call[c].value = 0 /\ vbf = ZERO_TWEAK)
  BY <1>3, <1>4, <1>6 DEF TweakParses, RejectedByCreateCommitment
<1> QED  BY <1>1, <1>5, <1>7 DEF vbf

\* A call whose Buffers nobody writes to is about the claim it was made with.
LEMMA HeldIsOpened ==
  OpeningInvariant /\ [Next]_vars => \A c \in Calls \ touched : OpensOwnClaim(c)
<1>1. ASSUME OpeningInvariant, [Next]_vars, NEW c \in Calls \ touched,
             UnderWay(c), call'[c].stage = "opened"
      PROVE  LET gen == create_asset_commitment(call[c].token, Claimed(c).abf)
             IN  /\ call'[c].gen = gen
                 /\ call'[c].commitment = Commit(call[c].value, Claimed(c).vbf, gen)
  <2>1. call'[c] # call[c] /\ call'[c] # Broken /\ Next
    BY <1>1 DEF UnderWay, Broken, vars
  <2>2. CreateCommitment(c)
    <3>1. CASE CreateAssetCommitment(c)
      <4>1. call'[c].stage = "generator" \/ call'[c] = Refused
        BY <1>1, <3>1 DEF CreateAssetCommitment, Settles, Becomes, OpeningInvariant, TypeOK
      <4> QED  BY <1>1, <4>1 DEF Refused
    <3> QED  BY <1>1, <2>1, <3>1, Movers
  <2>3. /\ call[c] \in GeneratorStage /\ call'[c].gen = call[c].gen
        /\ call'[c].commitment = Commit(call[c].value, buffers[call[c].vbf], call[c].gen)
    BY <1>1, <2>2, LastPrimitive DEF Refused
  <2>4. call[c].gen.tag = call[c].token /\ call[c].gen.r = Claimed(c).abf
    BY <1>1, <2>2 DEF OpeningInvariant, GeneratorIsClaimed, CreateCommitment
  <2>5. call[c].gen = create_asset_commitment(call[c].token, Claimed(c).abf)
    BY <2>3, <2>4 DEF GeneratorStage, Generator, create_asset_commitment
  <2> QED  BY <2>3, <2>5 DEF Claimed
<1> QED  BY <1>1 DEF OpensOwnClaim

\* And it is refused for what is wrong with that claim only.
LEMMA HeldIsNotRefused ==
  OpeningInvariant /\ [Next]_vars => \A c \in Calls \ touched : RefusedForItsClaim(c)
<1>1. ASSUME OpeningInvariant, [Next]_vars, NEW c \in Calls \ touched,
             UnderWay(c), call'[c] = Refused
      PROVE  \/ call[c].value \notin 0 .. 2 ^ WORD_BITS - 1
             \/ Malformed \in {Claimed(c).vbf, Claimed(c).abf}
             \/ call[c].value = 0 /\ Claimed(c).vbf = ZERO_TWEAK
  <2>1. call'[c] # call[c] /\ call'[c] # Broken /\ Next
    BY <1>1 DEF UnderWay, Refused, Broken, vars
  <2>2. CASE CreateAssetCommitment(c)
    <3>1. call[c] \in TagStage
      BY <1>1, <2>2, StateType, Stages DEF OpeningInvariant, CreateAssetCommitment
    <3>2. Claimed(c).abf = buffers[call[c].abf]
      BY <3>1, OpeningAssumption DEF TagStage, Claimed
    <3>3. ~TweakParses(buffers[call[c].abf])
      BY <1>1, <2>2 DEF CreateAssetCommitment, Becomes, Refused, OpeningInvariant, TypeOK
    <3> QED  BY <3>2, <3>3 DEF TweakParses
  <2>3. CASE CreateCommitment(c)
    <3>1. \/ call[c].value \notin Amounts
          \/ buffers[call[c].vbf] = Malformed
          \/ call[c].value = 0 /\ buffers[call[c].vbf] = ZERO_TWEAK
      BY <1>1, <2>3, LastPrimitive
    <3>2. Claimed(c).vbf = buffers[call[c].vbf] BY DEF Claimed
    <3> QED  BY <3>1, <3>2, OpeningAssumption
  <2> QED  BY <1>1, <2>1, <2>2, <2>3, Movers
<1> QED  BY <1>1 DEF RefusedForItsClaim

\* However calls interleave and other code writes, a call whose Buffers are left
\* alone is opened as its claim says, or refused for what is wrong with it.
THEOREM HeldClaims == Spec => HeldClaimGetsThrough
<1>1. OpeningInvariant /\ [Next]_vars =>
        [\A c \in Calls \ touched : OpensOwnClaim(c) /\ RefusedForItsClaim(c)]_vars
  BY HeldIsOpened, HeldIsNotRefused
<1> QED  BY OpeningCorrect, <1>1, PTL DEF Spec, HeldClaimGetsThrough
=============================================================================
