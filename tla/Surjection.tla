----------------------------- MODULE Surjection -----------------------------
(***************************************************************************)
(* Surjection proofs: that the asset of an output is the asset of one of   *)
(* the inputs (crypto-core/src/surjection.rs and its callers in the three  *)
(* bindings).                                                              *)
(*                                                                         *)
(* The wallet keeps a domain, one entry for each input of its transaction: *)
(* the input's generator, which is on chain, and the tag and blinding it   *)
(* believes to be inside.  The library looks for the output's tag in a     *)
(* random subset of the domain, so a sound proof may not be found; the     *)
(* code tries again.  Everyone else verifies against the generators of the *)
(* transaction as it is by then.                                           *)
(***************************************************************************)
EXTENDS Naturals, Sequences, FiniteSets, Functions

CONSTANTS Tags, Blindings,
          MAX_SURJECTION_DOMAIN,      \* 256 in the code
          SURJECTION_PROOF_ATTEMPTS,  \* 64
          SubsetSize,                 \* tags the library picks in one attempt, 3
          Entries,                    \* the domain entries the wallet may have
          ForeignProofs,              \* proofs made without create_surjection_proof
          MalformedBytes,             \* bytes that do not parse
          MaxInputs                   \* bound on the inputs of the transaction

AssetGenerator == [tag : Tags, r : Blindings]

Entry == [gen : AssetGenerator \cup {MalformedBytes}, tag : Tags, r : Blindings]

\* sound: the prover knew which input has the output's tag, and both blindings.
Proof == [codomain : AssetGenerator, domain : Seq(AssetGenerator), sound : BOOLEAN]

TagsOf(gens) == {gens[j].tag : j \in DOMAIN gens}

Possible(p) == p.sound => p.codomain.tag \in TagsOf(p.domain)

ASSUME SurjectionAssumption ==
  /\ MAX_SURJECTION_DOMAIN \in Nat \ {0}
  /\ SURJECTION_PROOF_ATTEMPTS \in Nat \ {0}
  /\ SubsetSize \in Nat \ {0}
  /\ MaxInputs \in Nat
  /\ Entries \subseteq Entry
  /\ MalformedBytes \notin AssetGenerator /\ MalformedBytes \notin Proof
  /\ \A p \in ForeignProofs : p \in Proof /\ Possible(p)

VARIABLES
  domain,    \* the wallet's entry for each input of the transaction, in order
  codomain,  \* the output being proved, or the last one
  attempt,   \* the pass of the retry loop, 0 outside of the call
  proof,     \* the set of the last proof made, if any
  last       \* the last call that returned, with what it returned and about what

surjectionVars == <<domain, codomain, attempt, proof, last>>

NoCall == [call |-> "none"]

SurjectionTypeOK ==
  /\ domain \in Seq(Entries) /\ Len(domain) <= MaxInputs
  /\ codomain \in AssetGenerator \cup {MalformedBytes}
  /\ attempt \in 0 .. SURJECTION_PROOF_ATTEMPTS
  /\ proof \subseteq Proof /\ Cardinality(proof) <= 1
  /\ \/ last = NoCall
     \/ last \in [call : {"create"}, verdict : {"ok", "throw", "abort"},
                  tries : 0 .. SURJECTION_PROOF_ATTEMPTS]
     \/ last.call = "verify" /\ last.verdict \in {"true", "false", "throw"}

SurjectionInit ==
  /\ domain = <<>>
  /\ codomain \in AssetGenerator
  /\ attempt = 0 /\ proof = {} /\ last = NoCall

\* The generators on chain.
Gens(entries) == [j \in DOMAIN entries |-> entries[j].gen]

----------------------------------------------------------------------------
(* Assembling the transaction: an input is added, or two change places.    *)

AddInput(entry) ==
  /\ attempt = 0 /\ Len(domain) < MaxInputs
  /\ domain' = Append(domain, entry)
  /\ last' = NoCall
  /\ UNCHANGED <<codomain, attempt, proof>>

SwapLastInputs ==
  /\ attempt = 0 /\ Len(domain) > 1
  /\ LET n == Len(domain)
     IN  domain' = [domain EXCEPT ![n - 1] = domain[n], ![n] = domain[n - 1]]
  /\ last' = NoCall
  /\ UNCHANGED <<codomain, attempt, proof>>

----------------------------------------------------------------------------
(* Making a proof.                                                         *)

Matching == {j \in DOMAIN domain : domain[j].tag = codomain.tag}

\* Whether the random subset of one attempt may hold no entry with the tag.
MayMiss ==
  Cardinality(DOMAIN domain \ Matching) >=
    (IF SubsetSize < Len(domain) THEN SubsetSize ELSE Len(domain))

Truthful(entry) == entry.gen = [tag |-> entry.tag, r |-> entry.r]

\* The library may refuse an entry with the blinding of the output, which would
\* show the link, or one that does not open its generator.  It does not promise
\* to: a proof from a wrong entry is made and does not verify.
MayRefuse(entry) == ~Truthful(entry) \/ entry.r = codomain.r

\* Variant: takes the blinding of the input for that of the output.
NewProofOfInputBlinding(j) ==
  [codomain |-> [codomain EXCEPT !.r = domain[j].r], domain |-> Gens(domain), sound |-> TRUE]

NewProof(j) ==
  [codomain |-> codomain, domain |-> Gens(domain), sound |-> Truthful(domain[j])]

\* The illegal-argument callback of SurjectionProof::new.
LibraryAborts == Len(domain) > MAX_SURJECTION_DOMAIN

\* What SurjectionProof::new may return: the set of a proof, or no proof.
AttemptOutcomes ==
  {{NewProof(j)} : j \in Matching}
    \cup (IF MayMiss \/ \E j \in Matching : MayRefuse(domain[j]) THEN {{}} ELSE {})

\* Variant: the bound is one too high.
OutOfBoundsByOne == domain = <<>> \/ Len(domain) > MAX_SURJECTION_DOMAIN + 1

\* The two domain checks of create_surjection_proof.
OutOfBounds == domain = <<>> \/ Len(domain) > MAX_SURJECTION_DOMAIN

CreateReturns(verdict, tries) ==
  /\ attempt' = 0
  /\ last' = [call |-> "create", verdict |-> verdict, tries |-> tries]

\* The bindings parse the output and every entry, then the core checks the size.
CreateSurjectionProof(c) ==
  /\ attempt = 0
  /\ codomain' = c
  /\ IF MalformedBytes \in {c} \cup Range(Gens(domain)) \/ OutOfBounds
     THEN CreateReturns("throw", 0)
     ELSE attempt' = 1 /\ last' = NoCall
  /\ UNCHANGED <<domain, proof>>

\* Variant: the first error is returned.
FirstErrorReturned ==
  /\ {} \in AttemptOutcomes
  /\ CreateReturns("throw", attempt)
  /\ UNCHANGED proof

\* Variant: one pass too many.
RetriesOnceMore ==
  /\ {} \in AttemptOutcomes
  /\ IF attempt <= SURJECTION_PROOF_ATTEMPTS
     THEN attempt' = attempt + 1 /\ UNCHANGED last
     ELSE CreateReturns("throw", attempt)
  /\ UNCHANGED proof

\* The library found no proof in this pass.
NoProof ==
  /\ {} \in AttemptOutcomes
  /\ IF attempt < SURJECTION_PROOF_ATTEMPTS
     THEN attempt' = attempt + 1 /\ UNCHANGED last
     ELSE CreateReturns("throw", attempt)
  /\ UNCHANGED proof

\* One pass of the retry loop.
Attempt ==
  /\ attempt # 0
  /\ IF LibraryAborts
     THEN CreateReturns("abort", attempt) /\ UNCHANGED proof
     ELSE \/ NoProof
          \/ /\ proof' \in AttemptOutcomes \ {{}}
             /\ CreateReturns("ok", attempt)
  /\ UNCHANGED <<domain, codomain>>

----------------------------------------------------------------------------
(* Verifying.                                                              *)

\* Variant: the output the proof is about is not compared.
VerifyAnyOutput(p, c, gens) == p.sound /\ p.domain = gens

\* The ring of a proof binds the output and all the inputs in order.
verify_surjection_proof(p, c, gens) == p.sound /\ p.codomain = c /\ p.domain = gens

\* deserialize_surjection_proof, which also refuses more than 4096 bytes.
ProofParses(p) == p # MalformedBytes

\* verify_surjection_proof of the node and browser bindings.
BindingVerdict(p, c, gens) ==
  IF ~ProofParses(p) \/ c = MalformedBytes \/ MalformedBytes \in Range(gens) THEN "throw"
  ELSE IF verify_surjection_proof(p, c, gens) THEN "true" ELSE "false"

\* Any proof and output, against the inputs the transaction has by now.
\* Bound: not twice in a row, which would show nothing new.
VerifySurjectionProof ==
  /\ attempt = 0 /\ last.call # "verify"
  /\ \E p \in proof \cup ForeignProofs \cup {MalformedBytes},
        c \in AssetGenerator \cup {MalformedBytes} :
       last' = [call |-> "verify", verdict |-> BindingVerdict(p, c, Gens(domain)),
                proof |-> p, codomain |-> c]
  /\ UNCHANGED <<domain, codomain, attempt, proof>>

SurjectionNext ==
  \/ \E entry \in Entries : AddInput(entry)
  \/ SwapLastInputs
  \/ \E c \in AssetGenerator \cup {MalformedBytes} : CreateSurjectionProof(c)
  \/ Attempt
  \/ VerifySurjectionProof

SurjectionSpec == SurjectionInit /\ [][SurjectionNext]_surjectionVars

----------------------------------------------------------------------------
(* Properties.                                                             *)

\* No domain of any size reaches the argument check of libsecp256k1 that takes
\* the process down.
NeverAborts == ~(last.call = "create" /\ last.verdict = "abort")

\* create_surjection_proof fails only for a reason: a domain it must refuse, or
\* every one of its attempts failed, which cannot be when all the entries with
\* the output's tag are good and each subset holds one.  Bad luck in one attempt
\* is not a reason.
FailureIsFinal ==
  last.call = "create" /\ last.verdict = "throw" =>
    \/ MalformedBytes \in {codomain} \cup Range(Gens(domain))
    \/ domain = <<>> \/ Len(domain) > MAX_SURJECTION_DOMAIN
    \/ /\ last.tries = SURJECTION_PROOF_ATTEMPTS
       /\ MayMiss \/ \E j \in Matching : MayRefuse(domain[j])

\* When it does not fail it has a proof for this output and these inputs; the
\* output's tag is one the wallet gave for an input, and if what it gave is true
\* the bindings accept the proof.
CreatedIsForThisOutput ==
  last.call = "create" /\ last.verdict = "ok" =>
    /\ codomain.tag \in TagsOf(domain)
    /\ \E p \in proof :
         (\A j \in Matching : Truthful(domain[j])) =>
           BindingVerdict(p, codomain, Gens(domain)) = "true"

\* An output that verifies has the asset of an input the transaction has at that
\* time, whoever made the proof and whatever happened to the inputs since.
VerifiedAssetIsSpent ==
  last.call = "verify" /\ last.verdict = "true" => last.codomain.tag \in TagsOf(Gens(domain))
=============================================================================
