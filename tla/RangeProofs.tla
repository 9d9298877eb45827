----------------------------- MODULE RangeProofs -----------------------------
(***************************************************************************)
(* Range proofs: making them, verifying one at the binding, and verifying  *)
(* a batch (crypto-core/src/rangeproof.rs, verify_range_proof of the node  *)
(* and browser bindings).                                                  *)
(*                                                                         *)
(* A proof shows that its commitment hides a value between min and         *)
(* min + 2^bits - 1.  Both are public, and so is the proof's size, which   *)
(* depends on bits.  Words have WORD_BITS bits and created proofs          *)
(* RANGE_PROOF_BITS; 64 and 40 in the code.                                *)
(***************************************************************************)
EXTENDS Integers, Sequences, FiniteSets

CONSTANTS WORD_BITS, RANGE_PROOF_BITS,
          MAX_RANGE_PROOF_SIZE,
          Generators,
          MalformedBytes,      \* bytes that do not parse
          ForeignProofs,       \* proofs made without create_range_proof
          ForeignCommitments,  \* and the commitments they may travel with
          BatchProofs, BatchCommitments,  \* those that callers put into a batch
          MaxBatch             \* bound on the length of a batch

\* 2 to the power n, for the numbers of bits that a word has.
Pow2[n \in 0 .. WORD_BITS] == IF n = 0 THEN 1 ELSE 2 * Pow2[n - 1]

MAX_PROVABLE_AMOUNT == Pow2[RANGE_PROOF_BITS]

U64 == 0 .. Pow2[WORD_BITS] - 1

\* A commitment may hide any scalar, even one that is not a u64: 2^WORD_BITS
\* stands for those.
Commitment == [value : 0 .. Pow2[WORD_BITS], gen : Generators]

\* sound: the proof was made by a prover who knows the value and the blinding.
Proof == [of : Commitment, min : U64, bits : 1 .. WORD_BITS, sound : BOOLEAN]

Covers(p, v) == v \in p.min .. p.min + Pow2[p.bits] - 1

\* The proofs that can exist: the library lets a range reach no further than a
\* word does, and a sound proof tells the truth.
Possible(p) ==
  /\ p.min + Pow2[p.bits] - 1 \in U64
  /\ p.sound => Covers(p, p.of.value)

ASSUME RangeProofAssumption ==
  /\ WORD_BITS \in Nat /\ RANGE_PROOF_BITS \in 1 .. WORD_BITS - 1
  /\ ForeignProofs \subseteq {p \in Proof : Possible(p)}
  /\ ForeignCommitments \subseteq Commitment
  /\ BatchProofs \subseteq ForeignProofs /\ BatchCommitments \subseteq ForeignCommitments
  /\ MalformedBytes \notin Generators \cup Commitment \cup Proof
  /\ MaxBatch \in Nat

VARIABLES
  created,      \* the proofs create_range_proof made
  proofs, commitments, generators,  \* the three lists of a batch
  i,            \* the index the batch loop has reached, 0 outside of it
  last          \* the last call that returned, with what it returned and about what

rangeVars == <<created, proofs, commitments, generators, i, last>>

NoCall == [call |-> "none"]

RangeTypeOK ==
  /\ created \subseteq Proof
  /\ proofs \in Seq(Proof) /\ commitments \in Seq(Commitment)
  /\ generators \in Seq(Generators)
  /\ i \in 0 .. MaxBatch + 1
  /\ \/ last = NoCall
     \/ last \in [call : {"create"}, amount : U64, ok : BOOLEAN]
     \/ last.call = "verify" /\ last.verdict \in {"true", "false", "throw"}
     \/ last \in [call : {"batch"}, verdict : {"ok", "lengths", "failed"}, at : 0 .. MaxBatch]

RangeInit ==
  /\ created = {}
  /\ proofs = <<>> /\ commitments = <<>> /\ generators = <<>>
  /\ i = 0 /\ last = NoCall

----------------------------------------------------------------------------
(* Making proofs.                                                          *)

Bits(v) == CHOOSE n \in 1 .. WORD_BITS : v < Pow2[n] /\ (n = 1 \/ v >= Pow2[n - 1])

\* Variant: no floor on the bits, so that the smallest amount needs none.
NewProofWithoutFloor(amount, c) ==
  [of |-> c, min |-> 1, sound |-> TRUE, bits |-> IF amount = 1 THEN 0 ELSE Bits(amount - 1)]

\* RangeProof::new with min_value 1 and min_bits RANGE_PROOF_BITS, which is only
\* a floor: the library widens the proof to the bits of the value.
NewProof(amount, c) ==
  [of |-> c, min |-> 1, sound |-> TRUE,
   bits |-> IF Bits(amount - 1) > RANGE_PROOF_BITS THEN Bits(amount - 1) ELSE RANGE_PROOF_BITS]

\* The bytes of a proof: its header, the ring commitments but one, the scalars.
ProofSize(p) ==
  LET rings == (p.bits + 1) \div 2
  IN  (IF p.min = 0 THEN 2 ELSE 10) + 32 * (2 * p.bits + rings) + (rings + 6) \div 8

\* The largest proof that the bindings take is no smaller than one of full width.
ASSUME SizeAssumption ==
  ProofSize([min |-> 1, bits |-> RANGE_PROOF_BITS]) <= MAX_RANGE_PROOF_SIZE

\* Variants: no upper bound; an exclusive upper bound.
ProvableAboveZero(amount) == amount # 0
ProvableBelowMax(amount) == amount # 0 /\ amount < MAX_PROVABLE_AMOUNT

\* The amounts create_range_proof lets through to the library.
Provable(amount) == amount # 0 /\ amount <= MAX_PROVABLE_AMOUNT

CreateRangeProof(amount, gen) ==
  /\ i = 0
  /\ created' = IF Provable(amount)
                THEN created \cup {NewProof(amount, [value |-> amount, gen |-> gen])}
                ELSE created
  /\ last' = [call |-> "create", amount |-> amount, ok |-> Provable(amount)]
  /\ UNCHANGED <<proofs, commitments, generators, i>>

----------------------------------------------------------------------------
(* Verifying.                                                              *)

\* The library's verify: the proof is this commitment's under this generator.
LibraryVerify(p, c, gen) == p.sound /\ p.of = c /\ gen = c.gen

\* Variant: lets a range from zero through.
RangeFromZero(p) == p.min >= 0

\* The check on range.start, which core, batch and bindings all make.
RangeIsPositive(p) == p.min >= 1

verify_range_proof(p, c, gen) == LibraryVerify(p, c, gen) /\ RangeIsPositive(p)

\* deserialize_range_proof
ProofParses(p) == p # MalformedBytes /\ ProofSize(p) <= MAX_RANGE_PROOF_SIZE

\* Variant: a proof that does not parse is one that does not verify.
VerifyNeverThrows(p, c, gen) ==
  IF c = MalformedBytes \/ gen = MalformedBytes THEN "throw"
  ELSE IF ProofParses(p) /\ verify_range_proof(p, c, gen) THEN "true" ELSE "false"

\* verify_range_proof of the bindings.
BindingVerdict(p, c, gen) ==
  IF ~ProofParses(p) \/ c = MalformedBytes \/ gen = MalformedBytes THEN "throw"
  ELSE IF verify_range_proof(p, c, gen) THEN "true" ELSE "false"

CreatedCommitments == {p.of : p \in created}

\* Bound: not twice in a row nor beside a batch, which would show nothing new.
VerifyOne ==
  /\ i = 0 /\ last.call # "verify" /\ <<proofs, commitments, generators>> = <<<<>>, <<>>, <<>>>>
  /\ \E p \in ForeignProofs \cup created \cup {MalformedBytes},
        c \in ForeignCommitments \cup CreatedCommitments \cup {MalformedBytes},
        gen \in Generators \cup {MalformedBytes} :
       last' = [call |-> "verify", verdict |-> BindingVerdict(p, c, gen),
                proof |-> p, commitment |-> c, gen |-> gen]
  /\ UNCHANGED <<created, proofs, commitments, generators, i>>

\* The caller of a batch builds its three lists apart.
AddToBatch ==
  /\ i = 0
  /\ \/ \E p \in BatchProofs : Len(proofs) < MaxBatch /\ proofs' = Append(proofs, p)
        /\ UNCHANGED <<commitments, generators>>
     \/ \E c \in BatchCommitments :
          Len(commitments) < MaxBatch /\ commitments' = Append(commitments, c)
        /\ UNCHANGED <<proofs, generators>>
     \/ \E gen \in Generators : Len(generators) < MaxBatch /\ generators' = Append(generators, gen)
        /\ UNCHANGED <<proofs, commitments>>
  /\ last' = NoCall
  /\ UNCHANGED <<created, i>>

\* Variant: zip decides on the length.
LengthsIgnored == FALSE

ListsDiffer == Len(proofs) # Len(commitments) \/ Len(proofs) # Len(generators)

BatchReturns(verdict, at) ==
  i' = 0 /\ last' = [call |-> "batch", verdict |-> verdict, at |-> at]

StartBatch ==
  /\ i = 0
  /\ IF ListsDiffer THEN BatchReturns("lengths", 0)
                      ELSE i' = 1 /\ last' = NoCall
  /\ UNCHANGED <<created, proofs, commitments, generators>>

\* The zip of the three lists ends with the shortest of them.
Zipped(j) == j <= Len(proofs) /\ j <= Len(commitments) /\ j <= Len(generators)

BatchStep ==
  /\ i # 0
  /\ IF ~Zipped(i)
     THEN BatchReturns("ok", 0)
     ELSE IF verify_range_proof(proofs[i], commitments[i], generators[i])
     THEN i' = i + 1 /\ UNCHANGED last
     ELSE BatchReturns("failed", i)
  /\ UNCHANGED <<created, proofs, commitments, generators>>

RangeNext ==
  \/ \E amount \in U64, gen \in Generators : CreateRangeProof(amount, gen)
  \/ VerifyOne
  \/ AddToBatch
  \/ StartBatch
  \/ BatchStep

RangeSpec == RangeInit /\ [][RangeNext]_rangeVars

----------------------------------------------------------------------------
(* Properties.                                                             *)

\* What a proof that create_range_proof made shows in public, its size and its
\* range, does not depend on the amount in it.
CreatedProofsLookAlike ==
  \A p, q \in created : p.min = q.min /\ p.bits = q.bits /\ ProofSize(p) = ProofSize(q)

\* create_range_proof refuses nothing that such a proof can show, its largest
\* amount included, and the bindings accept what it makes.
ProvableIsAccepted ==
  /\ last.call = "create" /\ ~last.ok => last.amount \notin 1 .. MAX_PROVABLE_AMOUNT
  /\ \A p \in created : BindingVerdict(p, p.of, p.of.gen) = "true"

\* A verified commitment hides a value that is not zero and fits a word: sums of
\* such values do not wrap around the group.
VerifiedIsPositiveWord ==
  LET positiveWord(c) == c.value \in U64 \ {0}
  IN  CASE last.call = "verify" /\ last.verdict = "true" -> positiveWord(last.commitment)
        [] last.call = "batch" /\ last.verdict = "ok" ->
             \A n \in 1 .. Len(commitments) : positiveWord(commitments[n])
        [] OTHER -> TRUE

\* The batch accepts when each of its proofs verifies alone, none is left out,
\* and otherwise names the first that does not.
BatchIsEachInTurn ==
  LET alone(n) == verify_range_proof(proofs[n], commitments[n], generators[n])
      same == Len(proofs) = Len(commitments) /\ Len(proofs) = Len(generators)
  IN  last.call = "batch" =>
        CASE last.verdict = "ok" -> same /\ \A n \in 1 .. Len(proofs) : alone(n)
          [] last.verdict = "failed" ->
               same /\ ~alone(last.at) /\ \A n \in 1 .. last.at - 1 : alone(n)
          [] OTHER -> ~same

\* A verify call answers true or false to what parses and throws on the rest:
\* the error contract of types.ts.
FalseMeansParsed ==
  last.call = "verify" =>
    (last.verdict # "throw" <=>
       /\ MalformedBytes \notin {last.proof, last.commitment, last.gen}
       /\ ProofSize(last.proof) <= MAX_RANGE_PROOF_SIZE)
=============================================================================
