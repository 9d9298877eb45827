------------------------ MODULE VerificationProofs --------------------------
(***************************************************************************)
(* Proofs about what verifiers accept: range proofs, alone and in batches of*)
(* any length, for any word and proof width and any possible proofs made   *)
(* elsewhere (RangeProofs), and the answers of the bindings to any amounts,*)
(* bytes and lists of any length (Verifiers).                              *)
(***************************************************************************)
EXTENDS RangeProofs, Verifiers, CommitmentsProofs

----------------------------------------------------------------------------
(* Range proofs.                                                           *)

\* The proof at n of the batch verifies alone.
Alone(n) == verify_range_proof(proofs[n], commitments[n], generators[n])

IsPositiveWord(c) == c.value \in U64 \ {0}

ListsTyped ==
  /\ proofs \in Seq(BatchProofs) /\ commitments \in Seq(BatchCommitments)
  /\ generators \in Seq(Generators)
  /\ Len(proofs) <= MaxBatch /\ Len(commitments) <= MaxBatch
  /\ i \in Nat

\* create_range_proof proves positive words only, all at the width of the floor.
CreatedIsPositive ==
  \A p \in created :
    /\ IsPositiveWord(p.of)
    /\ p \in Proof /\ p.sound /\ p.min = 1 /\ p.bits = RANGE_PROOF_BITS

LastTyped ==
  \/ last = NoCall
  \/ last \in [call : {"create"}, amount : U64, ok : BOOLEAN]
  \/ last.call = "verify" /\ last.verdict \in {"true", "false", "throw"}
  \/ last \in [call : {"batch"}, verdict : {"ok", "lengths", "failed"}, at : 0 .. MaxBatch]

\* create_range_proof refuses only what no such proof can show.
RefusesOnlyUnprovable ==
  last.call = "create" /\ ~last.ok => last.amount \notin 1 .. MAX_PROVABLE_AMOUNT

\* What the loop of a batch has found when it reaches i.
LoopSoFar ==
  i # 0 => /\ ~ListsDiffer /\ i <= Len(proofs) + 1
           /\ \A n \in 1 .. i - 1 : Alone(n)

VerifiedOne ==
  last.call = "verify" /\ last.verdict = "true" => IsPositiveWord(last.commitment)

RangeInvariant ==
  /\ ListsTyped /\ CreatedIsPositive /\ LoopSoFar /\ LastTyped /\ RefusesOnlyUnprovable
  /\ VerifiedOne /\ BatchIsEachInTurn /\ FalseMeansParsed

----------------------------------------------------------------------------
(* Powers of two.                                                          *)

\* Pow2 is the function that its definition asks for.
LEMMA Powers ==
  /\ Pow2 \in [0 .. WORD_BITS -> Nat] /\ Pow2[0] = 1
  /\ \A n \in 1 .. WORD_BITS : Pow2[n] = 2 * Pow2[n - 1]
<1> DEFINE step == [n \in 1 .. WORD_BITS |-> [a \in Nat |-> 2 * a]]
           IsPow2(f) == f = [n \in 0 .. WORD_BITS |-> IF n = 0 THEN 1 ELSE 2 * f[n - 1]]
<1>1. WORD_BITS \in Nat BY RangeProofAssumption
<1>2. step \in [1 .. WORD_BITS -> [Nat -> Nat]] OBVIOUS
<1>3. PICK f \in [0 .. WORD_BITS -> Nat] : IsRecursion(f, WORD_BITS, 1, step)
  <2> HIDE DEF step
  <2> QED  BY <1>1, <1>2, RecursionExists
<1>4. ASSUME NEW n \in 0 .. WORD_BITS
      PROVE  f[n] = IF n = 0 THEN 1 ELSE 2 * f[n - 1]
  <2>1. f[n] = IF n = 0 THEN 1 ELSE step[n][f[n - 1]] BY <1>3 DEF IsRecursion
  <2> QED  BY <1>1, <2>1
<1>5. IsPow2(f) BY <1>4
<1>6. Pow2 = CHOOSE g : IsPow2(g) BY DEF Pow2
<1> HIDE DEF IsPow2
<1>7. IsPow2(Pow2) BY <1>5, <1>6
<1>8. Pow2 = [n \in 0 .. WORD_BITS |-> IF n = 0 THEN 1 ELSE 2 * Pow2[n - 1]]
  BY <1>7 DEF IsPow2
<1>9. /\ Pow2[0] = 1
      /\ \A n \in 1 .. WORD_BITS : Pow2[n] = 2 * Pow2[n - 1]
  BY <1>1, <1>8
<1>10. \A n \in 0 .. WORD_BITS : Pow2[n] \in Nat
  <2> DEFINE T == {n \in 0 .. WORD_BITS : Pow2[n] \in Nat}
  <2>1. 0 \in T BY <1>1, <1>9
  <2>2. ASSUME NEW n \in 0 .. WORD_BITS - 1, n \in T PROVE n + 1 \in T
    <3>1. n + 1 \in 1 .. WORD_BITS /\ n + 1 - 1 = n BY <1>1
    <3>2. Pow2[n + 1] = 2 * Pow2[n] BY <1>9, <3>1
    <3> QED  BY <2>2, <3>1, <3>2
  <2> HIDE DEF T
  <2>3. 0 .. WORD_BITS \subseteq T BY <1>1, <2>1, <2>2, Induction
  <2> QED  BY <2>3 DEF T
<1> QED  BY <1>8, <1>9, <1>10

\* They grow.
LEMMA PowersGrow ==
  ASSUME NEW n \in 0 .. WORD_BITS, NEW m \in 0 .. n
  PROVE  Pow2[m] <= Pow2[n] /\ Pow2[m] >= 1
<1>1. WORD_BITS \in Nat BY RangeProofAssumption
<1>2. /\ \A k \in 0 .. WORD_BITS : Pow2[k] \in Nat
      /\ Pow2[0] = 1
      /\ \A k \in 0 .. WORD_BITS - 1 : Pow2[k + 1] = 2 * Pow2[k]
  <2>1. \A k \in 0 .. WORD_BITS - 1 : k + 1 \in 1 .. WORD_BITS /\ k + 1 - 1 = k BY <1>1
  <2> QED  BY <2>1, Powers
<1> DEFINE T == {k \in 0 .. WORD_BITS : Pow2[k] >= 1 /\ \A j \in 0 .. k : Pow2[j] <= Pow2[k]}
<1>3. 0 \in T BY <1>1, <1>2
<1>4. ASSUME NEW k \in 0 .. WORD_BITS - 1, k \in T PROVE k + 1 \in T
  <2>1. k + 1 \in 0 .. WORD_BITS /\ Pow2[k + 1] = 2 * Pow2[k] /\ Pow2[k] \in Nat BY <1>1, <1>2
  <2>2. Pow2[k] >= 1 /\ \A j \in 0 .. k : Pow2[j] <= Pow2[k] BY <1>4
  <2>3. ASSUME NEW j \in 0 .. k + 1 PROVE Pow2[j] <= Pow2[k + 1]
    <3>1. j \in 0 .. k \/ j = k + 1 OBVIOUS
    <3>2. Pow2[j] \in Nat BY <1>1, <1>2
    <3> QED  BY <2>1, <2>2, <3>1, <3>2
  <2> QED  BY <2>1, <2>2, <2>3
<1> HIDE DEF T
<1>5. 0 .. WORD_BITS \subseteq T BY <1>1, <1>3, <1>4, Induction
<1>6. n \in T /\ m \in T BY <1>1, <1>5
<1> QED  BY <1>6 DEF T

\* Every word has a number of bits.
LEMMA BitsOfWord ==
  ASSUME NEW v \in U64
  PROVE  /\ Bits(v) \in 1 .. WORD_BITS
         /\ v < Pow2[Bits(v)] /\ (Bits(v) = 1 \/ v >= Pow2[Bits(v) - 1])
<1>1. WORD_BITS \in Nat /\ WORD_BITS >= 2 BY RangeProofAssumption
<1>2. v \in Nat /\ v < Pow2[WORD_BITS] BY <1>1, Powers DEF U64
<1> DEFINE enough == {n \in 1 .. WORD_BITS : v < Pow2[n]}
<1>3. enough \in SUBSET Nat /\ enough # {} BY <1>1, <1>2
<1>4. PICK n \in enough : \A k \in enough : n <= k
  <2> HIDE DEF enough
  <2> QED  BY <1>3, LeastNatural
<1>5. ASSUME n # 1 PROVE v >= Pow2[n - 1]
  <2>1. n - 1 \in 1 .. WORD_BITS /\ n - 1 \notin enough BY <1>1, <1>4, <1>5
  <2>2. ~(v < Pow2[n - 1]) BY <2>1
  <2>3. Pow2[n - 1] \in Nat BY <1>1, <2>1, Powers
  <2> QED  BY <1>2, <2>2, <2>3
<1>6. n \in 1 .. WORD_BITS /\ v < Pow2[n] /\ (n = 1 \/ v >= Pow2[n - 1]) BY <1>4, <1>5
<1> QED  BY <1>6 DEF Bits

\* An amount that create_range_proof lets through fits the floor.
LEMMA FloorIsEnough ==
  ASSUME NEW amount \in U64, Provable(amount)
  PROVE  Bits(amount - 1) <= RANGE_PROOF_BITS
<1> DEFINE v == amount - 1
           n == Bits(v)
<1>1. RANGE_PROOF_BITS \in 1 .. WORD_BITS - 1 /\ WORD_BITS \in Nat BY RangeProofAssumption
<1>2. Pow2[RANGE_PROOF_BITS] \in Nat /\ Pow2[WORD_BITS] \in Nat BY <1>1, Powers
<1>3. amount \in Nat /\ amount # 0 /\ amount <= Pow2[RANGE_PROOF_BITS]
  BY <1>2 DEF Provable, MAX_PROVABLE_AMOUNT, U64
<1>4. v \in U64 /\ v < Pow2[RANGE_PROOF_BITS] BY <1>2, <1>3 DEF U64
<1> HIDE DEF v
<1>5. n \in 1 .. WORD_BITS /\ (n = 1 \/ v >= Pow2[n - 1]) BY <1>4, BitsOfWord
<1> HIDE DEF n
<1> SUFFICES ASSUME n > RANGE_PROOF_BITS PROVE FALSE
  BY <1>1, <1>5 DEF n, v
<1>6. n - 1 \in 0 .. WORD_BITS /\ RANGE_PROOF_BITS \in 0 .. n - 1 /\ v >= Pow2[n - 1]
  BY <1>1, <1>5
<1>7. Pow2[RANGE_PROOF_BITS] <= Pow2[n - 1] BY <1>6, PowersGrow
<1>8. Pow2[n - 1] \in Nat /\ v \in Nat BY <1>3, <1>6, Powers DEF v
<1> QED  BY <1>2, <1>4, <1>6, <1>7, <1>8

----------------------------------------------------------------------------
(* One verification.                                                       *)

\* A proof made elsewhere with a range from one or more is of a positive word.
LEMMA ForeignIsPositive ==
  ASSUME NEW p \in ForeignProofs, NEW c, NEW gen, verify_range_proof(p, c, gen)
  PROVE  IsPositiveWord(c)
<1> DEFINE end == p.min + Pow2[p.bits] - 1
           top == Pow2[WORD_BITS] - 1
<1>1. p \in Proof /\ end \in U64 /\ p.sound /\ p.of = c /\ p.min >= 1
  BY RangeProofAssumption DEF Possible, verify_range_proof, LibraryVerify, RangeIsPositive
<1>2. c.value \in p.min .. end
  BY <1>1, RangeProofAssumption DEF Possible, Covers
<1>3. p.min \in 0 .. top /\ U64 = 0 .. top
  BY <1>1 DEF Proof, U64
<1> HIDE DEF end
<1>4. Pow2[WORD_BITS] \in Int BY RangeProofAssumption, Powers
<1>5. top \in Int BY <1>4
<1> HIDE DEF top
<1>6. end \in 0 .. top BY <1>1, <1>3
<1> QED  BY <1>1, <1>2, <1>3, <1>5, <1>6 DEF IsPositiveWord

\* A verified proof, made here or elsewhere, is of a positive word.
LEMMA TrueIsPositive ==
  ASSUME CreatedIsPositive, NEW p \in ForeignProofs \cup created \cup {MalformedBytes}, NEW c, NEW gen,
         BindingVerdict(p, c, gen) = "true"
  PROVE  IsPositiveWord(c)
<1>1. p # MalformedBytes /\ verify_range_proof(p, c, gen) BY DEF BindingVerdict, ProofParses
<1>2. CASE p \in ForeignProofs BY <1>1, <1>2, ForeignIsPositive
<1>3. CASE p \in created
  BY <1>1, <1>3 DEF CreatedIsPositive, verify_range_proof, LibraryVerify
<1> QED  BY <1>1, <1>2, <1>3

\* The proof made of an amount that create_range_proof lets through.
LEMMA NewProofIsPositive ==
  ASSUME NEW amount \in U64, NEW gen \in Generators, Provable(amount)
  PROVE  LET p == NewProof(amount, [value |-> amount, gen |-> gen])
         IN  /\ IsPositiveWord(p.of)
             /\ p \in Proof /\ p.sound /\ p.min = 1 /\ p.bits = RANGE_PROOF_BITS
<1> DEFINE bits == IF Bits(amount - 1) > RANGE_PROOF_BITS THEN Bits(amount - 1) ELSE RANGE_PROOF_BITS
           c == [value |-> amount, gen |-> gen]
           top == Pow2[WORD_BITS]
<1>1. RANGE_PROOF_BITS \in 1 .. WORD_BITS - 1 /\ WORD_BITS \in Nat BY RangeProofAssumption
<1>2. top \in Nat /\ top >= 2
  <2>1. Pow2[WORD_BITS] = 2 * Pow2[WORD_BITS - 1] /\ Pow2[WORD_BITS] \in Nat
    BY <1>1, Powers
  <2>2. Pow2[WORD_BITS - 1] >= 1 /\ Pow2[WORD_BITS - 1] \in Nat
    <3>1. WORD_BITS - 1 \in 0 .. WORD_BITS /\ WORD_BITS - 1 \in 0 .. WORD_BITS - 1 BY <1>1
    <3> QED  BY <3>1, PowersGrow, Powers
  <2> QED  BY <2>1, <2>2
<1>3. amount \in Nat /\ amount # 0 /\ amount <= top - 1
  BY <1>2 DEF U64, Provable
<1>4. bits = RANGE_PROOF_BITS
  <2>1. Bits(amount - 1) <= RANGE_PROOF_BITS BY FloorIsEnough
  <2>2. amount - 1 \in U64 BY <1>2, <1>3 DEF U64
  <2>3. Bits(amount - 1) \in Int BY <2>2, BitsOfWord
  <2> QED  BY <1>1, <2>1, <2>3
<1>5. NewProof(amount, c) = [of |-> c, min |-> 1, sound |-> TRUE, bits |-> bits]
  BY DEF NewProof
<1> HIDE DEF bits
<1>6. 1 \in U64 /\ U64 = 0 .. top - 1 BY <1>2 DEF U64
<1>7. c \in Commitment /\ Commitment = [value : 0 .. top, gen : Generators]
  BY <1>2, <1>3 DEF Commitment
<1>8. [of |-> c, min |-> 1, sound |-> TRUE, bits |-> RANGE_PROOF_BITS] \in Proof
  BY <1>1, <1>6, <1>7 DEF Proof
<1>9. IsPositiveWord(c) BY <1>3 DEF IsPositiveWord
<1> QED  BY <1>4, <1>5, <1>8, <1>9

\* The bindings take what was made here, for its own commitment.
LEMMA CreatedIsAccepted ==
  ASSUME NEW p \in Proof, p.sound, p.min = 1, p.bits = RANGE_PROOF_BITS
  PROVE  BindingVerdict(p, p.of, p.of.gen) = "true"
<1>1. ProofSize(p) = ProofSize([min |-> 1, bits |-> RANGE_PROOF_BITS]) BY DEF ProofSize
<1>2. ProofParses(p) BY <1>1, SizeAssumption, RangeProofAssumption DEF ProofParses
<1>3. p.of \in Commitment /\ p.of.gen \in Generators BY DEF Proof, Commitment
<1>4. p.of # MalformedBytes /\ p.of.gen # MalformedBytes BY <1>3, RangeProofAssumption
<1>5. verify_range_proof(p, p.of, p.of.gen)
  BY DEF verify_range_proof, LibraryVerify, RangeIsPositive
<1> QED  BY <1>2, <1>4, <1>5 DEF BindingVerdict

----------------------------------------------------------------------------
(* The steps.                                                              *)

LEMMA InitRange == RangeInit => RangeInvariant
BY RangeProofAssumption
   DEF RangeInit, RangeInvariant, ListsTyped, CreatedIsPositive, LoopSoFar, LastTyped,
       RefusesOnlyUnprovable, VerifiedOne, BatchIsEachInTurn, FalseMeansParsed, NoCall

LEMMA CreateStep ==
  ASSUME RangeInvariant, NEW amount \in U64, NEW gen \in Generators, CreateRangeProof(amount, gen)
  PROVE  RangeInvariant'
<1>1. ListsTyped' /\ LoopSoFar'
  BY DEF CreateRangeProof, RangeInvariant, ListsTyped, LoopSoFar, ListsDiffer, Alone
<1>2. CreatedIsPositive'
  <2> DEFINE new == NewProof(amount, [value |-> amount, gen |-> gen])
  <2>1. created' \subseteq created \cup (IF Provable(amount) THEN {new} ELSE {})
    BY DEF CreateRangeProof
  <2>2. Provable(amount) => /\ IsPositiveWord(new.of)
                            /\ new \in Proof /\ new.sound /\ new.min = 1
                            /\ new.bits = RANGE_PROOF_BITS
    BY NewProofIsPositive
  <2> HIDE DEF new
  <2> QED  BY <2>1, <2>2 DEF RangeInvariant, CreatedIsPositive
<1>3. VerifiedOne' /\ BatchIsEachInTurn' /\ FalseMeansParsed'
  BY DEF CreateRangeProof, VerifiedOne, BatchIsEachInTurn, FalseMeansParsed
<1>4. LastTyped' /\ RefusesOnlyUnprovable'
  <2>1. last' = [call |-> "create", amount |-> amount, ok |-> Provable(amount)]
    BY DEF CreateRangeProof
  <2>2. Provable(amount) \in BOOLEAN BY DEF Provable
  <2>3. last' \in [call : {"create"}, amount : U64, ok : BOOLEAN] BY <2>1, <2>2
  <2>4. ~Provable(amount) => amount \notin 1 .. MAX_PROVABLE_AMOUNT BY DEF Provable
  <2> QED  BY <2>1, <2>3, <2>4 DEF LastTyped, RefusesOnlyUnprovable
<1> QED  BY <1>1, <1>2, <1>3, <1>4 DEF RangeInvariant

LEMMA VerifyStep ==
  ASSUME RangeInvariant, VerifyOne
  PROVE  RangeInvariant'
<1>1. ListsTyped' /\ LoopSoFar' /\ CreatedIsPositive'
  BY DEF VerifyOne, RangeInvariant, ListsTyped, LoopSoFar, ListsDiffer, Alone, CreatedIsPositive
<1>2. VerifiedOne' BY TrueIsPositive DEF VerifyOne, VerifiedOne, RangeInvariant
<1>3. BatchIsEachInTurn' BY DEF VerifyOne, BatchIsEachInTurn
<1>4. FalseMeansParsed'
  <2>1. PICK p \in ForeignProofs \cup created \cup {MalformedBytes},
             c \in ForeignCommitments \cup CreatedCommitments \cup {MalformedBytes},
             gen \in Generators \cup {MalformedBytes} :
          last' = [call |-> "verify", verdict |-> BindingVerdict(p, c, gen),
                   proof |-> p, commitment |-> c, gen |-> gen]
    BY DEF VerifyOne
  <2>2. BindingVerdict(p, c, gen) # "throw" <=>
          MalformedBytes \notin {p, c, gen} /\ ProofSize(p) <= MAX_RANGE_PROOF_SIZE
    BY DEF BindingVerdict, ProofParses
  <2> QED  BY <2>1, <2>2 DEF FalseMeansParsed
<1>5. LastTyped' /\ RefusesOnlyUnprovable'
  BY DEF VerifyOne, BindingVerdict, LastTyped, RefusesOnlyUnprovable
<1> QED  BY <1>1, <1>2, <1>3, <1>4, <1>5 DEF RangeInvariant

LEMMA AddStep ==
  ASSUME RangeInvariant, AddToBatch
  PROVE  RangeInvariant'
<1>1. i = 0 /\ i' = 0 /\ last' = NoCall /\ UNCHANGED created BY DEF AddToBatch
<1>2. ListsTyped'
  <2>1. ASSUME NEW S, NEW list \in Seq(S), NEW x \in S, Len(list) < MaxBatch
        PROVE  Append(list, x) \in Seq(S) /\ Len(Append(list, x)) <= MaxBatch
    <3>1. MaxBatch \in Nat BY RangeProofAssumption
    <3>2. Append(list, x) \in Seq(S) /\ Len(Append(list, x)) = Len(list) + 1 OBVIOUS
    <3> QED  BY <2>1, <3>1, <3>2
  <2>2. CASE (\E p \in BatchProofs : Len(proofs) < MaxBatch /\ proofs' = Append(proofs, p))
             /\ UNCHANGED <<commitments, generators>>
    BY <1>1, <2>1, <2>2 DEF RangeInvariant, ListsTyped
  <2>3. CASE (\E c \in BatchCommitments :
                Len(commitments) < MaxBatch /\ commitments' = Append(commitments, c))
             /\ UNCHANGED <<proofs, generators>>
    BY <1>1, <2>1, <2>3 DEF RangeInvariant, ListsTyped
  <2>4. CASE (\E gen \in Generators : generators' = Append(generators, gen))
             /\ UNCHANGED <<proofs, commitments>>
    BY <1>1, <2>1, <2>4 DEF RangeInvariant, ListsTyped
  <2> QED  BY <2>2, <2>3, <2>4 DEF AddToBatch
<1> QED  BY <1>1, <1>2 DEF RangeInvariant, CreatedIsPositive, LoopSoFar, LastTyped,
                           RefusesOnlyUnprovable, VerifiedOne, BatchIsEachInTurn,
                           FalseMeansParsed, NoCall

LEMMA StartStep ==
  ASSUME RangeInvariant, StartBatch
  PROVE  RangeInvariant'
<1>1. UNCHANGED <<created, proofs, commitments, generators>> BY DEF StartBatch
<1>2. ListsTyped' /\ CreatedIsPositive' /\ VerifiedOne'
  BY DEF StartBatch, BatchReturns, RangeInvariant, ListsTyped, CreatedIsPositive, VerifiedOne, NoCall
<1>3. LoopSoFar'
  BY DEF StartBatch, BatchReturns, RangeInvariant, ListsTyped, LoopSoFar, ListsDiffer, Alone
<1>4. BatchIsEachInTurn' /\ FalseMeansParsed'
  BY DEF StartBatch, BatchReturns, BatchIsEachInTurn, FalseMeansParsed, ListsDiffer, NoCall
<1>5. LastTyped' /\ RefusesOnlyUnprovable'
  BY RangeProofAssumption DEF StartBatch, BatchReturns, LastTyped, RefusesOnlyUnprovable, NoCall
<1> QED  BY <1>2, <1>3, <1>4, <1>5 DEF RangeInvariant

\* The loop ends past the last proof, or at the first that does not verify.
LEMMA LoopStep ==
  ASSUME RangeInvariant, BatchStep
  PROVE  RangeInvariant'
<1>1. /\ i \in Nat \ {0} /\ ~ListsDiffer /\ i <= Len(proofs) + 1
      /\ \A n \in 1 .. i - 1 : Alone(n)
      /\ Len(proofs) \in Nat
  BY DEF BatchStep, RangeInvariant, ListsTyped, LoopSoFar
<1>2. UNCHANGED <<created, proofs, commitments, generators>> BY DEF BatchStep
<1>3. CreatedIsPositive' BY <1>2 DEF RangeInvariant, CreatedIsPositive
<1>4. CASE ~Zipped(i)
  <2>1. i = Len(proofs) + 1 BY <1>1, <1>4 DEF Zipped, ListsDiffer
  <2>2. i' = 0 /\ last' = [call |-> "batch", verdict |-> "ok", at |-> 0]
    BY <1>4 DEF BatchStep, BatchReturns
  <2>3. BatchIsEachInTurn'
    BY <1>1, <1>2, <2>1, <2>2 DEF BatchIsEachInTurn, ListsDiffer, Alone
  <2>4. LastTyped' /\ RefusesOnlyUnprovable'
    BY <2>2, RangeProofAssumption DEF LastTyped, RefusesOnlyUnprovable
  <2> QED  BY <1>2, <1>3, <2>2, <2>3, <2>4 DEF RangeInvariant, ListsTyped, LoopSoFar, VerifiedOne,
                                               FalseMeansParsed
<1>5. CASE Zipped(i) /\ Alone(i)
  <2>1. i' = i + 1 /\ UNCHANGED last BY <1>5 DEF BatchStep, Alone
  <2>2. i' # 0 => /\ ~ListsDiffer' /\ i' <= Len(proofs) + 1
                  /\ \A n \in 1 .. i' - 1 : Alone(n)
    BY <1>1, <1>2, <1>5, <2>1 DEF ListsDiffer, Zipped
  <2>3. LoopSoFar' BY <1>2, <2>2 DEF LoopSoFar, ListsDiffer, Alone
  <2> QED
    BY <1>1, <1>2, <1>3, <2>1, <2>3
       DEF RangeInvariant, ListsTyped, LastTyped, RefusesOnlyUnprovable, VerifiedOne,
           BatchIsEachInTurn, FalseMeansParsed
<1>6. CASE Zipped(i) /\ ~Alone(i)
  <2>1. i' = 0 /\ last' = [call |-> "batch", verdict |-> "failed", at |-> i]
    BY <1>6 DEF BatchStep, BatchReturns, Alone
  <2>2. BatchIsEachInTurn'
    BY <1>1, <1>2, <1>6, <2>1 DEF BatchIsEachInTurn, ListsDiffer, Alone
  <2>3. i \in 0 .. MaxBatch
    BY <1>1, <1>6, RangeProofAssumption DEF Zipped, RangeInvariant, ListsTyped
  <2>4. LastTyped' /\ RefusesOnlyUnprovable'
    BY <2>1, <2>3 DEF LastTyped, RefusesOnlyUnprovable
  <2> QED  BY <1>2, <1>3, <2>1, <2>2, <2>4 DEF RangeInvariant, ListsTyped, LoopSoFar, VerifiedOne,
                                               FalseMeansParsed
<1> QED  BY <1>4, <1>5, <1>6

LEMMA StepRange == RangeInvariant /\ [RangeNext]_rangeVars => RangeInvariant'
<1> SUFFICES ASSUME RangeInvariant, [RangeNext]_rangeVars PROVE RangeInvariant'
  OBVIOUS
<1>1. CASE UNCHANGED rangeVars
  BY <1>1 DEF rangeVars, RangeInvariant, ListsTyped, CreatedIsPositive, LoopSoFar, ListsDiffer, Alone,
              LastTyped, RefusesOnlyUnprovable, VerifiedOne, BatchIsEachInTurn, FalseMeansParsed
<1>2. CASE RangeNext
  BY <1>2, CreateStep, VerifyStep, AddStep, StartStep, LoopStep DEF RangeNext
<1> QED  BY <1>1, <1>2

----------------------------------------------------------------------------
(* The theorems.                                                           *)

\* What is known of the proofs made here, of the batch loop and of its verdict.
THEOREM RangeCorrect == RangeSpec => []RangeInvariant
<1> QED  BY InitRange, StepRange, PTL DEF RangeSpec

\* The batch, the loop and what was said of the last call keep their type.
THEOREM RangeType == RangeSpec => []RangeTypeOK
<1>1. RangeInvariant => RangeTypeOK
  <2> SUFFICES ASSUME RangeInvariant PROVE RangeTypeOK
    OBVIOUS
  <2>1. BatchProofs \subseteq Proof /\ BatchCommitments \subseteq Commitment
    BY RangeProofAssumption
  <2>2. proofs \in Seq(Proof) /\ commitments \in Seq(Commitment)
    BY <2>1 DEF RangeInvariant, ListsTyped
  <2>3. i \in 0 .. MaxBatch + 1
    <3>1. Len(proofs) \in Nat /\ Len(proofs) <= MaxBatch /\ i \in Nat
      BY DEF RangeInvariant, ListsTyped
    <3>2. i # 0 => i <= Len(proofs) + 1 BY DEF RangeInvariant, LoopSoFar
    <3> QED  BY <3>1, <3>2, RangeProofAssumption
  <2>4. created \subseteq Proof BY DEF RangeInvariant, CreatedIsPositive
  <2> QED  BY <2>2, <2>3, <2>4 DEF RangeInvariant, ListsTyped, LastTyped, RangeTypeOK
<1> QED  BY RangeCorrect, <1>1, PTL

\* The proofs made here do not tell their amounts apart, at any width.
THEOREM AmountsStayHidden == RangeSpec => []CreatedProofsLookAlike
<1>1. RangeInvariant => CreatedProofsLookAlike
  BY DEF RangeInvariant, CreatedIsPositive, CreatedProofsLookAlike, ProofSize
<1> QED  BY RangeCorrect, <1>1, PTL

\* Every amount up to the largest one can be proved, and its proof is accepted.
THEOREM ProvableAreAccepted == RangeSpec => []ProvableIsAccepted
<1>1. RangeInvariant => ProvableIsAccepted
  BY CreatedIsAccepted
     DEF RangeInvariant, CreatedIsPositive, RefusesOnlyUnprovable, ProvableIsAccepted
<1> QED  BY RangeCorrect, <1>1, PTL

\* A batch of any length is its single verifications in order.
THEOREM BatchIsSequential == RangeSpec => []BatchIsEachInTurn
<1>1. RangeInvariant => BatchIsEachInTurn BY DEF RangeInvariant
<1> QED  BY RangeCorrect, <1>1, PTL

\* A binding answers true or false exactly to what parses and is not too large.
THEOREM FalseIsAnAnswer == RangeSpec => []FalseMeansParsed
<1>1. RangeInvariant => FalseMeansParsed BY DEF RangeInvariant
<1> QED  BY RangeCorrect, <1>1, PTL

\* What verifies, alone or in a batch, hides a positive word.
THEOREM VerifiedArePositive == RangeSpec => []VerifiedIsPositiveWord
<1>1. RangeInvariant => VerifiedIsPositiveWord
  <2> SUFFICES ASSUME RangeInvariant PROVE VerifiedIsPositiveWord
    OBVIOUS
  <2>1. ASSUME last.call = "batch", last.verdict = "ok", NEW n \in 1 .. Len(commitments)
        PROVE  IsPositiveWord(commitments[n])
    <3>1. Len(proofs) = Len(commitments) /\ Alone(n)
      BY <2>1 DEF RangeInvariant, BatchIsEachInTurn, Alone
    <3>2. proofs[n] \in ForeignProofs
      BY <3>1, RangeProofAssumption DEF RangeInvariant, ListsTyped
    <3> QED  BY <3>1, <3>2, ForeignIsPositive DEF Alone
  <2> QED  BY <2>1 DEF RangeInvariant, VerifiedOne, VerifiedIsPositiveWord, IsPositiveWord
<1> QED  BY RangeCorrect, <1>1, PTL

----------------------------------------------------------------------------
(* Balances and sums at the bindings.                                      *)

Asked(call, platform) ==
  IF call = "balance" THEN VerifyBalance(platform) ELSE VerifyCommitmentsSum(platform)

\* Every answer is about the entries there are.
AnswersArePresent ==
  \A call \in Calls, p \in Platforms :
    answer[call][p] # "none" => answer[call][p] = Asked(call, p)

VerifierInvariant == TypeOK /\ AnswersArePresent

----------------------------------------------------------------------------
(* The bindings.                                                           *)

\* Verdicts of both calls are one of three.
LEMMA AskedType ==
  ASSUME NEW call, NEW p PROVE Asked(call, p) \in {"true", "false", "throw"}
BY DEF Asked, VerifyBalance, VerifyCommitmentsSum, Verdict

\* Two lists that come from one list of records pair up again as it was.
LEMMA ZipRestores ==
  ASSUME TypeOK, NEW side \in Sides, NEW p
  PROVE  Received(p, side) = transparent[side] /\ ~LengthsDiffer(side)
<1> DEFINE list == transparent[side]
<1>1. list \in Seq(TransparentEntry) BY DEF TypeOK
<1>2. Len(list) \in Nat /\ DOMAIN list = 1 .. Len(list)
      /\ \A j \in DOMAIN list : list[j] \in TransparentEntry
  BY <1>1
<1>3. AmountsOf(list) \in Seq(ClaimedAmounts)
      /\ TokensOf(list) \in Seq(Tokens \cup {Malformed})
      /\ Len(AmountsOf(list)) = Len(list) /\ Len(TokensOf(list)) = Len(list)
  BY <1>2 DEF AmountsOf, TokensOf, TransparentEntry
<1>4. Zip(AmountsOf(list), TokensOf(list)) = list
  <2> DEFINE zipped == Zip(AmountsOf(list), TokensOf(list))
  <2>1. DOMAIN zipped = DOMAIN list
        /\ \A j \in DOMAIN list :
             zipped[j] = [amount |-> list[j].amount, token_uid |-> list[j].token_uid]
    BY DEF Zip, AmountsOf, TokensOf
  <2>2. \A j \in DOMAIN list : zipped[j] = list[j]
    BY <1>2, <2>1 DEF TransparentEntry
  <2>3. zipped = [j \in DOMAIN zipped |-> zipped[j]] BY DEF Zip
  <2>4. list = [j \in DOMAIN list |-> list[j]] BY <1>1
  <2> HIDE DEF zipped
  <2>5. zipped = list BY <2>1, <2>2, <2>3, <2>4
  <2> QED  BY <2>5 DEF zipped
<1> QED  BY <1>3, <1>4 DEF Received, LengthsDiffer

\* The arguments that a side must reject are the same on each platform.
LEMMA SideParsesMeans ==
  ASSUME TypeOK, NEW side \in Sides, NEW p
  PROVE  SideParses(p, side) <=>
           /\ \A j \in DOMAIN transparent[side] :
                /\ transparent[side][j].amount \in Amounts
                /\ transparent[side][j].token_uid \in Tokens
           /\ \A j \in DOMAIN shielded[side] : ValidateCommitment(shielded[side][j])
<1>1. ShieldedParse(side) <=> \A j \in DOMAIN shielded[side] : ValidateCommitment(shielded[side][j])
  BY DEF ShieldedParse, ValidateCommitment
<1>2. ASSUME NEW j \in DOMAIN transparent[side]
      PROVE  EntryParses(transparent[side][j]) <=>
               /\ transparent[side][j].amount \in Amounts
               /\ transparent[side][j].token_uid \in Tokens
  <2>1. transparent[side] \in Seq(TransparentEntry) BY DEF TypeOK
  <2>2. transparent[side][j] \in TransparentEntry BY <2>1
  <2> QED  BY <2>2, VerifierAssumption DEF EntryParses, TransparentEntry
<1> QED  BY <1>1, <1>2, ZipRestores DEF SideParses

\* Both platforms answer the same.
LEMMA SameAnswer ==
  ASSUME TypeOK, NEW call \in Calls, NEW p, NEW q
  PROVE  Asked(call, p) = Asked(call, q)
<1>1. \A side \in Sides : SideParses(p, side) <=> SideParses(q, side)
  BY SideParsesMeans
<1>2. \A side \in Sides : PointsReceived(p, side) = PointsReceived(q, side)
  BY ZipRestores DEF PointsReceived
<1>3. VerifyBalance(p) = VerifyBalance(q)
  BY <1>1, <1>2 DEF VerifyBalance, Sides
<1>4. VerifyCommitmentsSum(p) = VerifyCommitmentsSum(q)
  BY DEF VerifyCommitmentsSum
<1> QED  BY <1>3, <1>4 DEF Asked

\* A call throws at exactly what is not well formed.
LEMMA ThrowsMeans ==
  ASSUME TypeOK, NEW call \in Calls, NEW p
  PROVE  Asked(call, p) = "throw" <=> ~WellFormed(call)
<1>1. CASE call = "balance"
  <2>1. Asked(call, p) = "throw" <=>
          \/ ~(\A side \in Sides : SideParses(p, side)) \/ ExcessMisplaced
          \/ excess = Malformed
    BY <1>1 DEF Asked, VerifyBalance, Verdict
  <2>2. excess # Malformed =>
          (ExcessMisplaced <=>
             excess \in Scalars /\ ~(shielded["inputs"] # <<>> /\ shielded["outputs"] = <<>>))
    BY VerifierAssumption DEF ExcessMisplaced, TypeOK
  <2> QED  BY <1>1, <2>1, <2>2, SideParsesMeans DEF WellFormed
<1>2. CASE call = "sum"
  <2>1. Asked(call, p) = "throw" <=> ~(\A side \in Sides : ShieldedParse(side))
    BY <1>2 DEF Asked, VerifyCommitmentsSum, Verdict
  <2>2. ASSUME NEW side \in Sides
        PROVE  ShieldedParse(side) <=>
                 \A j \in DOMAIN shielded[side] : ValidateCommitment(shielded[side][j])
    BY DEF ShieldedParse, ValidateCommitment
  <2> QED  BY <1>2, <2>1, <2>2 DEF WellFormed
<1> QED  BY <1>1, <1>2 DEF Calls

----------------------------------------------------------------------------
(* The steps.                                                              *)

LEMMA InitVerifier == Init => VerifierInvariant
BY DEF Init, VerifierInvariant, TypeOK, AnswersArePresent, NoAnswer

\* An entry is added, and what was answered before is no longer said.
LEMMA AddSteps ==
  ASSUME VerifierInvariant, NEW side \in Sides,
         \/ \E entry \in TransparentEntry : AddTransparent(side, entry)
         \/ \E bytes \in CommitmentBytes : AddShielded(side, bytes)
  PROVE  VerifierInvariant'
<1>1. answer' = NoAnswer /\ UNCHANGED excess BY DEF AddTransparent, AddShielded
<1>2. /\ transparent' \in [Sides -> Seq(TransparentEntry)]
      /\ shielded' \in [Sides -> Seq(CommitmentBytes)]
  <2>1. ASSUME NEW S, NEW list \in Seq(S), NEW x \in S PROVE Append(list, x) \in Seq(S)
    OBVIOUS
  <2>2. ASSUME NEW entry \in TransparentEntry, AddTransparent(side, entry)
        PROVE  transparent' \in [Sides -> Seq(TransparentEntry)] /\ UNCHANGED shielded
    BY <2>1, <2>2 DEF AddTransparent, VerifierInvariant, TypeOK
  <2>3. ASSUME NEW bytes \in CommitmentBytes, AddShielded(side, bytes)
        PROVE  shielded' \in [Sides -> Seq(CommitmentBytes)] /\ UNCHANGED transparent
    BY <2>1, <2>3 DEF AddShielded, VerifierInvariant, TypeOK
  <2> QED  BY <2>2, <2>3 DEF VerifierInvariant, TypeOK
<1> QED
  BY <1>1, <1>2 DEF VerifierInvariant, TypeOK, AnswersArePresent, NoAnswer

LEMMA SameEntriesSameAnswer ==
  ASSUME UNCHANGED <<transparent, shielded, excess>>, NEW call, NEW p
  PROVE  Asked(call, p)' = Asked(call, p)
BY DEF Asked, VerifyBalance, VerifyCommitmentsSum, SideParses, ShieldedParse, LengthsDiffer,
       Received, PointsReceived, PointsOf, ExcessMisplaced, Balances

LEMMA AskStep ==
  ASSUME VerifierInvariant, NEW call \in Calls, NEW platform \in Platforms, Ask(call, platform)
  PROVE  VerifierInvariant'
<1>1. /\ answer' = [answer EXCEPT ![call][platform] = Asked(call, platform)]
      /\ UNCHANGED <<transparent, shielded, excess>>
  BY DEF Ask, Asked
<1>2. TypeOK' BY <1>1, AskedType DEF VerifierInvariant, TypeOK
<1>3. AnswersArePresent'
  <2> SUFFICES ASSUME NEW c \in Calls, NEW p \in Platforms, answer'[c][p] # "none"
               PROVE  answer'[c][p] = Asked(c, p)'
    BY DEF AnswersArePresent
  <2>1. answer'[c][p] = IF c = call /\ p = platform THEN Asked(call, platform) ELSE answer[c][p]
    BY <1>1 DEF VerifierInvariant, TypeOK
  <2> QED
    BY <1>1, <2>1, SameEntriesSameAnswer DEF VerifierInvariant, AnswersArePresent
<1> QED  BY <1>2, <1>3 DEF VerifierInvariant

LEMMA StepVerifier == VerifierInvariant /\ [Next]_vars => VerifierInvariant'
<1> SUFFICES ASSUME VerifierInvariant, [Next]_vars PROVE VerifierInvariant'
  OBVIOUS
<1>1. CASE UNCHANGED vars
  BY <1>1, SameEntriesSameAnswer DEF vars, VerifierInvariant, TypeOK, AnswersArePresent
<1>2. CASE Next
  BY <1>2, AddSteps, AskStep DEF Next
<1> QED  BY <1>1, <1>2

----------------------------------------------------------------------------
(* The theorems.                                                           *)

\* What is answered is the verdict on the present entries.
THEOREM VerifierCorrect == Spec => []VerifierInvariant
<1> QED  BY InitVerifier, StepVerifier, PTL DEF Spec

\* The lists and the answers keep their type.
THEOREM VerifierType == Spec => []TypeOK
<1>1. VerifierInvariant => TypeOK BY DEF VerifierInvariant
<1> QED  BY VerifierCorrect, <1>1, PTL

\* The node addon and the browser provider never disagree.
THEOREM PlatformsNeverDisagree == Spec => []PlatformsAgree
<1>1. VerifierInvariant => PlatformsAgree
  BY SameAnswer DEF VerifierInvariant, AnswersArePresent, PlatformsAgree
<1> QED  BY VerifierCorrect, <1>1, PTL

\* False is said of well-formed arguments, and these are never rejected.
THEOREM ErrorContract == Spec => []ThrowsMeansMalformed
<1>1. VerifierInvariant => ThrowsMeansMalformed
  BY ThrowsMeans DEF VerifierInvariant, AnswersArePresent, ThrowsMeansMalformed
<1> QED  BY VerifierCorrect, <1>1, PTL

\* verifyCommitmentsSum and verifyBalance of the same commitments agree, but for
\* the rule for an empty side.
THEOREM SumsAgree == Spec => []SumAgreesWithBalance
<1>1. VerifierInvariant => SumAgreesWithBalance
  <2> SUFFICES ASSUME VerifierInvariant, NEW p \in Platforms,
                      answer["balance"][p] \in {"true", "false"}, answer["sum"][p] # "none",
                      transparent["inputs"] = <<>>, transparent["outputs"] = <<>>,
                      excess = NoExcess
               PROVE  /\ answer["balance"][p] = "true" => answer["sum"][p] = "true"
                      /\ shielded["inputs"] # <<>> /\ shielded["outputs"] # <<>> =>
                           answer["balance"][p] = answer["sum"][p]
    BY DEF SumAgreesWithBalance
  <2> DEFINE ins == PointsOf("inputs")
             outs == PointsOf("outputs")
  <2>1. VerifyBalance(p) = answer["balance"][p] /\ VerifyCommitmentsSum(p) = answer["sum"][p]
    BY DEF VerifierInvariant, AnswersArePresent, Asked, Calls
  <2>2. ASSUME NEW side \in Sides PROVE PointsReceived(p, side) = PointsOf(side)
    <3>1. Received(p, side) = <<>> BY ZipRestores DEF VerifierInvariant, Sides
    <3>2. Collected(<<>>) = <<>>
      <4> DEFINE list == <<>>
                 each == [j \in DOMAIN list |->
                            IF list[j].amount = 0 THEN <<>>
                            ELSE <<Commit(list[j].amount, ZERO_TWEAK,
                                          derive_asset_tag(list[j].token_uid))>>]
      <4>1. DOMAIN list = {} OBVIOUS
      <4>2. each = <<>> BY <4>1
      <4>3. Collected(list) = Joined(each) BY DEF Collected
      <4> HIDE DEF each
      <4> QED  BY <4>2, <4>3, JoinedEmpty
    <3>3. shielded[side] \in Seq(CommitmentBytes) BY DEF VerifierInvariant, TypeOK
    <3>4. PointsOf(side) \in Seq(Point)
      <4>1. \A j \in DOMAIN shielded[side] : shielded[side][j].point \in Point
        <5>1. \A bytes \in CommitmentBytes : bytes.point \in Point
          BY VerifierAssumption, PointsMonoid
             DEF CommitmentBytes, Parsed, Garbage, IsMonoid
        <5> QED  BY <3>3, <5>1
      <4> QED  BY <3>3, <4>1 DEF PointsOf
    <3>5. <<>> \o PointsOf(side) = PointsOf(side) BY <3>4
    <3> QED  BY <3>1, <3>2, <3>5 DEF PointsReceived
  <2>3. PointsReceived(p, "inputs") = ins /\ PointsReceived(p, "outputs") = outs
    BY <2>2 DEF Sides
  <2>4. Balances(ins, outs) <=> (ins = <<>> <=> outs = <<>>) /\ PointSum(ins) = PointSum(outs)
    BY DEF Balances
  <2>5. /\ \A side \in Sides : SideParses(p, side)
        /\ answer["balance"][p] = Verdict(Balances(ins, outs))
    BY <2>1, <2>3 DEF VerifyBalance
  <2>6. answer["sum"][p] = Verdict(PointSum(ins) = PointSum(outs))
    BY <2>1, <2>5 DEF VerifyCommitmentsSum, SideParses
  <2>7. ASSUME NEW side \in Sides, shielded[side] # <<>> PROVE PointsOf(side) # <<>>
    <3>1. shielded[side] \in Seq(CommitmentBytes) BY DEF VerifierInvariant, TypeOK
    <3>2. 1 \in DOMAIN shielded[side] BY <2>7, <3>1
    <3>3. DOMAIN PointsOf(side) = DOMAIN shielded[side] BY DEF PointsOf
    <3> QED  BY <3>2, <3>3
  <2>8. shielded["inputs"] # <<>> => ins # <<>> BY <2>7 DEF Sides
  <2>9. shielded["outputs"] # <<>> => outs # <<>> BY <2>7 DEF Sides
  <2> HIDE DEF ins, outs
  <2> QED  BY <2>4, <2>5, <2>6, <2>8, <2>9 DEF Verdict
<1> QED  BY VerifierCorrect, <1>1, PTL
=============================================================================
