--------------------------- MODULE ShieldedLedger ---------------------------
(***************************************************************************)
(* The three verifiers together, over a chain of transactions.             *)
(*                                                                         *)
(* Whoever validates the chain (a full node; the explorer, through the     *)
(* verifier surface of the node and browser providers) runs                *)
(* verifyRangeProof on every shielded output, verifySurjectionProof on     *)
(* every full one against the generators of the inputs, and verifyBalance  *)
(* on the transaction.  Nobody else checks anything: a prover follows no   *)
(* protocol and knows every opening, so its commitments and its generators *)
(* are any points, a generator need not be a blinded tag, and a multiple   *)
(* of a tag is only known modulo the order of the group.  What the module  *)
(* Commitments takes for granted, that multiples do not wrap, is here a    *)
(* consequence of the verifiers and of the size of a transaction.          *)
(***************************************************************************)
EXTENDS Commitments, Sequences, FiniteSets, Functions, Bags

CONSTANTS Order,        \* of the group, n of secp256k1 in the code
          MaxWord,      \* the largest word, 2^64 - 1
          NoExcess,     \* None, for the excess blinding factor
          Genesis,      \* the transparent outputs there are at first
          MaxInputs, MaxOutputs,
          MaxUnspent    \* bound on the unspent outputs

ASSUME LedgerAssumption ==
  /\ Order \in Nat /\ MaxInputs \in Nat /\ MaxOutputs \in Nat /\ MaxUnspent \in Nat
  /\ MaxWord \in Nat /\ Amounts = 0 .. MaxWord
  /\ MaxInputs * MaxWord < Order /\ (MaxOutputs + 1) * MaxWord < Order
  /\ NoExcess \notin Scalars

VARIABLE unspent   \* the bag of the outputs that no transaction has spent

----------------------------------------------------------------------------
(* Outputs.                                                                *)

\* 33 bytes that parse are a point other than the identity.
Serialized == [h : [Tokens -> 0 .. Order - 1], g : Scalars] \ {Identity}

TransparentOutput == [kind : {"transparent"}, token : Tokens, amount : Amounts]
AmountOutput == [kind : {"amount"}, token : Tokens, commitment : Serialized]
FullOutput == [kind : {"full"}, generator : Serialized, commitment : Serialized]

Output == TransparentOutput \cup AmountOutput \cup FullOutput

\* There is nothing shielded at first.
ASSUME GenesisAssumption ==
  /\ IsABag(Genesis) /\ IsFiniteSet(BagToSet(Genesis))
  /\ BagToSet(Genesis) \subseteq TransparentOutput

IsShielded(o) == o.kind # "transparent"

TagPoint(token) == [h |-> Units(1, token), g |-> ZERO_TWEAK]

\* The generator of an output: what a surjection proof takes for its input, and
\* a range proof is verified with.
GeneratorOf(o) == IF o.kind = "full" THEN o.generator ELSE TagPoint(o.token)

CommitmentOf(o) ==
  IF IsShielded(o) THEN o.commitment
  ELSE Commit(o.amount, ZERO_TWEAK, derive_asset_tag(o.token))

----------------------------------------------------------------------------
(* The verifiers.  A proof that somebody can make is as good as made.      *)

\* Variants: the start of the range is not checked; the range is not verified.
RangeFromZero(commitment, generator) ==
  \E v \in Amounts : \A t \in Tokens : commitment.h[t] = (v * generator.h[t]) % Order
RangeUnchecked(commitment, generator) == TRUE

\* verify_range_proof: the prover knows an opening to a word that is not zero.
RangeVerifies(commitment, generator) ==
  \E v \in Amounts \ {0} :
    \A t \in Tokens : commitment.h[t] = (v * generator.h[t]) % Order

\* Variant: the surjection proof is not verified.
SurjectionUnchecked(generator, domain) == TRUE

\* verify_surjection_proof: the prover knows what multiple of G lies between the
\* generator and one of the domain, given by their other multiples.
SurjectionVerifies(generator, domain) == generator.h \in domain

\* The outputs with a range proof that verifies.
AmountProven ==
  {[kind |-> "amount", token |-> p[1], commitment |-> p[2]] :
     p \in {q \in Tokens \X Serialized : RangeVerifies(q[2], TagPoint(q[1]))}}

FullProven ==
  {[kind |-> "full", generator |-> p[1], commitment |-> p[2]] :
     p \in {q \in Serialized \X Serialized : RangeVerifies(q[2], q[1])}}

\* The amounts of transparent entries: those that bigint_to_u64 lets through.
U64 == Amounts

\* The outputs whose proofs verify, in a transaction with these inputs.
Verified(inputs) ==
  LET domain == {GeneratorOf(i).h : i \in Range(inputs)}
  IN  [kind : {"transparent"}, token : Tokens, amount : U64]
        \cup AmountProven
        \cup {o \in FullProven : SurjectionVerifies(o.generator, domain)}

\* Addition of points, whose multiples are modulo Order.
Add(p, q) == [h |-> [t \in Tokens |-> (p.h[t] + q.h[t]) % Order], g |-> Plus(p.g, q.g)]

Subtract(p, q) ==
  [h |-> [t \in Tokens |-> (p.h[t] + Order - q.h[t]) % Order], g |-> Minus(p.g, q.g)]

SumOf(list) ==
  LET sum[j \in 0 .. Len(list)] ==
        IF j = 0 THEN Identity ELSE Add(sum[j - 1], CommitmentOf(list[j]))
  IN  sum[Len(list)]

HasShielded(list) == \E j \in DOMAIN list : IsShielded(list[j])

\* Variant: the check on the inputs is the wrong way round.
ExcessWithoutShieldedInput(inputs, outputs) ==
  {NoExcess} \cup (IF HasShielded(outputs) \/ HasShielded(inputs) THEN {} ELSE Scalars)

\* The excess blinding factors that verifyBalance does not refuse.
AllowedExcess(inputs, outputs) ==
  {NoExcess} \cup (IF HasShielded(outputs) \/ ~HasShielded(inputs) THEN {} ELSE Scalars)

\* verify_balance collects nothing: there are only transparent zeros.
NoCommitment(list) == \A j \in DOMAIN list : ~IsShielded(list[j]) /\ list[j].amount = 0

\* The fee is one more transparent output, the excess one more commitment, to zero.
Extra(fee, excess) ==
  [h |-> Units(fee, HTR), g |-> IF excess = NoExcess THEN ZERO_TWEAK ELSE excess]

\* verifyBalance is true, with one of these fees and with some excess.
BalanceVerifies(inputs, outputs, fees) ==
  Subtract(SumOf(inputs), SumOf(outputs)) \in
    {extra \in {Extra(fee, excess) : fee \in fees, excess \in AllowedExcess(inputs, outputs)} :
       NoCommitment(inputs) <=> NoCommitment(outputs) /\ extra = Identity}

----------------------------------------------------------------------------
(* The chain.                                                              *)

TypeOK == IsABag(unspent) /\ BagToSet(unspent) \subseteq Output

Init == unspent = Genesis

BagOf(list) == [o \in Range(list) |-> Cardinality({j \in DOMAIN list : list[j] = o})]

\* A transaction that spends these outputs, with any new ones that a prover can
\* think of: every verifier accepts it.
Submit(inputs) ==
  /\ BagOf(inputs) \sqsubseteq unspent
  /\ \E n \in 0 .. MaxOutputs : \E outputs \in [1 .. n -> Verified(inputs)] :
       /\ BagCardinality(unspent) + Len(outputs) <= MaxUnspent + Len(inputs)
       /\ BalanceVerifies(inputs, outputs, Amounts)
       /\ unspent' = (unspent (-) BagOf(inputs)) (+) BagOf(outputs)

Next == \E n \in 0 .. MaxInputs : \E inputs \in [1 .. n -> BagToSet(unspent)] : Submit(inputs)

Spec == Init /\ [][Next]_unspent

----------------------------------------------------------------------------
(* Properties.                                                             *)

IsCoin(o) ==
  \E t \in Tokens, v \in Amounts \ {0} :
    /\ GeneratorOf(o).h = Units(1, t)
    /\ CommitmentOf(o).h = Units(v, t)

\* Every unspent shielded output is a coin that can be received and spent: its
\* generator is the tag of a token, blinded or not, and its commitment hides a
\* positive word of units of it.  No chain of transactions, by any provers,
\* leads to an output in a generator that is no token's, the surjection proofs
\* of later transactions being only as good as their inputs.
EveryOutputIsCoin == \A o \in BagToSet(unspent) : IsShielded(o) => IsCoin(o)

\* The copies in a bag of the outputs that are worth this, each with its number.
WorthThis(bag, worth) ==
  UNION {{o} \X (1 .. bag[o]) : o \in {x \in BagToSet(bag) : CommitmentOf(x).h = worth}}

\* The ledger of what the unspent outputs are worth.  Zeros are not coins.
Ledger(bag) ==
  [worth \in {CommitmentOf(o).h : o \in BagToSet(bag)} \ {NoValue} |->
     Cardinality(WorthThis(bag, worth))]

Abstract == INSTANCE TokenLedger
  WITH MaxAmount <- MaxWord, Genesis <- Ledger(Genesis), coins <- Ledger(unspent)

\* Accepted transactions are the transfers of a transparent ledger: in no token
\* does the supply ever grow, or shrink by more than the fee, though no verifier
\* sees an amount.  It takes all three verifiers.
ImplementsTokenLedger == Abstract!Spec

\* Whatever provers did before, no coin is stuck: whoever knows the opening of an
\* unspent output can make it transparent with the excess that cancels its
\* blinding, and can shield it again, in either form, under any asset blinding.
NothingIsStuck ==
  \A o \in BagToSet(unspent), t \in Tokens, v \in Amounts :
    CommitmentOf(o).h = Units(v, t) =>
      LET MayBecome(made) == made \in Verified(<<o>>) /\ BalanceVerifies(<<o>>, <<made>>, {0})
      IN  /\ MayBecome([kind |-> "transparent", token |-> t, amount |-> v])
          /\ v > 0 =>
               /\ \E vbf \in Scalars :
                    MayBecome([kind |-> "amount", token |-> t,
                               commitment |-> Commit(v, vbf, derive_asset_tag(t))])
               /\ \A abf \in Scalars : \E vbf \in Scalars :
                    MayBecome([kind |-> "full", generator |-> [h |-> Units(1, t), g |-> abf],
                               commitment |-> Commit(v, vbf, create_asset_commitment(t, abf))])
=============================================================================
