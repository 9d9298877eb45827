----------------------------- MODULE Verifiers -----------------------------
(***************************************************************************)
(* verifyBalance, verifyCommitmentsSum and validateCommitment as a caller  *)
(* sees them, on the two platforms that have them.                         *)
(*                                                                         *)
(* The caller puts together what it read from the chain: amounts that need *)
(* not be words, and bytes that need not parse.  The node addon takes a    *)
(* list of records; the browser provider splits it into two lists, which   *)
(* Rust pairs up again.  Malformed input must be rejected, never taken for *)
(* a transaction that does not balance.                                    *)
(***************************************************************************)
EXTENDS Commitments, Integers, Sequences

CONSTANTS Platforms,       \* "node" and "browser"
          MaxWord,         \* the largest word, 2^64 - 1
          ClaimedAmounts,  \* BigInts, not always words
          Malformed,       \* bytes of another length, or that are no such thing
          ChainPoints,     \* the points whose encodings callers pass
          NoExcess,
          MaxEntries       \* bound on the entries of a call

ASSUME VerifierAssumption ==
  /\ MaxWord \in Nat /\ Amounts = 0 .. MaxWord /\ ClaimedAmounts \subseteq Int
  /\ ChainPoints \subseteq Point \ {Identity}
  /\ Malformed \notin Tokens \cup Scalars /\ NoExcess \notin Scalars /\ NoExcess # Malformed
  /\ MaxEntries \in Nat

VARIABLES
  transparent,  \* the lists of entries, by side
  shielded,     \* the lists of commitments, by side
  excess,       \* the excess blinding factor, or NoExcess
  answer        \* of the last call of each kind, by platform

vars == <<transparent, shielded, excess, answer>>

Sides == {"inputs", "outputs"}
Calls == {"balance", "sum"}

TransparentEntry == [amount : ClaimedAmounts, token_uid : Tokens \cup {Malformed}]

\* 33 bytes of a commitment, or bytes that are none.
Parsed(point) == [parses |-> TRUE, point |-> point]
Garbage == [parses |-> FALSE, point |-> Identity]
CommitmentBytes == {Parsed(p) : p \in ChainPoints} \cup {Garbage}

NoAnswer == [c \in Calls |-> [p \in Platforms |-> "none"]]

TypeOK ==
  /\ transparent \in [Sides -> Seq(TransparentEntry)]
  /\ shielded \in [Sides -> Seq(CommitmentBytes)]
  /\ excess \in Scalars \cup {NoExcess, Malformed}
  /\ answer \in [Calls -> [Platforms -> {"none", "true", "false", "throw"}]]

Init ==
  /\ transparent = [s \in Sides |-> <<>>]
  /\ shielded = [s \in Sides |-> <<>>]
  /\ excess \in Scalars \cup {NoExcess, Malformed}
  /\ answer = NoAnswer

Entries ==
  Len(transparent["inputs"]) + Len(transparent["outputs"])
    + Len(shielded["inputs"]) + Len(shielded["outputs"])

AddTransparent(side, entry) ==
  /\ Entries < MaxEntries
  /\ transparent' = [transparent EXCEPT ![side] = Append(@, entry)]
  /\ answer' = NoAnswer
  /\ UNCHANGED <<shielded, excess>>

AddShielded(side, bytes) ==
  /\ Entries < MaxEntries
  /\ shielded' = [shielded EXCEPT ![side] = Append(@, bytes)]
  /\ answer' = NoAnswer
  /\ UNCHANGED <<transparent, excess>>

----------------------------------------------------------------------------
(* The bindings.                                                           *)

\* validateCommitment: deserialize_commitment succeeds.
ValidateCommitment(bytes) == bytes.parses

\* Variant: the browser leaves out the zero amounts, and keeps their tokens.
AmountsButZero(list) ==
  SelectSeq([j \in DOMAIN list |-> list[j].amount], LAMBDA amount : amount # 0)

\* The two lists that the browser provider makes of one.
AmountsOf(list) == [j \in DOMAIN list |-> list[j].amount]
TokensOf(list) == [j \in DOMAIN list |-> list[j].token_uid]

\* build_balance_entries pairs the lists up, after it has compared their lengths.
Zip(amounts, tokens) ==
  [j \in DOMAIN amounts |-> [amount |-> amounts[j], token_uid |-> tokens[j]]]

LengthsDiffer(side) ==
  Len(AmountsOf(transparent[side])) # Len(TokensOf(transparent[side]))

Received(platform, side) ==
  IF platform = "browser"
  THEN Zip(AmountsOf(transparent[side]), TokensOf(transparent[side]))
  ELSE transparent[side]

\* Variant: a word is what is left of a BigInt.
WrappingEntryParses(entry) == entry.token_uid # Malformed

\* bigint_to_u64 and the 32 bytes of a token uid.
EntryParses(entry) == entry.token_uid # Malformed /\ entry.amount \in 0 .. MaxWord

ShieldedParse(side) == \A j \in DOMAIN shielded[side] : shielded[side][j].parses

SideParses(platform, side) ==
  /\ platform = "browser" => ~LengthsDiffer(side)
  /\ \A j \in DOMAIN Received(platform, side) : EntryParses(Received(platform, side)[j])
  /\ ShieldedParse(side)

PointsOf(side) == [j \in DOMAIN shielded[side] |-> shielded[side][j].point]

\* What the core collects of transparent entries: a zero is skipped.
Collected(list) ==
  Joined([j \in DOMAIN list |->
            IF list[j].amount = 0 THEN <<>>
            ELSE <<Commit(list[j].amount, ZERO_TWEAK, derive_asset_tag(list[j].token_uid))>>])

PointsReceived(platform, side) == Collected(Received(platform, side)) \o PointsOf(side)

ExcessMisplaced ==
  excess # NoExcess /\ (shielded["outputs"] # <<>> \/ shielded["inputs"] = <<>>)

\* verify_balance of the core.
Balances(inputs, outputs) ==
  LET all == IF excess \in {NoExcess, ZERO_TWEAK} THEN outputs
             ELSE Append(outputs, Commit(0, excess, htr_asset_tag))
  IN  (inputs = <<>> <=> all = <<>>) /\ PointSum(inputs) = PointSum(all)

\* Ok(()) and BalanceError(_) of the core, true and false at the binding.
Verdict(holds) == IF holds THEN "true" ELSE "false"

\* Variant: what does not parse does not balance.
VerifyBalanceNeverThrows(platform) ==
  Verdict(/\ \A side \in Sides : SideParses(platform, side)
          /\ ~ExcessMisplaced /\ excess # Malformed
          /\ Balances(PointsReceived(platform, "inputs"), PointsReceived(platform, "outputs")))

VerifyBalance(platform) ==
  IF ~(\A side \in Sides : SideParses(platform, side)) \/ ExcessMisplaced \/ excess = Malformed
  THEN "throw"
  ELSE Verdict(Balances(PointsReceived(platform, "inputs"), PointsReceived(platform, "outputs")))

\* Variant: two lists of different lengths have different sums.
SumOfEqualLengths(platform) ==
  IF ~(\A side \in Sides : ShieldedParse(side)) THEN "throw"
  ELSE Verdict(/\ Len(shielded["inputs"]) = Len(shielded["outputs"])
               /\ PointSum(PointsOf("inputs")) = PointSum(PointsOf("outputs")))

VerifyCommitmentsSum(platform) ==
  IF ~(\A side \in Sides : ShieldedParse(side)) THEN "throw"
  ELSE Verdict(PointSum(PointsOf("inputs")) = PointSum(PointsOf("outputs")))

Ask(call, platform) ==
  /\ answer[call][platform] = "none"
  /\ answer' = [answer EXCEPT ![call][platform] =
       IF call = "balance" THEN VerifyBalance(platform) ELSE VerifyCommitmentsSum(platform)]
  /\ UNCHANGED <<transparent, shielded, excess>>

Next ==
  \/ \E side \in Sides :
       \/ \E entry \in TransparentEntry : AddTransparent(side, entry)
       \/ \E bytes \in CommitmentBytes : AddShielded(side, bytes)
  \/ \E call \in Calls, platform \in Platforms : Ask(call, platform)

Spec == Init /\ [][Next]_vars

----------------------------------------------------------------------------
(* Properties.                                                             *)

\* The node addon and the browser provider give the same answer to the same
\* arguments, malformed ones too: an explorer and a wallet never disagree on a
\* transaction.
PlatformsAgree ==
  \A call \in Calls : \A p, q \in Platforms :
    "none" \notin {answer[call][p], answer[call][q]} => answer[call][p] = answer[call][q]

\* What the bindings can parse.  An excess beside shielded outputs, or without a
\* shielded input, counts as malformed: the bindings reject the call for it.
WellFormed(call) ==
  /\ \A side \in Sides : \A j \in DOMAIN shielded[side] : ValidateCommitment(shielded[side][j])
  /\ call = "balance" =>
       /\ \A side \in Sides : \A j \in DOMAIN transparent[side] :
            /\ transparent[side][j].amount \in Amounts
            /\ transparent[side][j].token_uid \in Tokens
       /\ excess \in Scalars =>
            shielded["inputs"] # <<>> /\ shielded["outputs"] = <<>>
       /\ excess # Malformed

\* The error contract: false is said of well-formed arguments only, and these are
\* never rejected, wherever among the entries the malformed one is.  A caller that
\* asked validateCommitment first need not fear an exception for a commitment.
ThrowsMeansMalformed ==
  \A call \in Calls : \A p \in Platforms :
    answer[call][p] # "none" => (answer[call][p] = "throw" <=> ~WellFormed(call))

\* The two ways to compare shielded sums agree, except that commitments which
\* cancel out do not balance against nothing at all.
SumAgreesWithBalance ==
  \A p \in Platforms :
    /\ answer["balance"][p] \in {"true", "false"} /\ answer["sum"][p] # "none"
    /\ transparent["inputs"] = <<>> /\ transparent["outputs"] = <<>> /\ excess = NoExcess
    => /\ answer["balance"][p] = "true" => answer["sum"][p] = "true"
       /\ shielded["inputs"] # <<>> /\ shielded["outputs"] # <<>> =>
            answer["balance"][p] = answer["sum"][p]
=============================================================================
