# A specification of hathor-ct-crypto

`hathor-ct-crypto` is the confidential-transaction cryptography of the Hathor network: a Rust core
(`crypto-core`) over libsecp256k1-zkp, three bindings of it (a napi addon for node, a wasm module
for browsers, a UniFFI library for Android and iOS) and one JavaScript interface over the three
(`ct-crypto-provider`, with a provider class per platform). This directory holds a TLA+ model of
it, the TLC configurations that check the model, and proofs that TLAPS checks.

    tlc -workers 2 -config MCBalance.cfg MCBalance.tla     # one run; each cfg names its module
    tlapm BalanceProofs.tla                                # the proofs of one module

`PROJECT.json` lists the components, the runs, the lines each definition models (`map`), the
hazards, and for each property a mutation of the code's model that breaks it.

## 1. The system

A shielded output hides its amount in a Pedersen commitment `v*A + b*G`, where `A` is the asset
tag of its token. In a *full* shielded output `A` is itself hidden, blinded by `r*G`; in an
*amount* shielded output it is public. Everyone else checks three things: that the commitments of
a transaction add up (balance), that each hides a positive amount (range proof), and that the
hidden asset is that of some input (surjection proof). The recipient finds its outputs by
rewinding every range proof on chain with a nonce that only it and the sender can derive.

| component | source | state it keeps | operations |
|---|---|---|---|
| commitments and generators | `generators.rs`, `pedersen.rs` | none | `derive_asset_tag`, `create_asset_commitment`, `create_commitment` |
| balance equation | `balance.rs`, `verify_balance` in the bindings | none; two vectors during a call | `verify_balance`, `compute_balancing_blinding_factor`, excess rules |
| range proofs | `rangeproof.rs` | none; a loop over three lists | create, verify, rewind, batch |
| surjection proofs | `surjection.rs` | none; a retry loop | create, verify |
| ECDH nonces | `ecdh.rs` | secrets on the stack during a call | `generate_random_blinding_factor`, `generate_ecdh_nonce`, `derive_rewind_nonce_from_keys` |
| creating and rewinding outputs | `ecdh.rs` | none | `create_*_shielded_output`, `rewind_*_shielded_output` |
| provider base class | `abstract.ts`, `errors.ts`, `types.ts`, `constants.ts` | calls waiting at an `await`; `ZERO_TWEAK` | `rewind*`, `open*`, one method per primitive |
| node provider | `provider.js`, `napi_bindings.rs` | none | primitives, run to the end in one turn |
| browser provider | `provider.js`, `wasm_bindings.rs` | results in wasm memory | the same, with results to be freed |
| mobile provider | `js/index.js`, the Kotlin and Swift bridges, `uniffi_bindings.rs` | promises a native thread must settle | the same, answered out of turn |

Three clients outside the repository are what it is written for, and the model has them as far as
the repository says what they do: the wallet that scans (README of the provider), the wallet that
assembles a transaction (the contract in `types.ts`), and whoever validates the chain with the
verifiers of the node or browser provider (`UPSTREAM.md`).

### How the parts interact

- A wallet calls the provider. The base class awaits a primitive of its platform's subclass, which
  encodes the arguments, calls the binding, and decodes the result; the binding parses bytes and
  calls the core; the core calls libsecp256k1-zkp.
- Errors go back the same way, and change form on it: the core has a dozen kinds, node and browser
  flatten them to text, UniFFI flattens them to `CryptoFailed` or `InvalidInput`. The base class
  asks its subclass (`_isScanMiss`) whether a failed rewind means that the output is somebody
  else's or that something is broken. The wallet skips the first and stops at the second.
- A transaction is put together by many calls, with nothing in the library that ties them: the
  balancing factor is computed from secrets the wallet lists, the surjection domain from what it
  believes of its inputs, the verdict from the lists it hands over last.

### What is hard

The core is sequential and keeps no state between calls. The hard behaviours are elsewhere:

- *Boundaries with a consequence.* The identity point makes the C library abort the process, and
  so does a surjection domain of 257 entries; sums of empty lists are decided by hand-written
  rules; 2^40 is the last amount whose proof has the common size.
- *Sequences of calls.* Entries added after the balancing factor was computed, an excess beside
  shielded outputs, inputs that moved after a surjection proof was made.
- *Partial failure.* A rewind is a chain of checks with early returns; which one fails decides
  between "skip" and "stop", through an error mapping that differs by platform. Early returns also
  decide which secrets are wiped.
- *Retries.* A surjection proof is tried 64 times, a digest is rehashed until it is a scalar.
- *Asynchrony.* Several rewinds are under way at once; `open*` awaits between two uses of its
  caller's Buffers; native answers come in any order, and must come.
- *Shared Buffers.* A promise does not copy its arguments: the node addon gets the caller's own
  Buffers, the mobile bridge a copy, and one of them, `ZERO_TWEAK`, is the same mutable object for
  every caller.
- *Provers.* Nothing makes a prover follow the protocol. That supply is conserved over a chain of
  transactions, modulo the order of the group and with generators of anybody's choice, takes all
  three verifiers, and none of them shows it alone.
- *Two ways to say no.* A verifier answers `false` to what does not hold and throws at what does not
  parse, on platforms that pass the same entries in different shapes.

PROJECT.json lists each of these at the line where it bites, with the properties that cover it.

### What makes each part correct

| component | correct when | property |
|---|---|---|
| balance | accepted transactions create and destroy nothing; what conserves and cancels is accepted; no call aborts; an excess only in a full unshield | `AcceptedConserves`, `VerdictIsExact`, `SealedIsAccepted`, `NeverAborts`; proved only: `ExcessOnlyInFullUnshield` |
| balance, the call | lists, order and loops make no difference | `ImplementsBalance` |
| range proofs | a proof tells nothing of its amount; every provable amount is accepted; what verifies is a positive word; a batch is its verifications in turn; `false` for what does not hold, an exception for what does not parse | `CreatedProofsLookAlike`, `ProvableIsAccepted`, `VerifiedIsPositiveWord`, `BatchIsEachInTurn`, `FalseMeansParsed` |
| surjection proofs | creation fails only for a reason; what verifies is the asset of an input of that moment | `FailureIsFinal`, `CreatedIsForThisOutput`, `VerifiedAssetIsSpent`, `NeverAborts` |
| balance verifiers of the providers | the platforms agree; malformed arguments throw, and only they; the two ways to add up commitments agree | `PlatformsAgree`, `ThrowsMeansMalformed`, `SumAgreesWithBalance` |
| ECDH | sender and recipient derive one nonce, a scalar; no secret is left behind | `NoncesAgree`, `OnlyUnusedKeyIsLeft` |
| rewinding and scanning | own outputs recovered as made, foreign ones skipped, everything else loud; what is recovered reproduces the commitments; the scan ends | `OwnOutputRecovered`, `RecoveredReproducesCommitments`, `ForeignIsSkipped`, `FailuresAreLoud`, `ResultsAreFreed`, `ScanEnds` |
| opening checks | no false claim matches; a claim whose Buffers are left alone is opened as it was made | `MatchProvesClaim`, `HeldClaimGetsThrough` |
| assembling wallet | what it created opens and balances, whatever is written to its Buffers at harmless times; `ZERO_TWEAK` does not matter where the core has its own; the assembly ends | `HeldIsAccepted`, `CreatedOpensItself`, `TokenShowsIfItShould`, `ImplementsBalance`, `AssemblyEnds` |
| chain | accepted transactions are the transfers of a transparent ledger; every shielded output is a coin, and every coin can move | `ImplementsTokenLedger`, `EveryOutputIsCoin`, `NothingIsStuck` |

## 2. The modules

    Commitments <-+- Balance <------------ BalanceProofs
                  +- BalanceCall <-------- BalanceCallProofs      (implements Balance)
                  +- Wallet <------------- WalletProofs           (implements Balance)
                  +- ShieldedLedger <----- ShieldedLedgerProofs   (implements TokenLedger)
                  +- Verifiers, RangeProofs <--- VerificationProofs
                  +- Openings, Surjection <----- OutputProofs
                  +- CommitmentsProofs (extended by the proofs about sums)
    Ecdh, Scan <- RecoveryProofs        Rewind <- Scan

An arrow points to the module that is extended. `MC<Module>.tla` gives a module's constants values
for TLC; `MC<Module>*.cfg` are the runs. RangeProofs and Surjection do not use Commitments:
they have commitments and generators of their own, given by what these hide. Three proof modules hold two components each: both
verifiers (VerificationProofs), both ways to make and open an output (OutputProofs), and the
recipient's nonce and its scan (RecoveryProofs), which is why the specifications of RangeProofs,
Surjection and Scan have names of their own (`RangeSpec`, `SurjectionSpec`, `ScanSpec`).

**Commitments** (`generators.rs`, `pedersen.rs`). A point is what its maker knows about it: a
multiple of each token's tag and a multiple of G. The tags are hashed to the curve, so nobody
knows a relation between them or with G, and a point that somebody can name has one such
representation. `Commit` is `PedersenCommitment::new`, `RejectedByCreateCommitment` the check that
keeps the identity point from it. Blinding factors are any commutative group (`ScalarAssumption`);
nothing depends on its size.

**Balance** (`balance.rs`, `create_*_shielded_output`, the excess rules of the bindings). The
abstract specification of a transaction's balance. `verify_balance` reads its lists only to add
them up, so each side is the sum of its commitments, their number, and whether building one
aborted. The wallet adds entries in any order (`AddTransparentInput`, `AddShieldedOutput`, ...),
with blindings of its choice or with that of `compute_balancing_blinding_factor`
(`AddBalancedOutput`), claims an excess or computes it (`ClaimExcess`, `RevealExcess`), and asks
for the verdict at any time (`VerifyBalance`). `inValue`, `inSecret` and their counterparts are
what the commitments hide: history the code does not have and the properties speak of.

**BalanceCall** (the same code). `verify_balance` as it runs: four lists filled by the caller, the
binding's concatenation of them, two loops that skip zero entries, the excess, the comparison; one
step per iteration. It implements `Balance` by `Abstract`, an `INSTANCE` whose mapping computes
the sums from the lists; the steps of the loops are stutters and `Compare` is `VerifyBalance`.

**RangeProofs** (`rangeproof.rs`, `verify_range_proof` of the bindings). A proof is its header
(`min`, `bits`), the commitment it is of, and whether its prover was honest; `Possible` says which
proofs can exist at all. `CreateRangeProof` has the amount checks and the floor on the bits, with
the library's widening and the size of the bytes; `VerifyOne` the parsing, the library's verdict
and the check on the start of the range; `AddToBatch`, `StartBatch` and `BatchStep` the batch over
three lists built apart.

**Surjection** (`surjection.rs`, its callers). The wallet's domain has an entry per input: the
generator on chain, and what the wallet believes is in it, which may be wrong or not parse.
`CreateSurjectionProof` is the parsing and the bounds, `Attempt` one pass of the retry loop over
what the library may answer (`AttemptOutcomes`); `AddInput` and `SwapLastInputs` change the
transaction at any time between calls; `VerifySurjectionProof` verifies any proof against the
transaction of that moment.

**Ecdh** (`ecdh.rs`). Three functions, a few statements a step. `held` is the set of local buffers
with a secret in them, `residue` what returned calls left behind. The number of digests in a row
that are not scalars is chosen at the start, per shared secret. A value moved to the caller, like
the `result` of `derive_rewind_nonce`, is the caller's buffer from then on (`digest`, then `nonce`);
a `SecretKey` of the library is a copy without `zeroize`, and left out.

**Rewind** (`ecdh.rs` and the three platforms). Pure operators: both rewinds as sequences of
checks with the error each raises, the length checks UniFFI makes before them, and `IsScanMiss` of
the three providers.

**Scan** (`abstract.ts`, the three subclasses, the bridges, and the loop that the provider's README
tells a wallet to write). A wallet with one scan key rewinds the output at every position, several
at a time, on one platform. On the node and in the browser the primitive runs in one turn and only
the classification is left for a later one; the browser's result lives in wasm memory
(`ReadWasmResult`); on mobile `NativeAnswers` whenever it likes, or fails by itself.

**Openings** (`abstract.ts` over the primitives of the platforms). `openAmountShieldedCommitment`
and `openFullShieldedCommitment`, one step per primitive. The value and the token are taken when
the call is made and the blindings when their primitive runs, so `Write` may come between.

**Verifiers** (`verify_balance`, `verify_commitments_sum` and `validate_commitment` of the napi and
wasm bindings, and `provider.js` of both). The caller builds four lists of entries that may be
malformed, and asks either platform at any time. On node the transparent entries are records; the
browser provider splits them into amounts and tokens, which `build_balance_entries` pairs up again
(`Received`). A call goes through the parsing in the order of the code, the excess rules, and the
comparison of `Commitments`.

**Wallet** (`abstract.ts`, `constants.ts` and the creation and balancing calls of the three
platforms). A wallet draws blindings, shields every output but the last in any order, asks for the
balancing factor, shields the last and submits. `Call` is a provider method up to its `await`: the
node addon answers in it (`RunsInTurn`), from the Buffers as they are; the mobile bridge has taken
a copy (`EncodeBytes`) that `Run` uses later; the browser provider refuses (`Unsupported`).
`Break` is a panic or a library that does not link; `Created`, `Balanced` and `Rejected` are the
promise settling. `Write` lets other code change any Buffer, `ZERO_TWEAK` included, at any time;
`disturbed` remembers the Buffers that were changed before a call that still had to read them did.
`Peer` is `Balance` with the transaction of the wallet, under a mapping that sums up what was
created: the wallet is shown to be one of its provers.

**TokenLedger** and **ShieldedLedger** (the three verifiers, over a chain). `TokenLedger` is what
they promise together: a bag of coins in plain sight, where a transfer replaces coins by others
worth the same, less a fee in HTR. `ShieldedLedger` is what is really checked: every output has
the points its prover chose, a generator need not be a blinded tag, and multiples are modulo the
order of the group. `Submit` is one accepted transaction: range proofs on all new shielded outputs
(`RangeVerifies`), surjection proofs on the full ones against the generators of the inputs
(`SurjectionVerifies`), and the balance with its excess rules (`BalanceVerifies`). A proof that
somebody can make counts as made. `Abstract` maps the bag of unspent outputs to the bag of what
they are worth (`Ledger`), in which outputs that hide the same are copies of one coin.

The **...Proofs** modules hold the theorems; see section 5.

## 3. What each run shows

Every type invariant is proved for every value of the constants (section 5). Those of Balance,
Ecdh, Openings, Verifiers and ShieldedLedger are left to the proofs, so that the runs spend their
time on what else matters.

Each run finishes within two minutes or so. A bound is enough when the next larger value adds no
new case; the paragraphs below say what each case needs.

| run | module, cfg | states | question |
|---|---|---|---|
| `balance` | MCBalance | 139,496 | Can any prover get a transaction accepted that does not conserve its tokens, or one refused that does? |
| `balance_call` | MCBalanceCall | 70,168 | Do the lists and loops of the code decide what `Balance` decides? |
| `range_proofs` | MCRangeProofs | 332,441 | Do the boundaries of the provable range, the error contract and the batch hold for every proof that can exist? |
| `ecdh` | MCEcdh | 469,476 | Do both sides derive one nonce, and is every secret wiped that matters? |
| `ecdh_wipe` | MCEcdhWipe | violated | Is every secret wiped? |
| `scan` | MCScan | 188,733 | Do answers stay with their outputs, are results freed, does the scan end; for every combination of defects, what is recovered, skipped, loud? |
| `scan_mobile` | MCScanMobile | violated | Is a scan miss never a decoding error? |
| `surjection` | MCSurjection | 537,342 | When may making a proof fail, and what does a verified one say of the inputs of the day? |
| `openings` | MCOpenings | 347,945 | May an opening check mix up calls, Buffers or numbers? |
| `ledger` | MCShieldedLedger | 875 | Do the three verifiers conserve every token over a chain of transactions of any provers, and can every coin move? |
| `wallet` | MCWallet | 55,282 | Is what an honest wallet assembles accepted, whatever happens to its Buffers at harmless times, and does it end? |
| `verifiers` | MCVerifiers | 489,760 | Do the platforms agree, and is malformed input rejected wherever it is? |

**balance.** Two tokens, one of them HTR; scalars modulo 3, so that a scalar and its negation
differ and a wrong sign shows; amounts 0 to 3 with `MAX_PROVABLE_AMOUNT` 2, so that zero, a value
below, at and above the limit all occur; two inputs and two outputs, so that an entry of each kind
can stand on a side with one of another, or be the last after one that is not. Every blinding
factor and excess is tried, before and after the balancing factor is computed.

**balance_call.** Two inputs and one output, scalars modulo 2, amounts 0 and 1: each list may be
empty, have one entry or stand beside the other, and a zero may be skipped before or after an entry
that is not. The algebra is the other run's matter, and the step-by-step equality with `Balance`
does not depend on it. That `Abstract!Spec` is checked and not only its verdict means that no loop
step changes anything a caller sees.

**range_proofs.** Words of 3 bits and created proofs of 1 bit: as in the code, the created width
leaves room both for wider proofs and for words above them, `MAX_PROVABLE_AMOUNT` is the amount
whose predecessor just fits, and `MAX_RANGE_PROOF_SIZE` lies below the largest proof, so that the
size check refuses some. `2^WORD_BITS` stands for a committed scalar that is no word. Single
verifications have every proof `Possible` admits; batches of at most 2 have a proof from zero, an
unsound and a wide one (`BatchProofs`), which suffice for a list to be longer or shorter than each
other one, and for the first or the last proof to be the bad one.

**ecdh**, **ecdh_wipe.** Two recipients and one ephemeral key: two different shared secrets, and a
rewind with the wrong key. Up to two rejected digests in a row: none, one (which an `if` in place
of the loop survives) and two (which it does not).

**scan**, **scan_mobile.** Three positions with at most two calls under way: one call can start
while another is open, and a third only after one settled. The chains are of two kinds. In the
first every position has one of five outputs: the two honest kinds that are ours, a foreign one, a
malformed one and one whose message lies. In the second one output is shielded, with every
combination of the defects of four fields, both kinds, both recipients, and all claims over two
tokens and two blindings; outputs do not affect each other apart from the interleaving that the
first kind has. All three platforms, and good, short and out-of-range keys. Liveness is checked
here; the violation has one position.

**surjection.** Two tags with two blindings each; the four true entries, a stale blinding, a wrong
tag and an entry that does not parse; domains of up to three with a limit of two, so that the
domain can be empty, below, at and over the limit; subsets of one, so that a good domain of two can
be missed; two attempts, so that the first and the last may differ. Between calls inputs are added
and swapped. Two proofs from elsewhere, a sound one and one that proves nothing.

**openings.** Two calls over two Buffers, so that calls share both, one or none; words of one bit
with claimed values below, in and above the range (3 is 1 modulo 2, where a wrap would hide);
scalars modulo 2 and bytes that are no scalar, written at any time.

**ledger.** Two tokens, a group of order 7 and words up to 2, the smallest that
`LedgerAssumption` allows for two outputs and the fee, so that a sum one entry larger would wrap;
blindings modulo 2; transactions of up to two inputs and two outputs, over three unspent outputs
that start transparent. Every pair of points is tried for the generator and the commitment of a
new output, the negation of a tag and the sum of two tags among them. Few states, and a large
successor relation: the outputs of provers are most of all pairs of points, and almost no
transaction of them passes. A chain may be of any length. Leaving out any one of the verifiers
breaks a property, and so does a range that starts at zero or the excess rule the wrong way round.

**wallet.** Plans of two drafts in every combination of forms with an input of each form, one
whose change is above `MAX_PROVABLE_AMOUNT` and one that does not conserve its token; scalars
modulo 3 and bytes that are no scalar; one write of other code to any Buffer at any time. A second
write could undo the first, which is not another case. The drafts are two because the last is
treated differently and the others alike, but for their order; a plan has one input.

**verifiers.** One token, words of one bit with claimed amounts below, in and above them (2 is 0
modulo 2), points among which two cancel out, malformed tokens, commitments and excesses, and up to
three entries in all: a malformed one may be the first, between, or the last.

`CHECK_DEADLOCK FALSE` is in the configurations of Scan, where the scan ends; of Wallet, where the
assembly ends with a verdict or an error; and of Verifiers, where the caller has nothing left to do
once its lists are full and every call is answered.

Bounds that are guards of the modules: `MaxInputs`, `MaxOutputs` (Balance, BalanceCall),
`MaxInputs` (Surjection), `MaxBatch` (RangeProofs), `MaxRejected` (Ecdh), `MaxCalls` and
`Positions` (Scan), `MaxInputs`, `MaxOutputs` and `MaxUnspent` (ShieldedLedger), `MaxDrafts` and
`MaxWrites` (Wallet), `MaxEntries` (Verifiers). Two verify calls do not follow each other directly in RangeProofs and
Surjection: a verification changes nothing a second could see.

### Fairness

Scan and Wallet need some. In Scan, `WF(StartOn...)`: the wallet's loop goes on to the next output, as the
provider's README writes it. `WF(ReadWasmResult)` and `WF(Settle)`: the event loop runs what is
ready. `WF(NativeAnswers)`: the bridges settle the promise on every path (a `catch (e: Throwable)` in
Kotlin, a `do`/`catch` in Swift), and the rewind itself has no unbounded loop; this is
where the code justifies it, and the mutation that leaves a failing call unanswered breaks
`ScanEnds`. In Wallet, every operation of the wallet's program that stays possible is taken in the
end (`WF(Draw \/ Unsupported)`, `WF(Call)`, `WF(Submit)`, and `WF` of the settling of a promise,
which the event loop runs), and `WF(Run \/ Break)` per draft is the same promise of the bridges: a
call is answered or rejected, and which of the two is left open. Other code need not write, nor
stop writing before its bound. No strong fairness is assumed.

## 4. What the runs found

Two statements of the repository are not true of the code. None is a flaw of the core's algebra.

1. *A scan miss on mobile may be a decoding error* (`scan_mobile`). UniFFI makes every error of the
   core `CryptoFailed` (`uniffi_bindings.rs:27-31`), and `_isScanMiss` of the mobile provider takes
   that code for a scan miss (`js/index.js:101`). `errors.ts:9-11` says that a `ScanMissError` is
   "NOT a corruption/decode error". A wallet that skips scan misses silently skips a damaged output
   of its own; the other two platforms stop.
2. *An early return leaves an ephemeral key on the stack* (`ecdh_wipe`). `generate_ecdh_nonce`
   draws the key before it parses the recipient's, and the `?` at `ecdh.rs:310` passes over the
   wiping that the comment at 303-306 promises. `OnlyUnusedKeyIsLeft` shows that nothing else is
   ever left in the modelled buffers, and the key belongs to no output.
A third is known to its authors: the comment at `wasm_bindings.rs:346` says a verified range proof
is of at most 2^40, but only the start of the range is checked, which `UPSTREAM.md:79` records.
`VerifiedIsPositiveWord` is what does hold, and `ledger` shows that it is enough: no width of a
range up to a word lets a sum wrap (`ImplementsTokenLedger`, over every width the prover likes).

## 5. What is proved

Every invariant that a run checks, every refinement, and the action property are theorems; liveness
is not. Eight modules hold them. None fixes a constant: sets of tokens, keys, calls, Buffers,
positions and platforms are any sets, scalars any commutative group with the few laws of `Times`
that the arguments use (that multiples add up is not among them), bounds any naturals, lists of any
length. The assumptions are the named ones of the modules, which TLC evaluates for the values of
every run:

- `TokenAssumption`, `AmountAssumption`, `ScalarAssumption`: HTR is a token, amounts are naturals
  and zero is one, scalars form a group.
- `BoundAssumption`, `CallAssumption`, `PlanAssumption`, `WalletAssumption`, `VerifierAssumption`,
  `OpeningAssumption`, `EcdhAssumption`, `ScanAssumption`, `SurjectionAssumption`,
  `RangeProofAssumption`: what the constants are, that a placeholder (`Malformed`, `Unset`, ...) is
  none of the things it stands beside, and that what comes from elsewhere can exist (`Possible`).
- `SizeAssumption`: the largest proof the bindings take is no smaller than one of full width, as in
  the code (3,328 bytes against the 3,213 of a proof of 40 bits).
- `LedgerAssumption`: one more than the outputs of a transaction, each of the largest word, do not
  reach the order of the group, nor do its inputs; `GenesisAssumption`: at first there are finitely
  many outputs, all transparent.

| module | theorem | statement |
|---|---|---|
| CommitmentsProofs | `IdentityIsRejected` | `create_commitment` refuses exactly the openings whose commitment is the identity point |
| BalanceProofs | `BalanceInvariant`, `TypeCorrect` | `Spec => []BalanceInv`, `Spec => []TypeOK` |
| | `NoCallAborts` | `Spec => []NeverAborts` |
| | `VerdictExact` | `Spec => []VerdictIsExact` |
| | `Conservation` | `Spec => []AcceptedConserves` |
| | `BalancingCompletes` | `Spec => []SealedIsAccepted` |
| | `ExcessRule` | `Spec => []ExcessOnlyInFullUnshield` |
| BalanceCallProofs | `LoopsCollect`, `CallType` | `Spec => []CallInvariant`, `Spec => []TypeOK` |
| | `CallImplementsBalance` | `Spec => ImplementsBalance` |
| WalletProofs | `WalletTypes`, `WalletType` | `Spec => []WalletTyped`, `Spec => []TypeOK` |
| | `WalletHolds` | `Spec => []WalletHeld` |
| | `HeldWalletIsAccepted` | `Spec => []HeldIsAccepted` |
| | `WalletImplementsBalance` | `Spec => ImplementsBalance` |
| | `CreationsOpen`, `TokensShow` | `Spec => []CreatedOpensItself`, `Spec => []TokenShowsIfItShould` |
| ShieldedLedgerProofs | `CoinsOnly` | `Spec => []EveryOutputIsCoin` |
| | `LedgerImplementsTokens` | `Spec => ImplementsTokenLedger` |
| | `CoinsMove` | `Spec => []NothingIsStuck` |
| RecoveryProofs | `BothSidesAgree`, `StackIsClean` | `Spec => []NoncesAgree`, `Spec => []OnlyUnusedKeyIsLeft` (Ecdh) |
| | `OwnAreRecovered` | `ScanSpec => []OwnOutputRecovered` |
| | `RecoveredAreTrue` | `ScanSpec => []RecoveredReproducesCommitments` |
| | `ForeignAreSkipped` | `ScanSpec => []ForeignIsSkipped` |
| | `FailuresStayLoud`, `ResultsFreed` | `ScanSpec => []FailuresAreLoud`, `ScanSpec => []ResultsAreFreed` |
| VerificationProofs | `AmountsStayHidden` | `RangeSpec => []CreatedProofsLookAlike` |
| | `ProvableAreAccepted` | `RangeSpec => []ProvableIsAccepted` |
| | `VerifiedArePositive` | `RangeSpec => []VerifiedIsPositiveWord` |
| | `BatchIsSequential`, `FalseIsAnAnswer` | `RangeSpec => []BatchIsEachInTurn`, `RangeSpec => []FalseMeansParsed` |
| | `PlatformsNeverDisagree` | `Spec => []PlatformsAgree` (Verifiers) |
| | `ErrorContract`, `SumsAgree` | `Spec => []ThrowsMeansMalformed`, `Spec => []SumAgreesWithBalance` |
| OutputProofs | `NoDomainAborts`, `FailuresAreFinal` | `SurjectionSpec => []NeverAborts`, `SurjectionSpec => []FailureIsFinal` |
| | `MadeForThisOutput` | `SurjectionSpec => []CreatedIsForThisOutput` |
| | `VerifiedAreSpent` | `SurjectionSpec => []VerifiedAssetIsSpent` |
| | `MatchesAreProofs` | `Spec => []MatchProvesClaim` (Openings) |
| | `HeldClaims` | `Spec => HeldClaimGetsThrough`, an action property |

The remaining type invariants are `LedgerType`, `EcdhType`, `ScanType`, `RangeType`, `VerifierType`,
`SurjectionType` and `OpeningType`; the inductive invariants are in the theorems `...Correct`
(`LedgerCorrect` and so on). Each is proved with a lemma per action, or per group of actions that
disturb the same conjuncts.

**Sums, and induction.** The models add up lists with one operator, `SumUp`, by a recursive function.
The library's induction theorems take an operator as a parameter, which the provers cannot
instantiate, so CommitmentsProofs states induction of sets: `LeastNatural` is the well-foundedness of
`<` for a set of naturals, `Induction` that a set with 0 that is closed under the successor holds
0 .. n, `RecursionExists` that a recursive definition whose step is a function has a solution.
The sum of a list over a monoid that is given by a function (`MonoidSum`) is then shown to append,
concatenate and replace as it should, once; scalars, values, points and lists of points are four
such monoids, and `ScalarSum`, `ValueSum`, `PointSum` and `Joined` inherit the lemmas.

**Balance.** The properties relate the last verdict to the values, which no action but
`VerifyBalance` compares. `BalanceInv` says what makes the comparison mean something:

- `SumsAreOpenings`: each sum is the commitment to what its entries are worth and hide. Then two
  equal sums have equal values and equal blindings, since a point has one representation.
- `CommitmentsHaveValue`: a side without commitments sums to the identity, and a side with one is
  worth something. It is why the rule on one empty side lets nothing through and turns nothing
  down, although a sum of commitments can vanish in principle; it needs the check in
  `create_commitment`, the skipped zero amounts and the positive amounts of inputs. It also says
  that no commitment built so far aborted.
- `shieldedIn => positive.n # 0`: an excess is a commitment to zero and could stand alone on its
  side; with shielded inputs the other side is not empty.
- `SealedCancels`: after a call with the balancing factor the blindings cancel, until an entry with
  a blinding is added. Transparent entries leave it true.
- `VerdictIsCurrent`: a verdict is about the entries there are, as every call replaces it.

`StepKeepsInv` has one step per action. The property that takes an argument is `VerdictIsExact`, by
cases on which sides are empty (`EmptySides`) and on the excess (`ExcessSum`).

**BalanceCall.** `LoopInvariant` says what the two vectors are at every step of the call: what the
lists, in the binding's order, give as far as the loop has come. The order is the difference to
`Balance`, which adds an entry to a sum when the caller adds it to a list; the sums are the same as
the group is commutative (`PointSumConcat`), and since entries are added only between calls the
loops are stutters. Every property of BalanceProofs is then one of the call.

**Wallet.** `DraftInvariant` follows the drawn asset blinding of each draft from its Buffer
(`IsDrawn`), to the copy in a call that is on its way (only on mobile: on node no call is ever on
its way), to the answer and the output. At each place it is not zero unless the Buffer was written
to before the creation read it. `WalletTyped` adds what is set when: a creation is asked for only
with Buffers that were filled, the factor only when every other draft is created. `FactorIsRight`
is the heart: while no Buffer was disturbed, the factor that is asked for, answered, stored, passed
on and used is at each of these places the one that makes the blindings cancel
(`RightFactor`), whichever order the drafts were created in. `SumsOpen` says that the sum of what
was created opens to the sums of values and secrets, from which `HeldIsAccepted` follows; and with
`VerdictStays` it gives the refinement, in which a creation is an entry of the transaction and the
last one is an entry with the balancing factor only if no Buffer was disturbed.

**ShieldedLedger.** `LedgerInvariant` is that there are finitely many outputs, and
`EveryOutputIsCoin`, which is inductive, and only as both halves of a coin: a surjection proof says
that a generator is that of some input up to blinding, so it is a tag if those of the inputs were
(`GeneratorIsTag`); given that, a range proof makes the commitment a positive word of that token
(`RangeProofMeansCoin`), which needs that words do not reach the order (`WordsDoNotWrap`). The
balance plays no part. The refinement then needs it:

- `Ledger` counts the copies of outputs that are worth the same. It takes bags that are put together
  to bags that are put together (`LedgerAdd`, by a bijection of the copies), so what a transaction
  leaves and what it spends are parts of the ledger as well (`PutBack`, `TakeOut`).
- The coins of a list of outputs are worth the sum of what they hide (`WorthOfList`), which the sum
  of points modulo the order is too as long as nothing wraps (`SumOfWorth`).
- In each token, `I + Order - O` is the fee modulo the order, `I` and `O` plus the fee are below the
  order, hence `I` is `O` plus the fee (`NoBorrow`, `BalanceMeansWorth`). `(MaxOutputs + 1) *
  MaxWord < Order` is exactly what the case of a negative difference needs.

`CoinsMove` builds transactions: for one input and one output the equation is an equation of two
points (`OneForOne`), which the excess solves for a transparent output (`UnshieldsAgain`), and the
blinding for a shielded one (`ShieldsAgain`).

**Ecdh.** `CallSoFar` says which secrets are on the stack at each statement; `DigestSoFar` that the
loop never passes the first scalar; `NoncesAreOfKeys` that what was returned is the nonce of its
pair of keys, from which agreement is a fact about unordered pairs; `KeysThatParseSuffice` that
keys that parse always get to a nonce.

**Scan.** `CallIsAt` says of each position what is known at each stage of its rewind: an answer is
what the core says of the output at that position, or an error from elsewhere; the wallet's
outcome and what it recovered follow from the answer; a result lives exactly while it is being read.
Positions are told apart, which is what an answer that gets to the wrong output would break. What
the core says is worked out once (`RewindErrorIs`): the first failing check of the sequence in
Rewind, in closed form; the properties are then cases on what is wrong with an output.

**RangeProofs.** `LoopSoFar`: the proofs before the index of the batch verify alone, and the three
lists have one length. `CreatedIsPositive`: all created proofs have the width of the floor, for
which the powers of two are taken through their recursion (`Powers`): the number of bits of a
provable amount less one is at most that of the floor. **Verifiers.** `AnswersArePresent` and
`ZipRestores`: two lists made of one list of records pair up to that list again. With no transparent
entries and no excess the two ways to add up commitments are of the same points, and differ only in
the rule on an empty side (`SumsAgree`).

**Surjection.** `LoopIsInBounds`: the retry loop runs on a domain that passed the checks, and nothing
has been said yet. **Openings.** `GeneratorIsClaimed` and `OpenedIsClaimed` carry the claim through
the two awaits; `CommitBinds` (a commitment to a positive value opens in one way) does the rest. The
action property has the same invariant and the two lemmas `HeldIsOpened` and `HeldIsNotRefused`.

**Only model-checked.** Liveness (`ScanEnds`, `AssemblyEnds`), which needs `ENABLED` and is out of
the prover's reach. That `SkippedIsNotMalformed` and `WipedBeforeReturning` are violated is of
course shown by a counterexample.

## 6. Abstractions

- *Points and hashes are ideal.* A point has one representation, a hash has no collisions, a proof
  system is sound: a `sound` proof was made by somebody who knows what it claims, one that is not
  never verifies. What the cryptography promises is assumed; what the code does with it is modelled.
- *Multiples of a tag do not wrap.* A transaction has fewer than 2^16 entries of fewer than 2^64
  units. `VerifiedIsPositiveWord` is the fact about shielded entries that this rests on; `Balance`
  takes it for its inputs and enforces it for its outputs. ShieldedLedger takes nothing for
  granted: there multiples are modulo the order, and that they do not wrap is a result.
- *One call of the core is one step* in Balance, Scan, Openings, Wallet and Verifiers, as the
  core has no shared state; BalanceCall, Ecdh, Surjection and RangeProofs open up the calls with loops.
- *libsecp256k1-zkp is external.* Its random subset, its refusals and its argument checks are
  nondeterministic in the states where its interface allows them.
- *Bytes are what parsing them does.* Two defects of a rewind's message are left out: a blinding
  that is no scalar, and a message too short for the full kind. Both end in a hard error like the
  failed cross-check, on the platforms that tell the errors apart.
- *Copies of a secret that the code does not hold in a buffer* (a `SecretKey`, a register) are left
  out of Ecdh, and so is what a move leaves of the moved value: `OnlyUnusedKeyIsLeft` is about the
  named local buffers.
- *Native answers come in any order* in Scan; a bridge that answers in turn has fewer behaviours.
- *The environment may break any call of a rewind, an opening check, a creation or the balancing
  factor* (Scan, Openings, Wallet), on every platform that runs it: a panic that the addon catches, a
  trap of the wasm module, a getter of its result that throws, a mobile library that panics or does
  not link, a mobile result that cannot be decoded. It does not break the drawing of blindings, nor
  the process as a whole.
- *Messages of errors are classes* (Rewind): each binding's message either says that the rewind
  failed or something else. That the providers look for the text the core writes today is in the
  translation of `IsScanMiss`; a change of wording on one side would not show.
- *A misplaced excess counts as malformed* in Verifiers (`WellFormed`), as it does in the bindings.
- *A stale balancing factor is not prevented*: `SealedIsAccepted` is about the factor of the entries
  there are, and for any other `VerdictIsExact` says what becomes of the transaction.
- *The clients are as the repository describes them.* The wallet of Wallet balances its last draft
  and uses what creations return; that of Scan follows the README. The chain of ShieldedLedger has no
  blocks, no signatures and no double spends.
- *A proof that can be made is made* in ShieldedLedger: what a verifier lets through is given by what
  the prover can know, and provers know everything but relations between tags.

Not modelled: the generated UniFFI bindings and the napi loader (nothing is decided there), the
test vectors (data), the build and release scripts, and the primitives of the providers that encode,
call and decode without a branch.

## 7. Plan

Written, in this order: Commitments and Balance, since everything else exists so that a transaction
balances; the proofs about them; BalanceCall, which ties them to the code's lists; RangeProofs; Ecdh,
Rewind and Scan, the recipient's side; Surjection; Openings; ShieldedLedger and TokenLedger, which
compose the verifiers; Wallet, which composes the provider with Balance; Verifiers; the proofs about
all of these, the three refinements last.

What could come next:

1. A Wallet with several inputs and transparent outputs, and the surjection proofs of its full
   outputs in the same transaction: the domain it believes in is then the same list its entries
   for the balancing factor come from. The lemmas about sums of drafts carry over to sums of inputs.
2. Theorems that the recipient finds what the sender made: the outputs of Wallet as those of Scan,
   with Ecdh's nonce between them.
3. Transactions of ShieldedLedger that mint or melt tokens, should the verifiers come to know them.
