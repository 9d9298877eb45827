------------------------------- MODULE Rewind -------------------------------
(***************************************************************************)
(* Rewinding one output with a scan key: the checks of                     *)
(* rewind_amount_shielded_output and rewind_full_shielded_output           *)
(* (crypto-core/src/ecdh.rs) in their order, the checks each binding makes *)
(* before them, and how each provider reads the error that comes back.     *)
(*                                                                         *)
(* A field of an output is described by what parsing it does: "ok", or the *)
(* defect that stops it.  A proof also knows whether it was made for the   *)
(* commitment, the generator and the ephemeral key it travels with.        *)
(***************************************************************************)
EXTENDS Naturals, SequencesExt

CONSTANTS Keys,      \* the key pairs that outputs are addressed to
          WalletKey, \* the one whose secret key the wallet scans with
          Tokens,    \* token uids
          Blindings  \* asset blinding factors

Parses == {"ok", "length", "point"}

\* What parsing the wallet's secret key does: "range" is zero or too large.
KeyParses == {"ok", "length", "range"}

\* An output as it is found on chain.  to, token and abf are what it was made
\* with; claim is what its sender wrote into the proof's message.
Output ==
  [kind : {"amount", "full"}, to : Keys, ephemeral : Parses, commitment : Parses,
   asset : Parses, proof : {"ok", "oversize", "garbled", "mismatched"},
   token : Tokens, abf : Blindings, claim : [token : Tokens, abf : Blindings]]

\* What create_*_shielded_output makes, for any recipient.
IsHonest(o) ==
  /\ o.ephemeral = "ok" /\ o.commitment = "ok" /\ o.asset = "ok" /\ o.proof = "ok"
  /\ o.kind = "full" => o.claim = [token |-> o.token, abf |-> o.abf]

\* Some field of the output cannot be parsed.
IsMalformed(o) ==
  \/ o.ephemeral # "ok" \/ o.commitment # "ok"
  \/ o.kind = "full" /\ o.asset # "ok"
  \/ o.proof \in {"oversize", "garbled"}

----------------------------------------------------------------------------
(* The core.  A check is the condition it tests and the error it raises.   *)

Check(passes, error) == [passes |-> passes, error |-> error]

NoError == "none"

\* A sequence of checks raises the error of the first that does not pass.
FirstError(checks) ==
  LET i == SelectInSeq(checks, LAMBDA c : ~c.passes)
  IN  IF i = 0 THEN NoError ELSE checks[i].error

\* derive_rewind_nonce_from_keys
NonceChecks(key, o) ==
  <<Check(key = "ok", "Secp256k1Error"),
    Check(o.ephemeral = "ok", "Secp256k1Error")>>

\* The nonce is right when the scan key is the recipient's; the proof is opened
\* when it is also the proof of this commitment under this generator.
Opens(o) == o.to = WalletKey /\ o.proof = "ok"

RangeProofChecks(key, o) ==
  <<Check(o.commitment = "ok", "InvalidCommitment"),
    Check(o.proof \notin {"oversize", "garbled"}, "RangeProofError"),
    Check(Opens(o), "range proof rewind failed")>>

AmountChecks(key, o) == NonceChecks(key, o) \o RangeProofChecks(key, o)

\* Variants: no cross-check; the halves of the message in the wrong order.
ClaimTrusted(o) == TRUE
ClaimHalvesSwapped(o) == o.claim = [token |-> o.abf, abf |-> o.token]

\* The embedded token and blinding must reproduce the on-chain asset commitment.
ClaimReproducesAsset(o) == o.claim = [token |-> o.token, abf |-> o.abf]

FullChecks(key, o) ==
  NonceChecks(key, o)
  \o <<Check(o.asset = "ok", "InvalidGenerator")>>
  \o RangeProofChecks(key, o)
  \o <<Check(ClaimReproducesAsset(o), "asset commitment verification failed")>>

CoreChecks(key, o) ==
  IF o.kind = "amount" THEN AmountChecks(key, o) ELSE FullChecks(key, o)

----------------------------------------------------------------------------
(* The bindings.                                                           *)

\* UniFFI checks some lengths itself; the node and the browser leave them all
\* to the core.
LengthChecks(platform, key, o) ==
  IF platform # "mobile" THEN <<>>
  ELSE <<Check(key # "length", "InvalidInput"),
         Check(o.ephemeral # "length", "InvalidInput"),
         Check(o.kind = "full" => o.asset # "length", "InvalidInput")>>

\* What a rewind of o with the scan key fails with, or NoError.
RewindError(platform, key, o) ==
  FirstError(LengthChecks(platform, key, o) \o CoreChecks(key, o))

\* Variant: returns the halves of the message in the wrong order.
RewoundSwapped(o) ==
  IF o.kind = "amount" THEN [token |-> o.token]
  ELSE [token |-> o.claim.abf, abf |-> o.claim.token]

\* What a successful rewind returns, besides the value and its blinding factor,
\* which the proof yields.
Rewound(o) ==
  IF o.kind = "amount" THEN [token |-> o.token] ELSE o.claim

\* Errors that do not come from the core: a decoding failure of the bridge or
\* of JavaScript, a linkage failure of the native library, a panic, a trap, a
\* getter of the wasm result that throws.
OutsideErrors == {"InvalidInput", "Internal", "JavaScript"}

\* Variant: whatever is not bad input is a crypto failure.
BridgeCodeOfAnyThrowable(error) ==
  IF error = "InvalidInput" THEN error ELSE "CryptoFailed"

\* The code a mobile bridge rejects with; UniFFI turns every error of the core
\* into CryptoFailed, and errors raised in JavaScript have no code.
BridgeCode(error) == IF error \in OutsideErrors THEN error ELSE "CryptoFailed"

\* Variant: the default of the base class.
IsScanMissDefault(platform, error) == FALSE

\* _isScanMiss of the three providers.
IsScanMiss(platform, error) ==
  IF platform = "mobile" THEN BridgeCode(error) = "CryptoFailed"
                         ELSE error = "range proof rewind failed"
============================================================================
