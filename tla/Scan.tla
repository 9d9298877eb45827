-------------------------------- MODULE Scan --------------------------------
(***************************************************************************)
(* A wallet scanning the chain with one scan key through a shielded crypto *)
(* provider (packages/ct-crypto-provider/src/abstract.ts and its three     *)
(* subclasses).  The wallet rewinds every output and handles the outcome   *)
(* the way the provider's README says: a ScanMissError means skip it, any  *)
(* other error ends the scan.  It may have several calls under way.        *)
(*                                                                         *)
(* On the node and in the browser a call runs to its raw result at once;   *)
(* what is left for a later turn of the event loop is the decoding or the  *)
(* classification of the error.  In the browser the raw result is an       *)
(* object in wasm memory that holds the secrets until it is freed.  On     *)
(* mobile the call crosses a bridge to a native thread and its answer      *)
(* crosses back, so answers come in any order.                             *)
(***************************************************************************)
EXTENDS Rewind

CONSTANTS Positions,   \* of the outputs on chain
          Transparent, \* an output that is not shielded
          Chains,      \* what may be on chain, an output at each position
          MaxCalls     \* calls the wallet has under way at once

ASSUME ScanAssumption ==
  /\ Transparent \notin Output /\ Chains \subseteq [Positions -> Output \cup {Transparent}]
  /\ MaxCalls \in Nat \ {0}

VARIABLES
  platform,   \* of the provider
  key,        \* what parsing the wallet's secret key does
  chain,      \* the output at each position
  rewind,     \* where the rewind of each output is
  answer,     \* the raw result of each call: an error or NoError
  live,       \* wasm results not freed yet
  outcome,    \* what the wallet learnt of each output
  recovered,  \* what it recovered: {} or the set of one record
  stopped     \* whether a hard error ended the scan

scanVars == <<platform, key, chain, rewind, answer, live, outcome, recovered, stopped>>

Platforms == {"node", "wasm", "mobile"}

ScanTypeOK ==
  /\ platform \in Platforms
  /\ key \in KeyParses
  /\ chain \in [Positions -> Output \cup {Transparent}]
  /\ rewind \in [Positions -> {"idle", "sent", "reading", "answered", "settled"}]
  /\ answer \in [Positions -> {NoError, "none yet"} \cup OutsideErrors
       \cup {"Secp256k1Error", "InvalidCommitment", "InvalidGenerator", "RangeProofError",
             "range proof rewind failed", "asset commitment verification failed"}]
  /\ live \subseteq Positions
  /\ outcome \in [Positions -> {"unknown", "mine", "skipped", "failed"}]
  /\ \A p \in Positions : \A r \in recovered[p] :
       r \in [token : Tokens] \cup [token : Tokens, abf : Blindings]
  /\ stopped \in BOOLEAN

ScanInit ==
  /\ platform \in Platforms
  /\ key \in KeyParses
  /\ chain \in Chains
  /\ rewind = [p \in Positions |-> "idle"]
  /\ answer = [p \in Positions |-> "none yet"]
  /\ live = {}
  /\ outcome = [p \in Positions |-> "unknown"]
  /\ recovered = [p \in Positions |-> {}]
  /\ stopped = FALSE

UnderWay == {p \in Positions : rewind[p] \in {"sent", "reading", "answered"}}

Answer(p, error) ==
  /\ rewind' = [rewind EXCEPT ![p] = "answered"]
  /\ answer' = [answer EXCEPT ![p] = error]

\* The event loop is busy while a wasm result is being read: that is one turn.
EventLoopFree == \A p \in Positions : rewind[p] # "reading"

MayStart(p) ==
  /\ EventLoopFree /\ ~stopped
  /\ chain[p] # Transparent /\ rewind[p] = "idle" /\ Cardinality(UnderWay) < MaxCalls

\* The call may also end in a panic, which the addon catches, or in a Buffer that
\* cannot be made: an error like any other, with a message of its own.
StartOnNode(p) ==
  /\ platform = "node" /\ MayStart(p)
  /\ \E error \in {RewindError(platform, key, chain[p]), "Internal"} : Answer(p, error)
  /\ UNCHANGED <<platform, key, chain, live, outcome, recovered, stopped>>

\* wasm-bindgen allocates the result of a rewind that succeeds.  A panic, or memory
\* that runs out, is a trap: JavaScript throws, and there is no result.
StartInBrowser(p) ==
  /\ platform = "wasm" /\ MayStart(p)
  /\ \E error \in {RewindError(platform, key, chain[p]), "JavaScript"} :
       IF error = NoError
       THEN /\ rewind' = [rewind EXCEPT ![p] = "reading"]
            /\ live' = live \cup {p}
            /\ UNCHANGED answer
       ELSE Answer(p, error) /\ UNCHANGED live
  /\ UNCHANGED <<platform, key, chain, outcome, recovered, stopped>>

\* Variant: frees the result after the getters, not in a finally clause.
ReadWasmResultThenFree(p) ==
  /\ rewind[p] = "reading"
  /\ \E error \in {NoError, "JavaScript"} :
       /\ Answer(p, error)
       /\ live' = IF error = NoError THEN live \ {p} ELSE live
  /\ UNCHANGED <<platform, key, chain, outcome, recovered, stopped>>

\* Copying the getters out; one may throw.  The finally clause frees the result
\* either way.
ReadWasmResult(p) ==
  /\ rewind[p] = "reading"
  /\ \E error \in {NoError, "JavaScript"} : Answer(p, error)
  /\ live' = live \ {p}
  /\ UNCHANGED <<platform, key, chain, outcome, recovered, stopped>>

StartOnMobile(p) ==
  /\ platform = "mobile" /\ MayStart(p)
  /\ rewind' = [rewind EXCEPT ![p] = "sent"]
  /\ UNCHANGED <<platform, key, chain, answer, live, outcome, recovered, stopped>>

\* Variant: a failing rewind leaves the promise alone.
NativeAnswersSuccessOnly(p) ==
  /\ rewind[p] = "sent"
  /\ RewindError(platform, key, chain[p]) = NoError
  /\ Answer(p, NoError)
  /\ UNCHANGED <<platform, key, chain, live, outcome, recovered, stopped>>

\* The native method resolves or rejects the promise; anything that is neither a
\* CryptoError nor bad base64 is rejected as Internal.
NativeAnswers(p) ==
  /\ rewind[p] = "sent"
  /\ \E error \in {RewindError(platform, key, chain[p]), "Internal"} : Answer(p, error)
  /\ UNCHANGED <<platform, key, chain, live, outcome, recovered, stopped>>

\* The await returns: the error is classified, or the result decoded.  Decoding
\* what a mobile bridge returned may fail, after the rewind's try block.
Settle(p) ==
  /\ EventLoopFree /\ rewind[p] = "answered"
  /\ \E error \in {answer[p]} \cup
         (IF platform = "mobile" /\ answer[p] = NoError THEN {"JavaScript"} ELSE {}) :
       /\ outcome' = [outcome EXCEPT ![p] =
            CASE error = NoError -> "mine"
              [] error # NoError /\ error = answer[p] /\ IsScanMiss(platform, error) -> "skipped"
              [] OTHER -> "failed"]
       /\ recovered' = [recovered EXCEPT ![p] =
            IF error = NoError THEN {Rewound(chain[p])} ELSE {}]
       /\ answer' = [answer EXCEPT ![p] = error]
       /\ stopped' = (stopped \/ outcome'[p] = "failed")
  /\ rewind' = [rewind EXCEPT ![p] = "settled"]
  /\ UNCHANGED <<platform, key, chain, live>>

ScanNext == \E p \in Positions :
  \/ StartOnNode(p)
  \/ StartInBrowser(p)
  \/ ReadWasmResult(p)
  \/ StartOnMobile(p)
  \/ NativeAnswers(p)
  \/ Settle(p)

\* The event loop runs what is ready, and a native thread answers every call it
\* takes.  The wallet goes on with the scan.
Fairness == \A p \in Positions :
  /\ WF_scanVars(StartOnNode(p)) /\ WF_scanVars(StartInBrowser(p)) /\ WF_scanVars(StartOnMobile(p))
  /\ WF_scanVars(ReadWasmResult(p)) /\ WF_scanVars(NativeAnswers(p)) /\ WF_scanVars(Settle(p))

ScanSpec == ScanInit /\ [][ScanNext]_scanVars /\ Fairness

----------------------------------------------------------------------------
(* Properties.                                                             *)

KeyIsMine(p) == key = "ok" /\ chain[p].to = WalletKey

SettledFromInside(p) == rewind[p] = "settled" /\ answer[p] \notin OutsideErrors

\* An output made by create_*_shielded_output for this wallet is recovered on
\* every platform, with the token and the asset blinding it was made with.
OwnOutputRecovered == \A p \in Positions :
  SettledFromInside(p) /\ IsHonest(chain[p]) /\ KeyIsMine(p) =>
    /\ outcome[p] = "mine"
    /\ recovered[p] = {IF chain[p].kind = "amount" THEN [token |-> chain[p].token]
                       ELSE [token |-> chain[p].token, abf |-> chain[p].abf]}

\* Whatever the sender wrote into the proof, a wallet that recovers an output
\* holds its key, and the token and blinding it learnt are those of the
\* commitments on chain.
RecoveredReproducesCommitments == \A p \in Positions : \A r \in recovered[p] :
  /\ KeyIsMine(p)
  /\ r.token = chain[p].token
  /\ chain[p].kind = "full" => r.abf = chain[p].abf

\* A sound output of somebody else is skipped, on every platform, and never
\* ends the scan.
ForeignIsSkipped == \A p \in Positions :
  /\ SettledFromInside(p) /\ IsHonest(chain[p])
  /\ key = "ok" /\ ~KeyIsMine(p)
  => outcome[p] = "skipped"

\* What is skipped is no failure.  On no platform is an error that says nothing
\* about the output (of the native library, the bridge, a getter) a scan miss.  On
\* the node and in the browser neither is a field that cannot be parsed, or a
\* message that contradicts the asset commitment, even when the output is somebody
\* else's or has other defects too; on mobile it is, see SkippedIsNotMalformed.
FailuresAreLoud == \A p \in Positions :
  /\ answer[p] \in OutsideErrors => outcome[p] \in {"unknown", "failed"}
  /\ /\ platform # "mobile" /\ rewind[p] = "settled"
     /\ \/ IsMalformed(chain[p]) \/ key # "ok"
        \/ chain[p].kind = "full" /\ Opens(chain[p]) /\ ~ClaimReproducesAsset(chain[p])
     => outcome[p] = "failed"

\* No wasm result outlives the turn that reads it, a throwing getter included.
ResultsAreFreed == EventLoopFree => live = {}

\* The scan ends: every output is settled, or a hard error ended the scan and
\* the calls then under way are settled.
ScanEnds ==
  <>(/\ UnderWay = {}
     /\ stopped \/ \A p \in Positions : chain[p] # Transparent => rewind[p] = "settled")

\* ScanMissError is "NOT a corruption/decode error", says errors.ts: what is
\* skipped can be parsed.  The mobile provider breaks this.
SkippedIsNotMalformed == \A p \in Positions :
  outcome[p] = "skipped" => ~IsMalformed(chain[p])
============================================================================
