------------------------------ MODULE Openings ------------------------------
(***************************************************************************)
(* Checking a shared opening: openAmountShieldedCommitment and             *)
(* openFullShieldedCommitment over the primitives of the three platforms   *)
(* (packages/ct-crypto-provider/src/abstract.ts).                          *)
(*                                                                         *)
(* Somebody claims that an output on chain hides a value of a token; an    *)
(* explorer recomputes the commitment from the claim and compares.  A call *)
(* is a chain of primitives with an await after each.  The value and the   *)
(* token are taken when it is made; the blindings are Buffers of the       *)
(* caller, read when their primitive runs, so that other code (and other   *)
(* calls) may write to them in between.                                    *)
(***************************************************************************)
EXTENDS Commitments, Integers

CONSTANTS Calls,
          Buffers,       \* the caller's, each with a scalar, or bytes that are none
          Malformed,     \* such bytes, or a token uid of another length
          WORD_BITS,     \* 64 in the code
          ClaimedValues  \* BigInts, not always words

ASSUME OpeningAssumption ==
  /\ WORD_BITS \in Nat
  /\ Amounts = 0 .. 2 ^ WORD_BITS - 1
  /\ ClaimedValues \subseteq Int
  /\ Malformed \notin Scalars \cup Tokens
  /\ "none" \notin Buffers

VARIABLES
  buffers,  \* what each Buffer holds
  call,     \* where each call is
  touched   \* calls under way with a Buffer that was written to since they began

vars == <<buffers, call, touched>>

RecomputedPoint == {Commit(v, b, gen) : v \in Amounts, b \in Scalars, gen \in Generator}

Idle == [stage |-> "idle"]
Refused == [stage |-> "refused"]   \* by a check of the code
Broken == [stage |-> "broken"]     \* by its environment

UnderWay(c) == call[c].stage \in {"tag", "generator"}

TypeOK ==
  /\ buffers \in [Buffers -> Scalars \cup {Malformed}]
  /\ DOMAIN call = Calls
  /\ \A c \in Calls :
       \/ call[c] \in {Idle, Refused, Broken}
       \/ call[c] \in [stage : {"tag"}, value : ClaimedValues, token : Tokens,
                       vbf : Buffers, abf : Buffers]
       \/ call[c] \in [stage : {"generator"}, value : ClaimedValues, token : Tokens,
                       gen : Generator, vbf : Buffers, abf : Buffers \cup {"none"}]
       \/ call[c] \in [stage : {"opened"}, value : ClaimedValues, token : Tokens,
                       gen : Generator, commitment : RecomputedPoint]
  /\ touched \subseteq {c \in Calls : UnderWay(c)}

Init ==
  /\ buffers \in [Buffers -> Scalars \cup {Malformed}]
  /\ call = [c \in Calls |-> Idle]
  /\ touched = {}

Becomes(c, state) == call' = [call EXCEPT ![c] = state]

Settles(c, state) == Becomes(c, state) /\ touched' = touched \ {c}

\* A token uid of 32 bytes.
TokenParses(token) == token # Malformed

\* deriveAssetTag runs before the first await.
OpenAmount(c, value, token, vbf) ==
  /\ call[c] = Idle
  /\ Becomes(c, IF ~TokenParses(token) THEN Refused
                ELSE [stage |-> "generator", value |-> value, token |-> token,
                      gen |-> derive_asset_tag(token), vbf |-> vbf, abf |-> "none"])
  /\ UNCHANGED <<buffers, touched>>

\* deriveTag runs before the first await.
OpenFull(c, value, token, vbf, abf) ==
  /\ call[c] = Idle
  /\ Becomes(c, IF ~TokenParses(token) THEN Refused
                ELSE [stage |-> "tag", value |-> value, token |-> token,
                      vbf |-> vbf, abf |-> abf])
  /\ UNCHANGED <<buffers, touched>>

\* Variant: goes on with the unblinded generator.
AssetUnblinded(token, abf) == derive_asset_tag(token)

\* parse_tweak and to_tweak: 32 bytes below the order of the group.
TweakParses(bytes) == bytes # Malformed

AssetCommitment(token, abf) == create_asset_commitment(token, abf)

\* The second primitive of openFullShieldedCommitment.
CreateAssetCommitment(c) ==
  /\ call[c].stage = "tag"
  /\ LET abf == buffers[call[c].abf]
     IN  IF TweakParses(abf)
         THEN /\ Becomes(c, [stage |-> "generator", value |-> call[c].value,
                             token |-> call[c].token,
                             gen |-> AssetCommitment(call[c].token, abf),
                             vbf |-> call[c].vbf, abf |-> call[c].abf])
              /\ UNCHANGED touched
         ELSE Settles(c, Refused)
  /\ UNCHANGED buffers

\* Variant: wraps, as wasm-bindgen's own u64 parameters do.
WrappedToU64(value) == value % 2 ^ WORD_BITS

\* The conversion of a BigInt to a word, on each platform; -1 is its error.
ToU64(value) == IF value \in 0 .. 2 ^ WORD_BITS - 1 THEN value ELSE -1

\* The last primitive, of both calls.
CreateCommitment(c) ==
  /\ call[c].stage = "generator"
  /\ LET amount == ToU64(call[c].value)
         vbf == buffers[call[c].vbf]
     IN  Settles(c, IF amount = -1 \/ ~TweakParses(vbf) THEN Refused
                    ELSE IF RejectedByCreateCommitment(amount, vbf) THEN Refused
                    ELSE [stage |-> "opened", value |-> call[c].value,
                          token |-> call[c].token, gen |-> call[c].gen,
                          commitment |-> Commit(amount, vbf, call[c].gen)])
  /\ UNCHANGED buffers

\* A panic, a trap, or a native library that does not answer as it should.
Break(c) ==
  /\ UnderWay(c)
  /\ Settles(c, Broken)
  /\ UNCHANGED buffers

\* The caller, or whoever shares a Buffer with it, writes to it.
Write(buffer, bytes) ==
  /\ buffers' = [buffers EXCEPT ![buffer] = bytes]
  /\ touched' = touched \cup {c \in Calls : UnderWay(c) /\ buffer \in {call[c].vbf, call[c].abf}}
  /\ UNCHANGED call

Next ==
  \/ \E c \in Calls :
       \/ \E value \in ClaimedValues, token \in Tokens \cup {Malformed}, vbf \in Buffers :
            \/ OpenAmount(c, value, token, vbf)
            \/ \E abf \in Buffers : OpenFull(c, value, token, vbf, abf)
       \/ CreateAssetCommitment(c)
       \/ CreateCommitment(c)
       \/ Break(c)
  \/ \E buffer \in Buffers, bytes \in Scalars \cup {Malformed} : Write(buffer, bytes)

Spec == Init /\ [][Next]_vars

----------------------------------------------------------------------------
(* Properties.                                                             *)

\* An explorer is never told that a false claim is right.  When the recomputed
\* commitment is that of an output, which hides at least one unit, the value and
\* the token claimed are the output's: no other BigInt passes for the value, and
\* it makes no difference what was written to the Buffers meanwhile.
MatchProvesClaim ==
  \A c \in Calls, value \in Amounts \ {0}, vbf \in Scalars, gen \in Generator :
    call[c].stage = "opened" /\ call[c].commitment = Commit(value, vbf, gen) =>
      call[c].value = value /\ call[c].token = gen.tag

\* The blindings a call was made with, as long as nobody wrote to its Buffers.
Claimed(c) ==
  [vbf |-> buffers[call[c].vbf],
   abf |-> IF call[c].abf = "none" THEN ZERO_TWEAK ELSE buffers[call[c].abf]]

\* A call whose Buffers were left alone opens its own claim: the awaits let other
\* calls run in between, also over the same Buffers, and mix nothing up.
OpensOwnClaim(c) ==
  UnderWay(c) /\ call'[c].stage = "opened" =>
    LET gen == create_asset_commitment(call[c].token, Claimed(c).abf)
    IN  /\ call'[c].gen = gen
        /\ call'[c].commitment = Commit(call[c].value, Claimed(c).vbf, gen)

\* And it is refused only for what is wrong with the claim.
RefusedForItsClaim(c) ==
  UnderWay(c) /\ call'[c] = Refused =>
    \/ call[c].value \notin 0 .. 2 ^ WORD_BITS - 1
    \/ Malformed \in {Claimed(c).vbf, Claimed(c).abf}
    \/ call[c].value = 0 /\ Claimed(c).vbf = ZERO_TWEAK

HeldClaimGetsThrough ==
  [][\A c \in Calls \ touched : OpensOwnClaim(c) /\ RefusedForItsClaim(c)]_vars
=============================================================================
