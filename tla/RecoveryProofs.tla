-------------------------- MODULE RecoveryProofs ----------------------------
(***************************************************************************)
(* Proofs about how a recipient gets at an output: the nonce it shares with*)
(* the sender (Ecdh), for any keys and any number of rejected digests, and *)
(* the scan of a chain of any outputs at any positions (Scan), whatever their*)
(* defects and however many calls are under way.                           *)
(***************************************************************************)
EXTENDS Ecdh, Scan, WellFoundedInduction, TLAPS

----------------------------------------------------------------------------
(* The nonce.                                                              *)

\* The keys of a call, by its operation.
CallIsOf(c) ==
  CASE c.op = "generate_ecdh_nonce" ->
         c.own \in Ephemerals /\ c.peer \in Recipients \cup {Unparsable}
    [] c.op = "derive_rewind_nonce_from_keys" ->
         c.own \in Recipients \cup {Unparsable} /\ c.peer \in Ephemerals \cup {Unparsable}
    [] OTHER -> c.own = Unparsable

\* The nonce of two keys: the first digest of their secret that is a scalar.
NonceOf(a, b) == [of |-> {a, b}, rehashes |-> rejected[{a, b}]]

\* The secrets on the stack when a nonce is derived, from its operation.
KeyHeld == IF call.op = "generate_ecdh_nonce" THEN {"eph_sk_bytes"} ELSE {}

Deriving == pc \in {"parse", "ecdh", "rehash", "return"}

\* Where a call is and what it holds there.
CallSoFar ==
  /\ pc = "idle" => held = {}
  /\ pc = "sample" => call.op = "generate_random_blinding_factor" /\ held = {}
  /\ pc = "check" => call.op = "generate_random_blinding_factor" /\ held = {"bytes"}
  /\ pc # "idle" => call # NoCall /\ CallIsOf(call)
  /\ Deriving => call.op \in {"generate_ecdh_nonce", "derive_rewind_nonce_from_keys"}
  /\ pc \in {"parse", "ecdh"} => held = KeyHeld
  /\ pc = "rehash" => held = KeyHeld \cup {"shared_secret"}
  /\ pc = "return" => held = KeyHeld \cup {"shared_secret", "nonce"}
  /\ pc \in {"ecdh", "rehash", "return"} => Unparsable \notin {call.own, call.peer}

\* The loop goes from digest to digest and stops at the first scalar.
DigestSoFar ==
  /\ pc \in {"rehash", "return"} =>
       /\ digest.of = {call.own, call.peer} /\ digest \in Digest
       /\ digest.rehashes <= rejected[digest.of]
  /\ pc = "return" => IsScalar(digest)
  /\ pc \notin {"rehash", "return"} => digest = NoDigest

\* Both sides hold the nonce of their keys.
NoncesAreOfKeys ==
  /\ \A o \in outputs : o.nonce = NonceOf(o.to, o.ephemeral)
  /\ last # NoCall =>
       /\ CallIsOf(last.call)
       /\ last.result = "ok" /\ last.call.op = "derive_rewind_nonce_from_keys" =>
            /\ Unparsable \notin {last.call.own, last.call.peer}
            /\ last.nonce = NonceOf(last.call.own, last.call.peer)

\* A call fails for a key that does not parse, and for nothing else.
KeysThatParseSuffice ==
  last # NoCall /\ last.result # "ok" => Unparsable \in {last.call.own, last.call.peer}

EcdhInvariant ==
  /\ TypeOK /\ CallSoFar /\ DigestSoFar /\ NoncesAreOfKeys
  /\ KeysThatParseSuffice /\ OnlyUnusedKeyIsLeft

----------------------------------------------------------------------------
(* Keys and digests.                                                       *)

\* The keys of a call that parse are a recipient's and an ephemeral one.
LEMMA KeysMakeSecret ==
  ASSUME CallIsOf(call), call.op \in {"generate_ecdh_nonce", "derive_rewind_nonce_from_keys"},
         Unparsable \notin {call.own, call.peer}
  PROVE  {call.own, call.peer} \in Secrets
BY DEF CallIsOf, Secrets

\* The digest that the loop stops at is the nonce of the keys.
LEMMA DigestIsNonce ==
  ASSUME EcdhInvariant, pc = "return"
  PROVE  digest = NonceOf(call.own, call.peer)
<1>1. /\ digest \in Digest /\ digest.of = {call.own, call.peer}
      /\ digest.rehashes <= rejected[digest.of] /\ digest.rehashes >= rejected[digest.of]
  BY DEF EcdhInvariant, DigestSoFar, IsScalar
<1>2. digest.of \in Secrets /\ rejected[digest.of] \in Nat /\ digest.rehashes \in Nat
  BY <1>1, EcdhAssumption DEF EcdhInvariant, TypeOK, Digest
<1>3. digest.rehashes = rejected[digest.of] BY <1>1, <1>2
<1> QED  BY <1>1, <1>3 DEF Digest, NonceOf

----------------------------------------------------------------------------
(* The steps.                                                              *)

LEMMA InitEcdh == Init => EcdhInvariant
BY DEF Init, EcdhInvariant, TypeOK, CallSoFar, DigestSoFar, NoncesAreOfKeys, Deriving,
       KeysThatParseSuffice, OnlyUnusedKeyIsLeft, NoCall

LEMMA StartStep ==
  ASSUME EcdhInvariant,
         NEW op \in Ops, NEW own \in KeyBytes, NEW peer \in KeyBytes, NEW at, NEW buffers,
         CallIsOf([op |-> op, own |-> own, peer |-> peer]),
         Start(op, own, peer, at, buffers),
         \/ at = "sample" /\ op = "generate_random_blinding_factor" /\ buffers = {}
         \/ at = "parse" /\ op = "generate_ecdh_nonce" /\ buffers = {"eph_sk_bytes"}
         \/ at = "parse" /\ op = "derive_rewind_nonce_from_keys" /\ buffers = {}
  PROVE  EcdhInvariant'
<1>1. /\ call' = [op |-> op, own |-> own, peer |-> peer] /\ pc' = at /\ held' = buffers
      /\ pc = "idle" /\ digest = NoDigest
      /\ UNCHANGED <<rejected, digest, residue, outputs, last>>
  BY DEF Start, EcdhInvariant, DigestSoFar
<1>2. call' # NoCall BY <1>1 DEF NoCall, Ops
<1>3. TypeOK' BY <1>1 DEF EcdhInvariant, TypeOK, Buffers
<1>4. CallSoFar' BY <1>1, <1>2 DEF CallSoFar, Deriving, KeyHeld, CallIsOf
<1>5. DigestSoFar' BY <1>1 DEF DigestSoFar
<1> QED
  BY <1>1, <1>3, <1>4, <1>5
  DEF EcdhInvariant, NoncesAreOfKeys, NonceOf, CallIsOf, KeysThatParseSuffice, OnlyUnusedKeyIsLeft

LEMMA CallSteps ==
  ASSUME EcdhInvariant,
         \/ CallRandom
         \/ \E recipient \in Recipients \cup {Unparsable}, ephemeral \in Ephemerals :
              CallCreate(recipient, ephemeral)
         \/ \E private_key \in Recipients \cup {Unparsable},
               ephemeral_pubkey \in Ephemerals \cup {Unparsable} :
              CallRewind(private_key, ephemeral_pubkey)
  PROVE  EcdhInvariant'
<1> USE DEF Ops, KeyBytes, PrivateKeys
<1>1. CASE CallRandom
  BY <1>1, StartStep DEF CallRandom, CallIsOf
<1>2. ASSUME NEW recipient \in Recipients \cup {Unparsable}, NEW ephemeral \in Ephemerals,
             CallCreate(recipient, ephemeral)
      PROVE  EcdhInvariant'
  BY <1>2, StartStep DEF CallCreate, CallIsOf
<1>3. ASSUME NEW private_key \in Recipients \cup {Unparsable},
             NEW ephemeral_pubkey \in Ephemerals \cup {Unparsable},
             CallRewind(private_key, ephemeral_pubkey)
      PROVE  EcdhInvariant'
  BY <1>3, StartStep DEF CallRewind, CallIsOf
<1> QED  BY <1>1, <1>2, <1>3

\* A return keeps the invariant if its result, its nonce and what it leaves do.
LEMMA ReturnStep ==
  ASSUME EcdhInvariant, pc # "idle", NEW result \in {"ok", "Secp256k1Error"}, NEW wiped,
         Return(result, wiped),
         outputs' \subseteq [to : Recipients, ephemeral : Ephemerals, nonce : Digest],
         \A o \in outputs' : o.nonce = NonceOf(o.to, o.ephemeral),
         result # "ok" => Unparsable \in {call.own, call.peer},
         result = "ok" /\ call.op = "derive_rewind_nonce_from_keys" =>
           /\ Unparsable \notin {call.own, call.peer}
           /\ digest = NonceOf(call.own, call.peer),
         \A b \in held \ wiped : call.op = "generate_ecdh_nonce" /\ b = "eph_sk_bytes"
  PROVE  EcdhInvariant'
<1>1. /\ last' = [call |-> call, result |-> result, nonce |-> digest]
      /\ residue' = residue \cup {<<call.op, b>> : b \in held \ wiped}
      /\ call' = NoCall /\ pc' = "idle" /\ held' = {} /\ digest' = NoDigest
      /\ UNCHANGED rejected
  BY DEF Return
<1>2. /\ call \in [op : Ops, own : KeyBytes, peer : KeyBytes] /\ CallIsOf(call)
      /\ last' # NoCall
  BY <1>1 DEF EcdhInvariant, TypeOK, CallSoFar, NoCall
<1>3. OnlyUnusedKeyIsLeft'
  BY <1>1 DEF EcdhInvariant, OnlyUnusedKeyIsLeft
<1>4. TypeOK'
  <2>1. residue' \subseteq Ops \X Buffers
    BY <1>3 DEF OnlyUnusedKeyIsLeft, Ops, Buffers
  <2>2. last' \in [call : [op : Ops, own : KeyBytes, peer : KeyBytes],
                   result : {"ok", "Secp256k1Error"}, nonce : Digest \cup {NoDigest}]
    BY <1>1, <1>2 DEF EcdhInvariant, TypeOK
  <2> QED  BY <1>1, <2>1, <2>2 DEF EcdhInvariant, TypeOK
<1>5. CallSoFar' /\ DigestSoFar' BY <1>1 DEF CallSoFar, DigestSoFar, Deriving
<1>6. NoncesAreOfKeys' BY <1>1, <1>2 DEF NoncesAreOfKeys, NonceOf, CallIsOf
<1>7. KeysThatParseSuffice' BY <1>1 DEF KeysThatParseSuffice
<1> QED  BY <1>3, <1>4, <1>5, <1>6, <1>7 DEF EcdhInvariant

LEMMA SampleSteps ==
  ASSUME EcdhInvariant, Sample \/ CheckSample
  PROVE  EcdhInvariant'
<1>1. ASSUME pc \in {"sample", "check"}, pc' \in {"sample", "check"},
             held' = IF pc' = "check" THEN {"bytes"} ELSE {},
             UNCHANGED <<rejected, call, digest, residue, outputs, last>>
      PROVE  EcdhInvariant'
  <2>1. TypeOK' BY <1>1 DEF EcdhInvariant, TypeOK, Buffers
  <2>2. CallSoFar' BY <1>1 DEF EcdhInvariant, CallSoFar, Deriving, KeyHeld, CallIsOf
  <2>3. DigestSoFar' BY <1>1 DEF EcdhInvariant, DigestSoFar
  <2> QED
    BY <1>1, <2>1, <2>2, <2>3
    DEF EcdhInvariant, NoncesAreOfKeys, NonceOf, CallIsOf, KeysThatParseSuffice,
        OnlyUnusedKeyIsLeft
<1>2. CASE Sample BY <1>1, <1>2 DEF Sample
<1>3. CASE pc = "check" /\ Return("ok", {"bytes"}) /\ UNCHANGED outputs
  <2>1. call.op = "generate_random_blinding_factor" /\ held = {"bytes"}
    BY <1>3 DEF EcdhInvariant, CallSoFar
  <2> QED
    BY <1>3, <2>1, ReturnStep DEF EcdhInvariant, TypeOK, NoncesAreOfKeys
<1> QED  BY <1>1, <1>2, <1>3 DEF CheckSample

LEMMA ParseStep ==
  ASSUME EcdhInvariant, ParseKeys
  PROVE  EcdhInvariant'
<1>1. pc = "parse" /\ held = KeyHeld BY DEF ParseKeys, EcdhInvariant, CallSoFar
<1>2. CASE Unparsable \in {call.own, call.peer}
  <2>1. Return("Secp256k1Error", {}) /\ UNCHANGED outputs BY <1>2 DEF ParseKeys
  <2> QED
    BY <1>1, <1>2, <2>1, ReturnStep DEF EcdhInvariant, TypeOK, NoncesAreOfKeys, KeyHeld
<1>3. CASE Unparsable \notin {call.own, call.peer}
  <2>1. pc' = "ecdh" /\ UNCHANGED <<rejected, call, held, digest, residue, outputs, last>>
    BY <1>3 DEF ParseKeys
  <2>2. TypeOK' BY <2>1 DEF EcdhInvariant, TypeOK
  <2>3. CallSoFar' BY <1>1, <1>3, <2>1 DEF EcdhInvariant, CallSoFar, Deriving, KeyHeld, CallIsOf
  <2>4. DigestSoFar' BY <1>1, <2>1 DEF EcdhInvariant, DigestSoFar
  <2> QED
    BY <2>1, <2>2, <2>3, <2>4
    DEF EcdhInvariant, NoncesAreOfKeys, NonceOf, CallIsOf, KeysThatParseSuffice,
        OnlyUnusedKeyIsLeft
<1> QED  BY <1>2, <1>3

LEMMA AgreeStep ==
  ASSUME EcdhInvariant, Agree
  PROVE  EcdhInvariant'
<1>1. /\ pc = "ecdh" /\ pc' = "rehash" /\ held' = held \cup {"shared_secret"}
      /\ digest' = [of |-> {call.own, call.peer}, rehashes |-> 0]
      /\ UNCHANGED <<rejected, call, residue, outputs, last>>
  BY DEF Agree, derive_ecdh_shared_secret
<1>2. {call.own, call.peer} \in Secrets
  BY <1>1, KeysMakeSecret DEF EcdhInvariant, CallSoFar, Deriving
<1>3. rejected[{call.own, call.peer}] \in 0 .. MaxRejected
  BY <1>2 DEF EcdhInvariant, TypeOK
<1>4. digest' \in Digest BY <1>1, <1>2, EcdhAssumption DEF Digest
<1>5. TypeOK' BY <1>1, <1>4 DEF EcdhInvariant, TypeOK, Buffers
<1>6. CallSoFar' BY <1>1 DEF EcdhInvariant, CallSoFar, Deriving, KeyHeld, CallIsOf
<1>7. DigestSoFar' BY <1>1, <1>3, <1>4 DEF DigestSoFar, Digest
<1> QED
  BY <1>1, <1>5, <1>6, <1>7
  DEF EcdhInvariant, NoncesAreOfKeys, NonceOf, CallIsOf, KeysThatParseSuffice, OnlyUnusedKeyIsLeft

\* An iteration of the loop hashes only what is not a scalar.
LEMMA LoopStep ==
  ASSUME EcdhInvariant, derive_rewind_nonce
  PROVE  EcdhInvariant'
<1>1. /\ pc = "rehash" /\ digest \in Digest /\ digest.of = {call.own, call.peer}
      /\ digest.rehashes <= rejected[digest.of]
      /\ UNCHANGED <<rejected, call, residue, outputs, last>>
  BY DEF derive_rewind_nonce, EcdhInvariant, DigestSoFar
<1>2. /\ digest.of \in Secrets /\ digest.rehashes \in Nat
      /\ rejected[digest.of] \in 0 .. MaxRejected
  <2>1. digest.of \in Secrets /\ digest.rehashes \in 0 .. MaxRejected BY <1>1 DEF Digest
  <2>2. rejected \in [Secrets -> 0 .. MaxRejected] BY DEF EcdhInvariant, TypeOK
  <2> QED  BY <2>1, <2>2
<1>3. CASE Rehashes(digest)
  <2>1. digest' = [digest EXCEPT !.rehashes = @ + 1] /\ UNCHANGED <<pc, held>>
    BY <1>3 DEF derive_rewind_nonce
  <2>2. digest.rehashes < rejected[digest.of] BY <1>2, <1>3 DEF Rehashes, IsScalar
  <2>3. /\ digest' \in Digest /\ digest'.of = digest.of
        /\ digest'.rehashes = digest.rehashes + 1
    BY <1>1, <1>2, <2>1, <2>2, EcdhAssumption DEF Digest
  <2>4. TypeOK' BY <1>1, <2>1, <2>3 DEF EcdhInvariant, TypeOK
  <2>5. CallSoFar' BY <1>1, <2>1 DEF EcdhInvariant, CallSoFar, Deriving, KeyHeld, CallIsOf
  <2>6. DigestSoFar'
    <3>1. pc' = "rehash" BY <1>1, <2>1
    <3>2. digest'.rehashes <= rejected'[digest'.of] BY <1>1, <1>2, <2>2, <2>3
    <3>3. digest'.of = {call'.own, call'.peer} BY <1>1, <2>3
    <3> QED  BY <2>3, <3>1, <3>2, <3>3 DEF DigestSoFar
  <2> QED
    BY <1>1, <2>4, <2>5, <2>6
    DEF EcdhInvariant, NoncesAreOfKeys, NonceOf, CallIsOf, KeysThatParseSuffice,
        OnlyUnusedKeyIsLeft
<1>4. CASE ~Rehashes(digest)
  <2>1. pc' = "return" /\ held' = held \cup {"nonce"} /\ UNCHANGED digest
    BY <1>4 DEF derive_rewind_nonce
  <2>2. TypeOK' BY <1>1, <2>1 DEF EcdhInvariant, TypeOK, Buffers
  <2>3. CallSoFar' BY <1>1, <2>1 DEF EcdhInvariant, CallSoFar, Deriving, KeyHeld, CallIsOf
  <2>4. DigestSoFar' BY <1>1, <1>4, <2>1 DEF DigestSoFar, Rehashes, IsScalar
  <2> QED
    BY <1>1, <2>2, <2>3, <2>4
    DEF EcdhInvariant, NoncesAreOfKeys, NonceOf, CallIsOf, KeysThatParseSuffice,
        OnlyUnusedKeyIsLeft
<1> QED  BY <1>3, <1>4

LEMMA NonceStep ==
  ASSUME EcdhInvariant, ReturnNonce
  PROVE  EcdhInvariant'
<1>1. /\ pc = "return" /\ IsScalar(digest) /\ digest \in Digest
      /\ held = KeyHeld \cup {"shared_secret", "nonce"} /\ CallIsOf(call)
      /\ Unparsable \notin {call.own, call.peer}
      /\ call.op \in {"generate_ecdh_nonce", "derive_rewind_nonce_from_keys"}
  BY DEF ReturnNonce, EcdhInvariant, CallSoFar, DigestSoFar, Deriving
<1>2. Return("ok", Wiped(call.op)) BY <1>1 DEF ReturnNonce
<1>3. digest = NonceOf(call.own, call.peer) BY <1>1, DigestIsNonce
<1>4. held \ Wiped(call.op) = {} BY <1>1 DEF Wiped, KeyHeld
<1>5. /\ outputs' \subseteq [to : Recipients, ephemeral : Ephemerals, nonce : Digest]
      /\ \A o \in outputs' : o.nonce = NonceOf(o.to, o.ephemeral)
  <2>1. CASE call.op = "generate_ecdh_nonce"
    <3>1. outputs' = outputs \cup {[to |-> call.peer, ephemeral |-> call.own, nonce |-> digest]}
      BY <1>1, <2>1 DEF ReturnNonce
    <3>2. call.own \in Ephemerals /\ call.peer \in Recipients BY <1>1, <2>1 DEF CallIsOf
    <3>3. digest = NonceOf(call.peer, call.own)
      <4>1. {call.own, call.peer} = {call.peer, call.own} OBVIOUS
      <4> QED  BY <1>3, <4>1 DEF NonceOf
    <3> QED
      BY <1>1, <3>1, <3>2, <3>3 DEF EcdhInvariant, TypeOK, NoncesAreOfKeys
  <2>2. CASE call.op # "generate_ecdh_nonce"
    BY <2>2 DEF ReturnNonce, EcdhInvariant, TypeOK, NoncesAreOfKeys
  <2> QED  BY <2>1, <2>2
<1> QED  BY <1>1, <1>2, <1>3, <1>4, <1>5, ReturnStep

LEMMA StepEcdh == EcdhInvariant /\ [Next]_vars => EcdhInvariant'
<1> SUFFICES ASSUME EcdhInvariant, [Next]_vars PROVE EcdhInvariant'
  OBVIOUS
<1>1. CASE UNCHANGED vars
  BY <1>1 DEF vars, EcdhInvariant, TypeOK, CallSoFar, DigestSoFar, NoncesAreOfKeys, Deriving, KeyHeld,
              CallIsOf, NonceOf, IsScalar, KeysThatParseSuffice, OnlyUnusedKeyIsLeft
<1>2. CASE Next
  BY <1>2, CallSteps, SampleSteps, ParseStep, AgreeStep, LoopStep, NonceStep DEF Next
<1> QED  BY <1>1, <1>2

----------------------------------------------------------------------------
(* The theorems.                                                           *)

\* What is known of a call at each of its statements, and of what it returned.
THEOREM EcdhCorrect == Spec => []EcdhInvariant
<1> QED  BY InitEcdh, StepEcdh, PTL DEF Spec

\* The calls and the stack keep their type; no digest is hashed too often.
THEOREM EcdhType == Spec => []TypeOK
<1>1. EcdhInvariant => TypeOK BY DEF EcdhInvariant
<1> QED  BY EcdhCorrect, <1>1, PTL

\* No call leaves a shared secret or a nonce on the stack.
THEOREM StackIsClean == Spec => []OnlyUnusedKeyIsLeft
<1>1. EcdhInvariant => OnlyUnusedKeyIsLeft BY DEF EcdhInvariant
<1> QED  BY EcdhCorrect, <1>1, PTL

\* The recipient of an output, and nobody else, rewinds to the sender's nonce.
THEOREM BothSidesAgree == Spec => []NoncesAgree
<1>1. EcdhInvariant => NoncesAgree
  <2> SUFFICES ASSUME EcdhInvariant, NEW o \in outputs, last # NoCall,
                      last.call.op = "derive_rewind_nonce_from_keys",
                      last.call.own # Unparsable, last.call.peer = o.ephemeral
               PROVE  last.result = "ok" /\ (last.nonce = o.nonce <=> last.call.own = o.to)
    BY DEF NoncesAgree
  <2>6. last.result = "ok"
    <3>1. o.ephemeral # Unparsable BY EcdhAssumption DEF EcdhInvariant, TypeOK, PrivateKeys
    <3> QED  BY <3>1 DEF EcdhInvariant, KeysThatParseSuffice
  <2>1. /\ o.nonce = NonceOf(o.to, o.ephemeral)
        /\ last.nonce = NonceOf(last.call.own, o.ephemeral)
    BY <2>6 DEF EcdhInvariant, NoncesAreOfKeys
  <2>2. o.to \in Recipients /\ o.ephemeral \in Ephemerals BY DEF EcdhInvariant, TypeOK
  <2>3. last.call.own \in Recipients BY <2>6 DEF EcdhInvariant, NoncesAreOfKeys, CallIsOf
  <2>4. {last.call.own, o.ephemeral} = {o.to, o.ephemeral} <=> last.call.own = o.to
    BY <2>2, <2>3, EcdhAssumption
  <2>5. NonceOf(last.call.own, o.ephemeral).of = {last.call.own, o.ephemeral}
        /\ NonceOf(o.to, o.ephemeral).of = {o.to, o.ephemeral}
    BY DEF NonceOf
  <2> QED  BY <2>1, <2>4, <2>5, <2>6
<1> QED  BY EcdhCorrect, <1>1, PTL

----------------------------------------------------------------------------
(* The scan.                                                               *)

----------------------------------------------------------------------------
(* Checks in a row.                                                        *)

CheckErrors ==
  {"InvalidInput", "Secp256k1Error", "InvalidGenerator", "InvalidCommitment", "RangeProofError",
   "range proof rewind failed", "asset commitment verification failed"}

ACheck == [passes : BOOLEAN, error : CheckErrors]

LEMMA LeastFailure ==
  ASSUME NEW T \in SUBSET Nat, T # {}
  PROVE  Min(T) \in T /\ \A k \in T : Min(T) <= k
<1> DEFINE R == OpToRel(<, Nat)
<1>1. \A x, y \in Nat : x < y => <<x, y>> \in R
  BY DEF OpToRel
<1>2. IsWellFoundedOn(R, Nat) BY NatLessThanWellFounded
<1> HIDE DEF R
<1>3. PICK m \in T : \A k \in T : ~(<<k, m>> \in R)
  BY <1>2, WFMin
<1>4. \A k \in T : ~(k < m) BY <1>1, <1>3
<1>5. \A k \in T : m <= k BY <1>4
<1> QED  BY <1>3, <1>5 DEF Min

\* The error of a sequence of checks is that of the first which does not pass.
LEMMA FirstErrorIs ==
  ASSUME NEW checks \in Seq(ACheck)
  PROVE  \/ FirstError(checks) = NoError /\ \A j \in 1 .. Len(checks) : checks[j].passes
         \/ \E j \in 1 .. Len(checks) :
              /\ FirstError(checks) = checks[j].error /\ ~checks[j].passes
              /\ \A k \in 1 .. j - 1 : checks[k].passes
<1> DEFINE failing == {j \in 1 .. Len(checks) : ~checks[j].passes}
           first == IF failing # {} THEN Min(failing) ELSE 0
<1>1. FirstError(checks) = IF first = 0 THEN NoError ELSE checks[first].error
  BY DEF FirstError, SelectInSeq
<1>2. Len(checks) \in Nat /\ failing \in SUBSET Nat OBVIOUS
<1>3. CASE failing = {} BY <1>1, <1>3
<1>4. CASE failing # {}
  <2>1. Min(failing) \in failing /\ \A k \in failing : Min(failing) <= k
    <3> HIDE DEF failing
    <3> QED  BY <1>2, <1>4, LeastFailure
  <2>2. first \in failing /\ \A k \in failing : first <= k BY <1>4, <2>1
  <2> HIDE DEF first
  <2>3. first \in 1 .. Len(checks) /\ ~checks[first].passes BY <2>2
  <2>4. \A k \in 1 .. first - 1 : checks[k].passes BY <1>2, <2>2, <2>3
  <2>5. FirstError(checks) = checks[first].error BY <1>1, <2>3
  <2> QED  BY <2>3, <2>4, <2>5
<1> QED  BY <1>3, <1>4

LEMMA NoChecks == FirstError(<< >>) = NoError
<1> DEFINE s == << >>
<1>1. s \in Seq(ACheck) /\ Len(s) = 0 OBVIOUS
<1> HIDE DEF s
<1>2. 1 .. Len(s) = {} BY <1>1
<1> QED  BY <1>1, <1>2, FirstErrorIs DEF s

LEMMA OneCheck ==
  ASSUME NEW a \in ACheck
  PROVE  FirstError(<<a>>) = IF ~a.passes THEN a.error ELSE NoError
<1> DEFINE s == <<a>>
<1>1. s \in Seq(ACheck) /\ Len(s) = 1 /\ s[1] = a OBVIOUS
<1> HIDE DEF s
<1>2. 1 .. Len(s) = {1} BY <1>1
<1> QED  BY <1>1, <1>2, FirstErrorIs DEF s

\* The checks of a second list count when those of the first all pass.
LEMMA ChecksInARow ==
  ASSUME NEW a \in Seq(ACheck), NEW b \in Seq(ACheck)
  PROVE  FirstError(a \o b) = IF FirstError(a) # NoError THEN FirstError(a) ELSE FirstError(b)
<1> DEFINE both == a \o b
           m == Len(a)
           n == Len(b)
<1>1. m \in Nat /\ n \in Nat OBVIOUS
<1>2. both \in Seq(ACheck) /\ Len(both) = m + n OBVIOUS
<1>3. \A j \in 1 .. m : both[j] = a[j] OBVIOUS
<1>4. \A j \in 1 .. n : both[m + j] = b[j] OBVIOUS
<1>5. \A j \in 1 .. m : a[j].error # NoError
  <2>1. \A j \in 1 .. m : a[j] \in ACheck OBVIOUS
  <2> HIDE DEF m
  <2> QED  BY <2>1 DEF ACheck, CheckErrors, NoError
<1> HIDE DEF both, m, n
<1>6. CASE \E j \in 1 .. m : ~a[j].passes
  <2>1. PICK j \in 1 .. m : /\ FirstError(a) = a[j].error /\ ~a[j].passes
                            /\ \A k \in 1 .. j - 1 : a[k].passes
    BY <1>6, FirstErrorIs DEF m
  <2>2. PICK i \in 1 .. m + n : /\ FirstError(both) = both[i].error /\ ~both[i].passes
                                /\ \A k \in 1 .. i - 1 : both[k].passes
    <3>1. j \in 1 .. m + n /\ ~both[j].passes BY <1>1, <1>3, <2>1
    <3> QED  BY <1>2, <3>1, FirstErrorIs
  <2>3. i = j
    <3>1. ~(i < j)
      <4> SUFFICES ASSUME i < j PROVE FALSE
        OBVIOUS
      <4>1. i \in 1 .. j - 1 /\ i \in 1 .. m BY <1>1, <2>1, <2>2
      <4> QED  BY <1>3, <2>1, <2>2, <4>1
    <3>2. ~(j < i)
      <4> SUFFICES ASSUME j < i PROVE FALSE
        OBVIOUS
      <4>1. j \in 1 .. i - 1 BY <1>1, <2>1, <2>2
      <4> QED  BY <1>3, <2>1, <2>2, <4>1
    <3> QED  BY <1>1, <3>1, <3>2
  <2> QED  BY <1>3, <1>5, <2>1, <2>2, <2>3 DEF both
<1>7. CASE \A j \in 1 .. m : a[j].passes
  <2>1. FirstError(a) = NoError BY <1>7, FirstErrorIs DEF m
  <2>2. CASE \E j \in 1 .. n : ~b[j].passes
    <3>1. PICK j \in 1 .. n : /\ FirstError(b) = b[j].error /\ ~b[j].passes
                              /\ \A k \in 1 .. j - 1 : b[k].passes
      BY <2>2, FirstErrorIs DEF n
    <3>2. PICK i \in 1 .. m + n : /\ FirstError(both) = both[i].error /\ ~both[i].passes
                                  /\ \A k \in 1 .. i - 1 : both[k].passes
      <4>1. m + j \in 1 .. m + n /\ ~both[m + j].passes BY <1>1, <1>4, <3>1
      <4> QED  BY <1>2, <4>1, FirstErrorIs
    <3>3. i \notin 1 .. m BY <1>3, <1>7, <3>2
    <3>4. PICK k \in 1 .. n : i = m + k
      <4>1. i - m \in 1 .. n /\ i = m + (i - m) BY <1>1, <3>2, <3>3
      <4> QED  BY <4>1
    <3>5. k = j
      <4>1. ~(k < j)
        <5> SUFFICES ASSUME k < j PROVE FALSE
          OBVIOUS
        <5>1. k \in 1 .. j - 1 BY <1>1, <3>1, <3>4
        <5> QED  BY <1>4, <3>1, <3>2, <3>4, <5>1
      <4>2. ~(j < k)
        <5> SUFFICES ASSUME j < k PROVE FALSE
          OBVIOUS
        <5>1. m + j \in 1 .. i - 1 BY <1>1, <3>1, <3>4
        <5> QED  BY <1>4, <3>1, <3>2, <5>1
      <4> QED  BY <1>1, <4>1, <4>2
    <3> QED  BY <1>4, <2>1, <3>1, <3>2, <3>4, <3>5 DEF both
  <2>3. CASE \A j \in 1 .. n : b[j].passes
    <3>1. FirstError(b) = NoError BY <2>3, FirstErrorIs DEF n
    <3>2. ASSUME NEW i \in 1 .. m + n PROVE both[i].passes
      <4>1. CASE i \in 1 .. m BY <1>3, <1>7, <4>1
      <4>2. CASE i \notin 1 .. m
        <5>1. i - m \in 1 .. n /\ m + (i - m) = i BY <1>1, <4>2
        <5> QED  BY <1>4, <2>3, <5>1
      <4> QED  BY <4>1, <4>2
    <3>3. FirstError(both) = NoError BY <1>2, <3>2, FirstErrorIs
    <3> QED  BY <2>1, <3>1, <3>3 DEF both
  <2> QED  BY <2>2, <2>3
<1> QED  BY <1>6, <1>7

----------------------------------------------------------------------------
(* The rewind of one output.                                               *)

\* Every check is one, whatever the output.
LEMMA ChecksAreChecks ==
  ASSUME NEW passes \in BOOLEAN, NEW error \in CheckErrors
  PROVE  /\ Check(passes, error) \in ACheck
         /\ Check(passes, error).passes = passes /\ Check(passes, error).error = error
BY DEF Check, ACheck

LEMMA ListsOfChecks ==
  /\ << >> \in Seq(ACheck)
  /\ \A a \in ACheck : <<a>> \in Seq(ACheck)
  /\ \A a, b \in ACheck : <<a, b>> \in Seq(ACheck)
  /\ \A a, b, c \in ACheck : <<a, b, c>> \in Seq(ACheck)
  /\ \A f, g \in Seq(ACheck) : f \o g \in Seq(ACheck)
<1>1. ASSUME NEW S
      PROVE  /\ << >> \in Seq(S)
             /\ \A a \in S : <<a>> \in Seq(S)
             /\ \A a, b \in S : <<a, b>> \in Seq(S)
             /\ \A a, b, c \in S : <<a, b, c>> \in Seq(S)
             /\ \A f, g \in Seq(S) : f \o g \in Seq(S)
  OBVIOUS
<1> QED  BY <1>1

LEMMA TwoChecks ==
  ASSUME NEW a \in ACheck, NEW b \in ACheck
  PROVE  FirstError(<<a, b>>) =
           IF ~a.passes THEN a.error ELSE IF ~b.passes THEN b.error ELSE NoError
<1> DEFINE s == <<a, b>>
<1>1. s \in Seq(ACheck) /\ Len(s) = 2 /\ s[1] = a /\ s[2] = b OBVIOUS
<1> HIDE DEF s
<1>2. 1 .. Len(s) = {1, 2} BY <1>1
<1>3. 1 \in 1 .. 2 - 1 OBVIOUS
<1>4. \/ FirstError(s) = NoError /\ \A j \in {1, 2} : s[j].passes
      \/ \E j \in {1, 2} : /\ FirstError(s) = s[j].error /\ ~s[j].passes
                          /\ \A k \in 1 .. j - 1 : s[k].passes
  BY <1>1, <1>2, FirstErrorIs
<1>5. FirstError(s) = IF ~a.passes THEN a.error ELSE IF ~b.passes THEN b.error ELSE NoError
  BY <1>1, <1>3, <1>4
<1> QED  BY <1>5 DEF s

LEMMA ThreeChecks ==
  ASSUME NEW a \in ACheck, NEW b \in ACheck, NEW c \in ACheck
  PROVE  FirstError(<<a, b, c>>) =
           IF ~a.passes THEN a.error ELSE IF ~b.passes THEN b.error
           ELSE IF ~c.passes THEN c.error ELSE NoError
<1> DEFINE s == <<a, b, c>>
<1>1. s \in Seq(ACheck) /\ Len(s) = 3 /\ s[1] = a /\ s[2] = b /\ s[3] = c OBVIOUS
<1> HIDE DEF s
<1>2. 1 .. Len(s) = {1, 2, 3} BY <1>1
<1>3. 1 \in 1 .. 2 - 1 /\ 1 \in 1 .. 3 - 1 /\ 2 \in 1 .. 3 - 1 OBVIOUS
<1>4. \/ FirstError(s) = NoError /\ \A j \in {1, 2, 3} : s[j].passes
      \/ \E j \in {1, 2, 3} : /\ FirstError(s) = s[j].error /\ ~s[j].passes
                             /\ \A k \in 1 .. j - 1 : s[k].passes
  BY <1>1, <1>2, FirstErrorIs
<1>5. FirstError(s) = IF ~a.passes THEN a.error ELSE IF ~b.passes THEN b.error
                      ELSE IF ~c.passes THEN c.error ELSE NoError
  BY <1>1, <1>3, <1>4
<1> QED  BY <1>5 DEF s

\* The nonce of a rewind can be derived.
NonceParses(k, o) == k = "ok" /\ o.ephemeral = "ok"

LEMMA NonceError ==
  ASSUME NEW k, NEW o
  PROVE  /\ NonceChecks(k, o) \in Seq(ACheck)
         /\ FirstError(NonceChecks(k, o)) =
              IF NonceParses(k, o) THEN NoError ELSE "Secp256k1Error"
<1> DEFINE a == Check(k = "ok", "Secp256k1Error")
           b == Check(o.ephemeral = "ok", "Secp256k1Error")
<1>1. "Secp256k1Error" \in CheckErrors BY DEF CheckErrors
<1>2. a \in ACheck /\ (a.passes <=> k = "ok") /\ a.error = "Secp256k1Error"
  BY <1>1 DEF Check, ACheck
<1>3. b \in ACheck /\ (b.passes <=> o.ephemeral = "ok") /\ b.error = "Secp256k1Error"
  BY <1>1 DEF Check, ACheck
<1>4. NonceChecks(k, o) = <<a, b>> BY DEF NonceChecks
<1> HIDE DEF a, b
<1>5. <<a, b>> \in Seq(ACheck) BY <1>2, <1>3, ListsOfChecks
<1>6. FirstError(<<a, b>>) =
        IF ~a.passes THEN a.error ELSE IF ~b.passes THEN b.error ELSE NoError
  BY <1>2, <1>3, TwoChecks
<1> QED  BY <1>2, <1>3, <1>4, <1>5, <1>6 DEF NonceParses

LEMMA RangeProofError ==
  ASSUME NEW k, NEW o
  PROVE  /\ RangeProofChecks(k, o) \in Seq(ACheck)
         /\ FirstError(RangeProofChecks(k, o)) =
              IF o.commitment # "ok" THEN "InvalidCommitment"
              ELSE IF o.proof \in {"oversize", "garbled"} THEN "RangeProofError"
              ELSE IF ~Opens(o) THEN "range proof rewind failed" ELSE NoError
<1> DEFINE a == Check(o.commitment = "ok", "InvalidCommitment")
           b == Check(o.proof \notin {"oversize", "garbled"}, "RangeProofError")
           c == Check(Opens(o), "range proof rewind failed")
<1>1. {"InvalidCommitment", "RangeProofError", "range proof rewind failed"}
        \subseteq CheckErrors
  BY DEF CheckErrors
<1>2. a \in ACheck /\ (a.passes <=> o.commitment = "ok") /\ a.error = "InvalidCommitment"
  BY <1>1 DEF Check, ACheck
<1>3. /\ b \in ACheck /\ b.error = "RangeProofError"
      /\ b.passes <=> o.proof \notin {"oversize", "garbled"}
  BY <1>1 DEF Check, ACheck
<1>4. c \in ACheck /\ (c.passes <=> Opens(o)) /\ c.error = "range proof rewind failed"
  BY <1>1 DEF Check, ACheck, Opens
<1>5. RangeProofChecks(k, o) = <<a, b, c>> BY DEF RangeProofChecks
<1> HIDE DEF a, b, c
<1>6. <<a, b, c>> \in Seq(ACheck) BY <1>2, <1>3, <1>4, ListsOfChecks
<1>7. FirstError(<<a, b, c>>) =
        IF ~a.passes THEN a.error ELSE IF ~b.passes THEN b.error
        ELSE IF ~c.passes THEN c.error ELSE NoError
  BY <1>2, <1>3, <1>4, ThreeChecks
<1> QED  BY <1>2, <1>3, <1>4, <1>5, <1>6, <1>7

\* What the core says of an output.
CoreError(k, o) ==
  IF ~NonceParses(k, o) THEN "Secp256k1Error"
  ELSE IF o.kind # "amount" /\ o.asset # "ok" THEN "InvalidGenerator"
  ELSE IF o.commitment # "ok" THEN "InvalidCommitment"
  ELSE IF o.proof \in {"oversize", "garbled"} THEN "RangeProofError"
  ELSE IF ~Opens(o) THEN "range proof rewind failed"
  ELSE IF o.kind # "amount" /\ ~ClaimReproducesAsset(o) THEN "asset commitment verification failed"
  ELSE NoError

LEMMA CoreErrorIs ==
  ASSUME NEW k, NEW o
  PROVE  CoreChecks(k, o) \in Seq(ACheck) /\ FirstError(CoreChecks(k, o)) = CoreError(k, o)
<1> DEFINE nonce == NonceChecks(k, o)
           range == RangeProofChecks(k, o)
           a == Check(o.asset = "ok", "InvalidGenerator")
           c == Check(ClaimReproducesAsset(o), "asset commitment verification failed")
<1>1. nonce \in Seq(ACheck) /\ range \in Seq(ACheck) BY NonceError, RangeProofError
<1>2. {"InvalidGenerator", "asset commitment verification failed"} \subseteq CheckErrors
  BY DEF CheckErrors
<1>3. a \in ACheck /\ (a.passes <=> o.asset = "ok") /\ a.error = "InvalidGenerator"
  BY <1>2 DEF Check, ACheck
<1>4. /\ c \in ACheck /\ c.error = "asset commitment verification failed"
      /\ c.passes <=> ClaimReproducesAsset(o)
  BY <1>2 DEF Check, ACheck, ClaimReproducesAsset
<1>5. CoreChecks(k, o) =
        IF o.kind = "amount" THEN nonce \o range
        ELSE ((nonce \o <<a>>) \o range) \o <<c>>
  BY DEF CoreChecks, AmountChecks, FullChecks
<1>6. /\ FirstError(nonce) = IF NonceParses(k, o) THEN NoError ELSE "Secp256k1Error"
      /\ FirstError(range) =
           IF o.commitment # "ok" THEN "InvalidCommitment"
           ELSE IF o.proof \in {"oversize", "garbled"} THEN "RangeProofError"
           ELSE IF ~Opens(o) THEN "range proof rewind failed" ELSE NoError
  BY NonceError, RangeProofError
<1> HIDE DEF nonce, range, a, c
<1>7. <<a>> \in Seq(ACheck) /\ <<c>> \in Seq(ACheck) BY <1>3, <1>4, ListsOfChecks
<1> DEFINE two == nonce \o <<a>>
           three == two \o range
           four == three \o <<c>>
           amount == nonce \o range
<1>8. /\ two \in Seq(ACheck) /\ amount \in Seq(ACheck)
      /\ FirstError(two) = IF FirstError(nonce) # NoError THEN FirstError(nonce) ELSE FirstError(<<a>>)
      /\ FirstError(amount) =
           IF FirstError(nonce) # NoError THEN FirstError(nonce) ELSE FirstError(range)
  BY <1>1, <1>7, ChecksInARow, ListsOfChecks
<1> HIDE DEF two, amount
<1>9. /\ three \in Seq(ACheck)
      /\ FirstError(three) = IF FirstError(two) # NoError THEN FirstError(two) ELSE FirstError(range)
  BY <1>1, <1>8, ChecksInARow, ListsOfChecks
<1> HIDE DEF three
<1>10. /\ four \in Seq(ACheck)
       /\ FirstError(four) = IF FirstError(three) # NoError THEN FirstError(three) ELSE FirstError(<<c>>)
  BY <1>7, <1>9, ChecksInARow, ListsOfChecks
<1> HIDE DEF four
<1>11. /\ FirstError(<<a>>) = IF ~a.passes THEN a.error ELSE NoError
       /\ FirstError(<<c>>) = IF ~c.passes THEN c.error ELSE NoError
  BY <1>3, <1>4, OneCheck
<1>12. CoreChecks(k, o) = IF o.kind = "amount" THEN amount ELSE four
  BY <1>5 DEF two, three, four, amount
<1>13. CASE o.kind = "amount"
  BY <1>6, <1>8, <1>12, <1>13 DEF CoreError, NoError
<1>14. CASE o.kind # "amount"
  BY <1>3, <1>4, <1>6, <1>8, <1>9, <1>10, <1>11, <1>12, <1>14 DEF CoreError, NoError
<1> QED  BY <1>13, <1>14

\* Only UniFFI checks lengths before the core does.
LengthsMatter(k, o) ==
  \/ k = "length" \/ o.ephemeral = "length"
  \/ o.kind = "full" /\ o.asset = "length"

LEMMA RewindErrorIs ==
  ASSUME NEW on \in Platforms, NEW k, NEW o
  PROVE  RewindError(on, k, o) =
           IF on = "mobile" /\ LengthsMatter(k, o) THEN "InvalidInput" ELSE CoreError(k, o)
<1> DEFINE core == CoreChecks(k, o)
           a == Check(k # "length", "InvalidInput")
           b == Check(o.ephemeral # "length", "InvalidInput")
           c == Check(o.kind = "full" => o.asset # "length", "InvalidInput")
           lengths == LengthChecks(on, k, o)
<1>1. core \in Seq(ACheck) /\ FirstError(core) = CoreError(k, o) BY CoreErrorIs
<1>2. "InvalidInput" \in CheckErrors BY DEF CheckErrors
<1>3. a \in ACheck /\ (a.passes <=> k # "length") /\ a.error = "InvalidInput"
  BY <1>2 DEF Check, ACheck
<1>4. b \in ACheck /\ (b.passes <=> o.ephemeral # "length") /\ b.error = "InvalidInput"
  BY <1>2 DEF Check, ACheck
<1>5. /\ c \in ACheck /\ c.error = "InvalidInput"
      /\ c.passes <=> (o.kind = "full" => o.asset # "length")
  BY <1>2 DEF Check, ACheck
<1>6. lengths = IF on # "mobile" THEN << >> ELSE <<a, b, c>> BY DEF LengthChecks
<1>7. RewindError(on, k, o) = FirstError(lengths \o core) BY DEF RewindError
<1> HIDE DEF core, a, b, c, lengths
<1>8. <<a, b, c>> \in Seq(ACheck) /\ << >> \in Seq(ACheck) BY <1>3, <1>4, <1>5, ListsOfChecks
<1>9. lengths \in Seq(ACheck) BY <1>6, <1>8
<1>10. FirstError(lengths \o core) =
         IF FirstError(lengths) # NoError THEN FirstError(lengths) ELSE FirstError(core)
  BY <1>1, <1>9, ChecksInARow
<1>11. FirstError(<<a, b, c>>) =
         IF ~a.passes THEN a.error ELSE IF ~b.passes THEN b.error
         ELSE IF ~c.passes THEN c.error ELSE NoError
  BY <1>3, <1>4, <1>5, ThreeChecks
<1>12. FirstError(lengths) =
         IF on = "mobile" /\ LengthsMatter(k, o) THEN "InvalidInput" ELSE NoError
  BY <1>3, <1>4, <1>5, <1>6, <1>11, NoChecks DEF LengthsMatter
<1> QED  BY <1>1, <1>7, <1>10, <1>12 DEF NoError


----------------------------------------------------------------------------
(* The invariant.                                                          *)

AnswerTypes ==
  {NoError, "none yet"} \cup OutsideErrors
    \cup {"Secp256k1Error", "InvalidCommitment", "InvalidGenerator", "RangeProofError",
          "range proof rewind failed", "asset commitment verification failed"}

\* What the wallet makes of an answer.
OutcomeOf(error) ==
  IF error = NoError THEN "mine" ELSE IF IsScanMiss(platform, error) THEN "skipped" ELSE "failed"

\* The answer of a call that is over is what the core says of its output, or an
\* error from elsewhere.
IsAnswer(p) == answer[p] \in {RewindError(platform, key, chain[p]), "Internal", "JavaScript"}

WorldTyped ==
  /\ platform \in Platforms /\ key \in KeyParses
  /\ chain \in [Positions -> Output \cup {Transparent}]
  /\ stopped \in BOOLEAN

Tables ==
  /\ rewind \in [Positions -> {"idle", "sent", "reading", "answered", "settled"}]
  /\ answer \in [Positions -> AnswerTypes]
  /\ outcome \in [Positions -> {"unknown", "mine", "skipped", "failed"}]
  /\ recovered \in [Positions -> SUBSET ([token : Tokens] \cup [token : Tokens, abf : Blindings])]
  /\ live \subseteq Positions

\* Where the rewind of an output is, with what the wallet has of it there.
CallIsAt(p) ==
  /\ rewind[p] # "idle" => chain[p] # Transparent
  /\ p \in live <=> rewind[p] = "reading"
  /\ rewind[p] = "reading" => RewindError(platform, key, chain[p]) = NoError
  /\ rewind[p] \in {"answered", "settled"} => IsAnswer(p)
  /\ rewind[p] # "settled" => outcome[p] = "unknown" /\ recovered[p] = {}
  /\ rewind[p] \notin {"answered", "settled"} => answer[p] = "none yet"
  /\ rewind[p] = "settled" =>
       /\ outcome[p] = OutcomeOf(answer[p])
       /\ recovered[p] = IF answer[p] = NoError THEN {Rewound(chain[p])} ELSE {}

ScanInvariant == WorldTyped /\ Tables /\ \A p \in Positions : CallIsAt(p)

----------------------------------------------------------------------------
(* The steps.                                                              *)

LEMMA RewindErrorType ==
  ASSUME NEW on \in Platforms, NEW k, NEW o
  PROVE  RewindError(on, k, o) \in AnswerTypes \ {"none yet"}
BY RewindErrorIs DEF CoreError, AnswerTypes, OutsideErrors, NoError

LEMMA RewoundType ==
  ASSUME NEW o \in Output
  PROVE  Rewound(o) \in [token : Tokens] \cup [token : Tokens, abf : Blindings]
BY DEF Rewound, Output

LEMMA InitScan == ScanInit => ScanInvariant
<1> SUFFICES ASSUME ScanInit PROVE ScanInvariant
  OBVIOUS
<1>1. WorldTyped BY ScanAssumption DEF ScanInit, WorldTyped
<1>2. Tables BY DEF ScanInit, Tables, AnswerTypes
<1>3. ASSUME NEW p \in Positions PROVE CallIsAt(p) BY DEF ScanInit, CallIsAt
<1> QED  BY <1>1, <1>2, <1>3 DEF ScanInvariant

\* What becomes of the other outputs when a step is about one.
OthersStay(p) ==
  /\ UNCHANGED <<platform, key, chain>>
  /\ \A q \in Positions \ {p} :
       /\ rewind'[q] = rewind[q] /\ answer'[q] = answer[q] /\ (q \in live' <=> q \in live)
       /\ outcome'[q] = outcome[q] /\ recovered'[q] = recovered[q]

\* What is known of a call stays known when nothing of it changes.
SameCall(q) ==
  /\ UNCHANGED <<platform, key, chain>>
  /\ rewind'[q] = rewind[q] /\ answer'[q] = answer[q] /\ (q \in live' <=> q \in live)
  /\ outcome'[q] = outcome[q] /\ recovered'[q] = recovered[q]

LEMMA SameCallSamePlace ==
  ASSUME NEW q \in Positions, CallIsAt(q), SameCall(q)
  PROVE  CallIsAt(q)'
<1>1. /\ platform' = platform /\ key' = key /\ chain' = chain
      /\ rewind'[q] = rewind[q] /\ answer'[q] = answer[q] /\ (q \in live' <=> q \in live)
      /\ outcome'[q] = outcome[q] /\ recovered'[q] = recovered[q]
  BY DEF SameCall
<1>2. RewindError(platform, key, chain[q])' = RewindError(platform, key, chain[q]) BY <1>1
<1>3. Rewound(chain[q])' = Rewound(chain[q]) BY <1>1
<1>4. OutcomeOf(answer[q])' = OutcomeOf(answer[q]) BY <1>1 DEF OutcomeOf, IsScanMiss
<1>5. IsAnswer(q)' <=> IsAnswer(q) BY <1>1, <1>2 DEF IsAnswer
<1> QED  BY <1>1, <1>2, <1>3, <1>4, <1>5 DEF CallIsAt

LEMMA OthersAreWhereTheyWere ==
  ASSUME ScanInvariant, NEW p \in Positions, OthersStay(p), NEW q \in Positions \ {p}
  PROVE  CallIsAt(q)'
<1>1. CallIsAt(q) BY DEF ScanInvariant
<1>2. SameCall(q) BY DEF OthersStay, SameCall
<1> QED  BY <1>1, <1>2, SameCallSamePlace

\* A step that leaves the outcomes alone: a call is started, read or answered.
LEMMA RewindSteps ==
  ASSUME ScanInvariant, NEW p \in Positions,
         \/ StartOnNode(p) \/ StartInBrowser(p) \/ ReadWasmResult(p)
         \/ StartOnMobile(p) \/ NativeAnswers(p)
  PROVE  ScanInvariant'
<1> DEFINE error == RewindError(platform, key, chain[p])
<1>1. /\ WorldTyped /\ Tables /\ CallIsAt(p) BY DEF ScanInvariant
<1>2. error \in AnswerTypes \ {"none yet"} BY <1>1, RewindErrorType DEF WorldTyped
<1>3. UNCHANGED <<platform, key, chain, outcome, recovered, stopped>>
  BY DEF StartOnNode, StartInBrowser, ReadWasmResult, StartOnMobile, NativeAnswers
<1> DEFINE error1 == RewindError(platform', key', chain'[p])
<1>4. error1 = error BY <1>3
<1> HIDE DEF error, error1
<1>5. /\ rewind[p] \in {"idle", "sent", "reading"} /\ chain[p] # Transparent
      /\ \/ /\ rewind' = [rewind EXCEPT ![p] = "answered"] /\ live' = live \ {p}
            /\ \E e \in {error, "Internal", "JavaScript"} : answer' = [answer EXCEPT ![p] = e]
         \/ /\ rewind' = [rewind EXCEPT ![p] = "reading"] /\ live' = live \cup {p}
            /\ error = NoError /\ UNCHANGED answer /\ rewind[p] = "idle"
         \/ /\ rewind' = [rewind EXCEPT ![p] = "sent"] /\ rewind[p] = "idle" /\ UNCHANGED <<live, answer>>
  <2>1. rewind[p] \notin {"reading"} => p \notin live BY <1>1 DEF CallIsAt
  <2>2. CASE StartOnNode(p)
    BY <1>1, <2>1, <2>2 DEF StartOnNode, MayStart, Answer, error
  <2>3. CASE StartInBrowser(p)
    <3>1. rewind[p] = "idle" /\ chain[p] # Transparent /\ p \notin live
      BY <2>1, <2>3 DEF StartInBrowser, MayStart
    <3>2. PICK e \in {error, "JavaScript"} :
             IF e = NoError
             THEN /\ rewind' = [rewind EXCEPT ![p] = "reading"]
                  /\ live' = live \cup {p} /\ UNCHANGED answer
             ELSE Answer(p, e) /\ UNCHANGED live
      BY <2>3 DEF StartInBrowser, error
    <3>3. CASE e = NoError BY <3>1, <3>2, <3>3 DEF NoError
    <3>4. CASE e # NoError BY <3>1, <3>2, <3>4 DEF Answer
    <3> QED  BY <3>3, <3>4
  <2>4. CASE ReadWasmResult(p)
    BY <1>1, <2>4 DEF ReadWasmResult, Answer, CallIsAt, error
  <2>5. CASE StartOnMobile(p)
    BY <1>1, <2>1, <2>5 DEF StartOnMobile, MayStart
  <2>6. CASE NativeAnswers(p)
    BY <1>1, <2>1, <2>6 DEF NativeAnswers, Answer, CallIsAt, error
  <2> QED  BY <2>2, <2>3, <2>4, <2>5, <2>6
<1>6. WorldTyped' BY <1>1, <1>3 DEF WorldTyped
<1>7. Tables'
  <2>1. "Internal" \in AnswerTypes /\ "JavaScript" \in AnswerTypes
    BY DEF AnswerTypes, OutsideErrors
  <2>2. outcome' = outcome /\ recovered' = recovered BY <1>3
  <2> DEFINE States == {"idle", "sent", "reading", "answered", "settled"}
             A == AnswerTypes
  <2>3. rewind' \in [Positions -> States] BY <1>1, <1>5 DEF Tables
  <2>4. answer \in [Positions -> A] BY <1>1 DEF Tables
  <2>5. error \in A /\ "Internal" \in A /\ "JavaScript" \in A BY <1>2, <2>1
  <2> HIDE DEF A
  <2>6. answer' \in [Positions -> A] BY <1>5, <2>4, <2>5
  <2>7. live' \subseteq Positions BY <1>1, <1>5 DEF Tables
  <2> QED  BY <1>1, <2>2, <2>3, <2>6, <2>7 DEF Tables, A
<1>8. OthersStay(p) BY <1>1, <1>3, <1>5 DEF OthersStay, Tables
<1>9. CallIsAt(p)'
  <2>1. /\ rewind'[p] \in {"answered", "reading", "sent"}
        /\ rewind'[p] = "answered" => answer'[p] \in {error, "Internal", "JavaScript"}
        /\ rewind'[p] # "answered" => answer'[p] = answer[p] /\ rewind[p] = "idle"
        /\ p \in live' <=> rewind'[p] = "reading"
        /\ rewind'[p] = "reading" => error = NoError
    <3>1. rewind \in [Positions -> {"idle", "sent", "reading", "answered", "settled"}]
          /\ answer \in [Positions -> AnswerTypes]
      BY <1>1 DEF Tables
    <3>2. p \in live <=> rewind[p] = "reading" BY <1>1 DEF CallIsAt
    <3> QED  BY <1>5, <3>1, <3>2
  <2>2. chain'[p] # Transparent BY <1>3, <1>5
  <2>3. outcome'[p] = "unknown" /\ recovered'[p] = {} BY <1>1, <1>3, <1>5 DEF CallIsAt
  <2>4. rewind'[p] # "answered" => answer'[p] = "none yet" BY <1>1, <2>1 DEF CallIsAt
  <2>5. RewindError(platform, key, chain[p])' = error BY <1>4 DEF error1
  <2> QED  BY <2>1, <2>2, <2>3, <2>4, <2>5 DEF CallIsAt, IsAnswer
<1> QED  BY <1>6, <1>7, <1>8, <1>9, OthersAreWhereTheyWere DEF ScanInvariant

\* The await returns, and the wallet knows what it has.
LEMMA SettleStep ==
  ASSUME ScanInvariant, NEW p \in Positions, Settle(p)
  PROVE  ScanInvariant'
<1>1. WorldTyped /\ Tables /\ CallIsAt(p) BY DEF ScanInvariant
<1>2. PICK error \in {answer[p]} \cup
         (IF platform = "mobile" /\ answer[p] = NoError THEN {"JavaScript"} ELSE {}) :
       /\ outcome' = [outcome EXCEPT ![p] =
            CASE error = NoError -> "mine"
              [] error # NoError /\ error = answer[p] /\ IsScanMiss(platform, error) -> "skipped"
              [] OTHER -> "failed"]
       /\ recovered' = [recovered EXCEPT ![p] =
            IF error = NoError THEN {Rewound(chain[p])} ELSE {}]
       /\ answer' = [answer EXCEPT ![p] = error]
       /\ stopped' = (stopped \/ outcome'[p] = "failed")
  BY DEF Settle
<1>3. /\ rewind[p] = "answered" /\ rewind' = [rewind EXCEPT ![p] = "settled"]
      /\ UNCHANGED <<platform, key, chain, live>>
  BY DEF Settle
<1>4. chain[p] \in Output /\ IsAnswer(p) /\ answer[p] \in AnswerTypes
  BY <1>1, <1>3 DEF CallIsAt, WorldTyped, Tables
<1>5. error \in AnswerTypes /\ error \in {RewindError(platform, key, chain[p]), "Internal", "JavaScript"}
  BY <1>2, <1>4 DEF IsAnswer, AnswerTypes, OutsideErrors
<1>6. error # answer[p] => error = "JavaScript" BY <1>2
<1>7. ~IsScanMiss(platform, "JavaScript") BY DEF IsScanMiss, BridgeCode, OutsideErrors
<1>8. outcome' = [outcome EXCEPT ![p] = OutcomeOf(error)]
  <2>1. (CASE error = NoError -> "mine"
           [] error # NoError /\ error = answer[p] /\ IsScanMiss(platform, error) -> "skipped"
           [] OTHER -> "failed") = OutcomeOf(error)
    BY <1>6, <1>7 DEF OutcomeOf
  <2> QED  BY <1>2, <2>1
<1>9. OutcomeOf(error) \in {"mine", "skipped", "failed"} BY DEF OutcomeOf
<1>10. WorldTyped' BY <1>1, <1>2, <1>3 DEF WorldTyped
<1> DEFINE R == [token : Tokens] \cup [token : Tokens, abf : Blindings]
           found == IF error = NoError THEN {Rewound(chain[p])} ELSE {}
<1>11. found \in SUBSET R BY <1>4, RewoundType
<1>12. recovered' = [recovered EXCEPT ![p] = found] BY <1>2
<1>13. recovered \in [Positions -> SUBSET R] BY <1>1 DEF Tables
<1>14. recovered' \in [Positions -> SUBSET R]
  <2> HIDE DEF found, R
  <2> QED  BY <1>11, <1>12, <1>13
<1>15. Tables'
  BY <1>1, <1>2, <1>3, <1>5, <1>8, <1>9, <1>14 DEF Tables
<1>16. OthersStay(p) BY <1>1, <1>2, <1>3, <1>8 DEF OthersStay, Tables
<1>17. CallIsAt(p)'
  <2>1. /\ rewind'[p] = "settled" /\ answer'[p] = error /\ outcome'[p] = OutcomeOf(error)
        /\ recovered'[p] = found
    BY <1>1, <1>2, <1>3, <1>8 DEF Tables
  <2>2. OutcomeOf(error)' = OutcomeOf(error) BY <1>3 DEF OutcomeOf, IsScanMiss
  <2>3. RewindError(platform, key, chain[p])' = RewindError(platform, key, chain[p])
    BY <1>3
  <2>4. p \notin live' BY <1>1, <1>3 DEF CallIsAt
  <2>5. chain'[p] = chain[p] /\ chain[p] # Transparent BY <1>1, <1>3 DEF CallIsAt
  <2>6. IsAnswer(p)' BY <1>5, <2>1, <2>3 DEF IsAnswer
  <2>7. outcome'[p] = OutcomeOf(answer[p])' BY <1>3, <2>1 DEF OutcomeOf, IsScanMiss
  <2> QED  BY <2>1, <2>4, <2>5, <2>6, <2>7 DEF CallIsAt
<1> QED  BY <1>10, <1>15, <1>16, <1>17, OthersAreWhereTheyWere DEF ScanInvariant

LEMMA StepScan == ScanInvariant /\ [ScanNext]_scanVars => ScanInvariant'
<1> SUFFICES ASSUME ScanInvariant, [ScanNext]_scanVars PROVE ScanInvariant'
  OBVIOUS
<1>1. CASE UNCHANGED scanVars
  <2>1. UNCHANGED <<platform, key, chain, rewind, answer, live, outcome, recovered, stopped>>
    BY <1>1 DEF scanVars
  <2>2. WorldTyped' /\ Tables' BY <2>1 DEF ScanInvariant, WorldTyped, Tables
  <2>3. \A p \in Positions : CallIsAt(p)'
    BY <2>1, SameCallSamePlace DEF ScanInvariant, SameCall
  <2> QED  BY <2>2, <2>3 DEF ScanInvariant
<1>2. CASE ScanNext BY <1>2, RewindSteps, SettleStep DEF ScanNext
<1> QED  BY <1>1, <1>2

----------------------------------------------------------------------------
(* The theorems.                                                           *)

\* Each output is where its own call is, and nothing is known of it that its call
\* did not tell.
THEOREM ScanCorrect == ScanSpec => []ScanInvariant
<1> QED  BY InitScan, StepScan, PTL DEF ScanSpec

\* The tables of the scan keep their type.
THEOREM ScanType == ScanSpec => []ScanTypeOK
<1>1. ScanInvariant => ScanTypeOK
  BY DEF ScanInvariant, WorldTyped, Tables, AnswerTypes, ScanTypeOK
<1> QED  BY ScanCorrect, <1>1, PTL

\* No wasm result outlives its turn.
THEOREM ResultsFreed == ScanSpec => []ResultsAreFreed
<1>1. ScanInvariant => ResultsAreFreed
  BY DEF ScanInvariant, CallIsAt, Tables, ResultsAreFreed, EventLoopFree
<1> QED  BY ScanCorrect, <1>1, PTL

\* The answer that is left of an output settled from inside is the core's.
LEMMA SettledIsRewindError ==
  ASSUME ScanInvariant, NEW p \in Positions, SettledFromInside(p)
  PROVE  /\ answer[p] = RewindError(platform, key, chain[p])
         /\ answer[p] = CoreError(key, chain[p])
         /\ outcome[p] = OutcomeOf(answer[p]) /\ chain[p] \in Output /\ platform \in Platforms
<1>1. /\ rewind[p] = "settled" /\ answer[p] \notin OutsideErrors
      /\ IsAnswer(p) /\ outcome[p] = OutcomeOf(answer[p]) /\ chain[p] \in Output
      /\ platform \in Platforms
  BY DEF SettledFromInside, ScanInvariant, CallIsAt, WorldTyped
<1>2. answer[p] = RewindError(platform, key, chain[p]) BY <1>1 DEF IsAnswer, OutsideErrors
<1>3. answer[p] # "InvalidInput" BY <1>1 DEF OutsideErrors
<1> QED  BY <1>1, <1>2, <1>3, RewindErrorIs

\* A wallet recovers what was made for it, with its token and its blinding.
THEOREM OwnAreRecovered == ScanSpec => []OwnOutputRecovered
<1>1. ScanInvariant => OwnOutputRecovered
  <2> SUFFICES ASSUME ScanInvariant, NEW p \in Positions, SettledFromInside(p),
                      IsHonest(chain[p]), KeyIsMine(p)
               PROVE  /\ outcome[p] = "mine"
                      /\ recovered[p] = {IF chain[p].kind = "amount" THEN [token |-> chain[p].token]
                                         ELSE [token |-> chain[p].token, abf |-> chain[p].abf]}
    BY DEF OwnOutputRecovered
  <2> DEFINE o == chain[p]
  <2>1. answer[p] = CoreError(key, o) /\ outcome[p] = OutcomeOf(answer[p]) /\ o \in Output
    BY SettledIsRewindError
  <2>2. recovered[p] = IF answer[p] = NoError THEN {Rewound(o)} ELSE {}
    BY DEF SettledFromInside, ScanInvariant, CallIsAt
  <2>3. key = "ok" /\ o.to = WalletKey BY DEF KeyIsMine
  <2>4. IsHonest(o) OBVIOUS
  <2> HIDE DEF o
  <2>5. o.kind \in {"amount", "full"} BY <2>1 DEF Output
  <2>6. CoreError(key, o) = NoError
    BY <2>3, <2>4, <2>5
       DEF IsHonest, CoreError, NonceParses, Opens, ClaimReproducesAsset
  <2>7. Rewound(o) = IF o.kind = "amount" THEN [token |-> o.token]
                     ELSE [token |-> o.token, abf |-> o.abf]
    BY <2>4, <2>5 DEF IsHonest, Rewound
  <2> QED  BY <2>1, <2>2, <2>6, <2>7 DEF OutcomeOf, o
<1> QED  BY ScanCorrect, <1>1, PTL

\* What a wallet recovers is its own and what the commitments hide, whatever the
\* sender claims.
THEOREM RecoveredAreTrue == ScanSpec => []RecoveredReproducesCommitments
<1>1. ScanInvariant => RecoveredReproducesCommitments
  <2> SUFFICES ASSUME ScanInvariant, NEW p \in Positions, NEW r \in recovered[p]
               PROVE  /\ KeyIsMine(p)
                      /\ r.token = chain[p].token
                      /\ chain[p].kind = "full" => r.abf = chain[p].abf
    BY DEF RecoveredReproducesCommitments
  <2> DEFINE o == chain[p]
  <2>1. CallIsAt(p) /\ platform \in Platforms BY DEF ScanInvariant, WorldTyped
  <2>2. rewind[p] = "settled" /\ answer[p] = NoError /\ r = Rewound(o) BY <2>1 DEF CallIsAt
  <2>3. SettledFromInside(p) BY <2>2 DEF SettledFromInside, OutsideErrors, NoError
  <2>4. CoreError(key, o) = NoError /\ o \in Output BY <2>2, <2>3, SettledIsRewindError
  <2> HIDE DEF o
  <2>5. /\ NonceParses(key, o) /\ Opens(o)
        /\ o.kind # "amount" => ClaimReproducesAsset(o)
    BY <2>4 DEF CoreError, NoError
  <2>6. key = "ok" /\ o.to = WalletKey BY <2>5 DEF NonceParses, Opens
  <2>7. o.kind = "amount" => r = [token |-> o.token] BY <2>2 DEF Rewound
  <2>8. o.kind # "amount" => r = [token |-> o.token, abf |-> o.abf]
    BY <2>2, <2>5 DEF Rewound, ClaimReproducesAsset
  <2> QED  BY <2>6, <2>7, <2>8 DEF KeyIsMine, o
<1> QED  BY ScanCorrect, <1>1, PTL

\* A sound output of somebody else never ends the scan.
THEOREM ForeignAreSkipped == ScanSpec => []ForeignIsSkipped
<1>1. ScanInvariant => ForeignIsSkipped
  <2> SUFFICES ASSUME ScanInvariant, NEW p \in Positions, SettledFromInside(p),
                      IsHonest(chain[p]), key = "ok", ~KeyIsMine(p)
               PROVE  outcome[p] = "skipped"
    BY DEF ForeignIsSkipped
  <2> DEFINE o == chain[p]
  <2>1. answer[p] = CoreError(key, o) /\ outcome[p] = OutcomeOf(answer[p])
    BY SettledIsRewindError
  <2>2. CoreError(key, o) = "range proof rewind failed"
    BY DEF KeyIsMine, IsHonest, CoreError, NonceParses, Opens
  <2> QED  BY <2>1, <2>2 DEF OutcomeOf, IsScanMiss, BridgeCode, OutsideErrors, NoError
<1> QED  BY ScanCorrect, <1>1, PTL

\* No failure is taken for a scan miss.
THEOREM FailuresStayLoud == ScanSpec => []FailuresAreLoud
<1>1. ScanInvariant => FailuresAreLoud
  <2> SUFFICES ASSUME ScanInvariant, NEW p \in Positions
               PROVE  /\ answer[p] \in OutsideErrors => outcome[p] \in {"unknown", "failed"}
                      /\ /\ platform # "mobile" /\ rewind[p] = "settled"
                         /\ \/ IsMalformed(chain[p]) \/ key # "ok"
                            \/ chain[p].kind = "full" /\ Opens(chain[p]) /\ ~ClaimReproducesAsset(chain[p])
                         => outcome[p] = "failed"
    BY DEF FailuresAreLoud
  <2> DEFINE o == chain[p]
  <2>1. /\ CallIsAt(p) /\ platform \in Platforms
        /\ rewind[p] \in {"idle", "sent", "reading", "answered", "settled"}
        /\ chain[p] # Transparent => o \in Output
    BY DEF ScanInvariant, WorldTyped, Tables
  <2>2. ASSUME answer[p] \in OutsideErrors PROVE outcome[p] \in {"unknown", "failed"}
    <3>1. OutcomeOf(answer[p]) = "failed"
      BY <2>2 DEF OutcomeOf, IsScanMiss, BridgeCode, OutsideErrors, NoError
    <3> QED  BY <2>1, <3>1 DEF CallIsAt
  <2>3. ASSUME platform # "mobile", rewind[p] = "settled",
               \/ IsMalformed(o) \/ key # "ok"
               \/ o.kind = "full" /\ Opens(o) /\ ~ClaimReproducesAsset(o)
        PROVE  outcome[p] = "failed"
    <3>1. o \in Output /\ o.kind \in {"amount", "full"} BY <2>1, <2>3 DEF CallIsAt, Output
    <3>2. answer[p] \in {CoreError(key, o), "Internal", "JavaScript"}
      BY <2>1, <2>3, RewindErrorIs DEF CallIsAt, IsAnswer
    <3> HIDE DEF o
    <3>3. CoreError(key, o) \notin {NoError, "range proof rewind failed"}
      <4>1. CASE key # "ok" BY <4>1 DEF CoreError, NonceParses, NoError
      <4>2. CASE IsMalformed(o)
        BY <3>1, <4>2 DEF IsMalformed, CoreError, NonceParses, NoError
      <4>3. CASE o.kind = "full" /\ Opens(o) /\ ~ClaimReproducesAsset(o)
        BY <4>3 DEF CoreError, NoError
      <4> QED  BY <2>3, <4>1, <4>2, <4>3
    <3>4. OutcomeOf(answer[p]) = "failed"
      BY <2>3, <3>2, <3>3 DEF OutcomeOf, IsScanMiss, NoError
    <3> QED  BY <2>1, <2>3, <3>4 DEF CallIsAt
  <2> QED  BY <2>2, <2>3
<1> QED  BY ScanCorrect, <1>1, PTL
=============================================================================
