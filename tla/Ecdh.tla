-------------------------------- MODULE Ecdh --------------------------------
(***************************************************************************)
(* The nonce that a sender and a recipient agree on, and the secrets on    *)
(* the stack while it is derived: generate_random_blinding_factor,         *)
(* generate_ecdh_nonce and derive_rewind_nonce_from_keys                   *)
(* (crypto-core/src/ecdh.rs), a few statements or a loop iteration a step. *)
(*                                                                         *)
(* A private key is a model value, and its public key goes by its name.    *)
(* The hash has no collisions: a digest is the secret that was hashed and  *)
(* the number of rehashes since, each with the next counter.  Which        *)
(* digests are scalars cannot be told: the first rejected[s] of a secret   *)
(* s's are not.                                                            *)
(***************************************************************************)
EXTENDS Naturals

CONSTANTS Recipients,    \* private keys that outputs are addressed to
          Ephemerals,    \* private keys that senders draw
          Unparsable,    \* bytes that are no key
          MaxRejected    \* bound on the digests rejected in a row

PrivateKeys == Recipients \cup Ephemerals

ASSUME EcdhAssumption ==
  /\ Recipients \cap Ephemerals = {}
  /\ Unparsable \notin PrivateKeys
  /\ MaxRejected \in Nat

\* Diffie-Hellman gives the same from both sides.
derive_ecdh_shared_secret(private_key, peer_pubkey) == {private_key, peer_pubkey}

Secrets == {{r, e} : r \in Recipients, e \in Ephemerals} \cup {{k} : k \in PrivateKeys}

VARIABLES
  rejected,  \* how many digests in a row of each secret are not scalars
  call,      \* the call under way
  pc,        \* its next statement
  held,      \* its buffers that hold a secret
  digest,    \* the local variable result of derive_rewind_nonce, which is moved
             \* to the caller: there it is nonce
  residue,   \* the buffers of calls that returned which still hold a secret;
             \* copies in values that have no zeroize, a SecretKey, are left out
  outputs,   \* the outputs made: recipient, ephemeral key and nonce
  last       \* the last call that returned, with its result and nonce

vars == <<rejected, call, pc, held, digest, residue, outputs, last>>

Ops == {"generate_random_blinding_factor", "generate_ecdh_nonce",
        "derive_rewind_nonce_from_keys"}
Buffers == {"bytes", "eph_sk_bytes", "shared_secret", "nonce"}
Digest == [of : Secrets, rehashes : 0 .. MaxRejected]
KeyBytes == PrivateKeys \cup {Unparsable}
NoCall == [op |-> "none"]
NoDigest == [of |-> {}]

TypeOK ==
  /\ rejected \in [Secrets -> 0 .. MaxRejected]
  /\ call \in {NoCall} \cup [op : Ops, own : KeyBytes, peer : KeyBytes]
  /\ pc \in {"idle", "sample", "check", "parse", "ecdh", "rehash", "return"}
  /\ held \subseteq Buffers
  /\ digest \in Digest \cup {NoDigest}
  /\ residue \subseteq Ops \X Buffers
  /\ outputs \subseteq [to : Recipients, ephemeral : Ephemerals, nonce : Digest]
  /\ last \in {NoCall} \cup [call : [op : Ops, own : KeyBytes, peer : KeyBytes],
       result : {"ok", "Secp256k1Error"}, nonce : Digest \cup {NoDigest}]

Init ==
  /\ rejected \in [Secrets -> 0 .. MaxRejected]
  /\ call = NoCall /\ pc = "idle" /\ held = {} /\ digest = NoDigest
  /\ residue = {} /\ outputs = {} /\ last = NoCall

----------------------------------------------------------------------------

Start(op, own, peer, at, buffers) ==
  /\ pc = "idle"
  /\ call' = [op |-> op, own |-> own, peer |-> peer]
  /\ pc' = at /\ held' = buffers
  /\ UNCHANGED <<rejected, digest, residue, outputs, last>>

\* The call returns.  What it wiped, or moved to its caller, is gone; the rest
\* stays behind.
Return(result, wiped) ==
  /\ last' = [call |-> call, result |-> result, nonce |-> digest]
  /\ residue' = residue \cup {<<call.op, b>> : b \in held \ wiped}
  /\ call' = NoCall /\ pc' = "idle" /\ held' = {} /\ digest' = NoDigest
  /\ UNCHANGED rejected

CallRandom == Start("generate_random_blinding_factor", Unparsable, Unparsable, "sample", {})

Sample ==
  /\ pc = "sample"
  /\ pc' = "check" /\ held' = {"bytes"}
  /\ UNCHANGED <<rejected, call, digest, residue, outputs, last>>

\* The bytes are the result, or are no scalar and wiped.
CheckSample ==
  /\ pc = "check"
  /\ \/ Return("ok", {"bytes"}) /\ UNCHANGED outputs
     \/ /\ pc' = "sample" /\ held' = {}
        /\ UNCHANGED <<rejected, call, digest, residue, outputs, last>>

\* generate_ecdh_nonce draws the ephemeral key before it looks at the recipient's.
CallCreate(recipient, ephemeral) ==
  Start("generate_ecdh_nonce", ephemeral, recipient, "parse", {"eph_sk_bytes"})

CallRewind(private_key, ephemeral_pubkey) ==
  Start("derive_rewind_nonce_from_keys", private_key, ephemeral_pubkey, "parse", {})

\* parse_secret_key and parse_public_key; the question mark returns at once.
ParseKeys ==
  /\ pc = "parse"
  /\ IF Unparsable \in {call.own, call.peer}
     THEN Return("Secp256k1Error", {}) /\ UNCHANGED outputs
     ELSE /\ pc' = "ecdh"
          /\ UNCHANGED <<rejected, call, held, digest, residue, outputs, last>>

\* The shared secret and its first digest.
Agree ==
  /\ pc = "ecdh"
  /\ digest' = [of |-> derive_ecdh_shared_secret(call.own, call.peer), rehashes |-> 0]
  /\ held' = held \cup {"shared_secret"}
  /\ pc' = "rehash"
  /\ UNCHANGED <<rejected, call, residue, outputs, last>>

\* SecretKey::from_slice
IsScalar(d) == d.rehashes >= rejected[d.of]

\* Variant: an if in the place of the while.
RehashesOnce(d) == d.rehashes = 0 /\ ~IsScalar(d)

\* The condition of the loop in derive_rewind_nonce.
Rehashes(d) == ~IsScalar(d)

derive_rewind_nonce ==
  /\ pc = "rehash"
  /\ IF Rehashes(digest)
     THEN digest' = [digest EXCEPT !.rehashes = @ + 1] /\ UNCHANGED <<pc, held>>
     ELSE pc' = "return" /\ held' = held \cup {"nonce"} /\ UNCHANGED digest
  /\ UNCHANGED <<rejected, call, residue, outputs, last>>

\* Variant: derive_rewind_nonce_from_keys forgets its nonce.
WipedButNonce(op) ==
  IF op = "generate_ecdh_nonce" THEN {"eph_sk_bytes", "shared_secret", "nonce"}
                                ELSE {"shared_secret"}

\* The buffers wiped before the last statement.
Wiped(op) ==
  IF op = "generate_ecdh_nonce" THEN {"eph_sk_bytes", "shared_secret", "nonce"}
                                ELSE {"shared_secret", "nonce"}

ReturnNonce ==
  /\ pc = "return"
  /\ Return(IF IsScalar(digest) THEN "ok" ELSE "Secp256k1Error", Wiped(call.op))
  /\ outputs' = IF call.op = "generate_ecdh_nonce" /\ IsScalar(digest)
                THEN outputs \cup {[to |-> call.peer, ephemeral |-> call.own, nonce |-> digest]}
                ELSE outputs

Next ==
  \/ CallRandom
  \/ Sample
  \/ CheckSample
  \/ \E recipient \in Recipients \cup {Unparsable}, ephemeral \in Ephemerals :
       CallCreate(recipient, ephemeral)
  \/ \E private_key \in Recipients \cup {Unparsable},
        ephemeral_pubkey \in Ephemerals \cup {Unparsable} :
       CallRewind(private_key, ephemeral_pubkey)
  \/ ParseKeys
  \/ Agree
  \/ derive_rewind_nonce
  \/ ReturnNonce

Spec == Init /\ [][Next]_vars

----------------------------------------------------------------------------
(* Properties.                                                             *)

\* A rewind of an output, with any key that parses, gets to a nonce however many
\* digests were rejected on the way, and it is the nonce the output was made with
\* when the key is its recipient's and only then.
NoncesAgree ==
  \A o \in outputs :
    last # NoCall /\ last.call.op = "derive_rewind_nonce_from_keys"
      /\ last.call.own # Unparsable /\ last.call.peer = o.ephemeral
    => /\ last.result = "ok"
       /\ last.nonce = o.nonce <=> last.call.own = o.to

\* A shared secret or a nonce never stays on the freed stack, and nothing does
\* of a rewind: at most the ephemeral key of an output that was not made.
OnlyUnusedKeyIsLeft == residue \subseteq {<<"generate_ecdh_nonce", "eph_sk_bytes">>}

\* "The intermediate ephemeral private key, ECDH shared secret and nonce bytes
\* are wiped from the stack before returning", says the comment on
\* generate_ecdh_nonce.  The early return on a bad recipient key breaks this.
WipedBeforeReturning == residue = {}
============================================================================
