---------------------------- MODULE MCRangeProofs ----------------------------
(***************************************************************************)
(* Range proofs of 3-bit words, 1 bit wide when created.                   *)
(***************************************************************************)
EXTENDS RangeProofs

CONSTANTS g1, g2

MCGenerators == {g1, g2}

\* Every foreign proof under one generator, each verified with every commitment.
MCAllProofs == {p \in Proof : Possible(p) /\ p.of.gen = g1}
MCAllCommitments == Commitment

\* For the batches: a proof from zero of zero, a wide one, an unsound one, a sound one.
Foreign(value, min, bits, sound) ==
  [of |-> [value |-> value, gen |-> g1], min |-> min, bits |-> bits, sound |-> sound]

MCSomeProofs == {Foreign(0, 0, 1, TRUE), Foreign(8, 1, 2, FALSE), Foreign(6, 4, 2, TRUE)}
MCSomeCommitments == {p.of : p \in MCSomeProofs}
============================================================================
