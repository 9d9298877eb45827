------------------------------- MODULE MCEcdh -------------------------------
(***************************************************************************)
(* Ecdh with two recipients, so that one can try the other's output.       *)
(***************************************************************************)
EXTENDS Ecdh

CONSTANTS alice, bob, e1

MCRecipients == {alice, bob}
MCEphemerals == {e1}
============================================================================
