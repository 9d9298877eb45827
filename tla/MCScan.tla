------------------------------- MODULE MCScan -------------------------------
(***************************************************************************)
(* Scan of chains of three outputs with several calls under way: of a few  *)
(* kinds of outputs in any order, and of one output with every combination *)
(* of defects.                                                             *)
(***************************************************************************)
EXTENDS Scan

CONSTANTS alice, bob, HTR, Custom, r1, r2

MCKeys == {alice, bob}
MCTokens == {HTR, Custom}
MCBlindings == {r1, r2}

Honest(kind, to) ==
  [kind |-> kind, to |-> to, ephemeral |-> "ok", commitment |-> "ok", asset |-> "ok",
   proof |-> "ok", token |-> Custom, abf |-> r1, claim |-> [token |-> Custom, abf |-> r1]]

MCPositions == {1, 2, 3}
MCOnePosition == {1}

\* Honest outputs, and one for each way in which a call can go wrong.
MCSomeOutputs ==
  LET mine == Honest("full", alice)
  IN  {Honest("amount", alice), mine, Honest("full", bob),
       [mine EXCEPT !.commitment = "length"],
       [mine EXCEPT !.claim.token = HTR]}

\* Every combination of defects, in the only output that is shielded.
MCAllOutputs == {o \in Output : o.token = Custom /\ o.abf = r1}

MCChains ==
  [MCPositions -> MCSomeOutputs]
    \cup {[p \in MCPositions |-> IF p = 1 THEN o ELSE Transparent] : o \in MCAllOutputs}

MCOneOutput == [MCOnePosition -> MCAllOutputs]
============================================================================
