---------------------------- MODULE MCSurjection ----------------------------
(***************************************************************************)
(* Surjection proofs over at most three inputs, two of which are allowed.  *)
(***************************************************************************)
EXTENDS Surjection

CONSTANTS t1, t2

MCTags == {t1, t2}
MCBlindings == {0, 1}

Gen(tag, r) == [tag |-> tag, r |-> r]

\* Every truthful entry, one with a stale blinding, one with the wrong tag, and
\* one whose generator does not parse.
MCEntries ==
  {[gen |-> Gen(t, r), tag |-> t, r |-> r] : t \in MCTags, r \in MCBlindings}
    \cup {[gen |-> Gen(t1, 0), tag |-> t1, r |-> 1],
          [gen |-> Gen(t2, 1), tag |-> t1, r |-> 1],
          [gen |-> MalformedBytes, tag |-> t1, r |-> 0]}

\* Made elsewhere: a sound proof over one input, and one that proves nothing.
MCForeign ==
  {[codomain |-> Gen(t1, 1), domain |-> <<Gen(t1, 0)>>, sound |-> TRUE],
   [codomain |-> Gen(t1, 1), domain |-> <<Gen(t2, 0)>>, sound |-> FALSE]}
=============================================================================
