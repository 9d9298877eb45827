------------------------- MODULE BalanceCallProofs -------------------------
(***************************************************************************)
(* Proofs about BalanceCall: its loops collect what they should, from      *)
(* lists of any length, and it implements Balance.                         *)
(***************************************************************************)
EXTENDS BalanceCall, CommitmentsProofs, SequenceTheorems

Inputs == transparentInputs \o shieldedInputs
Outputs == transparentOutputs \o shieldedOutputs

\* What is pushed for the excess.
ExcessCommitments ==
  IF excess \in {NoExcess, ZERO_TWEAK} THEN <<>> ELSE <<Commit(0, excess, htr_asset_tag)>>

\* A shielded entry has been proved to be in range.
InRange(entries) == \A k \in DOMAIN entries : entries[k].value \in 1 .. MAX_PROVABLE_AMOUNT

ListsInOrder ==
  /\ InRange(shieldedInputs) /\ InRange(shieldedOutputs)
  /\ Len(transparentInputs) + Len(shieldedInputs) <= MaxInputs
  /\ Len(transparentOutputs) + Len(shieldedOutputs) <= MaxOutputs

\* Wherever the call is, its vectors hold what the entries done so far commit to.
LoopInvariant ==
  /\ pc = "inputs" =>
       /\ n <= Len(Inputs) /\ positive_commitments = CollectedFrom(SubSeq(Inputs, 1, n))
       /\ negative_commitments = <<>>
  /\ pc = "outputs" =>
       /\ n <= Len(Outputs) /\ positive_commitments = CollectedFrom(Inputs)
       /\ negative_commitments = CollectedFrom(SubSeq(Outputs, 1, n))
  /\ pc = "excess" =>
       /\ positive_commitments = CollectedFrom(Inputs)
       /\ negative_commitments = CollectedFrom(Outputs)
  /\ pc = "compare" =>
       /\ positive_commitments = CollectedFrom(Inputs)
       /\ negative_commitments = CollectedFrom(Outputs) \o ExcessCommitments

\* The excess is where it may be while a call is under way.
ExcessInPlace ==
  pc # "idle" /\ excess # NoExcess => shieldedOutputs = <<>> /\ shieldedInputs # <<>>

CallInvariant ==
  TypeOK /\ ListsInOrder /\ LoopInvariant /\ ExcessInPlace /\ ~aborted
----------------------------------------------------------------------------
(* Entries, and what is collected from them.                               *)

LEMMA TransparentEntry ==
  ASSUME NEW e \in Transparent
  PROVE  /\ e.amount \in Amounts /\ e.token \in Tokens
         /\ Collected(e) = IF e.amount = 0 THEN <<>>
                           ELSE <<Commit(e.amount, ZERO_TWEAK, derive_asset_tag(e.token))>>
         /\ Commit(e.amount, ZERO_TWEAK, derive_asset_tag(e.token)) \in Point
         /\ Collected(e) \in Seq(Point)
         /\ ~Aborts(Collected(e))
<1> DEFINE c == Commit(e.amount, ZERO_TWEAK, derive_asset_tag(e.token))
<1>1. e.amount \in Amounts /\ e.token \in Tokens /\ IsTransparent(e)
  BY DEF Transparent, IsTransparent
<1>2. c \in Point BY <1>1, CommitIsPoint, ScalarClosure DEF derive_asset_tag
<1>3. e.amount # 0 => c # Identity
  BY <1>1, IdentityIsRejected, ScalarClosure DEF derive_asset_tag, RejectedByCreateCommitment
<1> HIDE DEF c
<1>4. Collected(e) = IF e.amount = 0 THEN <<>> ELSE <<c>> BY <1>1 DEF Collected, c
<1>5. <<>> \in Seq(Point) /\ <<c>> \in Seq(Point) BY <1>2
<1>6. ~Aborts(<<>>) BY DEF Aborts
<1>7. c # Identity => ~Aborts(<<c>>) BY DEF Aborts
<1> QED  BY <1>1, <1>2, <1>3, <1>4, <1>5, <1>6, <1>7 DEF c

LEMMA ShieldedEntry ==
  ASSUME NEW e \in Shielded
  PROVE  /\ e.value \in Amounts /\ e.token \in Tokens /\ e.vbf \in Scalars /\ e.abf \in Scalars
         /\ Collected(e) = <<CommitmentOf(e)>>
         /\ CommitmentOf(e) \in Point
         /\ Collected(e) \in Seq(Point)
         /\ e.value # 0 => CommitmentOf(e) # Identity /\ ~Aborts(Collected(e))
<1> DEFINE c == CommitmentOf(e)
<1>1. /\ e.value \in Amounts /\ e.token \in Tokens /\ e.vbf \in Scalars /\ e.abf \in Scalars
      /\ ~IsTransparent(e)
  BY DEF Shielded, IsTransparent
<1>2. c \in Point BY <1>1, CommitIsPoint DEF CommitmentOf
<1>3. e.value # 0 => c # Identity
  BY <1>1, IdentityIsRejected DEF CommitmentOf, RejectedByCreateCommitment
<1>4. Collected(e) = <<c>> BY <1>1 DEF Collected
<1> HIDE DEF c
<1>5. <<c>> \in Seq(Point) BY <1>2
<1>6. c # Identity => ~Aborts(<<c>>) BY DEF Aborts
<1> QED  BY <1>1, <1>2, <1>3, <1>4, <1>5, <1>6 DEF c

Entry == Transparent \cup Shielded

LEMMA EntryCollected ==
  ASSUME NEW entries \in Seq(Entry)
  PROVE  /\ [k \in DOMAIN entries |-> Collected(entries[k])] \in Seq(Seq(Point))
         /\ CollectedFrom(entries) \in Seq(Point)
<1> DEFINE P == Seq(Point)
           parts == [k \in DOMAIN entries |-> Collected(entries[k])]
<1>1. \A e \in Entry : Collected(e) \in P BY TransparentEntry, ShieldedEntry DEF Entry
<1>2. \A k \in 1 .. Len(entries) : entries[k] \in Entry OBVIOUS
<1>3. DOMAIN entries = 1 .. Len(entries) /\ Len(entries) \in Nat OBVIOUS
<1> HIDE DEF P
<1>4. parts \in [1 .. Len(entries) -> P] BY <1>1, <1>2, <1>3
<1>5. parts \in Seq(P)
  <2> HIDE DEF parts
  <2> QED  BY <1>3, <1>4
<1>6. Joined(parts) \in P
  <2> HIDE DEF parts
  <2> QED  BY <1>5, JoinedType DEF P
<1> QED  BY <1>5, <1>6 DEF CollectedFrom, P

LEMMA CollectedFromNothing == CollectedFrom(<<>>) = <<>>
<1>1. [k \in DOMAIN <<>> |-> Collected(<<>>[k])] = <<>> OBVIOUS
<1> QED  BY <1>1, JoinedEmpty DEF CollectedFrom

LEMMA CollectedFromAppend ==
  ASSUME NEW entries \in Seq(Entry), NEW e \in Entry
  PROVE  CollectedFrom(Append(entries, e)) = CollectedFrom(entries) \o Collected(e)
<1> DEFINE parts == [k \in DOMAIN entries |-> Collected(entries[k])]
           longer == Append(entries, e)
           all == [k \in DOMAIN longer |-> Collected(longer[k])]
<1>1. parts \in Seq(Seq(Point)) BY EntryCollected
<1>2. Collected(e) \in Seq(Point) BY TransparentEntry, ShieldedEntry DEF Entry
<1>3. all = Append(parts, Collected(e))
  <2>1. DOMAIN entries = 1 .. Len(entries) /\ Len(entries) \in Nat
        /\ DOMAIN longer = 1 .. Len(entries) + 1 /\ longer[Len(entries) + 1] = e
        /\ \A k \in 1 .. Len(entries) : longer[k] = entries[k]
    OBVIOUS
  <2> HIDE DEF longer
  <2>2. Len(parts) = Len(entries) BY <1>1, <2>1
  <2>3. DOMAIN Append(parts, Collected(e)) = 1 .. Len(entries) + 1 BY <1>1, <2>2
  <2>4. ASSUME NEW k \in 1 .. Len(entries) + 1
        PROVE  all[k] = Append(parts, Collected(e))[k]
    <3>1. CASE k <= Len(entries) BY <1>1, <2>1, <2>2, <3>1
    <3>2. CASE k = Len(entries) + 1 BY <1>1, <2>1, <2>2, <3>2
    <3> QED  BY <2>1, <3>1, <3>2
  <2> QED  BY <1>1, <2>1, <2>3, <2>4
<1> HIDE DEF parts, all
<1>4. Joined(Append(parts, Collected(e))) = Joined(parts) \o Collected(e)
  BY <1>1, <1>2, JoinedAppend
<1> QED  BY <1>3, <1>4 DEF CollectedFrom, parts, all, longer

LEMMA CollectedFromConcat ==
  ASSUME NEW left \in Seq(Entry), NEW right \in Seq(Entry)
  PROVE  CollectedFrom(left \o right) = CollectedFrom(left) \o CollectedFrom(right)
<1> DEFINE lparts == [k \in DOMAIN left |-> Collected(left[k])]
           rparts == [k \in DOMAIN right |-> Collected(right[k])]
           both == left \o right
           all == [k \in DOMAIN both |-> Collected(both[k])]
<1>1. lparts \in Seq(Seq(Point)) /\ rparts \in Seq(Seq(Point)) BY EntryCollected
<1>2. all = lparts \o rparts
  <2> DEFINE m == Len(left)
             l == Len(right)
  <2>1. /\ m \in Nat /\ l \in Nat /\ DOMAIN left = 1 .. m /\ DOMAIN right = 1 .. l
        /\ DOMAIN both = 1 .. m + l
        /\ \A k \in 1 .. m : both[k] = left[k]
        /\ \A k \in 1 .. m + l : k > m => both[k] = right[k - m]
    OBVIOUS
  <2> HIDE DEF both, m, l
  <2>2. Len(lparts) = m /\ Len(rparts) = l BY <1>1, <2>1
  <2>3. DOMAIN (lparts \o rparts) = 1 .. m + l BY <1>1, <2>2
  <2>4. ASSUME NEW k \in 1 .. m + l PROVE all[k] = (lparts \o rparts)[k]
    <3>1. CASE k <= m BY <1>1, <2>1, <2>2, <3>1
    <3>2. CASE k > m
      <4>1. k - m \in 1 .. l BY <2>1, <3>2
      <4>2. (lparts \o rparts)[k] = rparts[k - m] BY <1>1, <2>1, <2>2, <3>2, <4>1
      <4>3. rparts[k - m] = Collected(right[k - m]) BY <2>1, <4>1
      <4> QED  BY <2>1, <3>2, <4>2, <4>3
    <3> QED  BY <2>1, <3>1, <3>2
  <2> QED  BY <1>1, <2>1, <2>3, <2>4
<1> HIDE DEF lparts, rparts, all
<1>3. Joined(lparts \o rparts) = Joined(lparts) \o Joined(rparts) BY <1>1, JoinedConcat
<1> QED  BY <1>2, <1>3 DEF CollectedFrom, lparts, rparts, all, both

\* What the vectors hold as a loop goes over its entries.
LEMMA CollectedByLoop ==
  ASSUME NEW entries \in Seq(Entry)
  PROVE  /\ CollectedFrom(SubSeq(entries, 1, 0)) = <<>>
         /\ CollectedFrom(SubSeq(entries, 1, Len(entries))) = CollectedFrom(entries)
         /\ \A k \in 0 .. Len(entries) - 1 :
              CollectedFrom(SubSeq(entries, 1, k + 1))
                = CollectedFrom(SubSeq(entries, 1, k)) \o Collected(entries[k + 1])
<1>1. SubSeq(entries, 1, 0) = <<>> BY SubSeqEmpty
<1>2. SubSeq(entries, 1, Len(entries)) = entries BY SubSeqFull
<1>3. ASSUME NEW k \in 0 .. Len(entries) - 1
      PROVE  CollectedFrom(SubSeq(entries, 1, k + 1))
               = CollectedFrom(SubSeq(entries, 1, k)) \o Collected(entries[k + 1])
  <2> DEFINE before == SubSeq(entries, 1, k)
             e == entries[k + 1]
  <2>1. before \in Seq(Entry) /\ e \in Entry OBVIOUS
  <2>2. SubSeq(entries, 1, k + 1) = Append(before, e)
    <3>0. k \in Nat OBVIOUS
    <3> DEFINE whole == SubSeq(entries, 1, k + 1)
               longer == Append(before, e)
    <3>1. /\ Len(before) = k /\ Len(whole) = k + 1 /\ whole[k + 1] = e
          /\ \A j \in 1 .. k : before[j] = entries[j]
          /\ \A j \in 1 .. k : whole[j] = entries[j]
      OBVIOUS
    <3>2. whole \in Seq(Entry) OBVIOUS
    <3> HIDE DEF before, whole, e
    <3>3. longer \in Seq(Entry) BY <2>1
    <3>4. Len(longer) = k + 1 /\ longer[k + 1] = e /\ \A j \in 1 .. k : longer[j] = before[j]
      BY <2>1, <3>1
    <3> HIDE DEF longer
    <3>5. \A j \in 1 .. k + 1 : whole[j] = longer[j] BY <3>0, <3>1, <3>4
    <3>6. whole = longer BY <3>1, <3>2, <3>3, <3>4, <3>5
    <3> QED  BY <3>6 DEF whole, longer
  <2> HIDE DEF before, e
  <2>3. CollectedFrom(Append(before, e)) = CollectedFrom(before) \o Collected(e)
    BY <2>1, CollectedFromAppend
  <2> QED  BY <2>2, <2>3 DEF before, e
<1> QED  BY <1>1, <1>2, <1>3, CollectedFromNothing

----------------------------------------------------------------------------
(* The state functions of the refinement mapping.                          *)

LEMMA SideOfIs ==
  ASSUME NEW t \in Seq(Transparent), NEW s \in Seq(Shielded)
  PROVE  /\ t \in Seq(Entry) /\ s \in Seq(Entry) /\ t \o s \in Seq(Entry)
         /\ CollectedFrom(t) \in Seq(Point) /\ CollectedFrom(s) \in Seq(Point)
         /\ SideOf(t, s) =
              [sum |-> PointAdd(PointSum(CollectedFrom(t)), PointSum(CollectedFrom(s))),
               n |-> Len(CollectedFrom(t)) + Len(CollectedFrom(s)), aborted |-> FALSE]
<1>1. t \in Seq(Entry) BY DEF Entry
<1>2. s \in Seq(Entry) BY DEF Entry
<1>3. t \o s \in Seq(Entry) BY <1>1, <1>2
<1> DEFINE ct == CollectedFrom(t)
           cs == CollectedFrom(s)
<1>4. ct \in Seq(Point) /\ cs \in Seq(Point) BY <1>1, <1>2, EntryCollected
<1>5. CollectedFrom(t \o s) = ct \o cs BY <1>1, <1>2, CollectedFromConcat
<1> HIDE DEF ct, cs
<1>6. PointSum(ct \o cs) = PointAdd(PointSum(ct), PointSum(cs)) BY <1>4, PointSumConcat
<1>7. Len(ct \o cs) = Len(ct) + Len(cs) BY <1>4
<1> QED  BY <1>1, <1>2, <1>3, <1>4, <1>5, <1>6, <1>7 DEF SideOf, ct, cs

LEMMA PointSumOne ==
  ASSUME NEW list \in Seq(Point), NEW x \in Point
  PROVE  PointSum(list \o <<x>>) = PointAdd(PointSum(list), x) /\ Len(list \o <<x>>) = Len(list) + 1
<1>1. list \o <<x>> = Append(list, x) OBVIOUS
<1>2. PointSum(Append(list, x)) = PointAdd(PointSum(list), x) BY PointSumAppend
<1>3. Len(Append(list, x)) = Len(list) + 1 OBVIOUS
<1> QED  BY <1>1, <1>2, <1>3

\* One more transparent entry: nothing, or a commitment, in the midst of the list.
LEMMA SideOfTransparent ==
  ASSUME NEW t \in Seq(Transparent), NEW s \in Seq(Shielded), NEW e \in Transparent
  PROVE  SideOf(Append(t, e), s) =
           IF e.amount = 0 THEN SideOf(t, s)
           ELSE [sum |-> PointAdd(SideOf(t, s).sum,
                                  Commit(e.amount, ZERO_TWEAK, derive_asset_tag(e.token))),
                 n |-> SideOf(t, s).n + 1, aborted |-> FALSE]
<1> DEFINE c == Commit(e.amount, ZERO_TWEAK, derive_asset_tag(e.token))
           ct == CollectedFrom(t)
           cs == CollectedFrom(s)
           longer == Append(t, e)
<1>1. longer \in Seq(Transparent) OBVIOUS
<1>2. e \in Entry BY DEF Entry
<1>3. ct \in Seq(Point) /\ cs \in Seq(Point) /\ t \in Seq(Entry) BY SideOfIs
<1>4. CollectedFrom(longer) = ct \o Collected(e) BY <1>2, <1>3, CollectedFromAppend
<1>5. c \in Point /\ Collected(e) = (IF e.amount = 0 THEN <<>> ELSE <<c>>) BY TransparentEntry
<1>6. SideOf(t, s) = [sum |-> PointAdd(PointSum(ct), PointSum(cs)),
                      n |-> Len(ct) + Len(cs), aborted |-> FALSE]
  BY SideOfIs
<1>7. SideOf(longer, s) =
        [sum |-> PointAdd(PointSum(CollectedFrom(longer)), PointSum(cs)),
         n |-> Len(CollectedFrom(longer)) + Len(cs), aborted |-> FALSE]
  BY <1>1, SideOfIs
<1> HIDE DEF c, ct, cs, longer
<1>8. CASE e.amount = 0
  <2>1. ct \o <<>> = ct BY <1>3
  <2> QED  BY <1>4, <1>5, <1>6, <1>7, <1>8, <2>1 DEF longer
<1>9. CASE e.amount # 0
  <2> DEFINE p == PointSum(ct)
             q == PointSum(cs)
  <2>1. PointSum(ct \o <<c>>) = PointAdd(p, c) /\ Len(ct \o <<c>>) = Len(ct) + 1
    BY <1>3, <1>5, PointSumOne
  <2>2. p \in Point /\ q \in Point
    <3>1. p \in Point BY <1>3, PointSumType
    <3>2. q \in Point BY <1>3, PointSumType
    <3> QED  BY <3>1, <3>2
  <2>3. Len(ct) \in Nat /\ Len(cs) \in Nat BY <1>3
  <2> HIDE DEF p, q
  <2>4. PointAdd(PointAdd(p, c), q) = PointAdd(PointAdd(p, q), c)
    <3>1. PointAdd(PointAdd(p, c), q) = PointAdd(p, PointAdd(c, q)) BY <1>5, <2>2, PointsAdd
    <3>2. PointAdd(PointAdd(p, q), c) = PointAdd(p, PointAdd(q, c)) BY <1>5, <2>2, PointsAdd
    <3>3. PointAdd(c, q) = PointAdd(q, c) BY <1>5, <2>2, PointsAdd
    <3> QED  BY <3>1, <3>2, <3>3
  <2>5. SideOf(longer, s) = [sum |-> PointAdd(PointAdd(p, c), q),
                             n |-> Len(ct) + 1 + Len(cs), aborted |-> FALSE]
    BY <1>4, <1>5, <1>7, <1>9, <2>1 DEF q
  <2>6. SideOf(t, s).sum = PointAdd(p, q) /\ SideOf(t, s).n = Len(ct) + Len(cs)
    BY <1>6 DEF p, q
  <2>7. Len(ct) + 1 + Len(cs) = Len(ct) + Len(cs) + 1 BY <2>3
  <2> QED  BY <1>9, <2>4, <2>5, <2>6, <2>7 DEF longer, c
<1> QED  BY <1>8, <1>9

LEMMA SideOfShielded ==
  ASSUME NEW t \in Seq(Transparent), NEW s \in Seq(Shielded), NEW e \in Shielded
  PROVE  SideOf(t, Append(s, e)) =
           [sum |-> PointAdd(SideOf(t, s).sum, CommitmentOf(e)),
            n |-> SideOf(t, s).n + 1, aborted |-> FALSE]
<1> DEFINE c == CommitmentOf(e)
           ct == CollectedFrom(t)
           cs == CollectedFrom(s)
           longer == Append(s, e)
<1>1. longer \in Seq(Shielded) OBVIOUS
<1>2. e \in Entry BY DEF Entry
<1>3. ct \in Seq(Point) /\ cs \in Seq(Point) /\ s \in Seq(Entry) BY SideOfIs
<1>4. CollectedFrom(longer) = cs \o Collected(e) BY <1>2, <1>3, CollectedFromAppend
<1>5. c \in Point /\ Collected(e) = <<c>> BY ShieldedEntry
<1>6. SideOf(t, s) = [sum |-> PointAdd(PointSum(ct), PointSum(cs)),
                      n |-> Len(ct) + Len(cs), aborted |-> FALSE]
  BY SideOfIs
<1>7. SideOf(t, longer) =
        [sum |-> PointAdd(PointSum(ct), PointSum(CollectedFrom(longer))),
         n |-> Len(ct) + Len(CollectedFrom(longer)), aborted |-> FALSE]
  BY <1>1, SideOfIs
<1> HIDE DEF c, ct, cs, longer
<1> DEFINE p == PointSum(ct)
           q == PointSum(cs)
<1>8. PointSum(cs \o <<c>>) = PointAdd(q, c) /\ Len(cs \o <<c>>) = Len(cs) + 1
  BY <1>3, <1>5, PointSumOne
<1>9. p \in Point /\ q \in Point
  <2>1. p \in Point BY <1>3, PointSumType
  <2>2. q \in Point BY <1>3, PointSumType
  <2> QED  BY <2>1, <2>2
<1>10. Len(ct) \in Nat /\ Len(cs) \in Nat BY <1>3
<1> HIDE DEF p, q
<1>11. PointAdd(p, PointAdd(q, c)) = PointAdd(PointAdd(p, q), c) BY <1>5, <1>9, PointsAdd
<1>12. SideOf(t, longer) = [sum |-> PointAdd(p, PointAdd(q, c)),
                            n |-> Len(ct) + (Len(cs) + 1), aborted |-> FALSE]
  BY <1>4, <1>5, <1>7, <1>8 DEF p
<1>13. SideOf(t, s).sum = PointAdd(p, q) /\ SideOf(t, s).n = Len(ct) + Len(cs)
  BY <1>6 DEF p, q
<1>14. Len(ct) + (Len(cs) + 1) = Len(ct) + Len(cs) + 1 BY <1>10
<1> QED  BY <1>11, <1>12, <1>13, <1>14 DEF longer, c

LEMMA SecretOfIs ==
  /\ SecretOf(<<>>) = ZERO_TWEAK
  /\ \A s \in Seq(Shielded) : SecretOf(s) \in Scalars
  /\ \A s \in Seq(Shielded), e \in Shielded :
       SecretOf(Append(s, e)) = Plus(SecretOf(s), Opening(e.value, e.vbf, e.abf))
<1> DEFINE Secrets(s) == [k \in DOMAIN s |-> Opening(s[k].value, s[k].vbf, s[k].abf)]
<1>1. \A e \in Shielded : Opening(e.value, e.vbf, e.abf) \in Scalars
  BY ShieldedEntry, ScalarClosure
<1>2. ASSUME NEW s \in Seq(Shielded) PROVE Secrets(s) \in Seq(Scalars)
  <2>1. \A k \in 1 .. Len(s) : s[k] \in Shielded OBVIOUS
  <2>2. DOMAIN s = 1 .. Len(s) /\ Len(s) \in Nat OBVIOUS
  <2>3. \A k \in 1 .. Len(s) : Opening(s[k].value, s[k].vbf, s[k].abf) \in Scalars
    BY <1>1, <2>1
  <2> QED  BY <2>2, <2>3
<1>3. ASSUME NEW s \in Seq(Shielded), NEW e \in Shielded
      PROVE  Secrets(Append(s, e)) = Append(Secrets(s), Opening(e.value, e.vbf, e.abf))
  <2> DEFINE longer == Append(s, e)
             x == Opening(e.value, e.vbf, e.abf)
  <2>1. /\ Len(s) \in Nat /\ longer \in Seq(Shielded) /\ Len(longer) = Len(s) + 1
        /\ longer[Len(s) + 1] = e /\ DOMAIN s = 1 .. Len(s) /\ DOMAIN longer = 1 .. Len(s) + 1
        /\ \A k \in 1 .. Len(s) : longer[k] = s[k]
    OBVIOUS
  <2>2. Secrets(s) \in Seq(Scalars) /\ x \in Scalars BY <1>1, <1>2
  <2> HIDE DEF longer
  <2>3. Secrets(longer) \in Seq(Scalars) BY <1>2, <2>1
  <2>4. Len(Secrets(s)) = Len(s) BY <2>1, <2>2
  <2>5. Len(Secrets(longer)) = Len(s) + 1 BY <2>1, <2>3
  <2>6. Secrets(longer)[Len(s) + 1] = x BY <2>1
  <2>7. \A k \in 1 .. Len(s) : Secrets(longer)[k] = Secrets(s)[k] BY <2>1
  <2> HIDE DEF Secrets, x
  <2>8. Append(Secrets(s), x) \in Seq(Scalars) /\ Len(Append(Secrets(s), x)) = Len(s) + 1
        /\ Append(Secrets(s), x)[Len(s) + 1] = x
        /\ \A k \in 1 .. Len(s) : Append(Secrets(s), x)[k] = Secrets(s)[k]
    BY <2>2, <2>4
  <2>9. \A k \in 1 .. Len(s) + 1 : Secrets(longer)[k] = Append(Secrets(s), x)[k]
    BY <2>1, <2>6, <2>7, <2>8
  <2> QED  BY <2>3, <2>5, <2>8, <2>9 DEF longer, x
<1>4. Secrets(<<>>) = <<>> OBVIOUS
<1>5. \A s : SecretOf(s) = ScalarSum(Secrets(s)) BY DEF SecretOf
<1> HIDE DEF Secrets
<1>6. SecretOf(<<>>) = ZERO_TWEAK BY <1>4, <1>5, ScalarSumEmpty
<1>7. ASSUME NEW s \in Seq(Shielded) PROVE SecretOf(s) \in Scalars
  <2>1. ScalarSum(Secrets(s)) \in Scalars BY <1>2, ScalarSumType
  <2> QED  BY <1>5, <2>1
<1>8. ASSUME NEW s \in Seq(Shielded), NEW e \in Shielded
      PROVE  SecretOf(Append(s, e)) = Plus(SecretOf(s), Opening(e.value, e.vbf, e.abf))
  <2>1. ScalarSum(Append(Secrets(s), Opening(e.value, e.vbf, e.abf)))
          = Plus(ScalarSum(Secrets(s)), Opening(e.value, e.vbf, e.abf))
    BY <1>1, <1>2, ScalarSumAppend
  <2> QED  BY <1>3, <1>5, <2>1
<1> QED  BY <1>6, <1>7, <1>8

\* What transparent entries are worth together, and with one more.
TransparentValue(list) == ValueSum([k \in DOMAIN list |-> Units(list[k].amount, list[k].token)])

LEMMA TransparentValueIs ==
  /\ TransparentValue(<<>>) = NoValue
  /\ \A s \in Seq(Transparent) : TransparentValue(s) \in [Tokens -> Nat]
  /\ \A s \in Seq(Transparent), e \in Transparent :
       TransparentValue(Append(s, e)) = AddValue(TransparentValue(s), Units(e.amount, e.token))
<1> DEFINE V == [Tokens -> Nat]
           Worths(s) == [k \in DOMAIN s |-> Units(s[k].amount, s[k].token)]
<1>1. \A e \in Transparent : Units(e.amount, e.token) \in V
  BY TransparentEntry, ValueClosure, AmountAssumption
<1> HIDE DEF V
<1>2. ASSUME NEW s \in Seq(Transparent) PROVE Worths(s) \in Seq(V)
  <2>1. \A k \in 1 .. Len(s) : s[k] \in Transparent OBVIOUS
  <2>2. DOMAIN s = 1 .. Len(s) /\ Len(s) \in Nat OBVIOUS
  <2>3. \A k \in 1 .. Len(s) : Units(s[k].amount, s[k].token) \in V BY <1>1, <2>1
  <2> QED  BY <2>2, <2>3
<1>3. ASSUME NEW s \in Seq(Transparent), NEW e \in Transparent
      PROVE  Worths(Append(s, e)) = Append(Worths(s), Units(e.amount, e.token))
  <2> DEFINE longer == Append(s, e)
             x == Units(e.amount, e.token)
  <2>1. /\ Len(s) \in Nat /\ longer \in Seq(Transparent) /\ Len(longer) = Len(s) + 1
        /\ longer[Len(s) + 1] = e /\ DOMAIN s = 1 .. Len(s) /\ DOMAIN longer = 1 .. Len(s) + 1
        /\ \A k \in 1 .. Len(s) : longer[k] = s[k]
    OBVIOUS
  <2>2. Worths(s) \in Seq(V) /\ x \in V BY <1>1, <1>2
  <2> HIDE DEF longer
  <2>3. Worths(longer) \in Seq(V) BY <1>2, <2>1
  <2>4. Len(Worths(s)) = Len(s) BY <2>1, <2>2
  <2>5. Len(Worths(longer)) = Len(s) + 1 BY <2>1, <2>3
  <2>6. Worths(longer)[Len(s) + 1] = x BY <2>1
  <2>7. \A k \in 1 .. Len(s) : Worths(longer)[k] = Worths(s)[k] BY <2>1
  <2> HIDE DEF Worths, x
  <2>8. Append(Worths(s), x) \in Seq(V) /\ Len(Append(Worths(s), x)) = Len(s) + 1
        /\ Append(Worths(s), x)[Len(s) + 1] = x
        /\ \A k \in 1 .. Len(s) : Append(Worths(s), x)[k] = Worths(s)[k]
    BY <2>2, <2>4
  <2>9. \A k \in 1 .. Len(s) + 1 : Worths(longer)[k] = Append(Worths(s), x)[k]
    BY <2>1, <2>6, <2>7, <2>8
  <2> QED  BY <2>3, <2>5, <2>8, <2>9 DEF longer, x
<1>4. Worths(<<>>) = <<>> OBVIOUS
<1>5. \A s : TransparentValue(s) = ValueSum(Worths(s)) BY DEF TransparentValue
<1> HIDE DEF Worths
<1>6. TransparentValue(<<>>) = NoValue BY <1>4, <1>5, ValueSumEmpty
<1>7. ASSUME NEW s \in Seq(Transparent) PROVE TransparentValue(s) \in V
  <2>1. Worths(s) \in Seq([Tokens -> Nat]) BY <1>2 DEF V
  <2>2. ValueSum(Worths(s)) \in [Tokens -> Nat] BY <2>1, ValueSumType
  <2> QED  BY <1>5, <2>2 DEF V
<1>8. ASSUME NEW s \in Seq(Transparent), NEW e \in Transparent
      PROVE  TransparentValue(Append(s, e)) = AddValue(TransparentValue(s), Units(e.amount, e.token))
  <2> DEFINE x == Units(e.amount, e.token)
             w == Worths(s)
  <2>1. w \in Seq([Tokens -> Nat]) BY <1>2 DEF V
  <2>2. x \in [Tokens -> Nat] BY <1>1 DEF V
  <2> HIDE DEF x, w
  <2>3. ValueSum(Append(w, x)) = AddValue(ValueSum(w), x) BY <2>1, <2>2, ValueSumAppend
  <2> QED  BY <1>3, <1>5, <2>3 DEF x, w
<1> QED  BY <1>6, <1>7, <1>8 DEF V

\* What shielded entries are worth together, and with one more.
ShieldedValue(list) == ValueSum([k \in DOMAIN list |-> Units(list[k].value, list[k].token)])

LEMMA ShieldedValueIs ==
  /\ ShieldedValue(<<>>) = NoValue
  /\ \A s \in Seq(Shielded) : ShieldedValue(s) \in [Tokens -> Nat]
  /\ \A s \in Seq(Shielded), e \in Shielded :
       ShieldedValue(Append(s, e)) = AddValue(ShieldedValue(s), Units(e.value, e.token))
<1> DEFINE V == [Tokens -> Nat]
           Worths(s) == [k \in DOMAIN s |-> Units(s[k].value, s[k].token)]
<1>1. \A e \in Shielded : Units(e.value, e.token) \in V
  BY ShieldedEntry, ValueClosure, AmountAssumption
<1> HIDE DEF V
<1>2. ASSUME NEW s \in Seq(Shielded) PROVE Worths(s) \in Seq(V)
  <2>1. \A k \in 1 .. Len(s) : s[k] \in Shielded OBVIOUS
  <2>2. DOMAIN s = 1 .. Len(s) /\ Len(s) \in Nat OBVIOUS
  <2>3. \A k \in 1 .. Len(s) : Units(s[k].value, s[k].token) \in V BY <1>1, <2>1
  <2> QED  BY <2>2, <2>3
<1>3. ASSUME NEW s \in Seq(Shielded), NEW e \in Shielded
      PROVE  Worths(Append(s, e)) = Append(Worths(s), Units(e.value, e.token))
  <2> DEFINE longer == Append(s, e)
             x == Units(e.value, e.token)
  <2>1. /\ Len(s) \in Nat /\ longer \in Seq(Shielded) /\ Len(longer) = Len(s) + 1
        /\ longer[Len(s) + 1] = e /\ DOMAIN s = 1 .. Len(s) /\ DOMAIN longer = 1 .. Len(s) + 1
        /\ \A k \in 1 .. Len(s) : longer[k] = s[k]
    OBVIOUS
  <2>2. Worths(s) \in Seq(V) /\ x \in V BY <1>1, <1>2
  <2> HIDE DEF longer
  <2>3. Worths(longer) \in Seq(V) BY <1>2, <2>1
  <2>4. Len(Worths(s)) = Len(s) BY <2>1, <2>2
  <2>5. Len(Worths(longer)) = Len(s) + 1 BY <2>1, <2>3
  <2>6. Worths(longer)[Len(s) + 1] = x BY <2>1
  <2>7. \A k \in 1 .. Len(s) : Worths(longer)[k] = Worths(s)[k] BY <2>1
  <2> HIDE DEF Worths, x
  <2>8. Append(Worths(s), x) \in Seq(V) /\ Len(Append(Worths(s), x)) = Len(s) + 1
        /\ Append(Worths(s), x)[Len(s) + 1] = x
        /\ \A k \in 1 .. Len(s) : Append(Worths(s), x)[k] = Worths(s)[k]
    BY <2>2, <2>4
  <2>9. \A k \in 1 .. Len(s) + 1 : Worths(longer)[k] = Append(Worths(s), x)[k]
    BY <2>1, <2>6, <2>7, <2>8
  <2> QED  BY <2>3, <2>5, <2>8, <2>9 DEF longer, x
<1>4. Worths(<<>>) = <<>> OBVIOUS
<1>5. \A s : ShieldedValue(s) = ValueSum(Worths(s)) BY DEF ShieldedValue
<1> HIDE DEF Worths
<1>6. ShieldedValue(<<>>) = NoValue BY <1>4, <1>5, ValueSumEmpty
<1>7. ASSUME NEW s \in Seq(Shielded) PROVE ShieldedValue(s) \in V
  <2>1. Worths(s) \in Seq([Tokens -> Nat]) BY <1>2 DEF V
  <2>2. ValueSum(Worths(s)) \in [Tokens -> Nat] BY <2>1, ValueSumType
  <2> QED  BY <1>5, <2>2 DEF V
<1>8. ASSUME NEW s \in Seq(Shielded), NEW e \in Shielded
      PROVE  ShieldedValue(Append(s, e)) = AddValue(ShieldedValue(s), Units(e.value, e.token))
  <2> DEFINE x == Units(e.value, e.token)
             w == Worths(s)
  <2>1. w \in Seq([Tokens -> Nat]) BY <1>2 DEF V
  <2>2. x \in [Tokens -> Nat] BY <1>1 DEF V
  <2> HIDE DEF x, w
  <2>3. ValueSum(Append(w, x)) = AddValue(ValueSum(w), x) BY <2>1, <2>2, ValueSumAppend
  <2> QED  BY <1>3, <1>5, <2>3 DEF x, w
<1> QED  BY <1>6, <1>7, <1>8 DEF V

LEMMA ValueOfIs ==
  /\ ValueOf(<<>>, <<>>) = NoValue
  /\ \A t \in Seq(Transparent), s \in Seq(Shielded) : ValueOf(t, s) \in [Tokens -> Nat]
  /\ \A t \in Seq(Transparent), s \in Seq(Shielded), e \in Transparent :
       ValueOf(Append(t, e), s) = AddValue(ValueOf(t, s), Units(e.amount, e.token))
  /\ \A t \in Seq(Transparent), s \in Seq(Shielded), e \in Shielded :
       ValueOf(t, Append(s, e)) = AddValue(ValueOf(t, s), Units(e.value, e.token))
<1> DEFINE V == [Tokens -> Nat]
<1>1. \A t, s : ValueOf(t, s) = AddValue(TransparentValue(t), ShieldedValue(s))
  BY DEF ValueOf, TransparentValue, ShieldedValue
<1>2. /\ NoValue \in V
      /\ \A a, b \in V : AddValue(a, b) \in V /\ AddValue(a, b) = AddValue(b, a)
      /\ \A a \in V : AddValue(a, NoValue) = a
  BY ValuesAdd
<1>3. \A a, b, c \in V : AddValue(AddValue(a, b), c) = AddValue(a, AddValue(b, c))
  BY ValuesAdd
<1>4. \A e \in Transparent : Units(e.amount, e.token) \in V
  BY TransparentEntry, ValueClosure, AmountAssumption
<1>5. \A e \in Shielded : Units(e.value, e.token) \in V
  BY ShieldedEntry, ValueClosure, AmountAssumption
<1>6. \A t \in Seq(Transparent) : TransparentValue(t) \in V BY TransparentValueIs
<1>7. \A s \in Seq(Shielded) : ShieldedValue(s) \in V BY ShieldedValueIs
<1> HIDE DEF V
<1>8. ValueOf(<<>>, <<>>) = NoValue
  BY <1>1, <1>2, TransparentValueIs, ShieldedValueIs
<1>9. ASSUME NEW t \in Seq(Transparent), NEW s \in Seq(Shielded) PROVE ValueOf(t, s) \in V
  BY <1>1, <1>2, <1>6, <1>7
<1>10. ASSUME NEW t \in Seq(Transparent), NEW s \in Seq(Shielded), NEW e \in Transparent
       PROVE  ValueOf(Append(t, e), s) = AddValue(ValueOf(t, s), Units(e.amount, e.token))
  <2> DEFINE a == TransparentValue(t)
             b == ShieldedValue(s)
             x == Units(e.amount, e.token)
  <2>1. a \in V /\ b \in V /\ x \in V BY <1>4, <1>6, <1>7
  <2>2. TransparentValue(Append(t, e)) = AddValue(a, x) BY TransparentValueIs
  <2> HIDE DEF a, b, x
  <2>3. AddValue(AddValue(a, x), b) = AddValue(a, AddValue(x, b)) BY <1>3, <2>1
  <2>4. AddValue(AddValue(a, b), x) = AddValue(a, AddValue(b, x)) BY <1>3, <2>1
  <2>5. AddValue(x, b) = AddValue(b, x) BY <1>2, <2>1
  <2>6. ValueOf(Append(t, e), s) = AddValue(AddValue(a, x), b) BY <1>1, <2>2 DEF b
  <2>7. ValueOf(t, s) = AddValue(a, b) BY <1>1 DEF a, b
  <2> QED  BY <2>3, <2>4, <2>5, <2>6, <2>7 DEF x
<1>11. ASSUME NEW t \in Seq(Transparent), NEW s \in Seq(Shielded), NEW e \in Shielded
       PROVE  ValueOf(t, Append(s, e)) = AddValue(ValueOf(t, s), Units(e.value, e.token))
  <2> DEFINE a == TransparentValue(t)
             b == ShieldedValue(s)
             x == Units(e.value, e.token)
  <2>1. a \in V /\ b \in V /\ x \in V BY <1>5, <1>6, <1>7
  <2>2. ShieldedValue(Append(s, e)) = AddValue(b, x) BY ShieldedValueIs
  <2> HIDE DEF a, b, x
  <2>3. AddValue(AddValue(a, b), x) = AddValue(a, AddValue(b, x)) BY <1>3, <2>1
  <2>4. ValueOf(t, Append(s, e)) = AddValue(a, AddValue(b, x)) BY <1>1, <2>2 DEF a
  <2>5. ValueOf(t, s) = AddValue(a, b) BY <1>1 DEF a, b
  <2> QED  BY <2>3, <2>4, <2>5 DEF x
<1> QED  BY <1>8, <1>9, <1>10, <1>11 DEF V

----------------------------------------------------------------------------
(* The invariant.                                                          *)

LEMMA InitCall == Init => CallInvariant
<1> SUFFICES ASSUME Init PROVE CallInvariant
  OBVIOUS
<1>1. TypeOK
  <2>1. <<>> \in Seq(Transparent) /\ <<>> \in Seq(Shielded) /\ <<>> \in Seq(Point)
    OBVIOUS
  <2>2. 0 \in 0 .. MaxInputs + MaxOutputs BY CallAssumption
  <2> QED  BY <2>1, <2>2 DEF Init, TypeOK
<1>2. ListsInOrder BY CallAssumption DEF Init, ListsInOrder, InRange
<1> QED  BY <1>1, <1>2 DEF Init, CallInvariant, LoopInvariant, ExcessInPlace

\* What the invariant says of the lists, for the steps that fill them.
LEMMA ListTypes ==
  ASSUME CallInvariant
  PROVE  /\ transparentInputs \in Seq(Transparent) /\ transparentOutputs \in Seq(Transparent)
         /\ shieldedInputs \in Seq(Shielded) /\ shieldedOutputs \in Seq(Shielded)
         /\ Inputs \in Seq(Entry) /\ Outputs \in Seq(Entry)
         /\ Len(Inputs) <= MaxInputs /\ Len(Outputs) <= MaxOutputs
         /\ excess \in Scalars \cup {NoExcess}
<1>1. /\ transparentInputs \in Seq(Transparent) /\ transparentOutputs \in Seq(Transparent)
      /\ shieldedInputs \in Seq(Shielded) /\ shieldedOutputs \in Seq(Shielded)
      /\ excess \in Scalars \cup {NoExcess}
  BY DEF CallInvariant, TypeOK
<1>2. Inputs \in Seq(Entry) BY <1>1, SideOfIs DEF Inputs
<1>3. Outputs \in Seq(Entry) BY <1>1, SideOfIs DEF Outputs
<1>4. Len(Inputs) = Len(transparentInputs) + Len(shieldedInputs) BY <1>1 DEF Inputs
<1>5. Len(Outputs) = Len(transparentOutputs) + Len(shieldedOutputs) BY <1>1 DEF Outputs
<1> QED  BY <1>1, <1>2, <1>3, <1>4, <1>5 DEF CallInvariant, ListsInOrder

LEMMA AddTransparentKeeps ==
  ASSUME CallInvariant, NEW e \in Transparent,
         AddTransparentInput(e) \/ AddTransparentOutput(e)
  PROVE  CallInvariant'
<1> USE DEF CallInvariant, ListsInOrder, LoopInvariant, ExcessInPlace, locals
<1>1. CASE AddTransparentInput(e)
  <2> DEFINE longer == Append(transparentInputs, e)
  <2>1. longer \in Seq(Transparent) /\ Len(longer) = Len(transparentInputs) + 1
    BY DEF TypeOK
  <2> HIDE DEF longer
  <2>2. /\ transparentInputs' = longer /\ pc = "idle"
        /\ Len(transparentInputs) + Len(shieldedInputs) < MaxInputs
        /\ Len(transparentInputs) \in Nat /\ Len(shieldedInputs) \in Nat
    BY <1>1 DEF AddTransparentInput, MayAddInput, longer, TypeOK
  <2>3. TypeOK' BY <1>1, <2>1, <2>2 DEF AddTransparentInput, TypeOK
  <2>4. ListsInOrder'
    BY <1>1, <2>1, <2>2, CallAssumption DEF AddTransparentInput, InRange
  <2> QED  BY <1>1, <2>2, <2>3, <2>4 DEF AddTransparentInput
<1>2. CASE AddTransparentOutput(e)
  <2> DEFINE longer == Append(transparentOutputs, e)
  <2>1. longer \in Seq(Transparent) /\ Len(longer) = Len(transparentOutputs) + 1
    BY DEF TypeOK
  <2> HIDE DEF longer
  <2>2. /\ transparentOutputs' = longer /\ pc = "idle"
        /\ Len(transparentOutputs) + Len(shieldedOutputs) < MaxOutputs
        /\ Len(transparentOutputs) \in Nat /\ Len(shieldedOutputs) \in Nat
    BY <1>2 DEF AddTransparentOutput, MayAddOutput, longer, TypeOK
  <2>3. TypeOK' BY <1>2, <2>1, <2>2 DEF AddTransparentOutput, TypeOK
  <2>4. ListsInOrder'
    BY <1>2, <2>1, <2>2, CallAssumption DEF AddTransparentOutput, InRange
  <2> QED  BY <1>2, <2>2, <2>3, <2>4 DEF AddTransparentOutput
<1> QED  BY <1>1, <1>2

LEMMA InRangeAppend ==
  ASSUME NEW s \in Seq(Shielded), InRange(s), NEW e \in Shielded,
         e.value \in 1 .. MAX_PROVABLE_AMOUNT
  PROVE  InRange(Append(s, e))
<1>1. /\ Len(s) \in Nat /\ DOMAIN s = 1 .. Len(s) /\ DOMAIN Append(s, e) = 1 .. Len(s) + 1
      /\ Append(s, e)[Len(s) + 1] = e /\ \A k \in 1 .. Len(s) : Append(s, e)[k] = s[k]
  OBVIOUS
<1> QED  BY <1>1 DEF InRange

LEMMA AddShieldedInputKeeps ==
  ASSUME CallInvariant, NEW e \in Shielded, AddShieldedInput(e)
  PROVE  CallInvariant'
<1> USE DEF CallInvariant, ListsInOrder, LoopInvariant, ExcessInPlace, locals
<1> DEFINE longer == Append(shieldedInputs, e)
<1>1. longer \in Seq(Shielded) /\ Len(longer) = Len(shieldedInputs) + 1
  BY DEF TypeOK
<1>2. InRange(longer)
  <2>1. e.value \in 1 .. MAX_PROVABLE_AMOUNT BY DEF AddShieldedInput
  <2> QED  BY <2>1, InRangeAppend DEF TypeOK
<1> HIDE DEF longer
<1>3. /\ shieldedInputs' = longer /\ pc = "idle"
      /\ Len(transparentInputs) + Len(shieldedInputs) < MaxInputs
      /\ Len(transparentInputs) \in Nat /\ Len(shieldedInputs) \in Nat
  BY DEF AddShieldedInput, MayAddInput, longer, TypeOK
<1>4. TypeOK' BY <1>1, <1>3 DEF AddShieldedInput, TypeOK
<1>5. ListsInOrder'
  BY <1>1, <1>2, <1>3, CallAssumption DEF AddShieldedInput, InRange
<1> QED  BY <1>3, <1>4, <1>5 DEF AddShieldedInput

\* An output that joins the list is in range: create_range_proof took it.
LEMMA AddShieldedOutputCases ==
  ASSUME NEW e \in Shielded, NEW isLast, AddShieldedOutput(e, isLast)
  PROVE  \/ /\ result' \in {"InvalidCommitment", "RangeProofError"}
            /\ UNCHANGED <<lists, excess, sealed, locals>>
         \/ /\ result' = "ok" /\ e.value \in 1 .. MAX_PROVABLE_AMOUNT
            /\ shieldedOutputs' = Append(shieldedOutputs, e)
            /\ sealed' = (isLast /\ excess = NoExcess)
            /\ UNCHANGED <<transparentInputs, shieldedInputs, transparentOutputs, excess, locals>>
<1>1. e.value \in Nat BY ShieldedEntry, AmountAssumption
<1>2. CASE result' = "ok"
  <2>1. e.value \in 1 .. MAX_PROVABLE_AMOUNT
    BY <1>1, <1>2, CallAssumption DEF AddShieldedOutput
  <2> QED  BY <1>2, <2>1 DEF AddShieldedOutput
<1>3. CASE result' # "ok" BY <1>3 DEF AddShieldedOutput, lists
<1> QED  BY <1>2, <1>3

LEMMA AddShieldedOutputKeeps ==
  ASSUME CallInvariant, NEW e \in Shielded, NEW isLast \in BOOLEAN, AddShieldedOutput(e, isLast)
  PROVE  CallInvariant'
<1> USE DEF CallInvariant, ListsInOrder, LoopInvariant, ExcessInPlace, locals, lists
<1> DEFINE longer == Append(shieldedOutputs, e)
<1>1. longer \in Seq(Shielded) /\ Len(longer) = Len(shieldedOutputs) + 1
  BY DEF TypeOK
<1>2. CASE /\ result' \in {"InvalidCommitment", "RangeProofError"}
           /\ UNCHANGED <<lists, excess, sealed, locals>>
  <2>1. TypeOK' BY <1>2 DEF TypeOK
  <2>2. ListsInOrder' BY <1>2 DEF InRange
  <2> QED  BY <1>2, <2>1, <2>2 DEF Inputs, Outputs, ExcessCommitments
<1>3. CASE /\ result' = "ok" /\ e.value \in 1 .. MAX_PROVABLE_AMOUNT
           /\ shieldedOutputs' = longer /\ sealed' = (isLast /\ excess = NoExcess)
           /\ UNCHANGED <<transparentInputs, shieldedInputs, transparentOutputs, excess, locals>>
  <2>1. InRange(longer) BY <1>3, InRangeAppend DEF TypeOK
  <2> HIDE DEF longer
  <2>2. /\ pc = "idle" /\ Len(transparentOutputs) + Len(shieldedOutputs) < MaxOutputs
        /\ Len(transparentOutputs) \in Nat /\ Len(shieldedOutputs) \in Nat
    BY DEF AddShieldedOutput, MayAddOutput, TypeOK
  <2>3. TypeOK' BY <1>1, <1>3 DEF TypeOK
  <2>4. ListsInOrder' BY <1>1, <1>3, <2>1, <2>2, CallAssumption DEF InRange
  <2> QED  BY <1>3, <2>2, <2>3, <2>4
<1> HIDE DEF longer
<1> QED  BY <1>2, <1>3, AddShieldedOutputCases DEF longer

LEMMA FactorType ==
  ASSUME CallInvariant, NEW value \in Amounts, NEW gbf \in Scalars
  PROVE  compute_balancing_blinding_factor(value, gbf) \in Scalars
<1>1. SecretOf(shieldedInputs) \in Scalars /\ SecretOf(shieldedOutputs) \in Scalars
  BY ListTypes, SecretOfIs
<1>2. Times(value, gbf) \in Scalars BY ScalarAssumption
<1> QED  BY <1>1, <1>2, ScalarClosure DEF compute_balancing_blinding_factor

LEMMA SetExcessKeeps ==
  ASSUME CallInvariant, NEW bf \in Scalars, NEW isLast \in BOOLEAN, SetExcess(bf, isLast)
  PROVE  CallInvariant'
<1> USE DEF CallInvariant, ListsInOrder, LoopInvariant, ExcessInPlace, locals, lists, SetExcess
<1>1. TypeOK' BY DEF TypeOK
<1>2. ListsInOrder' BY DEF InRange
<1> QED  BY <1>1, <1>2

LEMMA CallVerifyKeeps ==
  ASSUME CallInvariant, CallVerify
  PROVE  CallInvariant'
<1>1. UNCHANGED <<lists, excess, sealed>> BY DEF CallVerify
<1>2. ListsInOrder' BY <1>1 DEF CallInvariant, ListsInOrder, InRange, lists
<1>3. CASE excess # NoExcess /\ (shieldedOutputs # <<>> \/ shieldedInputs = <<>>)
  <2>1. pc = "idle" /\ result' = "throw" /\ UNCHANGED locals BY <1>3 DEF CallVerify
  <2>2. TypeOK' BY <1>1, <2>1 DEF CallInvariant, TypeOK, lists, locals
  <2> QED  BY <1>1, <1>2, <2>1, <2>2
           DEF CallInvariant, LoopInvariant, ExcessInPlace, locals
<1>4. CASE ~(excess # NoExcess /\ (shieldedOutputs # <<>> \/ shieldedInputs = <<>>))
  <2>1. /\ pc' = "inputs" /\ n' = 0 /\ aborted' = FALSE /\ UNCHANGED result
        /\ positive_commitments' = <<>> /\ negative_commitments' = <<>>
    BY <1>4 DEF CallVerify
  <2>2. <<>> \in Seq(Point) /\ 0 \in 0 .. MaxInputs + MaxOutputs BY CallAssumption
  <2>3. TypeOK' BY <1>1, <2>1, <2>2 DEF CallInvariant, TypeOK, lists
  <2>4. ExcessInPlace' BY <1>1, <1>4 DEF ExcessInPlace, lists
  <2>5. Inputs' = Inputs BY <1>1 DEF Inputs, lists
  <2>6. CollectedFrom(SubSeq(Inputs, 1, 0)) = <<>> /\ 0 <= Len(Inputs)
    BY ListTypes, CollectedByLoop
  <2>7. LoopInvariant' BY <2>1, <2>5, <2>6 DEF LoopInvariant
  <2> QED  BY <1>2, <2>1, <2>3, <2>4, <2>7 DEF CallInvariant
<1> QED  BY <1>3, <1>4

\* No entry of the lists makes an iteration abort.
LEMMA EntriesDoNotAbort ==
  ASSUME NEW t \in Seq(Transparent), NEW s \in Seq(Shielded), InRange(s),
         NEW k \in 1 .. Len(t \o s)
  PROVE  Collected((t \o s)[k]) \in Seq(Point) /\ ~Aborts(Collected((t \o s)[k]))
<1>1. CASE k <= Len(t)
  <2>1. (t \o s)[k] = t[k] /\ t[k] \in Transparent BY <1>1
  <2> QED  BY <2>1, TransparentEntry
<1>2. CASE k > Len(t)
  <2> DEFINE j == k - Len(t)
  <2>1. (t \o s)[k] = s[j] /\ s[j] \in Shielded /\ j \in DOMAIN s BY <1>2
  <2>2. s[j].value # 0
    <3>1. s[j].value \in 1 .. MAX_PROVABLE_AMOUNT BY <2>1 DEF InRange
    <3> QED  BY <3>1, CallAssumption
  <2> HIDE DEF j
  <2> QED  BY <2>1, <2>2, ShieldedEntry
<1>3. Len(t) \in Nat /\ k \in Int OBVIOUS
<1> QED  BY <1>1, <1>2, <1>3

LEMMA CollectInputKeeps ==
  ASSUME CallInvariant, CollectInput
  PROVE  CallInvariant'
<1>1. /\ pc = "inputs" /\ UNCHANGED <<lists, excess, sealed, negative_commitments, result>>
      /\ TypeOK /\ ~aborted
  BY DEF CollectInput, CallInvariant
<1>2. ListsInOrder' BY <1>1 DEF CallInvariant, ListsInOrder, InRange, lists
<1>3. Inputs \in Seq(Entry) /\ Outputs \in Seq(Entry) /\ Len(Inputs) <= MaxInputs
  BY ListTypes
<1>4. /\ n <= Len(Inputs) /\ positive_commitments = CollectedFrom(SubSeq(Inputs, 1, n))
      /\ negative_commitments = <<>> /\ n \in Nat
  BY <1>1 DEF CallInvariant, LoopInvariant, TypeOK
<1>5. Inputs' = Inputs /\ Outputs' = Outputs BY <1>1 DEF Inputs, Outputs, lists
<1>6. CASE n >= Len(Inputs)
  <2>1. pc' = "outputs" /\ n' = 0 /\ UNCHANGED <<positive_commitments, aborted>>
    BY <1>6 DEF CollectInput, Done, Inputs
  <2>2. n = Len(Inputs) BY <1>3, <1>4, <1>6
  <2>3. positive_commitments = CollectedFrom(Inputs) BY <1>3, <1>4, <2>2, CollectedByLoop
  <2>4. CollectedFrom(SubSeq(Outputs, 1, 0)) = <<>> /\ 0 <= Len(Outputs)
    BY <1>3, CollectedByLoop
  <2>5. LoopInvariant' BY <1>1, <1>4, <1>5, <2>1, <2>3, <2>4 DEF LoopInvariant
  <2>6. 0 \in 0 .. MaxInputs + MaxOutputs BY CallAssumption
  <2>7. TypeOK' BY <1>1, <2>1, <2>6 DEF TypeOK, lists
  <2>8. ExcessInPlace' BY <1>1, <2>1 DEF CallInvariant, ExcessInPlace, lists
  <2> QED  BY <1>1, <1>2, <2>1, <2>5, <2>7, <2>8 DEF CallInvariant
<1>7. CASE ~(n >= Len(Inputs))
  <2> DEFINE new == Collected(Inputs[n + 1])
  <2>1. /\ positive_commitments' = positive_commitments \o new
        /\ aborted' = (aborted \/ Aborts(new)) /\ n' = n + 1 /\ UNCHANGED pc
    BY <1>7 DEF CollectInput, Done, Inputs
  <2>2. n + 1 \in 1 .. Len(Inputs) /\ n \in 0 .. Len(Inputs) - 1 BY <1>3, <1>4, <1>7
  <2>3. new \in Seq(Point) /\ ~Aborts(new)
    <3>1. InRange(shieldedInputs) BY DEF CallInvariant, ListsInOrder
    <3> QED  BY <2>2, <3>1, ListTypes, EntriesDoNotAbort DEF Inputs
  <2> HIDE DEF new
  <2>4. positive_commitments' = CollectedFrom(SubSeq(Inputs, 1, n + 1))
    BY <1>3, <1>4, <2>1, <2>2, CollectedByLoop DEF new
  <2>5. LoopInvariant'
    <3>1. n + 1 <= Len(Inputs) BY <2>2
    <3> QED  BY <1>1, <1>4, <1>5, <2>1, <2>4, <3>1 DEF LoopInvariant
  <2>6. positive_commitments' \in Seq(Point)
    <3>1. positive_commitments \in Seq(Point) BY <1>1 DEF TypeOK
    <3> QED  BY <2>1, <2>3, <3>1
  <2>7. n + 1 \in 0 .. MaxInputs + MaxOutputs BY <1>3, <1>4, <2>2, CallAssumption
  <2>8. TypeOK' BY <1>1, <2>1, <2>3, <2>6, <2>7 DEF TypeOK, lists
  <2>9. ExcessInPlace' BY <1>1, <2>1 DEF CallInvariant, ExcessInPlace, lists
  <2> QED  BY <1>1, <1>2, <2>1, <2>3, <2>5, <2>8, <2>9 DEF CallInvariant
<1> QED  BY <1>6, <1>7

LEMMA CollectOutputKeeps ==
  ASSUME CallInvariant, CollectOutput
  PROVE  CallInvariant'
<1>1. /\ pc = "outputs" /\ UNCHANGED <<lists, excess, sealed, positive_commitments, result>>
      /\ TypeOK /\ ~aborted
  BY DEF CollectOutput, CallInvariant
<1>2. ListsInOrder' BY <1>1 DEF CallInvariant, ListsInOrder, InRange, lists
<1>3. Outputs \in Seq(Entry) /\ Len(Outputs) <= MaxOutputs
  BY ListTypes
<1>4. /\ n <= Len(Outputs) /\ positive_commitments = CollectedFrom(Inputs)
      /\ negative_commitments = CollectedFrom(SubSeq(Outputs, 1, n)) /\ n \in Nat
  BY <1>1 DEF CallInvariant, LoopInvariant, TypeOK
<1>5. Inputs' = Inputs /\ Outputs' = Outputs BY <1>1 DEF Inputs, Outputs, lists
<1>6. CASE n >= Len(Outputs)
  <2>1. pc' = "excess" /\ UNCHANGED <<n, negative_commitments, aborted>>
    BY <1>6 DEF CollectOutput, Done, Outputs
  <2>2. n = Len(Outputs) BY <1>3, <1>4, <1>6
  <2>3. negative_commitments = CollectedFrom(Outputs) BY <1>3, <1>4, <2>2, CollectedByLoop
  <2>4. LoopInvariant' BY <1>1, <1>4, <1>5, <2>1, <2>3 DEF LoopInvariant
  <2>5. TypeOK' BY <1>1, <2>1 DEF TypeOK, lists
  <2>6. ExcessInPlace' BY <1>1, <2>1 DEF CallInvariant, ExcessInPlace, lists
  <2> QED  BY <1>1, <1>2, <2>1, <2>4, <2>5, <2>6 DEF CallInvariant
<1>7. CASE ~(n >= Len(Outputs))
  <2> DEFINE new == Collected(Outputs[n + 1])
  <2>1. /\ negative_commitments' = negative_commitments \o new
        /\ aborted' = (aborted \/ Aborts(new)) /\ n' = n + 1 /\ UNCHANGED pc
    BY <1>7 DEF CollectOutput, Done, Outputs
  <2>2. n + 1 \in 1 .. Len(Outputs) /\ n \in 0 .. Len(Outputs) - 1 BY <1>3, <1>4, <1>7
  <2>3. new \in Seq(Point) /\ ~Aborts(new)
    <3>1. InRange(shieldedOutputs) BY DEF CallInvariant, ListsInOrder
    <3> QED  BY <2>2, <3>1, ListTypes, EntriesDoNotAbort DEF Outputs
  <2> HIDE DEF new
  <2>4. negative_commitments' = CollectedFrom(SubSeq(Outputs, 1, n + 1))
    BY <1>3, <1>4, <2>1, <2>2, CollectedByLoop DEF new
  <2>5. LoopInvariant'
    <3>1. n + 1 <= Len(Outputs) BY <2>2
    <3> QED  BY <1>1, <1>4, <1>5, <2>1, <2>4, <3>1 DEF LoopInvariant
  <2>6. negative_commitments' \in Seq(Point)
    <3>1. negative_commitments \in Seq(Point) BY <1>1 DEF TypeOK
    <3> QED  BY <2>1, <2>3, <3>1
  <2>7. n + 1 \in 0 .. MaxInputs + MaxOutputs BY <1>3, <1>4, <2>2, CallAssumption
  <2>8. TypeOK' BY <1>1, <2>1, <2>3, <2>6, <2>7 DEF TypeOK, lists
  <2>9. ExcessInPlace' BY <1>1, <2>1 DEF CallInvariant, ExcessInPlace, lists
  <2> QED  BY <1>1, <1>2, <2>1, <2>3, <2>5, <2>8, <2>9 DEF CallInvariant
<1> QED  BY <1>6, <1>7

\* The commitment to zero under an excess other than zero.
LEMMA ExcessCommitment ==
  ASSUME excess \in Scalars \ {ZERO_TWEAK}
  PROVE  /\ Commit(0, excess, htr_asset_tag) \in Point
         /\ Commit(0, excess, htr_asset_tag) # Identity
<1>1. HTR \in Tokens /\ 0 \in Amounts /\ ZERO_TWEAK \in Scalars
  BY TokenAssumption, AmountAssumption, ScalarAssumption
<1> QED  BY <1>1, CommitIsPoint, IdentityIsRejected
         DEF htr_asset_tag, derive_asset_tag, RejectedByCreateCommitment

LEMMA PushExcessKeeps ==
  ASSUME CallInvariant, PushExcess
  PROVE  CallInvariant'
<1>1. /\ pc = "excess" /\ pc' = "compare"
      /\ UNCHANGED <<lists, excess, sealed, n, positive_commitments, aborted, result>>
      /\ negative_commitments' =
           IF excess \in {NoExcess, ZERO_TWEAK} THEN negative_commitments
           ELSE Append(negative_commitments, Commit(0, excess, htr_asset_tag))
  BY DEF PushExcess
<1>2. /\ TypeOK /\ negative_commitments \in Seq(Point)
      /\ positive_commitments = CollectedFrom(Inputs)
      /\ negative_commitments = CollectedFrom(Outputs)
  BY <1>1 DEF CallInvariant, TypeOK, LoopInvariant
<1>3. Inputs' = Inputs /\ Outputs' = Outputs /\ ExcessCommitments' = ExcessCommitments
  BY <1>1 DEF Inputs, Outputs, lists, ExcessCommitments
<1>4. /\ negative_commitments' = negative_commitments \o ExcessCommitments
      /\ negative_commitments' \in Seq(Point)
  <2>1. CASE excess \in {NoExcess, ZERO_TWEAK}
    <3>1. negative_commitments \o <<>> = negative_commitments BY <1>2
    <3> QED  BY <1>1, <1>2, <2>1, <3>1 DEF ExcessCommitments
  <2>2. CASE excess \notin {NoExcess, ZERO_TWEAK}
    <3> DEFINE c == Commit(0, excess, htr_asset_tag)
    <3>1. excess \in Scalars \ {ZERO_TWEAK} BY <1>2, <2>2 DEF TypeOK
    <3>2. c \in Point BY <3>1, ExcessCommitment
    <3>3. negative_commitments' = Append(negative_commitments, c) BY <1>1, <2>2
    <3>4. ExcessCommitments = <<c>> BY <2>2 DEF ExcessCommitments
    <3> HIDE DEF c
    <3> QED  BY <1>2, <3>2, <3>3, <3>4
  <2> QED  BY <2>1, <2>2
<1>5. LoopInvariant' BY <1>1, <1>2, <1>3, <1>4 DEF LoopInvariant
<1>6. TypeOK' BY <1>1, <1>2, <1>4 DEF TypeOK, lists
<1>7. ExcessInPlace' /\ ListsInOrder'
  BY <1>1 DEF CallInvariant, ExcessInPlace, ListsInOrder, InRange, lists
<1> QED  BY <1>1, <1>5, <1>6, <1>7 DEF CallInvariant

LEMMA CompareKeeps ==
  ASSUME CallInvariant, Compare
  PROVE  CallInvariant'
<1>1. <<>> \in Seq(Point) /\ 0 \in 0 .. MaxInputs + MaxOutputs BY CallAssumption
<1>2. Equation \in {"abort", "true", "false"} BY DEF Equation
<1>3. TypeOK' BY <1>1, <1>2 DEF Compare, CallInvariant, TypeOK, lists
<1>4. ListsInOrder' BY DEF Compare, CallInvariant, ListsInOrder, InRange, lists
<1> QED  BY <1>3, <1>4 DEF Compare, CallInvariant, LoopInvariant, ExcessInPlace

LEMMA BalancedOutputEntry ==
  ASSUME CallInvariant, NEW value \in Amounts, NEW token \in Tokens, NEW abf \in Scalars
  PROVE  [value |-> value, token |-> token, abf |-> abf,
          vbf |-> compute_balancing_blinding_factor(value, abf)] \in Shielded
BY FactorType DEF Shielded

LEMMA StepCall == CallInvariant /\ [Next]_vars => CallInvariant'
<1> SUFFICES ASSUME CallInvariant, [Next]_vars PROVE CallInvariant'
  OBVIOUS
<1>1. ASSUME NEW e \in Transparent, AddTransparentInput(e) \/ AddTransparentOutput(e)
      PROVE  CallInvariant'
  BY <1>1, AddTransparentKeeps
<1>2. ASSUME NEW e \in Shielded, AddShieldedInput(e) \/ AddShieldedOutput(e, FALSE)
      PROVE  CallInvariant'
  BY <1>2, AddShieldedInputKeeps, AddShieldedOutputKeeps
<1>3. ASSUME NEW value \in Amounts, NEW token \in Tokens, NEW abf \in Scalars,
             AddBalancedOutput(value, token, abf)
      PROVE  CallInvariant'
  BY <1>3, BalancedOutputEntry, AddShieldedOutputKeeps DEF AddBalancedOutput
<1>4. ASSUME NEW bf \in Scalars, SetExcess(bf, FALSE) PROVE CallInvariant'
  BY <1>4, SetExcessKeeps
<1>5. CASE SetExcess(compute_balancing_blinding_factor(0, ZERO_TWEAK), TRUE)
  <2>1. compute_balancing_blinding_factor(0, ZERO_TWEAK) \in Scalars
    BY FactorType, AmountAssumption, ScalarAssumption
  <2> QED  BY <1>5, <2>1, SetExcessKeeps
<1>6. CASE UNCHANGED vars
  <2>1. TypeOK' BY <1>6 DEF CallInvariant, TypeOK, vars, lists, locals
  <2>2. Inputs' = Inputs /\ Outputs' = Outputs /\ ExcessCommitments' = ExcessCommitments
    BY <1>6 DEF Inputs, Outputs, ExcessCommitments, vars, lists
  <2>3. LoopInvariant' BY <1>6, <2>2 DEF CallInvariant, LoopInvariant, vars, locals
  <2>4. ExcessInPlace' /\ ListsInOrder'
    BY <1>6 DEF CallInvariant, ExcessInPlace, ListsInOrder, InRange, vars, lists, locals
  <2> QED  BY <1>6, <2>1, <2>3, <2>4 DEF CallInvariant, vars, locals
<1> QED  BY <1>1, <1>2, <1>3, <1>4, <1>5, <1>6, CallVerifyKeeps, CollectInputKeeps,
            CollectOutputKeeps, PushExcessKeeps, CompareKeeps DEF Next

\* The loops collect the commitments of all the entries and of nothing else, in
\* order, and none of them makes the library abort.
THEOREM LoopsCollect == Spec => []CallInvariant
BY InitCall, StepCall, PTL DEF Spec

\* The lists, the locals and the result keep their types.
THEOREM CallType == Spec => []TypeOK
<1>1. CallInvariant => TypeOK BY DEF CallInvariant
<1> QED  BY <1>1, LoopsCollect, PTL

----------------------------------------------------------------------------
(* The refinement.                                                         *)

LEMMA SameDefinitions ==
  /\ Abstract!Identity = Identity
  /\ Abstract!NoValue = NoValue
  /\ Abstract!htr_asset_tag = htr_asset_tag
  /\ \A v, t : Abstract!Units(v, t) = Units(v, t)
  /\ \A a, b : Abstract!AddValue(a, b) = AddValue(a, b)
  /\ \A p, q : Abstract!PointAdd(p, q) = PointAdd(p, q)
  /\ \A v, b, r : Abstract!Opening(v, b, r) = Opening(v, b, r)
  /\ \A v, b, g : Abstract!Commit(v, b, g) = Commit(v, b, g)
  /\ \A t, r : Abstract!create_asset_commitment(t, r) = create_asset_commitment(t, r)
  /\ \A t : Abstract!derive_asset_tag(t) = derive_asset_tag(t)
BY DEF Abstract!Identity, Identity, Abstract!NoValue, NoValue, Abstract!htr_asset_tag, htr_asset_tag,
       Abstract!Units, Units, Abstract!AddValue, AddValue, Abstract!PointAdd, PointAdd,
       Abstract!Opening, Opening, Abstract!Commit, Commit,
       Abstract!create_asset_commitment, create_asset_commitment,
       Abstract!derive_asset_tag, derive_asset_tag

LEMMA InitRefines == Init => Abstract!Init
<1> SUFFICES ASSUME Init PROVE Abstract!Init
  OBVIOUS
<1>1. SideOf(<<>>, <<>>) = [sum |-> Identity, n |-> 0, aborted |-> FALSE]
  <2>1. <<>> \o <<>> = <<>> /\ Len(<<>>) = 0 OBVIOUS
  <2> QED  BY <2>1, CollectedFromNothing, PointSumEmpty DEF SideOf
<1>2. SideOf(<<>>, <<>>) = Abstract!EmptySide
  BY <1>1, SameDefinitions DEF Abstract!EmptySide
<1>3. SecretOf(<<>>) = ZERO_TWEAK BY SecretOfIs
<1>4. ValueOf(<<>>, <<>>) = Abstract!NoValue BY ValueOfIs, SameDefinitions
<1>5. Len(<<>>) + Len(<<>>) = 0 OBVIOUS
<1> QED  BY <1>2, <1>3, <1>4, <1>5 DEF Init, Abstract!Init

LEMMA PushTransparentRefines ==
  ASSUME NEW t \in Seq(Transparent), NEW s \in Seq(Shielded), NEW e \in Transparent
  PROVE  /\ SideOf(Append(t, e), s) = Abstract!PushTransparent(SideOf(t, s), e.amount, e.token)
         /\ ValueOf(Append(t, e), s)
              = Abstract!AddValue(ValueOf(t, s), Abstract!Units(e.amount, e.token))
<1> DEFINE side == SideOf(t, s)
           c == Commit(e.amount, ZERO_TWEAK, derive_asset_tag(e.token))
<1>1. SideOf(Append(t, e), s) =
        IF e.amount = 0 THEN side
        ELSE [sum |-> PointAdd(side.sum, c), n |-> side.n + 1, aborted |-> FALSE]
  BY SideOfTransparent
<1>2. ~side.aborted BY DEF SideOf
<1>3. e.amount # 0 => c # Identity
  BY TransparentEntry, IdentityIsRejected, ScalarClosure
     DEF derive_asset_tag, RejectedByCreateCommitment
<1>4. Abstract!Commit(e.amount, ZERO_TWEAK, Abstract!derive_asset_tag(e.token)) = c
  BY SameDefinitions
<1> HIDE DEF c, side
<1>5. Abstract!Push(side, c) =
        [sum |-> PointAdd(side.sum, c), n |-> side.n + 1, aborted |-> side.aborted \/ c = Identity]
  BY SameDefinitions DEF Abstract!Push
<1>6. SideOf(Append(t, e), s) = Abstract!PushTransparent(side, e.amount, e.token)
  <2>1. CASE e.amount = 0 BY <1>1, <2>1 DEF Abstract!PushTransparent
  <2>2. CASE e.amount # 0
    <3>1. (side.aborted \/ c = Identity) = FALSE BY <1>2, <1>3, <2>2
    <3>2. Abstract!PushTransparent(side, e.amount, e.token) = Abstract!Push(side, c)
      BY <1>4, <2>2 DEF Abstract!PushTransparent
    <3> QED  BY <1>1, <1>5, <2>2, <3>1, <3>2
  <2> QED  BY <2>1, <2>2
<1>7. ValueOf(Append(t, e), s) = AddValue(ValueOf(t, s), Units(e.amount, e.token))
  BY ValueOfIs
<1>8. Abstract!AddValue(ValueOf(t, s), Abstract!Units(e.amount, e.token))
        = AddValue(ValueOf(t, s), Units(e.amount, e.token))
  BY SameDefinitions
<1> QED  BY <1>6, <1>7, <1>8 DEF side

LEMMA PushShieldedRefines ==
  ASSUME NEW t \in Seq(Transparent), NEW s \in Seq(Shielded), NEW e \in Shielded, e.value # 0
  PROVE  /\ SideOf(t, Append(s, e))
              = Abstract!Push(SideOf(t, s), Abstract!Commit(e.value, e.vbf,
                                Abstract!create_asset_commitment(e.token, e.abf)))
         /\ ValueOf(t, Append(s, e))
              = Abstract!AddValue(ValueOf(t, s), Abstract!Units(e.value, e.token))
         /\ SecretOf(Append(s, e))
              = Plus(SecretOf(s), Abstract!Opening(e.value, e.vbf, e.abf))
<1> DEFINE side == SideOf(t, s)
           c == CommitmentOf(e)
<1>1. SideOf(t, Append(s, e)) =
        [sum |-> PointAdd(side.sum, c), n |-> side.n + 1, aborted |-> FALSE]
  BY SideOfShielded
<1>2. ~side.aborted BY DEF SideOf
<1>3. c # Identity BY ShieldedEntry
<1>4. Abstract!Commit(e.value, e.vbf, Abstract!create_asset_commitment(e.token, e.abf)) = c
  BY SameDefinitions DEF CommitmentOf
<1> HIDE DEF c, side
<1>5. Abstract!Push(side, c) =
        [sum |-> PointAdd(side.sum, c), n |-> side.n + 1, aborted |-> side.aborted \/ c = Identity]
  BY SameDefinitions DEF Abstract!Push
<1>6. SideOf(t, Append(s, e)) = Abstract!Push(side, c)
  <2>1. (side.aborted \/ c = Identity) = FALSE BY <1>2, <1>3
  <2> QED  BY <1>1, <1>5, <2>1
<1>7. ValueOf(t, Append(s, e)) = AddValue(ValueOf(t, s), Units(e.value, e.token))
  BY ValueOfIs
<1>8. Abstract!AddValue(ValueOf(t, s), Abstract!Units(e.value, e.token))
        = AddValue(ValueOf(t, s), Units(e.value, e.token))
  BY SameDefinitions
<1>9. SecretOf(Append(s, e)) = Plus(SecretOf(s), Abstract!Opening(e.value, e.vbf, e.abf))
  BY SecretOfIs, SameDefinitions
<1> QED  BY <1>4, <1>6, <1>7, <1>8, <1>9 DEF side

LEMMA AddTransparentRefines ==
  ASSUME CallInvariant, NEW e \in Transparent
  PROVE  /\ AddTransparentInput(e) => Abstract!AddTransparentInput(e.amount, e.token)
         /\ AddTransparentOutput(e) => Abstract!AddTransparentOutput(e.amount, e.token)
<1>1. ASSUME AddTransparentInput(e)
      PROVE  Abstract!AddTransparentInput(e.amount, e.token)
  <2>1. /\ Len(transparentInputs) + Len(shieldedInputs) < MaxInputs
        /\ transparentInputs' = Append(transparentInputs, e) /\ result' = "ok"
        /\ UNCHANGED <<shieldedInputs, transparentOutputs, shieldedOutputs, excess, sealed>>
    BY <1>1 DEF AddTransparentInput, MayAddInput
  <2>2. Len(transparentInputs)' = Len(transparentInputs) + 1
    BY <2>1, ListTypes
  <2>3. /\ SideOf(transparentInputs, shieldedInputs)'
             = Abstract!PushTransparent(SideOf(transparentInputs, shieldedInputs), e.amount, e.token)
        /\ ValueOf(transparentInputs, shieldedInputs)'
             = Abstract!AddValue(ValueOf(transparentInputs, shieldedInputs),
                                 Abstract!Units(e.amount, e.token))
    BY <2>1, ListTypes, PushTransparentRefines
  <2>4. Len(transparentInputs) \in Nat /\ Len(shieldedInputs) \in Nat BY ListTypes
  <2> QED  BY <2>1, <2>2, <2>3, <2>4 DEF Abstract!AddTransparentInput
<1>2. ASSUME AddTransparentOutput(e)
      PROVE  Abstract!AddTransparentOutput(e.amount, e.token)
  <2>1. /\ Len(transparentOutputs) + Len(shieldedOutputs) < MaxOutputs
        /\ transparentOutputs' = Append(transparentOutputs, e) /\ result' = "ok"
        /\ UNCHANGED <<transparentInputs, shieldedInputs, shieldedOutputs, excess, sealed>>
    BY <1>2 DEF AddTransparentOutput, MayAddOutput
  <2>2. Len(transparentOutputs)' = Len(transparentOutputs) + 1
    BY <2>1, ListTypes
  <2>3. /\ SideOf(transparentOutputs, shieldedOutputs)'
             = Abstract!PushTransparent(SideOf(transparentOutputs, shieldedOutputs),
                                        e.amount, e.token)
        /\ ValueOf(transparentOutputs, shieldedOutputs)'
             = Abstract!AddValue(ValueOf(transparentOutputs, shieldedOutputs),
                                 Abstract!Units(e.amount, e.token))
    BY <2>1, ListTypes, PushTransparentRefines
  <2>4. Len(transparentOutputs) \in Nat /\ Len(shieldedOutputs) \in Nat BY ListTypes
  <2> QED  BY <2>1, <2>2, <2>3, <2>4 DEF Abstract!AddTransparentOutput
<1> QED  BY <1>1, <1>2

LEMMA NotEmptyAfterAppend ==
  ASSUME NEW s \in Seq(Shielded), NEW e \in Shielded
  PROVE  Append(s, e) # <<>> /\ Len(Append(s, e)) = Len(s) + 1 /\ Len(s) \in Nat
OBVIOUS

LEMMA AddShieldedInputRefines ==
  ASSUME CallInvariant, NEW e \in Shielded, AddShieldedInput(e)
  PROVE  Abstract!AddShieldedInput(e.value, e.token, e.vbf, e.abf)
<1>1. /\ Len(transparentInputs) + Len(shieldedInputs) < MaxInputs
      /\ e.value \in 1 .. MAX_PROVABLE_AMOUNT
      /\ shieldedInputs' = Append(shieldedInputs, e) /\ result' = "ok" /\ sealed' = FALSE
      /\ UNCHANGED <<transparentInputs, transparentOutputs, shieldedOutputs, excess>>
  BY DEF AddShieldedInput, MayAddInput
<1>2. shieldedInputs' # <<>> /\ Len(shieldedInputs)' = Len(shieldedInputs) + 1
  BY <1>1, ListTypes, NotEmptyAfterAppend
<1>3. e.value # 0 BY <1>1, CallAssumption
<1>4. /\ SideOf(transparentInputs, shieldedInputs)'
           = Abstract!Push(SideOf(transparentInputs, shieldedInputs),
               Abstract!Commit(e.value, e.vbf, Abstract!create_asset_commitment(e.token, e.abf)))
      /\ ValueOf(transparentInputs, shieldedInputs)'
           = Abstract!AddValue(ValueOf(transparentInputs, shieldedInputs),
                               Abstract!Units(e.value, e.token))
      /\ SecretOf(shieldedInputs)'
           = Plus(SecretOf(shieldedInputs), Abstract!Opening(e.value, e.vbf, e.abf))
  BY <1>1, <1>3, ListTypes, PushShieldedRefines
<1>5. Len(transparentInputs) \in Nat /\ Len(shieldedInputs) \in Nat BY ListTypes
<1> QED  BY <1>1, <1>2, <1>4, <1>5 DEF Abstract!AddShieldedInput

LEMMA CreateResultRefines ==
  ASSUME NEW e \in Shielded
  PROVE  Abstract!CreateResult(e.value, e.vbf,
            Abstract!Commit(e.value, e.vbf, Abstract!create_asset_commitment(e.token, e.abf)))
           = IF RejectedByCreateCommitment(e.value, e.vbf) THEN "InvalidCommitment"
             ELSE IF e.value = 0 \/ e.value > MAX_PROVABLE_AMOUNT THEN "RangeProofError"
             ELSE "ok"
<1> DEFINE c == Abstract!Commit(e.value, e.vbf, Abstract!create_asset_commitment(e.token, e.abf))
           rejected == RejectedByCreateCommitment(e.value, e.vbf)
<1>1. c = Commit(e.value, e.vbf, create_asset_commitment(e.token, e.abf)) BY SameDefinitions
<1>2. ~rejected => c # Identity BY <1>1, ShieldedEntry, IdentityIsRejected
<1>3. Abstract!RejectedByCreateCommitment(e.value, e.vbf) = rejected
  BY DEF Abstract!RejectedByCreateCommitment, RejectedByCreateCommitment
<1>4. Abstract!Identity = Identity BY SameDefinitions
<1> HIDE DEF c, rejected
<1>5. Abstract!CreateResult(e.value, e.vbf, c)
        = IF rejected THEN "InvalidCommitment"
          ELSE IF e.value = 0 \/ e.value > MAX_PROVABLE_AMOUNT THEN "RangeProofError" ELSE "ok"
  BY <1>2, <1>3, <1>4 DEF Abstract!CreateResult
<1> QED  BY <1>5 DEF c, rejected

LEMMA AddShieldedOutputRefines ==
  ASSUME CallInvariant, NEW e \in Shielded, NEW isLast \in BOOLEAN, AddShieldedOutput(e, isLast)
  PROVE  Abstract!ShieldOutput(e.value, e.token, e.vbf, e.abf, isLast)
<1> DEFINE c == Abstract!Commit(e.value, e.vbf, Abstract!create_asset_commitment(e.token, e.abf))
<1>1. /\ Len(transparentOutputs) + Len(shieldedOutputs) < MaxOutputs
      /\ result' = Abstract!CreateResult(e.value, e.vbf, c)
      /\ UNCHANGED <<transparentInputs, shieldedInputs, transparentOutputs, excess>>
  BY CreateResultRefines DEF AddShieldedOutput, MayAddOutput
<1>2. Len(transparentOutputs) \in Nat /\ Len(shieldedOutputs) \in Nat BY ListTypes
<1>3. CASE result' = "ok"
  <2>1. /\ shieldedOutputs' = Append(shieldedOutputs, e)
        /\ sealed' = (isLast /\ excess = NoExcess)
        /\ e.value # 0
    BY <1>3, CallAssumption DEF AddShieldedOutput
  <2>2. shieldedOutputs' # <<>> /\ Len(shieldedOutputs)' = Len(shieldedOutputs) + 1
    BY <2>1, ListTypes, NotEmptyAfterAppend
  <2>3. /\ SideOf(transparentOutputs, shieldedOutputs)'
             = Abstract!Push(SideOf(transparentOutputs, shieldedOutputs), c)
        /\ ValueOf(transparentOutputs, shieldedOutputs)'
             = Abstract!AddValue(ValueOf(transparentOutputs, shieldedOutputs),
                                 Abstract!Units(e.value, e.token))
        /\ SecretOf(shieldedOutputs)'
             = Plus(SecretOf(shieldedOutputs), Abstract!Opening(e.value, e.vbf, e.abf))
    BY <1>1, <2>1, ListTypes, PushShieldedRefines
  <2> QED  BY <1>1, <1>2, <1>3, <2>1, <2>2, <2>3 DEF Abstract!ShieldOutput
<1>4. CASE result' # "ok"
  <2>1. UNCHANGED <<shieldedOutputs, sealed>> BY <1>4 DEF AddShieldedOutput
  <2> QED  BY <1>1, <1>2, <1>4, <2>1 DEF Abstract!ShieldOutput
<1> QED  BY <1>3, <1>4

LEMMA FactorRefines ==
  ASSUME NEW value, NEW gbf
  PROVE  Abstract!compute_balancing_blinding_factor(value, gbf)
           = compute_balancing_blinding_factor(value, gbf)
BY DEF Abstract!compute_balancing_blinding_factor, compute_balancing_blinding_factor,
       Abstract!Minus, Minus

LEMMA AddBalancedOutputRefines ==
  ASSUME CallInvariant, NEW value \in Amounts, NEW token \in Tokens, NEW abf \in Scalars,
         AddBalancedOutput(value, token, abf)
  PROVE  Abstract!AddBalancedOutput(value, token, abf)
<1> DEFINE factor == compute_balancing_blinding_factor(value, abf)
           e == [value |-> value, token |-> token, abf |-> abf, vbf |-> factor]
<1>1. e \in Shielded BY BalancedOutputEntry
<1>2. AddShieldedOutput(e, TRUE) BY DEF AddBalancedOutput
<1>3. e.value = value /\ e.token = token /\ e.abf = abf /\ e.vbf = factor OBVIOUS
<1> HIDE DEF e, factor
<1>4. Abstract!ShieldOutput(value, token, factor, abf, TRUE)
  BY <1>1, <1>2, <1>3, AddShieldedOutputRefines
<1> QED  BY <1>4, FactorRefines DEF Abstract!AddBalancedOutput, factor

LEMMA SetExcessRefines ==
  ASSUME NEW bf, NEW isLast, SetExcess(bf, isLast)
  PROVE  Abstract!SetExcess(bf, isLast)
BY DEF SetExcess, Abstract!SetExcess, lists

\* Of the steps of the call, only the one that ends it is seen in Balance.
LEMMA CallStutters ==
  ASSUME CollectInput \/ CollectOutput \/ PushExcess \/ UNCHANGED vars
  PROVE  UNCHANGED Abstract!vars
BY DEF CollectInput, CollectOutput, PushExcess, vars, lists, Abstract!vars

LEMMA CallVerifyRefines ==
  ASSUME CallVerify
  PROVE  Abstract!VerifyBalance \/ UNCHANGED Abstract!vars
<1>1. UNCHANGED <<lists, excess, sealed>> BY DEF CallVerify
<1>2. CASE excess # NoExcess /\ (shieldedOutputs # <<>> \/ shieldedInputs = <<>>)
  <2>1. Abstract!ExcessMisplaced BY <1>2 DEF Abstract!ExcessMisplaced
  <2>2. result' = "throw" BY <1>2 DEF CallVerify
  <2> QED  BY <1>1, <2>1, <2>2 DEF Abstract!VerifyBalance, Abstract!Verdict, lists
<1>3. CASE ~(excess # NoExcess /\ (shieldedOutputs # <<>> \/ shieldedInputs = <<>>))
  BY <1>1, <1>3 DEF CallVerify, Abstract!vars, lists
<1> QED  BY <1>2, <1>3

\* The sum and the number of the vectors that are compared.
LEMMA ComparedSides ==
  ASSUME CallInvariant, pc = "compare"
  PROVE  /\ SideOf(transparentInputs, shieldedInputs)
              = [sum |-> PointSum(positive_commitments), n |-> Len(positive_commitments),
                 aborted |-> FALSE]
         /\ Abstract!PushExcess(SideOf(transparentOutputs, shieldedOutputs))
              = [sum |-> PointSum(negative_commitments), n |-> Len(negative_commitments),
                 aborted |-> FALSE]
<1>1. /\ positive_commitments = CollectedFrom(Inputs)
      /\ negative_commitments = CollectedFrom(Outputs) \o ExcessCommitments
      /\ TypeOK
  BY DEF CallInvariant, LoopInvariant
<1> DEFINE outputs == CollectedFrom(Outputs)
           side == SideOf(transparentOutputs, shieldedOutputs)
           c == Commit(0, excess, htr_asset_tag)
<1>2. side = [sum |-> PointSum(outputs), n |-> Len(outputs), aborted |-> FALSE]
  BY DEF SideOf, Outputs
<1>3. outputs \in Seq(Point) BY ListTypes, EntryCollected
<1>4. Abstract!Commit(0, excess, Abstract!htr_asset_tag) = c BY SameDefinitions
<1> HIDE DEF outputs, side
<1>5. CASE excess \in {NoExcess, ZERO_TWEAK}
  <2>1. outputs \o <<>> = outputs BY <1>3
  <2>2. negative_commitments = outputs BY <1>1, <1>5, <2>1 DEF ExcessCommitments, outputs
  <2>3. Abstract!PushExcess(side) = side BY <1>5 DEF Abstract!PushExcess
  <2> QED  BY <1>1, <1>2, <2>2, <2>3 DEF SideOf, Inputs, side
<1>6. CASE excess \notin {NoExcess, ZERO_TWEAK}
  <2>1. excess \in Scalars \ {ZERO_TWEAK} BY <1>1, <1>6 DEF TypeOK
  <2>2. c \in Point /\ c # Identity BY <2>1, ExcessCommitment
  <2>3. negative_commitments = outputs \o <<c>> BY <1>1, <1>6 DEF ExcessCommitments, outputs
  <2> HIDE DEF c
  <2>4. /\ PointSum(outputs \o <<c>>) = PointAdd(PointSum(outputs), c)
        /\ Len(outputs \o <<c>>) = Len(outputs) + 1
    BY <1>3, <2>2, PointSumOne
  <2>5. Abstract!PushExcess(side) = Abstract!Push(side, c)
    BY <1>4, <1>6 DEF Abstract!PushExcess
  <2>6. Abstract!Push(side, c)
          = [sum |-> PointAdd(PointSum(outputs), c), n |-> Len(outputs) + 1, aborted |-> FALSE]
    <3>1. (FALSE \/ c = Identity) = FALSE BY <2>2
    <3> QED  BY <1>2, <3>1, SameDefinitions DEF Abstract!Push
  <2> QED  BY <1>1, <2>3, <2>4, <2>5, <2>6 DEF SideOf, Inputs, side
<1> QED  BY <1>5, <1>6

\* Both vectors empty have equal sums, so that the equation needs no case of it.
LEMMA CompareRefines ==
  ASSUME CallInvariant, Compare
  PROVE  Abstract!VerifyBalance
<1>1. /\ pc = "compare" /\ result' = Equation /\ UNCHANGED <<lists, excess, sealed>>
      /\ ~aborted /\ TypeOK
  BY DEF Compare, CallInvariant
<1>2. ~Abstract!ExcessMisplaced
  BY <1>1 DEF CallInvariant, ExcessInPlace, Abstract!ExcessMisplaced
<1> DEFINE pos == SideOf(transparentInputs, shieldedInputs)
           neg == Abstract!PushExcess(SideOf(transparentOutputs, shieldedOutputs))
           ps == PointSum(positive_commitments)
           ns == PointSum(negative_commitments)
           pn == Len(positive_commitments)
           nn == Len(negative_commitments)
<1>3. pos = [sum |-> ps, n |-> pn, aborted |-> FALSE] /\ neg = [sum |-> ns, n |-> nn, aborted |-> FALSE]
  BY <1>1, ComparedSides
<1>4. /\ pn = 0 <=> positive_commitments = <<>>
      /\ nn = 0 <=> negative_commitments = <<>>
  BY <1>1 DEF TypeOK
<1>5. pn = 0 /\ nn = 0 => ps = ns BY <1>4, PointSumEmpty
<1> HIDE DEF pos, neg, ps, ns, pn, nn
<1>6. Equation = IF (pn = 0) # (nn = 0) THEN "false" ELSE IF ps = ns THEN "true" ELSE "false"
  BY <1>1, <1>4 DEF Equation, ps, ns
<1>7. Abstract!Equation(pos, neg)
        = IF (pn = 0) # (nn = 0) THEN "false" ELSE IF pn = 0 \/ ps = ns THEN "true" ELSE "false"
  BY <1>3 DEF Abstract!Equation
<1>8. Equation = Abstract!Equation(pos, neg) BY <1>5, <1>6, <1>7
<1>9. Abstract!Verdict = Abstract!Equation(pos, neg)
  BY <1>2 DEF Abstract!Verdict, pos, neg
<1> QED  BY <1>1, <1>8, <1>9 DEF Abstract!VerifyBalance, lists

LEMMA StepRefines == CallInvariant /\ [Next]_vars => [Abstract!Next]_(Abstract!vars)
<1> SUFFICES ASSUME CallInvariant, [Next]_vars
             PROVE  Abstract!Next \/ UNCHANGED Abstract!vars
  OBVIOUS
<1>1. ASSUME NEW e \in Transparent, AddTransparentInput(e) \/ AddTransparentOutput(e)
      PROVE  Abstract!Next
  <2>1. e.amount \in Amounts /\ e.token \in Tokens BY TransparentEntry
  <2> QED  BY <1>1, <2>1, AddTransparentRefines DEF Abstract!Next
<1>2. ASSUME NEW e \in Shielded, AddShieldedInput(e) \/ AddShieldedOutput(e, FALSE)
      PROVE  Abstract!Next
  <2>1. e.value \in Amounts /\ e.token \in Tokens /\ e.vbf \in Scalars /\ e.abf \in Scalars
    BY ShieldedEntry
  <2> QED  BY <1>2, <2>1, AddShieldedInputRefines, AddShieldedOutputRefines
           DEF Abstract!Next, Abstract!AddShieldedOutput
<1>3. ASSUME NEW value \in Amounts, NEW token \in Tokens, NEW abf \in Scalars,
             AddBalancedOutput(value, token, abf)
      PROVE  Abstract!Next
  BY <1>3, AddBalancedOutputRefines DEF Abstract!Next
<1>4. ASSUME NEW bf \in Scalars, SetExcess(bf, FALSE) PROVE Abstract!Next
  BY <1>4, SetExcessRefines DEF Abstract!Next, Abstract!ClaimExcess
<1>5. ASSUME SetExcess(compute_balancing_blinding_factor(0, ZERO_TWEAK), TRUE)
      PROVE  Abstract!Next
  <2>1. Abstract!SetExcess(Abstract!compute_balancing_blinding_factor(0, ZERO_TWEAK), TRUE)
    BY <1>5, SetExcessRefines, FactorRefines
  <2> QED  BY <2>1 DEF Abstract!Next, Abstract!RevealExcess
<1>6. CASE CallVerify BY <1>6, CallVerifyRefines DEF Abstract!Next
<1>7. CASE CollectInput \/ CollectOutput \/ PushExcess \/ UNCHANGED vars BY <1>7, CallStutters
<1>8. CASE Compare BY <1>8, CompareRefines DEF Abstract!Next
<1> QED  BY <1>1, <1>2, <1>3, <1>4, <1>5, <1>6, <1>7, <1>8 DEF Next

\* Filling four lists in any grouping and running the two loops over them, entry
\* by entry, gives every verdict Balance gives on the sums, for lists of any
\* length: what BalanceProofs proves of Balance is true of the call as it is run.
THEOREM CallImplementsBalance == Spec => ImplementsBalance
<1>1. Init => Abstract!Init BY InitRefines
<1>2. CallInvariant /\ [Next]_vars => [Abstract!Next]_(Abstract!vars) BY StepRefines
<1>3. Spec => []CallInvariant BY LoopsCollect
<1> QED  BY <1>1, <1>2, <1>3, PTL DEF Spec, ImplementsBalance, Abstract!Spec

=============================================================================
