------------------------- MODULE CommitmentsProofs -------------------------
(***************************************************************************)
(* The facts about commitments that the other proofs rest on: the group of *)
(* the blinding factors, points, the one opening that has no commitment,   *)
(* and sums of lists of scalars, values, points and lists of points.       *)
(*                                                                         *)
(* Induction is over sets of numbers, and recursion steps by a function:   *)
(* the provers instantiate no operators.                                   *)
(***************************************************************************)
EXTENDS Commitments, Integers, WellFoundedInduction, TLAPS

----------------------------------------------------------------------------
(* The group of the blinding factors.                                      *)

\* The operations stay in the group.
LEMMA ScalarClosure ==
  /\ ZERO_TWEAK \in Scalars
  /\ \A a, b \in Scalars : Plus(a, b) \in Scalars /\ Minus(a, b) \in Scalars
  /\ \A n \in Amounts, a, b \in Scalars : Opening(n, a, b) \in Scalars
BY ScalarAssumption DEF Minus, Opening

\* Subtracting and adding back is the identity, on either side.
LEMMA PlusMinus ==
  ASSUME NEW a \in Scalars, NEW b \in Scalars
  PROVE  Plus(b, Minus(a, b)) = a
<1>1. Plus(b, Minus(a, b)) = Plus(Plus(a, Negate(b)), b)
  BY ScalarAssumption DEF Minus
<1>2. Plus(Plus(a, Negate(b)), b) = Plus(a, Plus(Negate(b), b))
  BY ScalarAssumption
<1>3. Plus(Negate(b), b) = ZERO_TWEAK
  BY ScalarAssumption
<1> QED  BY <1>1, <1>2, <1>3, ScalarAssumption

LEMMA MinusZero ==
  ASSUME NEW a \in Scalars
  PROVE  Minus(a, ZERO_TWEAK) = a
<1>1. Plus(ZERO_TWEAK, Minus(a, ZERO_TWEAK)) = a
  BY PlusMinus, ScalarAssumption
<1> QED  BY <1>1, ScalarAssumption DEF Minus

\* An entry without blindings opens to a zero multiple of G.
LEMMA OpeningZero ==
  ASSUME NEW n \in Amounts
  PROVE  Opening(n, ZERO_TWEAK, ZERO_TWEAK) = ZERO_TWEAK
BY ScalarAssumption DEF Opening

\* compute_balancing_blinding_factor: an entry with this factor makes up the
\* difference between the two sides.
LEMMA BalancingFactor ==
  ASSUME NEW in \in Scalars, NEW out \in Scalars, NEW w \in Scalars
  PROVE  Plus(out, Plus(w, Minus(Minus(in, out), w))) = in
<1>1. Plus(w, Minus(Minus(in, out), w)) = Minus(in, out)
  BY PlusMinus, ScalarClosure
<1> QED  BY <1>1, PlusMinus

----------------------------------------------------------------------------
(* Points.                                                                 *)

LEMMA ValueClosure ==
  /\ NoValue \in [Tokens -> Nat]
  /\ \A n \in Nat, t \in Tokens : Units(n, t) \in [Tokens -> Nat]
  /\ \A a, b \in [Tokens -> Nat] : AddValue(a, b) \in [Tokens -> Nat]
BY DEF NoValue, Units, AddValue

LEMMA AddNothing ==
  ASSUME NEW a \in [Tokens -> Nat], NEW t \in Tokens
  PROVE  AddValue(a, Units(0, t)) = a
BY DEF AddValue, Units

\* A commitment is a point, with the value and the opening it was built from.
LEMMA CommitIsPoint ==
  ASSUME NEW n \in Amounts, NEW bf \in Scalars, NEW t \in Tokens, NEW r \in Scalars
  PROVE  /\ Commit(n, bf, create_asset_commitment(t, r)) \in Point
         /\ Commit(n, bf, create_asset_commitment(t, r)).h = Units(n, t)
         /\ Commit(n, bf, create_asset_commitment(t, r)).g = Opening(n, bf, r)
BY ValueClosure, ScalarClosure, AmountAssumption
   DEF Commit, create_asset_commitment, Point

\* create_commitment rejects the identity point and nothing else: its check on
\* the two arguments decides exactly when PedersenCommitment::new would abort.
THEOREM IdentityIsRejected ==
  ASSUME NEW n \in Amounts, NEW bf \in Scalars, NEW t \in Tokens, NEW r \in Scalars
  PROVE  Commit(n, bf, create_asset_commitment(t, r)) = Identity
           <=> RejectedByCreateCommitment(n, bf)
<1> DEFINE c == Commit(n, bf, create_asset_commitment(t, r))
<1>1. c.h = Units(n, t) /\ c.g = Opening(n, bf, r)
  BY CommitIsPoint
<1>2. c = Identity <=> c.h = NoValue /\ c.g = ZERO_TWEAK
  BY DEF Commit, Identity
<1> HIDE DEF c
<1>3. c.h = NoValue <=> n = 0
  <2>1. c.h[t] = n /\ NoValue[t] = 0
    BY <1>1 DEF Units, NoValue
  <2>2. n = 0 => c.h = NoValue
    BY <1>1 DEF Units, NoValue
  <2> QED  BY <2>1, <2>2
<1>4. n = 0 => c.g = bf
  <2>1. n = 0 => c.g = Plus(ZERO_TWEAK, bf)
    BY <1>1, ScalarAssumption DEF Opening
  <2>2. Plus(ZERO_TWEAK, bf) = bf
    BY ScalarAssumption
  <2> QED  BY <2>1, <2>2
<1>5. c = Identity <=> RejectedByCreateCommitment(n, bf)
  BY <1>2, <1>3, <1>4 DEF RejectedByCreateCommitment
<1> QED  BY <1>5 DEF c

----------------------------------------------------------------------------
(* Induction and recursion.                                                *)

\* Every set of naturals that is not empty has a least element.
LEMMA LeastNatural ==
  ASSUME NEW T \in SUBSET Nat, T # {}
  PROVE  \E m \in T : \A k \in T : m <= k
<1> DEFINE R == OpToRel(<, Nat)
<1>1. \A x, y \in Nat : x < y => <<x, y>> \in R
  BY DEF OpToRel
<1>2. IsWellFoundedOn(R, Nat) BY NatLessThanWellFounded
<1> HIDE DEF R
<1>3. PICK m \in T : \A k \in T : ~(<<k, m>> \in R)
  BY <1>2, WFMin
<1>4. \A k \in T : ~(k < m) BY <1>1, <1>3
<1> QED  BY <1>4

\* Induction up to n: the hypothesis holds of the numbers in T.
LEMMA Induction ==
  ASSUME NEW n \in Nat, NEW T, 0 \in T,
         \A k \in 0 .. n - 1 : k \in T => k + 1 \in T
  PROVE  0 .. n \subseteq T
<1> DEFINE bad == {k \in 0 .. n : k \notin T}
<1> SUFFICES ASSUME bad # {} PROVE FALSE
  OBVIOUS
<1>1. bad \in SUBSET Nat OBVIOUS
<1>2. PICK m \in bad : \A k \in bad : m <= k
  <2> HIDE DEF bad
  <2> QED  BY <1>1, LeastNatural
<1>3. m \in 1 .. n /\ m \notin T BY <1>2
<1>4. m - 1 \in 0 .. n - 1 /\ m - 1 \notin bad BY <1>2, <1>3
<1>5. m - 1 \in T BY <1>3, <1>4
<1>6. m - 1 + 1 = m BY <1>3
<1> QED  BY <1>3, <1>4, <1>5, <1>6

\* f is what a recursive definition over 0 .. n says, with this step at each k.
IsRecursion(f, n, base, step) ==
  f = [k \in 0 .. n |-> IF k = 0 THEN base ELSE step[k][f[k - 1]]]

\* There is a function that satisfies a recursive definition.
LEMMA RecursionExists ==
  ASSUME NEW n \in Nat, NEW S, NEW base \in S, NEW step \in [1 .. n -> [S -> S]]
  PROVE  \E f \in [0 .. n -> S] : IsRecursion(f, n, base, step)
<1> DEFINE T == {k \in 0 .. n : \E f \in [0 .. k -> S] : IsRecursion(f, k, base, step)}
<1>1. 0 \in T
  <2> DEFINE f == [k \in 0 .. 0 |-> base]
  <2>1. f \in [0 .. 0 -> S] OBVIOUS
  <2>2. IsRecursion(f, 0, base, step) BY DEF IsRecursion
  <2> QED  BY <2>1, <2>2
<1>2. ASSUME NEW k \in 0 .. n - 1, k \in T PROVE k + 1 \in T
  <2>1. PICK f \in [0 .. k -> S] : IsRecursion(f, k, base, step) BY <1>2
  <2> DEFINE g == [j \in 0 .. k + 1 |-> IF j <= k THEN f[j] ELSE step[k + 1][f[k]]]
  <2>2. step[k + 1][f[k]] \in S OBVIOUS
  <2>3. g \in [0 .. k + 1 -> S] BY <2>2
  <2>4. ASSUME NEW j \in 0 .. k + 1
        PROVE  g[j] = IF j = 0 THEN base ELSE step[j][g[j - 1]]
    <3>1. CASE j <= k BY <2>1, <3>1 DEF IsRecursion
    <3>2. CASE j = k + 1 BY <3>2
    <3> QED  BY <3>1, <3>2
  <2>5. IsRecursion(g, k + 1, base, step) BY <2>3, <2>4 DEF IsRecursion
  <2>6. k + 1 \in 0 .. n OBVIOUS
  <2> QED  BY <2>3, <2>5, <2>6
<1> HIDE DEF T
<1>3. 0 .. n \subseteq T BY <1>1, <1>2, Induction
<1> QED  BY <1>3 DEF T

----------------------------------------------------------------------------
(* Sums in a monoid.                                                       *)

IsMonoid(S, add, zero) ==
  /\ zero \in S
  /\ \A a, b \in S : add[a][b] \in S
  /\ \A a, b, c \in S : add[add[a][b]][c] = add[a][add[b][c]]
  /\ \A a \in S : add[a][zero] = a /\ add[zero][a] = a

Commutes(S, add) == \A a, b \in S : add[a][b] = add[b][a]

\* s holds the sums of the first elements of the list.
AreSums(s, list, add, zero) ==
  s = [k \in 0 .. Len(list) |-> IF k = 0 THEN zero ELSE add[s[k - 1]][list[k]]]

\* The same of a function that may be given in another way.
AddsUp(s, list, add, zero) ==
  s[0] = zero /\ \A k \in 1 .. Len(list) : s[k] = add[s[k - 1]][list[k]]

MonoidSum(list, add, zero) == (CHOOSE s : AreSums(s, list, add, zero))[Len(list)]

LEMMA SumsExist ==
  ASSUME NEW S, NEW add, NEW zero, IsMonoid(S, add, zero), NEW list \in Seq(S)
  PROVE  \E s \in [0 .. Len(list) -> S] : AreSums(s, list, add, zero)
<1> DEFINE n == Len(list)
           step == [k \in 1 .. n |-> [a \in S |-> add[a][list[k]]]]
<1>1. n \in Nat OBVIOUS
<1>2. \A k \in 1 .. n : list[k] \in S OBVIOUS
<1> HIDE DEF n
<1>3. step \in [1 .. n -> [S -> S]] BY <1>2 DEF IsMonoid
<1>4. PICK s \in [0 .. n -> S] : IsRecursion(s, n, zero, step)
  <2> HIDE DEF step
  <2> QED  BY <1>1, <1>3, RecursionExists DEF IsMonoid
<1>5. ASSUME NEW k \in 0 .. n
      PROVE  s[k] = IF k = 0 THEN zero ELSE add[s[k - 1]][list[k]]
  <2>1. s[k] = IF k = 0 THEN zero ELSE step[k][s[k - 1]] BY <1>4 DEF IsRecursion
  <2> QED  BY <1>1, <2>1
<1>6. AreSums(s, list, add, zero) BY <1>5 DEF AreSums, n
<1> QED  BY <1>6 DEF n

\* The sums there are, with what is known of each.
LEMMA Sums ==
  ASSUME NEW S, NEW add, NEW zero, IsMonoid(S, add, zero), NEW list \in Seq(S)
  PROVE  \E s \in [0 .. Len(list) -> S] :
           AddsUp(s, list, add, zero) /\ MonoidSum(list, add, zero) = s[Len(list)]
<1> DEFINE n == Len(list)
           s == CHOOSE s : AreSums(s, list, add, zero)
<1>1. n \in Nat /\ \A k \in 1 .. n : list[k] \in S OBVIOUS
<1>2. AreSums(s, list, add, zero) BY SumsExist
<1>3. MonoidSum(list, add, zero) = s[n] BY DEF MonoidSum
<1> HIDE DEF s
<1>4. /\ s[0] = zero /\ DOMAIN s = 0 .. n
      /\ \A k \in 1 .. n : s[k] = add[s[k - 1]][list[k]]
  BY <1>1, <1>2 DEF AreSums
<1>5. s = [k \in 0 .. n |-> s[k]] BY <1>2 DEF AreSums
<1>6. \A k \in 0 .. n : s[k] \in S
  <2> DEFINE T == {k \in 0 .. n : s[k] \in S}
  <2>1. 0 \in T BY <1>1, <1>4 DEF IsMonoid
  <2>2. ASSUME NEW k \in 0 .. n - 1, k \in T PROVE k + 1 \in T
    <3>1. k + 1 \in 1 .. n /\ s[k] \in S /\ list[k + 1] \in S BY <1>1, <2>2
    <3>2. s[k + 1] = add[s[k]][list[k + 1]] BY <1>1, <1>4, <3>1
    <3> QED  BY <3>1, <3>2 DEF IsMonoid
  <2> HIDE DEF T
  <2>3. 0 .. n \subseteq T BY <1>1, <2>1, <2>2, Induction
  <2> QED  BY <2>3 DEF T
<1>7. s \in [0 .. n -> S] BY <1>5, <1>6
<1>8. AddsUp(s, list, add, zero) BY <1>4 DEF AddsUp
<1> QED  BY <1>3, <1>7, <1>8

\* Two functions that start alike and go on alike are alike.
GoOnAlike(f, g, n) ==
  f[0] = g[0] /\ \A k \in 1 .. n : f[k - 1] = g[k - 1] => f[k] = g[k]

AreAlike(f, g, n) == \A k \in 0 .. n : f[k] = g[k]

LEMMA Alike ==
  ASSUME NEW n \in Nat, NEW f, NEW g, GoOnAlike(f, g, n)
  PROVE  AreAlike(f, g, n)
<1> USE DEF GoOnAlike, AreAlike
<1> DEFINE T == {k \in 0 .. n : f[k] = g[k]}
<1>1. 0 \in T OBVIOUS
<1>2. ASSUME NEW k \in 0 .. n - 1, k \in T PROVE k + 1 \in T
  <2>1. k + 1 \in 1 .. n /\ k + 1 - 1 = k /\ f[k] = g[k] BY <1>2
  <2> QED  BY <2>1
<1> HIDE DEF T
<1>3. 0 .. n \subseteq T BY <1>1, <1>2, Induction
<1> QED  BY <1>3 DEF T

\* Whatever is added up like the sum is the sum.
LEMMA SumIs ==
  ASSUME NEW S, NEW add, NEW zero, IsMonoid(S, add, zero), NEW list \in Seq(S),
         NEW f, AddsUp(f, list, add, zero)
  PROVE  MonoidSum(list, add, zero) = f[Len(list)]
<1>1. PICK s \in [0 .. Len(list) -> S] :
        AddsUp(s, list, add, zero) /\ MonoidSum(list, add, zero) = s[Len(list)]
  BY Sums
<1>2. GoOnAlike(s, f, Len(list)) BY <1>1 DEF AddsUp, GoOnAlike
<1>3. AreAlike(s, f, Len(list)) BY <1>2, Alike
<1>4. Len(list) \in 0 .. Len(list) OBVIOUS
<1> QED  BY <1>1, <1>3, <1>4 DEF AreAlike

LEMMA SumEmpty ==
  ASSUME NEW S, NEW add, NEW zero, IsMonoid(S, add, zero)
  PROVE  MonoidSum(<< >>, add, zero) = zero
<1> DEFINE list == << >>
<1>1. Len(list) = 0 OBVIOUS
<1>0. list \in Seq(S) OBVIOUS
<1> HIDE DEF list
<1>2. PICK s \in [0 .. Len(list) -> S] :
        AddsUp(s, list, add, zero) /\ MonoidSum(list, add, zero) = s[Len(list)]
  BY <1>0, Sums
<1>3. s[0] = zero BY <1>2 DEF AddsUp
<1> QED  BY <1>1, <1>2, <1>3 DEF list

LEMMA SumType ==
  ASSUME NEW S, NEW add, NEW zero, IsMonoid(S, add, zero), NEW list \in Seq(S)
  PROVE  MonoidSum(list, add, zero) \in S
<1>1. Len(list) \in 0 .. Len(list) OBVIOUS
<1> QED  BY <1>1, Sums

LEMMA SumAppend ==
  ASSUME NEW S, NEW add, NEW zero, IsMonoid(S, add, zero), NEW list \in Seq(S), NEW x \in S
  PROVE  MonoidSum(Append(list, x), add, zero) = add[MonoidSum(list, add, zero)][x]
<1>1. PICK s \in [0 .. Len(list) -> S] :
        AddsUp(s, list, add, zero) /\ MonoidSum(list, add, zero) = s[Len(list)]
  BY Sums
<1> DEFINE n == Len(list)
           longer == Append(list, x)
           f == [k \in 0 .. n + 1 |-> IF k <= n THEN s[k] ELSE add[s[n]][x]]
<1>2. /\ n \in Nat /\ longer \in Seq(S) /\ Len(longer) = n + 1 /\ longer[n + 1] = x
      /\ \A k \in 1 .. n : longer[k] = list[k]
  OBVIOUS
<1> HIDE DEF longer
<1>3. \A k \in 1 .. n : s[k] = add[s[k - 1]][longer[k]] BY <1>1, <1>2 DEF AddsUp
<1>4. s[0] = zero /\ MonoidSum(list, add, zero) = s[n] BY <1>1 DEF AddsUp
<1> HIDE DEF n
<1>5. f[0] = zero /\ f[n + 1] = add[s[n]][x] BY <1>2, <1>4
<1>6. \A k \in 1 .. n + 1 : f[k] = add[f[k - 1]][longer[k]]
  <2> SUFFICES ASSUME NEW k \in 1 .. n + 1 PROVE f[k] = add[f[k - 1]][longer[k]]
    OBVIOUS
  <2>1. f[k - 1] = s[k - 1] BY <1>2
  <2>2. CASE k <= n
    <3>1. f[k] = s[k] BY <1>2, <2>2
    <3>2. k \in 1 .. n BY <1>2, <2>2
    <3> QED  BY <1>3, <2>1, <3>1, <3>2
  <2>3. CASE k = n + 1
    <3>1. k - 1 = n BY <1>2, <2>3
    <3> QED  BY <1>2, <1>5, <2>1, <2>3, <3>1
  <2> QED  BY <1>2, <2>2, <2>3
<1> HIDE DEF f
<1>7. AddsUp(f, longer, add, zero) BY <1>2, <1>5, <1>6 DEF AddsUp
<1>8. MonoidSum(longer, add, zero) = f[Len(longer)] BY <1>2, <1>7, SumIs
<1> QED  BY <1>2, <1>4, <1>5, <1>8 DEF longer

\* An element that was zero adds its new value to the sum.
LEMMA SumReplace ==
  ASSUME NEW S, NEW add, NEW zero, IsMonoid(S, add, zero), Commutes(S, add),
         NEW list \in Seq(S), NEW d \in 1 .. Len(list), list[d] = zero, NEW x \in S
  PROVE  MonoidSum([list EXCEPT ![d] = x], add, zero) = add[MonoidSum(list, add, zero)][x]
<1>1. PICK s \in [0 .. Len(list) -> S] :
        AddsUp(s, list, add, zero) /\ MonoidSum(list, add, zero) = s[Len(list)]
  BY Sums
<1> DEFINE n == Len(list)
           other == [list EXCEPT ![d] = x]
           f == [k \in 0 .. n |-> IF k < d THEN s[k] ELSE add[s[k]][x]]
<1>2. /\ n \in Nat /\ other \in Seq(S) /\ Len(other) = n /\ other[d] = x /\ d \in 1 .. n
      /\ \A k \in 1 .. n : k # d => other[k] = list[k]
      /\ \A k \in 1 .. n : list[k] \in S
  OBVIOUS
<1>3. s[0] = zero /\ MonoidSum(list, add, zero) = s[n]
      /\ (\A k \in 1 .. n : s[k] = add[s[k - 1]][list[k]])
      /\ (\A k \in 0 .. n : s[k] \in S)
  BY <1>1 DEF AddsUp
<1> HIDE DEF n, other
<1>4. f[0] = zero /\ f[n] = add[s[n]][x] BY <1>2, <1>3
<1>5. \A k \in 1 .. n : f[k] = add[f[k - 1]][other[k]]
  <2> SUFFICES ASSUME NEW k \in 1 .. n PROVE f[k] = add[f[k - 1]][other[k]]
    OBVIOUS
  <2>1. s[k] = add[s[k - 1]][list[k]] /\ s[k - 1] \in S /\ s[k] \in S /\ list[k] \in S
    BY <1>2, <1>3
  <2>2. CASE k < d
    <3>1. f[k] = s[k] /\ f[k - 1] = s[k - 1] /\ other[k] = list[k] BY <1>2, <2>2
    <3> QED  BY <2>1, <3>1
  <2>3. CASE k = d
    <3>1. f[k] = add[s[k]][x] /\ f[k - 1] = s[k - 1] /\ other[k] = x BY <1>2, <2>3
    <3>2. s[k] = s[k - 1] BY <2>1, <2>3 DEF IsMonoid
    <3> QED  BY <3>1, <3>2
  <2>4. CASE k > d
    <3>1. f[k] = add[s[k]][x] /\ f[k - 1] = add[s[k - 1]][x] /\ other[k] = list[k]
      BY <1>2, <2>4
    <3> DEFINE a == s[k - 1]
               b == list[k]
    <3>2. a \in S /\ b \in S BY <2>1
    <3> HIDE DEF a, b
    <3>3. add[add[a][x]][b] = add[a][add[x][b]] BY <3>2 DEF IsMonoid
    <3>4. add[add[a][b]][x] = add[a][add[b][x]] BY <3>2 DEF IsMonoid
    <3>5. add[x][b] = add[b][x] BY <3>2 DEF Commutes
    <3> QED  BY <2>1, <3>1, <3>3, <3>4, <3>5 DEF a, b
  <2> QED  BY <1>2, <2>2, <2>3, <2>4
<1> HIDE DEF f
<1>6. AddsUp(f, other, add, zero) BY <1>2, <1>4, <1>5 DEF AddsUp
<1>7. MonoidSum(other, add, zero) = f[Len(other)] BY <1>2, <1>6, SumIs
<1> QED  BY <1>2, <1>3, <1>4, <1>7 DEF other

\* A list of zeros.
LEMMA SumOfZeros ==
  ASSUME NEW S, NEW add, NEW zero, IsMonoid(S, add, zero), NEW list \in Seq(S),
         \A k \in 1 .. Len(list) : list[k] = zero
  PROVE  MonoidSum(list, add, zero) = zero
<1> DEFINE n == Len(list)
           f == [k \in 0 .. n |-> zero]
<1>1. n \in Nat OBVIOUS
<1>2. zero \in S /\ add[zero][zero] = zero BY DEF IsMonoid
<1>3. \A k \in 1 .. n : list[k] = zero OBVIOUS
<1> HIDE DEF n
<1>4. AddsUp(f, list, add, zero)
  BY <1>1, <1>2, <1>3 DEF AddsUp, AreSums, n
<1> HIDE DEF f
<1>5. MonoidSum(list, add, zero) = f[Len(list)] BY <1>4, SumIs
<1> QED  BY <1>1, <1>5 DEF f, n

LEMMA SumConcat ==
  ASSUME NEW S, NEW add, NEW zero, IsMonoid(S, add, zero),
         NEW left \in Seq(S), NEW right \in Seq(S)
  PROVE  MonoidSum(left \o right, add, zero)
           = add[MonoidSum(left, add, zero)][MonoidSum(right, add, zero)]
<1>1. PICK s \in [0 .. Len(left) -> S] :
        AddsUp(s, left, add, zero) /\ MonoidSum(left, add, zero) = s[Len(left)]
  BY Sums
<1>2. PICK r \in [0 .. Len(right) -> S] :
        AddsUp(r, right, add, zero) /\ MonoidSum(right, add, zero) = r[Len(right)]
  BY Sums
<1> DEFINE m == Len(left)
           n == Len(right)
           both == left \o right
           f == [k \in 0 .. m + n |-> IF k <= m THEN s[k] ELSE add[s[m]][r[k - m]]]
<1>3. /\ m \in Nat /\ n \in Nat /\ both \in Seq(S) /\ Len(both) = m + n
      /\ \A k \in 1 .. m : both[k] = left[k]
      /\ \A k \in 1 .. n : both[m + k] = right[k] /\ right[k] \in S
  OBVIOUS
<1>4. /\ s[0] = zero /\ \A k \in 1 .. m : s[k] = add[s[k - 1]][left[k]]
      /\ \A k \in 0 .. m : s[k] \in S
  BY <1>1 DEF AddsUp
<1>5. /\ r[0] = zero /\ \A k \in 1 .. n : r[k] = add[r[k - 1]][right[k]]
      /\ \A k \in 0 .. n : r[k] \in S
  BY <1>2 DEF AddsUp
<1>6. MonoidSum(left, add, zero) = s[m] /\ MonoidSum(right, add, zero) = r[n]
  BY <1>1, <1>2
<1> HIDE DEF m, n, both
<1>7. add[s[m]][zero] = s[m] BY <1>3, <1>4 DEF IsMonoid
<1>8. f[0] = zero /\ f[m + n] = add[s[m]][r[n]] BY <1>3, <1>4, <1>5, <1>7
<1>9. ASSUME NEW k \in 1 .. m + n PROVE f[k] = add[f[k - 1]][both[k]]
  <2>1. CASE k <= m
    <3>1. k \in 1 .. m /\ f[k] = s[k] /\ f[k - 1] = s[k - 1] /\ both[k] = left[k]
      BY <1>3, <2>1
    <3> QED  BY <1>4, <3>1
  <2>2. CASE k > m
    <3> DEFINE j == k - m
    <3>1. j \in 1 .. n /\ both[k] = right[j] /\ f[k] = add[s[m]][r[j]]
      <4>1. j \in 1 .. n /\ m + j = k BY <1>3, <2>2
      <4> HIDE DEF j
      <4>2. both[k] = right[j] BY <1>3, <4>1
      <4>3. f[k] = add[s[m]][r[k - m]] BY <2>2, <1>3
      <4>4. k - m = j BY <1>3, <4>1
      <4> QED  BY <4>1, <4>2, <4>3, <4>4
    <3>2. f[k - 1] = add[s[m]][r[j - 1]]
      <4>1. CASE j = 1
        <5>1. k - 1 = m /\ j - 1 = 0 /\ m \in 0 .. m + n BY <1>3, <2>2, <4>1
        <5>2. f[m] = s[m] BY <5>1, <1>3
        <5> QED  BY <1>5, <1>7, <5>1, <5>2
      <4>2. CASE j # 1
        <5>1. ~(k - 1 <= m) /\ k - 1 - m = j - 1 /\ k - 1 \in 0 .. m + n
          BY <1>3, <2>2, <4>2
        <5> QED  BY <5>1
      <4> QED  BY <4>1, <4>2
    <3> HIDE DEF j
    <3> DEFINE a == s[m]
               b == r[j - 1]
               c == right[j]
    <3>3. a \in S /\ b \in S /\ c \in S
      <4>1. m \in 0 .. m /\ j - 1 \in 0 .. n BY <1>3, <3>1
      <4> QED  BY <1>3, <1>4, <1>5, <3>1, <4>1
    <3>4. r[j] = add[b][c] BY <1>5, <3>1
    <3> HIDE DEF a, b, c
    <3>5. add[add[a][b]][c] = add[a][add[b][c]] BY <3>3 DEF IsMonoid
    <3> QED  BY <3>1, <3>2, <3>4, <3>5 DEF a, b, c
  <2> QED  BY <1>3, <2>1, <2>2
<1> HIDE DEF f
<1>10. AddsUp(f, both, add, zero) BY <1>3, <1>8, <1>9 DEF AddsUp
<1>11. both \in Seq(S) BY <1>3
<1>12. MonoidSum(both, add, zero) = f[Len(both)] BY <1>10, <1>11, SumIs
<1> QED  BY <1>3, <1>6, <1>8, <1>12 DEF both

----------------------------------------------------------------------------
(* The four monoids.                                                       *)

scalarAdd == [a \in Scalars |-> [b \in Scalars |-> Plus(a, b)]]
valueAdd == [a \in [Tokens -> Nat] |-> [b \in [Tokens -> Nat] |-> AddValue(a, b)]]
pointAdd == [a \in Point |-> [b \in Point |-> PointAdd(a, b)]]
pointsJoin == [a \in Seq(Point) |-> [b \in Seq(Point) |-> a \o b]]

LEMMA ScalarsAdd ==
  /\ ZERO_TWEAK \in Scalars
  /\ \A a, b \in Scalars : Plus(a, b) \in Scalars /\ Plus(a, b) = Plus(b, a)
  /\ \A a, b, c \in Scalars : Plus(Plus(a, b), c) = Plus(a, Plus(b, c))
  /\ \A a \in Scalars : Plus(a, ZERO_TWEAK) = a /\ Plus(ZERO_TWEAK, a) = a
BY ScalarAssumption

\* Values add up like numbers, token by token.
LEMMA ValuesAdd ==
  /\ NoValue \in [Tokens -> Nat]
  /\ \A a, b \in [Tokens -> Nat] : AddValue(a, b) \in [Tokens -> Nat] /\ AddValue(a, b) = AddValue(b, a)
  /\ \A a, b, c \in [Tokens -> Nat] : AddValue(AddValue(a, b), c) = AddValue(a, AddValue(b, c))
  /\ \A a \in [Tokens -> Nat] : AddValue(a, NoValue) = a /\ AddValue(NoValue, a) = a
<1>1. NoValue \in [Tokens -> Nat] BY ValueClosure
<1>2. ASSUME NEW a \in [Tokens -> Nat], NEW b \in [Tokens -> Nat]
      PROVE  AddValue(a, b) \in [Tokens -> Nat] /\ AddValue(a, b) = AddValue(b, a)
  BY DEF AddValue
<1>3. ASSUME NEW a \in [Tokens -> Nat], NEW b \in [Tokens -> Nat], NEW c \in [Tokens -> Nat]
      PROVE  AddValue(AddValue(a, b), c) = AddValue(a, AddValue(b, c))
  BY DEF AddValue
<1>4. ASSUME NEW a \in [Tokens -> Nat]
      PROVE  AddValue(a, NoValue) = a /\ AddValue(NoValue, a) = a
  BY DEF AddValue, NoValue
<1> QED  BY <1>1, <1>2, <1>3, <1>4

\* And points like values and scalars.
LEMMA PointsAdd ==
  /\ Identity \in Point
  /\ \A a, b \in Point : PointAdd(a, b) \in Point /\ PointAdd(a, b) = PointAdd(b, a)
  /\ \A a, b, c \in Point : PointAdd(PointAdd(a, b), c) = PointAdd(a, PointAdd(b, c))
  /\ \A a \in Point : PointAdd(a, Identity) = a /\ PointAdd(Identity, a) = a
<1>0. \A a \in Point : a.h \in [Tokens -> Nat] /\ a.g \in Scalars /\ a = [h |-> a.h, g |-> a.g]
  BY DEF Point
<1>1. Identity \in Point BY ValueClosure, ScalarClosure DEF Identity, Point
<1>2. ASSUME NEW a \in Point, NEW b \in Point
      PROVE  PointAdd(a, b) \in Point /\ PointAdd(a, b) = PointAdd(b, a)
  <2>1. AddValue(a.h, b.h) \in [Tokens -> Nat] /\ AddValue(a.h, b.h) = AddValue(b.h, a.h)
    BY <1>0, ValuesAdd
  <2>2. Plus(a.g, b.g) \in Scalars /\ Plus(a.g, b.g) = Plus(b.g, a.g) BY <1>0, ScalarsAdd
  <2> QED  BY <2>1, <2>2 DEF PointAdd, Point
<1>3. ASSUME NEW a \in Point, NEW b \in Point, NEW c \in Point
      PROVE  PointAdd(PointAdd(a, b), c) = PointAdd(a, PointAdd(b, c))
  <2>1. AddValue(AddValue(a.h, b.h), c.h) = AddValue(a.h, AddValue(b.h, c.h))
    BY <1>0, ValuesAdd
  <2>2. Plus(Plus(a.g, b.g), c.g) = Plus(a.g, Plus(b.g, c.g))
    <3> DEFINE p == a.g
               q == b.g
               r == c.g
    <3>1. p \in Scalars /\ q \in Scalars /\ r \in Scalars BY <1>0
    <3> HIDE DEF p, q, r
    <3>2. Plus(Plus(p, q), r) = Plus(p, Plus(q, r)) BY <3>1, ScalarsAdd
    <3> QED  BY <3>2 DEF p, q, r
  <2> QED  BY <2>1, <2>2 DEF PointAdd
<1>4. ASSUME NEW a \in Point
      PROVE  PointAdd(a, Identity) = a /\ PointAdd(Identity, a) = a
  <2>1. /\ AddValue(a.h, NoValue) = a.h /\ Plus(a.g, ZERO_TWEAK) = a.g
        /\ AddValue(NoValue, a.h) = a.h /\ Plus(ZERO_TWEAK, a.g) = a.g
    BY <1>0, ValuesAdd, ScalarsAdd
  <2> QED  BY <1>0, <2>1 DEF PointAdd, Identity
<1> QED  BY <1>1, <1>2, <1>3, <1>4

LEMMA PointListsJoin ==
  /\ << >> \in Seq(Point)
  /\ \A a, b \in Seq(Point) : a \o b \in Seq(Point)
  /\ \A a, b, c \in Seq(Point) : (a \o b) \o c = a \o (b \o c)
  /\ \A a \in Seq(Point) : a \o << >> = a /\ << >> \o a = a
<1>1. << >> \in Seq(Point) OBVIOUS
<1>2. ASSUME NEW a \in Seq(Point), NEW b \in Seq(Point) PROVE a \o b \in Seq(Point)
  OBVIOUS
<1>3. ASSUME NEW a \in Seq(Point), NEW b \in Seq(Point), NEW c \in Seq(Point)
      PROVE  (a \o b) \o c = a \o (b \o c)
  OBVIOUS
<1>4. ASSUME NEW a \in Seq(Point) PROVE a \o << >> = a /\ << >> \o a = a
  OBVIOUS
<1> QED  BY <1>1, <1>2, <1>3, <1>4

LEMMA ScalarsMonoid ==
  /\ IsMonoid(Scalars, scalarAdd, ZERO_TWEAK)
  /\ Commutes(Scalars, scalarAdd)
<1> DEFINE S == Scalars
<1>1. \A a, b \in S : scalarAdd[a][b] = Plus(a, b) /\ Plus(a, b) \in S
  BY ScalarsAdd DEF scalarAdd
<1>2. ZERO_TWEAK \in S BY ScalarsAdd
<1>3. \A a, b, c \in S : Plus(Plus(a, b), c) = Plus(a, Plus(b, c))
  BY ScalarsAdd
<1>4. \A a \in S : Plus(a, ZERO_TWEAK) = a /\ Plus(ZERO_TWEAK, a) = a BY ScalarsAdd
<1> HIDE DEF S
<1>5. ASSUME NEW a \in S, NEW b \in S, NEW c \in S
      PROVE  scalarAdd[scalarAdd[a][b]][c] = scalarAdd[a][scalarAdd[b][c]]
  <2>1. Plus(a, b) \in S /\ Plus(b, c) \in S BY <1>1
  <2> DEFINE p == Plus(a, b)
             q == Plus(b, c)
  <2> HIDE DEF p, q
  <2>2. scalarAdd[a][b] = p /\ scalarAdd[b][c] = q BY <1>1 DEF p, q
  <2>3. p \in S /\ q \in S BY <2>1 DEF p, q
  <2>4. scalarAdd[p][c] = Plus(p, c) /\ scalarAdd[a][q] = Plus(a, q) BY <1>1, <2>3
  <2>5. Plus(p, c) = Plus(a, q) BY <1>3 DEF p, q
  <2> QED  BY <2>2, <2>4, <2>5
<1>6. Commutes(S, scalarAdd)
  <2>1. \A a, b \in S : Plus(a, b) = Plus(b, a) BY ScalarsAdd DEF S
  <2> QED  BY <1>1, <2>1 DEF Commutes
<1>7. ASSUME NEW a \in S PROVE scalarAdd[a][ZERO_TWEAK] = a /\ scalarAdd[ZERO_TWEAK][a] = a
  <2>1. scalarAdd[a][ZERO_TWEAK] = Plus(a, ZERO_TWEAK) BY <1>1, <1>2
  <2>2. scalarAdd[ZERO_TWEAK][a] = Plus(ZERO_TWEAK, a) BY <1>1, <1>2
  <2> QED  BY <1>4, <2>1, <2>2
<1>8. \A a, b \in S : scalarAdd[a][b] \in S BY <1>1
<1>9. IsMonoid(S, scalarAdd, ZERO_TWEAK) BY <1>2, <1>5, <1>7, <1>8 DEF IsMonoid
<1> QED  BY <1>6, <1>9 DEF S

LEMMA ValuesMonoid ==
  /\ IsMonoid([Tokens -> Nat], valueAdd, NoValue)
  /\ Commutes([Tokens -> Nat], valueAdd)
<1> DEFINE S == [Tokens -> Nat]
<1>1. \A a, b \in S : valueAdd[a][b] = AddValue(a, b) /\ AddValue(a, b) \in S
  BY ValuesAdd DEF valueAdd
<1>2. NoValue \in S BY ValuesAdd
<1>3. \A a, b, c \in S : AddValue(AddValue(a, b), c) = AddValue(a, AddValue(b, c))
  BY ValuesAdd
<1>4. \A a \in S : AddValue(a, NoValue) = a /\ AddValue(NoValue, a) = a BY ValuesAdd
<1> HIDE DEF S
<1>5. ASSUME NEW a \in S, NEW b \in S, NEW c \in S
      PROVE  valueAdd[valueAdd[a][b]][c] = valueAdd[a][valueAdd[b][c]]
  <2>1. AddValue(a, b) \in S /\ AddValue(b, c) \in S BY <1>1
  <2> DEFINE p == AddValue(a, b)
             q == AddValue(b, c)
  <2> HIDE DEF p, q
  <2>2. valueAdd[a][b] = p /\ valueAdd[b][c] = q BY <1>1 DEF p, q
  <2>3. p \in S /\ q \in S BY <2>1 DEF p, q
  <2>4. valueAdd[p][c] = AddValue(p, c) /\ valueAdd[a][q] = AddValue(a, q) BY <1>1, <2>3
  <2>5. AddValue(p, c) = AddValue(a, q) BY <1>3 DEF p, q
  <2> QED  BY <2>2, <2>4, <2>5
<1>6. Commutes(S, valueAdd)
  <2>1. \A a, b \in S : AddValue(a, b) = AddValue(b, a) BY ValuesAdd DEF S
  <2> QED  BY <1>1, <2>1 DEF Commutes
<1>7. ASSUME NEW a \in S PROVE valueAdd[a][NoValue] = a /\ valueAdd[NoValue][a] = a
  <2>1. valueAdd[a][NoValue] = AddValue(a, NoValue) BY <1>1, <1>2
  <2>2. valueAdd[NoValue][a] = AddValue(NoValue, a) BY <1>1, <1>2
  <2> QED  BY <1>4, <2>1, <2>2
<1>8. \A a, b \in S : valueAdd[a][b] \in S BY <1>1
<1>9. IsMonoid(S, valueAdd, NoValue) BY <1>2, <1>5, <1>7, <1>8 DEF IsMonoid
<1> QED  BY <1>6, <1>9 DEF S

LEMMA PointsMonoid ==
  /\ IsMonoid(Point, pointAdd, Identity)
  /\ Commutes(Point, pointAdd)
<1> DEFINE S == Point
<1>1. \A a, b \in S : pointAdd[a][b] = PointAdd(a, b) /\ PointAdd(a, b) \in S
  BY PointsAdd DEF pointAdd
<1>2. Identity \in S BY PointsAdd
<1>3. \A a, b, c \in S : PointAdd(PointAdd(a, b), c) = PointAdd(a, PointAdd(b, c))
  BY PointsAdd
<1>4. \A a \in S : PointAdd(a, Identity) = a /\ PointAdd(Identity, a) = a BY PointsAdd
<1> HIDE DEF S
<1>5. ASSUME NEW a \in S, NEW b \in S, NEW c \in S
      PROVE  pointAdd[pointAdd[a][b]][c] = pointAdd[a][pointAdd[b][c]]
  <2>1. PointAdd(a, b) \in S /\ PointAdd(b, c) \in S BY <1>1
  <2> DEFINE p == PointAdd(a, b)
             q == PointAdd(b, c)
  <2> HIDE DEF p, q
  <2>2. pointAdd[a][b] = p /\ pointAdd[b][c] = q BY <1>1 DEF p, q
  <2>3. p \in S /\ q \in S BY <2>1 DEF p, q
  <2>4. pointAdd[p][c] = PointAdd(p, c) /\ pointAdd[a][q] = PointAdd(a, q) BY <1>1, <2>3
  <2>5. PointAdd(p, c) = PointAdd(a, q) BY <1>3 DEF p, q
  <2> QED  BY <2>2, <2>4, <2>5
<1>6. Commutes(S, pointAdd)
  <2>1. \A a, b \in S : PointAdd(a, b) = PointAdd(b, a) BY PointsAdd DEF S
  <2> QED  BY <1>1, <2>1 DEF Commutes
<1>7. ASSUME NEW a \in S PROVE pointAdd[a][Identity] = a /\ pointAdd[Identity][a] = a
  <2>1. pointAdd[a][Identity] = PointAdd(a, Identity) BY <1>1, <1>2
  <2>2. pointAdd[Identity][a] = PointAdd(Identity, a) BY <1>1, <1>2
  <2> QED  BY <1>4, <2>1, <2>2
<1>8. \A a, b \in S : pointAdd[a][b] \in S BY <1>1
<1>9. IsMonoid(S, pointAdd, Identity) BY <1>2, <1>5, <1>7, <1>8 DEF IsMonoid
<1> QED  BY <1>6, <1>9 DEF S

LEMMA PointListsMonoid ==
  IsMonoid(Seq(Point), pointsJoin, << >>)
<1> DEFINE S == Seq(Point)
<1>1. \A a, b \in S : pointsJoin[a][b] = a \o b /\ a \o b \in S
  BY PointListsJoin DEF pointsJoin
<1>2. << >> \in S BY PointListsJoin
<1>3. \A a, b, c \in S : (a \o b) \o c = a \o (b \o c)
  BY PointListsJoin
<1>4. \A a \in S : a \o << >> = a /\ << >> \o a = a BY PointListsJoin
<1> HIDE DEF S
<1>5. ASSUME NEW a \in S, NEW b \in S, NEW c \in S
      PROVE  pointsJoin[pointsJoin[a][b]][c] = pointsJoin[a][pointsJoin[b][c]]
  <2>1. a \o b \in S /\ b \o c \in S BY <1>1
  <2> DEFINE p == a \o b
             q == b \o c
  <2> HIDE DEF p, q
  <2>2. pointsJoin[a][b] = p /\ pointsJoin[b][c] = q BY <1>1 DEF p, q
  <2>3. p \in S /\ q \in S BY <2>1 DEF p, q
  <2>4. pointsJoin[p][c] = p \o c /\ pointsJoin[a][q] = a \o q BY <1>1, <2>3
  <2>5. p \o c = a \o q BY <1>3 DEF p, q
  <2> QED  BY <2>2, <2>4, <2>5
<1>7. ASSUME NEW a \in S PROVE pointsJoin[a][<< >>] = a /\ pointsJoin[<< >>][a] = a
  <2>1. pointsJoin[a][<< >>] = a \o << >> BY <1>1, <1>2
  <2>2. pointsJoin[<< >>][a] = << >> \o a BY <1>1, <1>2
  <2> QED  BY <1>4, <2>1, <2>2
<1>8. \A a, b \in S : pointsJoin[a][b] \in S BY <1>1
<1>9. IsMonoid(S, pointsJoin, << >>) BY <1>2, <1>5, <1>7, <1>8 DEF IsMonoid
<1> QED  BY <1>9 DEF S

LEMMA ScalarSumIsMonoidSum ==
  ASSUME NEW list \in Seq(Scalars)
  PROVE  ScalarSum(list) = MonoidSum(list, scalarAdd, ZERO_TWEAK)
<1> DEFINE n == Len(list)
           IsSum(g) == g = [j \in 0 .. n |-> IF j = 0 THEN ZERO_TWEAK ELSE Plus(g[j - 1], list[j])]
           sum == CHOOSE g : IsSum(g)
<1>1. ScalarSum(list) = sum[n] BY Zenon DEF ScalarSum, SumUp
<1>2. n \in Nat /\ \A k \in 1 .. n : list[k] \in Scalars OBVIOUS
<1>3. PICK s \in [0 .. n -> Scalars] :
        AddsUp(s, list, scalarAdd, ZERO_TWEAK) /\ MonoidSum(list, scalarAdd, ZERO_TWEAK) = s[n]
  BY ScalarsMonoid, Sums
<1>4. \A a, b \in Scalars : scalarAdd[a][b] = Plus(a, b) BY DEF scalarAdd
<1>5. ASSUME NEW k \in 1 .. n PROVE s[k] = Plus(s[k - 1], list[k])
  <2>1. s[k] = scalarAdd[s[k - 1]][list[k]] BY <1>3 DEF AddsUp
  <2> DEFINE a == s[k - 1]
             b == list[k]
  <2>2. a \in Scalars /\ b \in Scalars BY <1>2, <1>3
  <2> HIDE DEF a, b
  <2>3. scalarAdd[a][b] = Plus(a, b) BY <1>4, <2>2
  <2> QED  BY <2>1, <2>3 DEF a, b
<1>6. s[0] = ZERO_TWEAK BY <1>3 DEF AddsUp
<1> HIDE DEF n
<1>7. IsSum(s)
  <2>1. ASSUME NEW k \in 0 .. n
        PROVE  s[k] = IF k = 0 THEN ZERO_TWEAK ELSE Plus(s[k - 1], list[k])
    BY <1>2, <1>5, <1>6
  <2> QED  BY <1>3, <2>1
<1> HIDE DEF IsSum
<1>8. IsSum(sum) BY <1>7
<1> HIDE DEF sum
<1>9. GoOnAlike(sum, s, n)
  <2>1. sum[0] = ZERO_TWEAK BY <1>2, <1>8 DEF IsSum
  <2>2. ASSUME NEW k \in 1 .. n, sum[k - 1] = s[k - 1] PROVE sum[k] = s[k]
    <3>1. sum[k] = Plus(sum[k - 1], list[k])
      <4>1. k \in 0 .. n /\ k # 0 BY <1>2
      <4> QED  BY <1>8, <4>1 DEF IsSum
    <3> QED  BY <1>5, <2>2, <3>1
  <2> QED  BY <1>6, <2>1, <2>2 DEF GoOnAlike
<1>10. AreAlike(sum, s, n) BY <1>2, <1>9, Alike
<1>11. sum[n] = s[n] BY <1>2, <1>10 DEF AreAlike
<1> QED  BY <1>1, <1>3, <1>11

LEMMA ValueSumIsMonoidSum ==
  ASSUME NEW list \in Seq([Tokens -> Nat])
  PROVE  ValueSum(list) = MonoidSum(list, valueAdd, NoValue)
<1> DEFINE n == Len(list)
           IsSum(g) == g = [j \in 0 .. n |-> IF j = 0 THEN NoValue ELSE AddValue(g[j - 1], list[j])]
           sum == CHOOSE g : IsSum(g)
<1>1. ValueSum(list) = sum[n] BY Zenon DEF ValueSum, SumUp
<1>2. n \in Nat /\ \A k \in 1 .. n : list[k] \in [Tokens -> Nat] OBVIOUS
<1>3. PICK s \in [0 .. n -> [Tokens -> Nat]] :
        AddsUp(s, list, valueAdd, NoValue) /\ MonoidSum(list, valueAdd, NoValue) = s[n]
  BY ValuesMonoid, Sums
<1>4. \A a, b \in [Tokens -> Nat] : valueAdd[a][b] = AddValue(a, b) BY DEF valueAdd
<1>5. ASSUME NEW k \in 1 .. n PROVE s[k] = AddValue(s[k - 1], list[k])
  <2>1. s[k] = valueAdd[s[k - 1]][list[k]] BY <1>3 DEF AddsUp
  <2> DEFINE a == s[k - 1]
             b == list[k]
  <2>2. a \in [Tokens -> Nat] /\ b \in [Tokens -> Nat]
    <3>1. k - 1 \in 0 .. n BY <1>2
    <3> QED  BY <1>2, <1>3, <3>1
  <2> HIDE DEF a, b
  <2>3. valueAdd[a][b] = AddValue(a, b) BY <1>4, <2>2
  <2> QED  BY <2>1, <2>3 DEF a, b
<1>6. s[0] = NoValue BY <1>3 DEF AddsUp
<1> HIDE DEF n
<1>7. IsSum(s)
  <2>1. ASSUME NEW k \in 0 .. n
        PROVE  s[k] = IF k = 0 THEN NoValue ELSE AddValue(s[k - 1], list[k])
    BY <1>2, <1>5, <1>6
  <2> QED  BY <1>3, <2>1
<1> HIDE DEF IsSum
<1>8. IsSum(sum) BY <1>7
<1> HIDE DEF sum
<1>9. GoOnAlike(sum, s, n)
  <2>1. sum[0] = NoValue BY <1>2, <1>8 DEF IsSum
  <2>2. ASSUME NEW k \in 1 .. n, sum[k - 1] = s[k - 1] PROVE sum[k] = s[k]
    <3>1. sum[k] = AddValue(sum[k - 1], list[k])
      <4>1. k \in 0 .. n /\ k # 0 BY <1>2
      <4> QED  BY <1>8, <4>1 DEF IsSum
    <3> QED  BY <1>5, <2>2, <3>1
  <2> QED  BY <1>6, <2>1, <2>2 DEF GoOnAlike
<1>10. AreAlike(sum, s, n) BY <1>2, <1>9, Alike
<1>11. sum[n] = s[n] BY <1>2, <1>10 DEF AreAlike
<1> QED  BY <1>1, <1>3, <1>11

LEMMA PointSumIsMonoidSum ==
  ASSUME NEW list \in Seq(Point)
  PROVE  PointSum(list) = MonoidSum(list, pointAdd, Identity)
<1> DEFINE n == Len(list)
           IsSum(g) == g = [j \in 0 .. n |-> IF j = 0 THEN Identity ELSE PointAdd(g[j - 1], list[j])]
           sum == CHOOSE g : IsSum(g)
<1>1. PointSum(list) = sum[n] BY Zenon DEF PointSum, SumUp
<1>2. n \in Nat /\ \A k \in 1 .. n : list[k] \in Point OBVIOUS
<1>3. PICK s \in [0 .. n -> Point] :
        AddsUp(s, list, pointAdd, Identity) /\ MonoidSum(list, pointAdd, Identity) = s[n]
  BY PointsMonoid, Sums
<1>4. \A a, b \in Point : pointAdd[a][b] = PointAdd(a, b) BY DEF pointAdd
<1>5. ASSUME NEW k \in 1 .. n PROVE s[k] = PointAdd(s[k - 1], list[k])
  <2>1. s[k] = pointAdd[s[k - 1]][list[k]] BY <1>3 DEF AddsUp
  <2> DEFINE a == s[k - 1]
             b == list[k]
  <2>2. a \in Point /\ b \in Point BY <1>2, <1>3
  <2> HIDE DEF a, b
  <2>3. pointAdd[a][b] = PointAdd(a, b) BY <1>4, <2>2
  <2> QED  BY <2>1, <2>3 DEF a, b
<1>6. s[0] = Identity BY <1>3 DEF AddsUp
<1> HIDE DEF n
<1>7. IsSum(s)
  <2>1. ASSUME NEW k \in 0 .. n
        PROVE  s[k] = IF k = 0 THEN Identity ELSE PointAdd(s[k - 1], list[k])
    BY <1>2, <1>5, <1>6
  <2> QED  BY <1>3, <2>1
<1> HIDE DEF IsSum
<1>8. IsSum(sum) BY <1>7
<1> HIDE DEF sum
<1>9. GoOnAlike(sum, s, n)
  <2>1. sum[0] = Identity BY <1>2, <1>8 DEF IsSum
  <2>2. ASSUME NEW k \in 1 .. n, sum[k - 1] = s[k - 1] PROVE sum[k] = s[k]
    <3>1. sum[k] = PointAdd(sum[k - 1], list[k])
      <4>1. k \in 0 .. n /\ k # 0 BY <1>2
      <4> QED  BY <1>8, <4>1 DEF IsSum
    <3> QED  BY <1>5, <2>2, <3>1
  <2> QED  BY <1>6, <2>1, <2>2 DEF GoOnAlike
<1>10. AreAlike(sum, s, n) BY <1>2, <1>9, Alike
<1>11. sum[n] = s[n] BY <1>2, <1>10 DEF AreAlike
<1> QED  BY <1>1, <1>3, <1>11

LEMMA JoinedIsMonoidSum ==
  ASSUME NEW list \in Seq(Seq(Point))
  PROVE  Joined(list) = MonoidSum(list, pointsJoin, << >>)
<1> DEFINE n == Len(list)
           IsSum(g) == g = [j \in 0 .. n |-> IF j = 0 THEN << >> ELSE g[j - 1] \o list[j]]
           sum == CHOOSE g : IsSum(g)
<1>1. Joined(list) = sum[n] BY Zenon DEF Joined, SumUp
<1>2. n \in Nat /\ \A k \in 1 .. n : list[k] \in Seq(Point) OBVIOUS
<1>3. PICK s \in [0 .. n -> Seq(Point)] :
        AddsUp(s, list, pointsJoin, << >>) /\ MonoidSum(list, pointsJoin, << >>) = s[n]
  BY PointListsMonoid, Sums
<1>4. \A a, b \in Seq(Point) : pointsJoin[a][b] = a \o b BY DEF pointsJoin
<1>5. ASSUME NEW k \in 1 .. n PROVE s[k] = s[k - 1] \o list[k]
  <2>1. s[k] = pointsJoin[s[k - 1]][list[k]] BY <1>3 DEF AddsUp
  <2> DEFINE a == s[k - 1]
             b == list[k]
  <2>2. a \in Seq(Point) /\ b \in Seq(Point)
    <3>1. k - 1 \in 0 .. n BY <1>2
    <3>2. a \in Seq(Point) BY <1>3, <3>1
    <3>3. b \in Seq(Point) BY <1>2
    <3> QED  BY <3>2, <3>3
  <2> HIDE DEF a, b
  <2>3. pointsJoin[a][b] = a \o b BY <1>4, <2>2
  <2> QED  BY <2>1, <2>3 DEF a, b
<1>6. s[0] = << >> BY <1>3 DEF AddsUp
<1> HIDE DEF n
<1>7. IsSum(s)
  <2>1. ASSUME NEW k \in 0 .. n
        PROVE  s[k] = IF k = 0 THEN << >> ELSE s[k - 1] \o list[k]
    <3>1. CASE k = 0 BY <1>6, <3>1
    <3>2. CASE k # 0
      <4>1. k \in 1 .. n BY <1>2, <3>2
      <4>2. s[k] = s[k - 1] \o list[k] BY <1>5, <4>1
      <4> QED  BY <3>2, <4>2
    <3> QED  BY <3>1, <3>2
  <2> QED  BY <1>3, <2>1
<1> HIDE DEF IsSum
<1>8. IsSum(sum) BY <1>7
<1> HIDE DEF sum
<1>9. GoOnAlike(sum, s, n)
  <2>1. sum[0] = << >> BY <1>2, <1>8 DEF IsSum
  <2>2. ASSUME NEW k \in 1 .. n, sum[k - 1] = s[k - 1] PROVE sum[k] = s[k]
    <3>1. sum[k] = sum[k - 1] \o list[k]
      <4>1. k \in 0 .. n /\ k # 0 BY <1>2
      <4> QED  BY <1>8, <4>1 DEF IsSum
    <3> QED  BY <1>5, <2>2, <3>1
  <2> QED  BY <1>6, <2>1, <2>2 DEF GoOnAlike
<1>10. AreAlike(sum, s, n) BY <1>2, <1>9, Alike
<1>11. sum[n] = s[n] BY <1>2, <1>10 DEF AreAlike
<1> QED  BY <1>1, <1>3, <1>11

----------------------------------------------------------------------------
(* Sums as the other modules use them.                                     *)

LEMMA ScalarSumEmpty == ScalarSum(<< >>) = ZERO_TWEAK
<1>1. << >> \in Seq(Scalars) OBVIOUS
<1>2. ScalarSum(<< >>) = MonoidSum(<< >>, scalarAdd, ZERO_TWEAK) BY <1>1, ScalarSumIsMonoidSum
<1> QED  BY <1>2, SumEmpty, ScalarsMonoid

LEMMA ScalarSumType ==
  ASSUME NEW list \in Seq(Scalars)
  PROVE  ScalarSum(list) \in Scalars
<1>1. MonoidSum(list, scalarAdd, ZERO_TWEAK) \in Scalars BY SumType, ScalarsMonoid
<1> QED  BY <1>1, ScalarSumIsMonoidSum

LEMMA ScalarSumOfZeros ==
  ASSUME NEW list \in Seq(Scalars), \A k \in 1 .. Len(list) : list[k] = ZERO_TWEAK
  PROVE  ScalarSum(list) = ZERO_TWEAK
<1>1. IsMonoid(Scalars, scalarAdd, ZERO_TWEAK) BY ScalarsMonoid
<1>2. ScalarSum(list) = MonoidSum(list, scalarAdd, ZERO_TWEAK) BY ScalarSumIsMonoidSum
<1>3. MonoidSum(list, scalarAdd, ZERO_TWEAK) = ZERO_TWEAK BY <1>1, SumOfZeros
<1> QED  BY <1>2, <1>3

LEMMA ScalarSumAppend ==
  ASSUME NEW list \in Seq(Scalars), NEW x \in Scalars
  PROVE  ScalarSum(Append(list, x)) = Plus(ScalarSum(list), x)
<1> DEFINE longer == Append(list, x)
<1>1. longer \in Seq(Scalars) OBVIOUS
<1>2. MonoidSum(longer, scalarAdd, ZERO_TWEAK) = scalarAdd[MonoidSum(list, scalarAdd, ZERO_TWEAK)][x]
  BY SumAppend, ScalarsMonoid
<1> HIDE DEF longer
<1>3. ScalarSum(longer) = MonoidSum(longer, scalarAdd, ZERO_TWEAK) BY <1>1, ScalarSumIsMonoidSum
<1>4. ScalarSum(list) = MonoidSum(list, scalarAdd, ZERO_TWEAK) BY ScalarSumIsMonoidSum
<1>5. ScalarSum(list) \in Scalars BY ScalarSumType
<1> DEFINE a == ScalarSum(list)
<1>6. scalarAdd[a][x] = Plus(a, x) BY <1>5 DEF scalarAdd
<1> QED  BY <1>2, <1>3, <1>4, <1>6 DEF longer

LEMMA ScalarSumReplace ==
  ASSUME NEW list \in Seq(Scalars), NEW d \in 1 .. Len(list), list[d] = ZERO_TWEAK, NEW x \in Scalars
  PROVE  ScalarSum([list EXCEPT ![d] = x]) = Plus(ScalarSum(list), x)
<1> DEFINE other == [list EXCEPT ![d] = x]
<1>1. other \in Seq(Scalars) OBVIOUS
<1>2. MonoidSum(other, scalarAdd, ZERO_TWEAK) = scalarAdd[MonoidSum(list, scalarAdd, ZERO_TWEAK)][x]
  BY SumReplace, ScalarsMonoid
<1> HIDE DEF other
<1>3. ScalarSum(other) = MonoidSum(other, scalarAdd, ZERO_TWEAK) BY <1>1, ScalarSumIsMonoidSum
<1>4. ScalarSum(list) = MonoidSum(list, scalarAdd, ZERO_TWEAK) BY ScalarSumIsMonoidSum
<1>5. ScalarSum(list) \in Scalars BY ScalarSumType
<1> DEFINE a == ScalarSum(list)
<1>6. scalarAdd[a][x] = Plus(a, x) BY <1>5 DEF scalarAdd
<1> QED  BY <1>2, <1>3, <1>4, <1>6 DEF other

LEMMA ValueSumEmpty == ValueSum(<< >>) = NoValue
<1>1. << >> \in Seq([Tokens -> Nat]) OBVIOUS
<1>2. ValueSum(<< >>) = MonoidSum(<< >>, valueAdd, NoValue) BY <1>1, ValueSumIsMonoidSum
<1> QED  BY <1>2, SumEmpty, ValuesMonoid

LEMMA ValueSumType ==
  ASSUME NEW list \in Seq([Tokens -> Nat])
  PROVE  ValueSum(list) \in [Tokens -> Nat]
<1>1. MonoidSum(list, valueAdd, NoValue) \in [Tokens -> Nat] BY SumType, ValuesMonoid
<1> QED  BY <1>1, ValueSumIsMonoidSum

LEMMA ValueSumOfZeros ==
  ASSUME NEW list \in Seq([Tokens -> Nat]), \A k \in 1 .. Len(list) : list[k] = NoValue
  PROVE  ValueSum(list) = NoValue
<1> DEFINE V == [Tokens -> Nat]
<1>1. IsMonoid(V, valueAdd, NoValue) BY ValuesMonoid
<1>2. list \in Seq(V) OBVIOUS
<1>3. ValueSum(list) = MonoidSum(list, valueAdd, NoValue) BY ValueSumIsMonoidSum
<1> HIDE DEF V
<1>4. MonoidSum(list, valueAdd, NoValue) = NoValue BY <1>1, <1>2, SumOfZeros
<1> QED  BY <1>3, <1>4

LEMMA ValueSumAppend ==
  ASSUME NEW list \in Seq([Tokens -> Nat]), NEW x \in [Tokens -> Nat]
  PROVE  ValueSum(Append(list, x)) = AddValue(ValueSum(list), x)
<1> DEFINE longer == Append(list, x)
<1>1. longer \in Seq([Tokens -> Nat]) OBVIOUS
<1>2. MonoidSum(longer, valueAdd, NoValue) = valueAdd[MonoidSum(list, valueAdd, NoValue)][x]
  BY SumAppend, ValuesMonoid
<1> HIDE DEF longer
<1>3. ValueSum(longer) = MonoidSum(longer, valueAdd, NoValue) BY <1>1, ValueSumIsMonoidSum
<1>4. ValueSum(list) = MonoidSum(list, valueAdd, NoValue) BY ValueSumIsMonoidSum
<1>5. ValueSum(list) \in [Tokens -> Nat] BY ValueSumType
<1> DEFINE a == ValueSum(list)
<1>6. valueAdd[a][x] = AddValue(a, x) BY <1>5 DEF valueAdd
<1> QED  BY <1>2, <1>3, <1>4, <1>6 DEF longer

LEMMA ValueSumReplace ==
  ASSUME NEW list \in Seq([Tokens -> Nat]), NEW d \in 1 .. Len(list), list[d] = NoValue,
         NEW x \in [Tokens -> Nat]
  PROVE  ValueSum([list EXCEPT ![d] = x]) = AddValue(ValueSum(list), x)
<1> DEFINE other == [list EXCEPT ![d] = x]
<1>1. other \in Seq([Tokens -> Nat]) OBVIOUS
<1>2. MonoidSum(other, valueAdd, NoValue) = valueAdd[MonoidSum(list, valueAdd, NoValue)][x]
  <2> DEFINE V == [Tokens -> Nat]
  <2>1. IsMonoid(V, valueAdd, NoValue) /\ Commutes(V, valueAdd) BY ValuesMonoid
  <2>2. list \in Seq(V) /\ x \in V OBVIOUS
  <2> HIDE DEF V
  <2> QED  BY <2>1, <2>2, SumReplace
<1> HIDE DEF other
<1>3. ValueSum(other) = MonoidSum(other, valueAdd, NoValue) BY <1>1, ValueSumIsMonoidSum
<1>4. ValueSum(list) = MonoidSum(list, valueAdd, NoValue) BY ValueSumIsMonoidSum
<1>5. ValueSum(list) \in [Tokens -> Nat] BY ValueSumType
<1> DEFINE a == ValueSum(list)
<1>6. valueAdd[a][x] = AddValue(a, x) BY <1>5 DEF valueAdd
<1> QED  BY <1>2, <1>3, <1>4, <1>6 DEF other

LEMMA PointSumEmpty == PointSum(<< >>) = Identity
<1>1. << >> \in Seq(Point) OBVIOUS
<1>2. PointSum(<< >>) = MonoidSum(<< >>, pointAdd, Identity) BY <1>1, PointSumIsMonoidSum
<1> QED  BY <1>2, SumEmpty, PointsMonoid

LEMMA PointSumType ==
  ASSUME NEW list \in Seq(Point)
  PROVE  PointSum(list) \in Point
<1>1. MonoidSum(list, pointAdd, Identity) \in Point BY SumType, PointsMonoid
<1> QED  BY <1>1, PointSumIsMonoidSum

LEMMA PointSumOfZeros ==
  ASSUME NEW list \in Seq(Point), \A k \in 1 .. Len(list) : list[k] = Identity
  PROVE  PointSum(list) = Identity
<1>1. IsMonoid(Point, pointAdd, Identity) BY PointsMonoid
<1>2. PointSum(list) = MonoidSum(list, pointAdd, Identity) BY PointSumIsMonoidSum
<1>3. MonoidSum(list, pointAdd, Identity) = Identity BY <1>1, SumOfZeros
<1> QED  BY <1>2, <1>3

LEMMA PointSumAppend ==
  ASSUME NEW list \in Seq(Point), NEW x \in Point
  PROVE  PointSum(Append(list, x)) = PointAdd(PointSum(list), x)
<1> DEFINE longer == Append(list, x)
<1>1. longer \in Seq(Point) OBVIOUS
<1>2. MonoidSum(longer, pointAdd, Identity) = pointAdd[MonoidSum(list, pointAdd, Identity)][x]
  BY SumAppend, PointsMonoid
<1> HIDE DEF longer
<1>3. PointSum(longer) = MonoidSum(longer, pointAdd, Identity) BY <1>1, PointSumIsMonoidSum
<1>4. PointSum(list) = MonoidSum(list, pointAdd, Identity) BY PointSumIsMonoidSum
<1>5. PointSum(list) \in Point BY PointSumType
<1> DEFINE a == PointSum(list)
<1>6. pointAdd[a][x] = PointAdd(a, x) BY <1>5 DEF pointAdd
<1> QED  BY <1>2, <1>3, <1>4, <1>6 DEF longer

LEMMA PointSumConcat ==
  ASSUME NEW left \in Seq(Point), NEW right \in Seq(Point)
  PROVE  PointSum(left \o right) = PointAdd(PointSum(left), PointSum(right))
<1> DEFINE both == left \o right
<1>1. both \in Seq(Point) OBVIOUS
<1>2. MonoidSum(both, pointAdd, Identity)
        = pointAdd[MonoidSum(left, pointAdd, Identity)][MonoidSum(right, pointAdd, Identity)]
  BY SumConcat, PointsMonoid
<1> HIDE DEF both
<1>3. PointSum(both) = MonoidSum(both, pointAdd, Identity) BY <1>1, PointSumIsMonoidSum
<1>4. PointSum(left) = MonoidSum(left, pointAdd, Identity) BY PointSumIsMonoidSum
<1>5. PointSum(right) = MonoidSum(right, pointAdd, Identity) BY PointSumIsMonoidSum
<1> DEFINE a == PointSum(left)
           b == PointSum(right)
<1>6. a \in Point BY PointSumType
<1>7. b \in Point BY PointSumType
<1> HIDE DEF a, b
<1>8. pointAdd[a][b] = PointAdd(a, b) BY <1>6, <1>7 DEF pointAdd
<1> QED  BY <1>2, <1>3, <1>4, <1>5, <1>8 DEF both, a, b

LEMMA PointSumReplace ==
  ASSUME NEW list \in Seq(Point), NEW d \in 1 .. Len(list), list[d] = Identity, NEW x \in Point
  PROVE  PointSum([list EXCEPT ![d] = x]) = PointAdd(PointSum(list), x)
<1> DEFINE other == [list EXCEPT ![d] = x]
<1>1. other \in Seq(Point) OBVIOUS
<1>2. MonoidSum(other, pointAdd, Identity) = pointAdd[MonoidSum(list, pointAdd, Identity)][x]
  BY SumReplace, PointsMonoid
<1> HIDE DEF other
<1>3. PointSum(other) = MonoidSum(other, pointAdd, Identity) BY <1>1, PointSumIsMonoidSum
<1>4. PointSum(list) = MonoidSum(list, pointAdd, Identity) BY PointSumIsMonoidSum
<1>5. PointSum(list) \in Point BY PointSumType
<1> DEFINE a == PointSum(list)
<1>6. pointAdd[a][x] = PointAdd(a, x) BY <1>5 DEF pointAdd
<1> QED  BY <1>2, <1>3, <1>4, <1>6 DEF other

LEMMA JoinedEmpty == Joined(<< >>) = << >>
<1>1. << >> \in Seq(Seq(Point)) OBVIOUS
<1>2. Joined(<< >>) = MonoidSum(<< >>, pointsJoin, << >>) BY <1>1, JoinedIsMonoidSum
<1> QED  BY <1>2, SumEmpty, PointListsMonoid

LEMMA JoinedType ==
  ASSUME NEW list \in Seq(Seq(Point))
  PROVE  Joined(list) \in Seq(Point)
<1>1. MonoidSum(list, pointsJoin, << >>) \in Seq(Point) BY SumType, PointListsMonoid
<1> QED  BY <1>1, JoinedIsMonoidSum

LEMMA JoinedAppend ==
  ASSUME NEW list \in Seq(Seq(Point)), NEW x \in Seq(Point)
  PROVE  Joined(Append(list, x)) = Joined(list) \o x
<1> DEFINE longer == Append(list, x)
<1>1. longer \in Seq(Seq(Point)) OBVIOUS
<1>2. MonoidSum(longer, pointsJoin, << >>) = pointsJoin[MonoidSum(list, pointsJoin, << >>)][x]
  BY SumAppend, PointListsMonoid
<1> HIDE DEF longer
<1>3. Joined(longer) = MonoidSum(longer, pointsJoin, << >>) BY <1>1, JoinedIsMonoidSum
<1>4. Joined(list) = MonoidSum(list, pointsJoin, << >>) BY JoinedIsMonoidSum
<1>5. Joined(list) \in Seq(Point) BY JoinedType
<1> DEFINE a == Joined(list)
<1>6. pointsJoin[a][x] = a \o x BY <1>5 DEF pointsJoin
<1> QED  BY <1>2, <1>3, <1>4, <1>6 DEF longer

LEMMA JoinedConcat ==
  ASSUME NEW left \in Seq(Seq(Point)), NEW right \in Seq(Seq(Point))
  PROVE  Joined(left \o right) = Joined(left) \o Joined(right)
<1> DEFINE both == left \o right
<1>1. both \in Seq(Seq(Point)) OBVIOUS
<1>2. MonoidSum(both, pointsJoin, << >>)
        = pointsJoin[MonoidSum(left, pointsJoin, << >>)][MonoidSum(right, pointsJoin, << >>)]
  BY SumConcat, PointListsMonoid
<1> HIDE DEF both
<1>3. Joined(both) = MonoidSum(both, pointsJoin, << >>) BY <1>1, JoinedIsMonoidSum
<1>4. Joined(left) = MonoidSum(left, pointsJoin, << >>) BY JoinedIsMonoidSum
<1>5. Joined(right) = MonoidSum(right, pointsJoin, << >>) BY JoinedIsMonoidSum
<1> DEFINE a == Joined(left)
           b == Joined(right)
<1>6. a \in Seq(Point) BY JoinedType
<1>7. b \in Seq(Point) BY JoinedType
<1> HIDE DEF a, b
<1>8. pointsJoin[a][b] = a \o b BY <1>6, <1>7 DEF pointsJoin
<1> QED  BY <1>2, <1>3, <1>4, <1>5, <1>8 DEF both, a, b

=============================================================================
