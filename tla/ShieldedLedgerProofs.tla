------------------------ MODULE ShieldedLedgerProofs ------------------------
(***************************************************************************)
(* Proofs about ShieldedLedger, for every order of the group, word size,   *)
(* set of tokens, size of a transaction and finite transparent genesis.    *)
(***************************************************************************)
EXTENDS CommitmentsProofs, FunctionTheorems, FiniteSetTheorems, ShieldedLedger, TLAPS

----------------------------------------------------------------------------
(* Bags, by their copies.                                                  *)

Copies(e, B) == IF e \in DOMAIN B THEN B[e] ELSE 0

FiniteBag(B) == IsABag(B) /\ IsFiniteSet(DOMAIN B)

\* The copies in a bag are a natural number, positive for its elements.
LEMMA CopiesOfBag ==
  ASSUME NEW B, IsABag(B), NEW e
  PROVE  /\ Copies(e, B) \in Nat
         /\ Copies(e, B) = 0 <=> e \notin DOMAIN B
         /\ e \in DOMAIN B => B[e] = Copies(e, B)
BY DEF IsABag, Copies

\* Bags with the same copies are the same.
LEMMA SameCopies ==
  ASSUME NEW A, NEW B, IsABag(A), IsABag(B), \A e : Copies(e, A) = Copies(e, B)
  PROVE  A = B
<1>1. \A e : e \in DOMAIN A <=> e \in DOMAIN B BY CopiesOfBag
<1>2. DOMAIN A = DOMAIN B BY <1>1
<1>3. \A e \in DOMAIN A : A[e] = B[e] BY <1>2, CopiesOfBag
<1>4. A = [e \in DOMAIN A |-> A[e]] /\ B = [e \in DOMAIN B |-> B[e]] BY DEF IsABag
<1> QED  BY <1>2, <1>3, <1>4

\* Copies add up when bags are put together, and are taken away with a bag.
LEMMA AddCopies ==
  ASSUME NEW A, NEW B, IsABag(A), IsABag(B)
  PROVE  /\ IsABag(A (+) B) /\ DOMAIN (A (+) B) = DOMAIN A \cup DOMAIN B
         /\ \A e : Copies(e, A (+) B) = Copies(e, A) + Copies(e, B)
<1> DEFINE sum == A (+) B
<1>1. /\ DOMAIN sum = DOMAIN A \cup DOMAIN B
      /\ sum = [e \in DOMAIN A \cup DOMAIN B |-> Copies(e, A) + Copies(e, B)]
  BY DEF (+), Copies
<1> HIDE DEF sum
<1>2. \A e : Copies(e, A) \in Nat /\ Copies(e, B) \in Nat BY CopiesOfBag
<1>3. \A e \in DOMAIN sum : sum[e] \in {n \in Nat : n > 0}
  <2> SUFFICES ASSUME NEW e \in DOMAIN sum PROVE sum[e] \in {n \in Nat : n > 0}
    OBVIOUS
  <2>1. Copies(e, A) # 0 \/ Copies(e, B) # 0 BY <1>1, CopiesOfBag
  <2>2. sum[e] = Copies(e, A) + Copies(e, B) BY <1>1
  <2> QED  BY <1>2, <2>1, <2>2
<1>4. IsABag(sum) BY <1>1, <1>3 DEF IsABag
<1>5. ASSUME NEW e PROVE Copies(e, sum) = Copies(e, A) + Copies(e, B)
  <2>1. CASE e \in DOMAIN sum BY <1>1, <2>1 DEF Copies
  <2>2. CASE e \notin DOMAIN sum BY <1>1, <2>2 DEF Copies
  <2> QED  BY <2>1, <2>2
<1> QED  BY <1>1, <1>4, <1>5 DEF sum

LEMMA TakeCopies ==
  ASSUME NEW A, NEW B, IsABag(A), IsABag(B)
  PROVE  /\ IsABag(A (-) B) /\ DOMAIN (A (-) B) \subseteq DOMAIN A
         /\ \A e : Copies(e, A (-) B) = IF Copies(e, A) > Copies(e, B)
                                        THEN Copies(e, A) - Copies(e, B) ELSE 0
<1> DEFINE rest == A (-) B
           stay == {e \in DOMAIN A : Copies(e, A) - Copies(e, B) > 0}
<1>1. rest = [e \in stay |-> Copies(e, A) - Copies(e, B)]
  <2> DEFINE D == [e \in DOMAIN A |-> IF e \in DOMAIN B THEN A[e] - B[e] ELSE A[e]]
  <2>1. rest = [e \in {d \in DOMAIN D : D[d] > 0} |-> D[e]] BY DEF (-)
  <2>2. \A e \in DOMAIN A : D[e] = Copies(e, A) - Copies(e, B)
    BY DEF Copies, IsABag
  <2>3. {d \in DOMAIN D : D[d] > 0} = stay BY <2>2
  <2> HIDE DEF D
  <2>4. \A e \in stay : D[e] = Copies(e, A) - Copies(e, B) BY <2>2
  <2> QED  BY <2>1, <2>3, <2>4
<1> HIDE DEF rest
<1>2. \A e : Copies(e, A) \in Nat /\ Copies(e, B) \in Nat BY CopiesOfBag
<1>3. DOMAIN rest = stay BY <1>1
<1>4. \A e \in stay : rest[e] \in {n \in Nat : n > 0} BY <1>1, <1>2
<1>5. IsABag(rest) BY <1>1, <1>3, <1>4 DEF IsABag
<1>6. ASSUME NEW e
      PROVE  Copies(e, rest) = IF Copies(e, A) > Copies(e, B)
                               THEN Copies(e, A) - Copies(e, B) ELSE 0
  <2>1. e \in stay <=> Copies(e, A) > Copies(e, B)
    <3>1. Copies(e, A) > Copies(e, B) => e \in DOMAIN A BY <1>2, CopiesOfBag
    <3> QED  BY <1>2, <3>1
  <2>2. CASE e \in stay
    <3>1. Copies(e, rest) = Copies(e, A) - Copies(e, B) BY <1>1, <1>3, <2>2 DEF Copies
    <3> QED  BY <2>1, <2>2, <3>1
  <2>3. CASE e \notin stay
    <3>1. Copies(e, rest) = 0 BY <1>3, <2>3 DEF Copies
    <3> QED  BY <2>1, <2>3, <3>1
  <2> QED  BY <2>2, <2>3
<1> QED  BY <1>3, <1>5, <1>6 DEF rest

\* A part of a bag has no more copies of anything.
LEMMA PartCopies ==
  ASSUME NEW A, NEW B, IsABag(A), IsABag(B)
  PROVE  A \sqsubseteq B <=> \A e : Copies(e, A) <= Copies(e, B)
<1>1. \A e : Copies(e, A) \in Nat /\ Copies(e, B) \in Nat BY CopiesOfBag
<1>2. ASSUME A \sqsubseteq B, NEW e PROVE Copies(e, A) <= Copies(e, B)
  <2>1. DOMAIN A \subseteq DOMAIN B /\ \A d \in DOMAIN A : A[d] <= B[d]
    BY <1>2 DEF \sqsubseteq
  <2>2. CASE e \in DOMAIN A BY <2>1, <2>2 DEF Copies
  <2>3. CASE e \notin DOMAIN A
    <3>1. Copies(e, A) = 0 BY <2>3 DEF Copies
    <3> QED  BY <1>1, <3>1
  <2> QED  BY <2>2, <2>3
<1>3. ASSUME \A e : Copies(e, A) <= Copies(e, B) PROVE A \sqsubseteq B
  <2>1. ASSUME NEW e \in DOMAIN A PROVE e \in DOMAIN B /\ A[e] <= B[e]
    <3>1. Copies(e, A) # 0 /\ Copies(e, A) <= Copies(e, B) BY <1>3, CopiesOfBag
    <3>2. Copies(e, B) # 0 BY <1>1, <3>1
    <3>3. e \in DOMAIN B BY <3>2, CopiesOfBag
    <3> QED  BY <3>1, <3>3, CopiesOfBag
  <2> QED  BY <2>1 DEF \sqsubseteq
<1> QED  BY <1>2, <1>3

\* What was taken from a bag can be put back, what was put in be taken out.
LEMMA PutBack ==
  ASSUME NEW A, NEW B, IsABag(A), IsABag(B), A \sqsubseteq B
  PROVE  (B (-) A) (+) A = B
<1> DEFINE rest == B (-) A
<1>1. IsABag(rest) /\ \A e : Copies(e, rest) = IF Copies(e, B) > Copies(e, A)
                                               THEN Copies(e, B) - Copies(e, A) ELSE 0
  BY TakeCopies
<1>2. \A e : Copies(e, A) \in Nat /\ Copies(e, B) \in Nat /\ Copies(e, A) <= Copies(e, B)
  BY CopiesOfBag, PartCopies
<1> HIDE DEF rest
<1>3. IsABag(rest (+) A) /\ \A e : Copies(e, rest (+) A) = Copies(e, rest) + Copies(e, A)
  BY <1>1, AddCopies
<1>4. \A e : Copies(e, rest (+) A) = Copies(e, B) BY <1>1, <1>2, <1>3
<1> QED  BY <1>3, <1>4, SameCopies DEF rest

LEMMA TakeOut ==
  ASSUME NEW A, NEW B, IsABag(A), IsABag(B)
  PROVE  (A (+) B) (-) A = B
<1> DEFINE sum == A (+) B
<1>1. IsABag(sum) /\ \A e : Copies(e, sum) = Copies(e, A) + Copies(e, B) BY AddCopies
<1>2. \A e : Copies(e, A) \in Nat /\ Copies(e, B) \in Nat BY CopiesOfBag
<1> HIDE DEF sum
<1>3. IsABag(sum (-) A)
      /\ \A e : Copies(e, sum (-) A) = IF Copies(e, sum) > Copies(e, A)
                                       THEN Copies(e, sum) - Copies(e, A) ELSE 0
  BY <1>1, TakeCopies
<1>4. \A e : Copies(e, sum (-) A) = Copies(e, B) BY <1>1, <1>2, <1>3
<1> QED  BY <1>3, <1>4, SameCopies DEF sum

\* Bags with finitely many copies in all.
LEMMA FiniteBags ==
  ASSUME NEW A, NEW B, FiniteBag(A), FiniteBag(B)
  PROVE  FiniteBag(A (+) B) /\ FiniteBag(A (-) B)
<1>1. IsABag(A (+) B) /\ DOMAIN (A (+) B) = DOMAIN A \cup DOMAIN B
      /\ IsABag(A (-) B) /\ DOMAIN (A (-) B) \in SUBSET DOMAIN A
  BY AddCopies, TakeCopies DEF FiniteBag
<1>2. IsFiniteSet(DOMAIN A \cup DOMAIN B) BY FS_Union DEF FiniteBag
<1>3. IsFiniteSet(DOMAIN (A (-) B)) BY <1>1, FS_Subset DEF FiniteBag
<1> QED  BY <1>1, <1>2, <1>3 DEF FiniteBag

\* One of something.
LEMMA OneCopy ==
  ASSUME NEW o
  PROVE  /\ FiniteBag(SetToBag({o})) /\ FiniteBag(SetToBag({}))
         /\ \A e : Copies(e, SetToBag({o})) = IF e = o THEN 1 ELSE 0
         /\ \A e : Copies(e, SetToBag({})) = 0
<1>1. IsABag(SetToBag({o})) /\ IsABag(SetToBag({})) BY DEF IsABag, SetToBag
<1>2. DOMAIN SetToBag({o}) = {o} /\ DOMAIN SetToBag({}) = {} BY DEF SetToBag
<1>3. \A e : Copies(e, SetToBag({o})) = IF e = o THEN 1 ELSE 0
  BY DEF Copies, SetToBag
<1>4. \A e : Copies(e, SetToBag({})) = 0 BY <1>2 DEF Copies
<1>5. IsFiniteSet(DOMAIN SetToBag({o})) /\ IsFiniteSet(DOMAIN SetToBag({}))
  <2>1. \A S : S = {o} \/ S = {} => IsFiniteSet(S) BY FS_Singleton, FS_EmptySet
  <2> QED  BY <1>2, <2>1
<1>6. FiniteBag(SetToBag({o})) /\ FiniteBag(SetToBag({})) BY <1>1, <1>5 DEF FiniteBag
<1> QED  BY <1>3, <1>4, <1>6

----------------------------------------------------------------------------
(* The ledger of a bag of outputs.                                         *)

\* The copies worth this, one by one.
LEMMA WorthThisIs ==
  ASSUME NEW B, IsABag(B), NEW worth, NEW x
  PROVE  x \in WorthThis(B, worth) <=>
           \E o \in DOMAIN B : /\ CommitmentOf(o).h = worth
                               /\ \E k \in 1 .. Copies(o, B) : x = <<o, k>>
<1>1. x \in WorthThis(B, worth) <=>
        \E o \in DOMAIN B : CommitmentOf(o).h = worth /\ x \in {o} \X (1 .. B[o])
  BY DEF WorthThis, BagToSet
<1>2. \A o \in DOMAIN B : B[o] = Copies(o, B) BY CopiesOfBag
<1>3. \A o : x \in {o} \X (1 .. Copies(o, B)) <=> \E k \in 1 .. Copies(o, B) : x = <<o, k>>
  OBVIOUS
<1> QED  BY <1>1, <1>2, <1>3

LEMMA WorthThisFinite ==
  ASSUME NEW B, FiniteBag(B), NEW worth
  PROVE  IsFiniteSet(WorthThis(B, worth))
<1> DEFINE S == {x \in DOMAIN B : CommitmentOf(x).h = worth}
           f == [o \in S |-> {o} \X (1 .. B[o])]
           T == {{o} \X (1 .. B[o]) : o \in S}
<1>1. IsFiniteSet(S) BY FS_Subset DEF FiniteBag
<1>2. f \in Surjection(S, T) BY DEF Surjection
<1>3. IsFiniteSet(T) BY <1>1, <1>2, FS_Surjection
<1>4. ASSUME NEW o \in S PROVE IsFiniteSet({o} \X (1 .. B[o]))
  <2>1. B[o] \in Int /\ 1 \in Int BY DEF FiniteBag, IsABag
  <2> QED  BY <2>1, FS_Interval, FS_Singleton, FS_Product
<1>5. \A U \in T : IsFiniteSet(U) BY <1>4
<1> HIDE DEF T
<1>6. IsFiniteSet(UNION T) BY <1>3, <1>5, FS_UNION
<1> QED  BY <1>6 DEF T, WorthThis, BagToSet

\* A ledger has as many coins of a worth as there are outputs worth this.
LEMMA LedgerCopies ==
  ASSUME NEW B, FiniteBag(B)
  PROVE  /\ IsABag(Ledger(B))
         /\ \A worth : Copies(worth, Ledger(B)) = IF worth = NoValue THEN 0
                                                  ELSE Cardinality(WorthThis(B, worth))
<1> DEFINE worths == {CommitmentOf(o).h : o \in DOMAIN B} \ {NoValue}
<1>1. Ledger(B) = [w \in worths |-> Cardinality(WorthThis(B, w))] BY DEF Ledger, BagToSet
<1>2. ASSUME NEW w PROVE Cardinality(WorthThis(B, w)) \in Nat
                         /\ (Cardinality(WorthThis(B, w)) = 0 <=> WorthThis(B, w) = {})
  BY WorthThisFinite, FS_CardinalityType, FS_EmptySet
<1>3. ASSUME NEW w PROVE WorthThis(B, w) = {} <=> \A o \in DOMAIN B : CommitmentOf(o).h # w
  <2>1. ASSUME NEW o \in DOMAIN B, CommitmentOf(o).h = w PROVE <<o, 1>> \in WorthThis(B, w)
    <3>1. Copies(o, B) \in Nat /\ Copies(o, B) # 0 BY CopiesOfBag DEF FiniteBag
    <3>2. 1 \in 1 .. Copies(o, B) BY <3>1
    <3> QED  BY <2>1, <3>2, WorthThisIs DEF FiniteBag
  <2>2. ASSUME NEW x \in WorthThis(B, w) PROVE \E o \in DOMAIN B : CommitmentOf(o).h = w
    BY WorthThisIs DEF FiniteBag
  <2> QED  BY <2>1, <2>2
<1>4. \A w \in worths : Cardinality(WorthThis(B, w)) \in {n \in Nat : n > 0}
  BY <1>2, <1>3
<1>5. IsABag(Ledger(B)) BY <1>1, <1>4 DEF IsABag
<1>6. ASSUME NEW w
      PROVE  Copies(w, Ledger(B)) = IF w = NoValue THEN 0 ELSE Cardinality(WorthThis(B, w))
  <2>1. DOMAIN Ledger(B) = worths BY <1>1
  <2>2. CASE w \in worths BY <1>1, <2>1, <2>2 DEF Copies
  <2>3. CASE w \notin worths
    <3>1. Copies(w, Ledger(B)) = 0 BY <2>1, <2>3 DEF Copies
    <3>2. w # NoValue => WorthThis(B, w) = {} BY <1>3, <2>3
    <3> QED  BY <1>2, <3>1, <3>2
  <2> QED  BY <2>2, <2>3
<1> QED  BY <1>5, <1>6

\* Two bags together have the copies worth this of both.
LEMMA WorthThisAdd ==
  ASSUME NEW A, NEW B, FiniteBag(A), FiniteBag(B), NEW worth
  PROVE  Cardinality(WorthThis(A (+) B, worth))
           = Cardinality(WorthThis(A, worth)) + Cardinality(WorthThis(B, worth))
<1> DEFINE both == A (+) B
           left == WorthThis(A, worth)
           right == WorthThis(B, worth)
           shift == [x \in right |-> <<x[1], x[2] + Copies(x[1], A)>>]
           moved == {shift[x] : x \in right}
<1>1. /\ IsABag(A) /\ IsABag(B) /\ IsABag(both)
      /\ DOMAIN both = DOMAIN A \cup DOMAIN B
      /\ \A o : /\ Copies(o, both) = Copies(o, A) + Copies(o, B)
                /\ Copies(o, A) \in Nat /\ Copies(o, B) \in Nat
                /\ Copies(o, A) = 0 <=> o \notin DOMAIN A
                /\ Copies(o, B) = 0 <=> o \notin DOMAIN B
  <2>1. IsABag(A) /\ IsABag(B) BY DEF FiniteBag
  <2>2. \A o : /\ Copies(o, A) \in Nat /\ Copies(o, B) \in Nat
               /\ Copies(o, A) = 0 <=> o \notin DOMAIN A
               /\ Copies(o, B) = 0 <=> o \notin DOMAIN B
    BY <2>1, CopiesOfBag
  <2>3. IsABag(both) /\ DOMAIN both = DOMAIN A \cup DOMAIN B
        /\ \A o : Copies(o, both) = Copies(o, A) + Copies(o, B)
    BY <2>1, AddCopies
  <2> HIDE DEF both
  <2> QED  BY <2>1, <2>2, <2>3
<1> HIDE DEF both
<1>2. ASSUME NEW o, NEW k
      PROVE  /\ <<o, k>> \in left <=> CommitmentOf(o).h = worth /\ k \in 1 .. Copies(o, A)
             /\ <<o, k>> \in right <=> CommitmentOf(o).h = worth /\ k \in 1 .. Copies(o, B)
             /\ <<o, k>> \in WorthThis(both, worth) <=>
                  CommitmentOf(o).h = worth /\ k \in 1 .. Copies(o, both)
  <2>1. \A D : IsABag(D) =>
          (<<o, k>> \in WorthThis(D, worth) <=>
             o \in DOMAIN D /\ CommitmentOf(o).h = worth /\ k \in 1 .. Copies(o, D))
    <3> SUFFICES ASSUME NEW D, IsABag(D)
                 PROVE  <<o, k>> \in WorthThis(D, worth) <=>
                          o \in DOMAIN D /\ CommitmentOf(o).h = worth /\ k \in 1 .. Copies(o, D)
      OBVIOUS
    <3> DEFINE x == <<o, k>>
    <3>1. x \in WorthThis(D, worth) <=>
            \E p \in DOMAIN D : /\ CommitmentOf(p).h = worth
                                /\ \E j \in 1 .. Copies(p, D) : x = <<p, j>>
      BY WorthThisIs
    <3>2. \A p, j : x = <<p, j>> <=> p = o /\ j = k OBVIOUS
    <3> HIDE DEF x
    <3> QED  BY <3>1, <3>2 DEF x
  <2>2. \A D : IsABag(D) /\ k \in 1 .. Copies(o, D) => o \in DOMAIN D
    BY CopiesOfBag
  <2> QED  BY <1>1, <2>1, <2>2
<1>3. \A x : x \in left \/ x \in right \/ x \in WorthThis(both, worth) => x = <<x[1], x[2]>>
  <2>1. \A x, D : IsABag(D) /\ x \in WorthThis(D, worth) => \E o, k : x = <<o, k>>
    BY WorthThisIs
  <2> QED  BY <1>1, <2>1
<1> HIDE DEF left, right
<1>4. ASSUME NEW x \in right
      PROVE  /\ shift[x] = <<x[1], x[2] + Copies(x[1], A)>>
             /\ x = <<x[1], x[2]>> /\ CommitmentOf(x[1]).h = worth
             /\ x[2] \in 1 .. Copies(x[1], B)
  <2>1. x = <<x[1], x[2]>> BY <1>3
  <2> DEFINE o == x[1]
             k == x[2]
  <2>2. <<o, k>> \in right BY <2>1
  <2> HIDE DEF o, k
  <2>3. CommitmentOf(o).h = worth /\ k \in 1 .. Copies(o, B) BY <1>2, <2>2
  <2> QED  BY <2>1, <2>3 DEF o, k
<1>5. ASSUME NEW o, NEW k
      PROVE  <<o, k>> \in moved <=>
               CommitmentOf(o).h = worth
               /\ k \in Copies(o, A) + 1 .. Copies(o, A) + Copies(o, B)
  <2>1. ASSUME NEW x \in right, <<o, k>> = shift[x]
        PROVE  CommitmentOf(o).h = worth
               /\ k \in Copies(o, A) + 1 .. Copies(o, A) + Copies(o, B)
    <3>1. o = x[1] /\ k = x[2] + Copies(x[1], A) BY <1>4, <2>1
    <3>2. CommitmentOf(o).h = worth /\ x[2] \in 1 .. Copies(o, B) BY <1>4, <3>1
    <3> QED  BY <1>1, <3>1, <3>2
  <2>2. ASSUME CommitmentOf(o).h = worth,
               k \in Copies(o, A) + 1 .. Copies(o, A) + Copies(o, B)
        PROVE  <<o, k>> \in moved
    <3> DEFINE j == k - Copies(o, A)
               x == <<o, j>>
    <3>1. j \in 1 .. Copies(o, B) /\ j + Copies(o, A) = k BY <1>1, <2>2
    <3> HIDE DEF j
    <3>2. x \in right BY <1>2, <2>2, <3>1
    <3>3. shift[x] = <<o, k>> BY <3>1, <3>2
    <3> HIDE DEF x, shift
    <3> QED  BY <3>2, <3>3
  <2> QED  BY <2>1, <2>2
<1>6. \A x \in moved : x = <<x[1], x[2]>> BY <1>4
<1>7. shift \in Bijection(right, moved)
  <2>1. shift \in [right -> moved] OBVIOUS
  <2>2. \A x \in right : shift[x] = <<x[1], x[2] + Copies(x[1], A)>> OBVIOUS
  <2>3. ASSUME NEW x \in right, NEW y \in right, shift[x] = shift[y] PROVE x = y
    <3>1. x[1] = y[1] /\ x[2] + Copies(x[1], A) = y[2] + Copies(x[1], A) BY <2>2, <2>3
    <3>2. x[2] \in 1 .. Copies(x[1], B) /\ y[2] \in 1 .. Copies(y[1], B) BY <1>4
    <3>3. x[2] = y[2] BY <1>1, <3>1, <3>2
    <3> QED  BY <1>4, <3>1, <3>3
  <2>4. \A z \in moved : \E x \in right : shift[x] = z OBVIOUS
  <2> HIDE DEF shift, moved
  <2> QED  BY <2>1, <2>3, <2>4, Fun_IsBij
<1>8. IsFiniteSet(left) /\ IsFiniteSet(right) BY WorthThisFinite DEF left, right
<1>9. IsFiniteSet(moved) /\ Cardinality(moved) = Cardinality(right)
  <2>1. ExistsBijection(right, moved) BY <1>7 DEF ExistsBijection
  <2> QED  BY <1>8, <2>1, FS_Bijection
<1> HIDE DEF moved, shift
<1>10. WorthThis(both, worth) = left \cup moved
  <2>1. ASSUME NEW o, NEW k
        PROVE  <<o, k>> \in WorthThis(both, worth) <=> <<o, k>> \in left \/ <<o, k>> \in moved
    BY <1>1, <1>2, <1>5
  <2>2. \A x : x \in left \/ x \in moved \/ x \in WorthThis(both, worth) => x = <<x[1], x[2]>>
    BY <1>3, <1>6
  <2> QED  BY <2>1, <2>2
<1>11. left \cap moved = {}
  <2> SUFFICES ASSUME NEW x \in left, x \in moved PROVE FALSE
    OBVIOUS
  <2> DEFINE o == x[1]
             k == x[2]
  <2>1. x = <<o, k>> BY <1>3
  <2> HIDE DEF o, k
  <2>2. k \in 1 .. Copies(o, A) /\ k \in Copies(o, A) + 1 .. Copies(o, A) + Copies(o, B)
    BY <1>2, <1>5, <2>1
  <2> QED  BY <1>1, <2>2
<1>12. Cardinality(left \cup moved) = Cardinality(left) + Cardinality(moved)
  <2>1. Cardinality(left \cup moved)
          = Cardinality(left) + Cardinality(moved) - Cardinality(left \cap moved)
    BY <1>8, <1>9, FS_Union
  <2>2. Cardinality(left \cap moved) = 0 BY <1>11, FS_EmptySet
  <2>3. Cardinality(left) \in Nat /\ Cardinality(moved) \in Nat
    BY <1>8, <1>9, FS_CardinalityType
  <2> QED  BY <2>1, <2>2, <2>3
<1> QED  BY <1>9, <1>10, <1>12 DEF both, left, right

\* The ledger of two bags is their two ledgers together.
LEMMA LedgerAdd ==
  ASSUME NEW A, NEW B, FiniteBag(A), FiniteBag(B)
  PROVE  Ledger(A (+) B) = Ledger(A) (+) Ledger(B)
<1> DEFINE both == A (+) B
           sum == Ledger(A) (+) Ledger(B)
<1>1. FiniteBag(both) BY FiniteBags
<1>2. /\ IsABag(Ledger(A)) /\ IsABag(Ledger(B)) /\ IsABag(Ledger(both))
      /\ \A w : Copies(w, Ledger(A)) = IF w = NoValue THEN 0
                                       ELSE Cardinality(WorthThis(A, w))
      /\ \A w : Copies(w, Ledger(B)) = IF w = NoValue THEN 0
                                       ELSE Cardinality(WorthThis(B, w))
      /\ \A w : Copies(w, Ledger(both)) = IF w = NoValue THEN 0
                                          ELSE Cardinality(WorthThis(both, w))
  BY <1>1, LedgerCopies
<1>3. IsABag(sum) /\ \A w : Copies(w, sum) = Copies(w, Ledger(A)) + Copies(w, Ledger(B))
  BY <1>2, AddCopies
<1>4. \A w : Cardinality(WorthThis(both, w))
               = Cardinality(WorthThis(A, w)) + Cardinality(WorthThis(B, w))
  BY WorthThisAdd
<1> HIDE DEF both, sum
<1>5. \A w : Copies(w, Ledger(both)) = Copies(w, sum) BY <1>2, <1>3, <1>4
<1>6. Ledger(both) = sum BY <1>2, <1>3, <1>5, SameCopies
<1> QED  BY <1>6 DEF both, sum

\* An output is one coin of what it is worth, if anything.
LEMMA LedgerOne ==
  ASSUME NEW o
  PROVE  LET worth == CommitmentOf(o).h
         IN  Ledger(SetToBag({o}))
               = IF worth = NoValue THEN SetToBag({}) ELSE SetToBag({worth})
<1> DEFINE worth == CommitmentOf(o).h
           one == SetToBag({o})
<1>1. FiniteBag(one) /\ IsABag(one) /\ DOMAIN one = {o} /\ Copies(o, one) = 1
  BY OneCopy DEF FiniteBag, SetToBag
<1> HIDE DEF one
<1>2. WorthThis(one, worth) = {<<o, 1>>}
  <2>1. ASSUME NEW x PROVE x \in WorthThis(one, worth) <=> x = <<o, 1>>
    BY <1>1, WorthThisIs
  <2> QED  BY <2>1
<1>3. ASSUME NEW w, w # worth PROVE WorthThis(one, w) = {}
  <2>1. ASSUME NEW x PROVE x \notin WorthThis(one, w)
    BY <1>1, <1>3, WorthThisIs
  <2> QED  BY <2>1
<1>4. Cardinality(WorthThis(one, worth)) = 1 BY <1>2, FS_Singleton
<1>5. \A w : w # worth => Cardinality(WorthThis(one, w)) = 0 BY <1>3, FS_EmptySet
<1> DEFINE coins == IF worth = NoValue THEN SetToBag({}) ELSE SetToBag({worth})
<1>6. IsABag(coins) /\ \A w : Copies(w, coins) = IF w = worth /\ w # NoValue THEN 1 ELSE 0
  <2>1. CASE worth = NoValue BY <2>1, OneCopy DEF FiniteBag
  <2>2. CASE worth # NoValue BY <2>2, OneCopy DEF FiniteBag
  <2> QED  BY <2>1, <2>2
<1>7. IsABag(Ledger(one))
      /\ \A w : Copies(w, Ledger(one)) = IF w = NoValue THEN 0
                                         ELSE Cardinality(WorthThis(one, w))
  BY <1>1, LedgerCopies
<1> HIDE DEF worth, coins
<1>8. \A w : Copies(w, Ledger(one)) = Copies(w, coins) BY <1>4, <1>5, <1>6, <1>7
<1>9. Ledger(one) = coins BY <1>6, <1>7, <1>8, SameCopies
<1> QED  BY <1>9 DEF one, coins, worth

----------------------------------------------------------------------------
(* What a bag of coins is worth.                                           *)

Total(bag) == Abstract!Total(bag)

\* f counts the coins in a token of one unit, of two units, and so on.
CountsUp(f, bag, t) ==
  f[0] = 0 /\ \A k \in 1 .. MaxWord : f[k] = f[k - 1] + k * Copies(Units(k, t), bag)

LEMMA TotalCounts ==
  ASSUME NEW bag, IsABag(bag), NEW t \in Tokens
  PROVE  \E f \in [0 .. MaxWord -> Nat] : CountsUp(f, bag, t) /\ Total(bag)[t] = f[MaxWord]
<1> DEFINE copies == [k \in 0 .. MaxWord |-> Copies(Units(k, t), bag)]
           step == [k \in 1 .. MaxWord |-> [x \in Nat |-> x + k * copies[k]]]
           Counts(f) == f = [k \in 0 .. MaxWord |->
                               IF k = 0 THEN 0
                               ELSE f[k - 1] + k * Abstract!Copies(Abstract!Coin(k, t), bag)]
<1>1. MaxWord \in Nat BY LedgerAssumption
<1>2. copies \in [0 .. MaxWord -> Nat] BY CopiesOfBag
<1>3. \A k \in 0 .. MaxWord : copies[k] = Copies(Units(k, t), bag) OBVIOUS
<1>4. Total(bag)[t] = (CHOOSE f : Counts(f))[MaxWord] BY DEF Total, Abstract!Total
<1>0. \A k \in 0 .. MaxWord : Abstract!Copies(Abstract!Coin(k, t), bag) = copies[k]
  BY DEF Abstract!Copies, Abstract!Coin, Copies, Units, Abstract!BagIn, Abstract!BagToSet
<1> HIDE DEF copies
<1>5. step \in [1 .. MaxWord -> [Nat -> Nat]]
  <2>1. ASSUME NEW k \in 1 .. MaxWord, NEW x \in Nat PROVE x + k * copies[k] \in Nat
    <3>1. copies[k] \in Nat /\ k \in Nat BY <1>1, <1>2
    <3>2. k * copies[k] \in Nat BY <3>1
    <3> QED  BY <3>2
  <2> QED  BY <2>1
<1>6. PICK f \in [0 .. MaxWord -> Nat] : IsRecursion(f, MaxWord, 0, step)
  <2> HIDE DEF step
  <2> QED  BY <1>1, <1>5, RecursionExists
<1>7. Counts(f)
  <2>1. ASSUME NEW k \in 0 .. MaxWord
        PROVE  f[k] = IF k = 0 THEN 0 ELSE f[k - 1] + k * copies[k]
    <3>1. f[k] = IF k = 0 THEN 0 ELSE step[k][f[k - 1]] BY <1>6 DEF IsRecursion
    <3>2. k # 0 => k \in 1 .. MaxWord /\ f[k - 1] \in Nat BY <1>1
    <3> QED  BY <3>1, <3>2
  <2>2. ASSUME NEW k \in 0 .. MaxWord
        PROVE  f[k] = IF k = 0 THEN 0
                      ELSE f[k - 1] + k * Abstract!Copies(Abstract!Coin(k, t), bag)
    BY <1>0, <2>1
  <2>3. f = [k \in 0 .. MaxWord |-> f[k]] OBVIOUS
  <2> QED  BY <2>2, <2>3
<1> DEFINE g == CHOOSE g : Counts(g)
<1>8. Counts(g) BY <1>7
<1>9. Total(bag)[t] = g[MaxWord] BY <1>4
<1> HIDE DEF g
<1>10. g[0] = 0 /\ \A k \in 1 .. MaxWord : g[k] = g[k - 1] + k * copies[k] BY <1>0, <1>1, <1>8
<1>11. GoOnAlike(f, g, MaxWord)
  <2>1. f[0] = 0 /\ \A k \in 1 .. MaxWord : f[k] = f[k - 1] + k * copies[k] BY <1>0, <1>1, <1>7
  <2> QED  BY <1>10, <2>1 DEF GoOnAlike
<1>12. \A k \in 0 .. MaxWord : f[k] = g[k] BY <1>1, <1>11, Alike DEF AreAlike
<1>13. f[MaxWord] = g[MaxWord] BY <1>1, <1>12
<1>14. CountsUp(f, bag, t)
  <2>1. f[0] = 0 /\ \A k \in 1 .. MaxWord : f[k] = f[k - 1] + k * copies[k] BY <1>0, <1>1, <1>7
  <2>2. \A k \in 1 .. MaxWord : copies[k] = Copies(Units(k, t), bag)
    BY <1>1 DEF copies
  <2> QED  BY <2>1, <2>2 DEF CountsUp
<1> QED  BY <1>9, <1>13, <1>14

\* What a bag is worth is a number of units of each token.
LEMMA TotalType ==
  ASSUME NEW bag, IsABag(bag)
  PROVE  Total(bag) \in [Tokens -> Nat]
<1>1. ASSUME NEW t \in Tokens PROVE Total(bag)[t] \in Nat
  <2>1. MaxWord \in 0 .. MaxWord BY LedgerAssumption
  <2> QED  BY <2>1, TotalCounts
<1>2. Total(bag) = [t \in Tokens |-> Total(bag)[t]] BY DEF Total, Abstract!Total
<1> QED  BY <1>1, <1>2

\* Whatever counts up like a total is the total.
LEMMA TotalIs ==
  ASSUME NEW bag, IsABag(bag), NEW t \in Tokens, NEW f, CountsUp(f, bag, t)
  PROVE  Total(bag)[t] = f[MaxWord]
<1>1. PICK g \in [0 .. MaxWord -> Nat] : CountsUp(g, bag, t) /\ Total(bag)[t] = g[MaxWord]
  BY TotalCounts
<1>2. MaxWord \in Nat BY LedgerAssumption
<1>3. GoOnAlike(f, g, MaxWord) BY <1>1 DEF CountsUp, GoOnAlike
<1>4. \A k \in 0 .. MaxWord : f[k] = g[k] BY <1>2, <1>3, Alike DEF AreAlike
<1> QED  BY <1>1, <1>2, <1>4

\* Two bags together are worth what both are.
LEMMA TotalAdd ==
  ASSUME NEW A, NEW B, IsABag(A), IsABag(B)
  PROVE  Total(A (+) B) = AddValue(Total(A), Total(B))
<1> DEFINE both == A (+) B
<1>1. IsABag(both) /\ \A e : Copies(e, both) = Copies(e, A) + Copies(e, B) BY AddCopies
<1> HIDE DEF both
<1>2. MaxWord \in Nat BY LedgerAssumption
<1>3. ASSUME NEW t \in Tokens PROVE Total(both)[t] = Total(A)[t] + Total(B)[t]
  <2>1. PICK f \in [0 .. MaxWord -> Nat] : CountsUp(f, A, t) /\ Total(A)[t] = f[MaxWord]
    BY TotalCounts
  <2>2. PICK g \in [0 .. MaxWord -> Nat] : CountsUp(g, B, t) /\ Total(B)[t] = g[MaxWord]
    BY TotalCounts
  <2> DEFINE h == [k \in 0 .. MaxWord |-> f[k] + g[k]]
  <2>3. h[0] = 0 BY <1>2, <2>1, <2>2 DEF CountsUp
  <2>4. ASSUME NEW k \in 1 .. MaxWord
        PROVE  h[k] = h[k - 1] + k * Copies(Units(k, t), both)
    <3> DEFINE a == Copies(Units(k, t), A)
               b == Copies(Units(k, t), B)
    <3>1. a \in Nat /\ b \in Nat /\ Copies(Units(k, t), both) = a + b
      BY <1>1, CopiesOfBag
    <3>2. f[k] = f[k - 1] + k * a /\ g[k] = g[k - 1] + k * b BY <2>1, <2>2 DEF CountsUp
    <3>3. k \in 0 .. MaxWord /\ k - 1 \in 0 .. MaxWord /\ k \in Nat BY <1>2
    <3>4. f[k - 1] \in Nat /\ g[k - 1] \in Nat BY <3>3
    <3>5. h[k] = f[k] + g[k] /\ h[k - 1] = f[k - 1] + g[k - 1] BY <3>3
    <3> HIDE DEF a, b, h
    <3>6. k * (a + b) = k * a + k * b /\ k * a \in Nat /\ k * b \in Nat BY <3>1, <3>3
    <3> QED  BY <3>1, <3>2, <3>4, <3>5, <3>6
  <2> HIDE DEF h
  <2>5. CountsUp(h, both, t) BY <2>3, <2>4 DEF CountsUp
  <2>6. Total(both)[t] = h[MaxWord] BY <1>1, <2>5, TotalIs
  <2> QED  BY <1>2, <2>1, <2>2, <2>6 DEF h
<1>4. Total(both) = [t \in Tokens |-> Total(both)[t]] BY DEF Total, Abstract!Total
<1> QED  BY <1>3, <1>4 DEF both, AddValue

\* No coins are worth nothing, and one is worth its units.
LEMMA TotalNothing == Total(SetToBag({})) = NoValue
<1> DEFINE none == SetToBag({})
<1>1. IsABag(none) /\ \A e : Copies(e, none) = 0 BY OneCopy DEF FiniteBag
<1> HIDE DEF none
<1>2. MaxWord \in Nat BY LedgerAssumption
<1>3. ASSUME NEW t \in Tokens PROVE Total(none)[t] = 0
  <2> DEFINE f == [k \in 0 .. MaxWord |-> 0]
  <2>1. CountsUp(f, none, t) BY <1>1, <1>2 DEF CountsUp
  <2>2. f[MaxWord] = 0 BY <1>2
  <2> HIDE DEF f
  <2> QED  BY <1>1, <2>1, <2>2, TotalIs
<1>4. Total(none) = [t \in Tokens |-> Total(none)[t]] BY DEF Total, Abstract!Total
<1> QED  BY <1>3, <1>4 DEF none, NoValue

\* Units of a token tell how many and of which.
LEMMA UnitsAre ==
  ASSUME NEW v \in Nat \ {0}, NEW t \in Tokens, NEW w \in Nat, NEW u \in Tokens
  PROVE  Units(v, t) = Units(w, u) <=> v = w /\ t = u
<1>1. ASSUME Units(v, t) = Units(w, u) PROVE v = w /\ t = u
  <2>1. Units(v, t)[t] = v /\ Units(w, u)[t] = IF t = u THEN w ELSE 0 BY DEF Units
  <2> QED  BY <1>1, <2>1
<1> QED  BY <1>1

LEMMA TotalOne ==
  ASSUME NEW v \in 1 .. MaxWord, NEW t \in Tokens
  PROVE  Total(SetToBag({Units(v, t)})) = Units(v, t)
<1> DEFINE one == SetToBag({Units(v, t)})
<1>1. IsABag(one) /\ \A e : Copies(e, one) = IF e = Units(v, t) THEN 1 ELSE 0
  BY OneCopy DEF FiniteBag
<1> HIDE DEF one
<1>2. MaxWord \in Nat /\ v \in Nat \ {0} /\ v <= MaxWord BY LedgerAssumption
<1>3. ASSUME NEW u \in Tokens PROVE Total(one)[u] = Units(v, t)[u]
  <2> DEFINE f == [k \in 0 .. MaxWord |-> IF u = t /\ k >= v THEN v ELSE 0]
  <2>1. f[0] = 0 BY <1>2
  <2>2. ASSUME NEW k \in 1 .. MaxWord
        PROVE  f[k] = f[k - 1] + k * Copies(Units(k, u), one)
    <3>1. k \in Nat \ {0} /\ k \in 0 .. MaxWord /\ k - 1 \in 0 .. MaxWord BY <1>2
    <3>2. Copies(Units(k, u), one) = IF k = v /\ u = t THEN 1 ELSE 0
      BY <1>1, <1>2, <3>1, UnitsAre
    <3>3. f[k] = (IF u = t /\ k >= v THEN v ELSE 0)
          /\ f[k - 1] = (IF u = t /\ k - 1 >= v THEN v ELSE 0)
      BY <3>1
    <3> HIDE DEF f
    <3>4. CASE k = v /\ u = t BY <1>2, <3>1, <3>2, <3>3, <3>4
    <3>5. CASE ~(k = v /\ u = t)
      <4>1. k * 0 = 0 BY <3>1
      <4> QED  BY <1>2, <3>1, <3>2, <3>3, <3>5, <4>1
    <3> QED  BY <3>4, <3>5
  <2>3. f[MaxWord] = IF u = t THEN v ELSE 0 BY <1>2
  <2> HIDE DEF f
  <2>4. CountsUp(f, one, u) BY <2>1, <2>2 DEF CountsUp
  <2>5. Total(one)[u] = f[MaxWord] BY <1>1, <2>4, TotalIs
  <2> QED  BY <2>3, <2>5 DEF Units
<1>4. Total(one) = [u \in Tokens |-> Total(one)[u]] BY DEF Total, Abstract!Total
<1> QED  BY <1>3, <1>4 DEF one, Units

\* An output that hides units of one token is worth them.
LEMMA WorthOfOne ==
  ASSUME NEW o, NEW v \in Amounts, NEW t \in Tokens, CommitmentOf(o).h = Units(v, t)
  PROVE  Total(Ledger(SetToBag({o}))) = Units(v, t)
<1>1. v \in 0 .. MaxWord BY LedgerAssumption
<1>2. CASE v = 0
  <2>1. Units(v, t) = NoValue BY <1>2 DEF Units, NoValue
  <2>2. Ledger(SetToBag({o})) = SetToBag({}) BY <2>1, LedgerOne
  <2> QED  BY <2>1, <2>2, TotalNothing
<1>3. CASE v # 0
  <2>1. v \in 1 .. MaxWord BY <1>1, <1>3
  <2>2. Units(v, t) # NoValue
    <3>1. Units(v, t)[t] = v /\ NoValue[t] = 0 BY DEF Units, NoValue
    <3> QED  BY <1>3, <3>1
  <2>3. Ledger(SetToBag({o})) = SetToBag({Units(v, t)}) BY <2>2, LedgerOne
  <2> QED  BY <2>1, <2>3, TotalOne
<1> QED  BY <1>2, <1>3

----------------------------------------------------------------------------
(* Lists of outputs.                                                       *)

\* A list of outputs makes a bag of them.
LEMMA BagOfIsBag ==
  ASSUME NEW S, NEW n \in Nat, NEW list \in [1 .. n -> S]
  PROVE  IsABag(BagOf(list)) /\ BagToSet(BagOf(list)) = Range(list)
<1>1. ASSUME NEW o \in Range(list)
      PROVE  Cardinality({j \in DOMAIN list : list[j] = o}) \in Nat \ {0}
  <2> DEFINE places == {j \in DOMAIN list : list[j] = o}
  <2>1. places # {} BY <1>1 DEF Range
  <2>2. IsFiniteSet(1 .. n) BY FS_Interval
  <2>3. places \subseteq 1 .. n OBVIOUS
  <2>4. IsFiniteSet(places) BY <2>2, <2>3, FS_Subset
  <2>5. Cardinality(places) \in Nat BY <2>4, FS_CardinalityType
  <2>6. Cardinality(places) # 0 BY <2>1, <2>4, FS_EmptySet
  <2> HIDE DEF places
  <2>7. Cardinality(places) \in Nat \ {0} BY <2>5, <2>6
  <2> QED  BY <2>7 DEF places
<1> QED  BY <1>1 DEF BagOf, IsABag, BagToSet

\* Where something stands among the first n of a list.
Places(o, list, n) == {j \in 1 .. n : list[j] = o}

FirstOf(list, k) == [j \in 1 .. k |-> list[j]]

\* The bag of a list has an output as often as the list.
LEMMA BagOfCopies ==
  ASSUME NEW S, NEW n \in Nat, NEW list \in [1 .. n -> S]
  PROVE  /\ FiniteBag(BagOf(list))
         /\ \A o : Copies(o, BagOf(list)) = Cardinality(Places(o, list, n))
<1>1. IsABag(BagOf(list)) /\ DOMAIN BagOf(list) = Range(list)
  BY BagOfIsBag DEF BagToSet
<1>2. list \in Surjection(1 .. n, Range(list)) BY DEF Surjection, Range
<1>3. IsFiniteSet(1 .. n) BY FS_Interval
<1>4. IsFiniteSet(Range(list)) BY <1>2, <1>3, FS_Surjection
<1>5. ASSUME NEW o PROVE Copies(o, BagOf(list)) = Cardinality(Places(o, list, n))
  <2> DEFINE places == Places(o, list, n)
  <2>1. CASE o \in Range(list) BY <1>1, <2>1 DEF Copies, BagOf, Places
  <2>2. CASE o \notin Range(list)
    <3>1. places = {} BY <2>2 DEF Range, Places
    <3>2. Cardinality(places) = 0 BY <3>1, FS_EmptySet
    <3> QED  BY <1>1, <2>2, <3>2 DEF Copies
  <2> QED  BY <2>1, <2>2
<1> QED  BY <1>1, <1>4, <1>5 DEF FiniteBag

\* A list gives its bag one output at a time.
LEMMA BagOfFirst ==
  ASSUME NEW S, NEW n \in Nat, NEW list \in [1 .. n -> S]
  PROVE  /\ BagOf(FirstOf(list, 0)) = SetToBag({})
         /\ BagOf(FirstOf(list, n)) = BagOf(list)
         /\ \A k \in 0 .. n : FiniteBag(BagOf(FirstOf(list, k)))
         /\ \A k \in 1 .. n :
              BagOf(FirstOf(list, k)) = BagOf(FirstOf(list, k - 1)) (+) SetToBag({list[k]})
<1> DEFINE bag(k) == BagOf(FirstOf(list, k))
           places(k, o) == {j \in 1 .. k : list[j] = o}
<1>1. ASSUME NEW k \in 0 .. n
      PROVE  /\ FiniteBag(bag(k))
             /\ \A o : Copies(o, bag(k)) = Cardinality(places(k, o))
  <2> DEFINE first == FirstOf(list, k)
  <2>1. first \in [1 .. k -> S] /\ k \in Nat BY DEF FirstOf
  <2>2. \A o : Places(o, first, k) = places(k, o) BY DEF FirstOf, Places
  <2> HIDE DEF first, places
  <2>3. FiniteBag(BagOf(first)) BY <2>1, BagOfCopies
  <2>4. \A o : Copies(o, BagOf(first)) = Cardinality(Places(o, first, k))
    BY <2>1, BagOfCopies
  <2> QED  BY <2>2, <2>3, <2>4 DEF first
<1>2. bag(0) = SetToBag({})
  <2>1. \A o : places(0, o) = {} OBVIOUS
  <2>2. \A o : Cardinality(places(0, o)) = 0 BY <2>1, FS_EmptySet
  <2> HIDE DEF bag, places
  <2>3. IsABag(bag(0)) /\ \A o : Copies(o, bag(0)) = 0 BY <1>1, <2>2 DEF FiniteBag
  <2>4. IsABag(SetToBag({})) /\ \A o : Copies(o, SetToBag({})) = 0 BY OneCopy DEF FiniteBag
  <2> QED  BY <2>3, <2>4, SameCopies
<1>3. FirstOf(list, n) = list BY DEF FirstOf
<1>4. ASSUME NEW k \in 1 .. n PROVE bag(k) = bag(k - 1) (+) SetToBag({list[k]})
  <2> DEFINE one == SetToBag({list[k]})
             sum == bag(k - 1) (+) one
  <2>1. k \in 0 .. n /\ k - 1 \in 0 .. n OBVIOUS
  <2>2. ASSUME NEW o
        PROVE  Cardinality(places(k, o))
                 = Cardinality(places(k - 1, o)) + IF list[k] = o THEN 1 ELSE 0
    <3>1. IsFiniteSet(1 .. k - 1) BY FS_Interval
    <3>2. IsFiniteSet(places(k - 1, o)) BY <3>1, FS_Subset
    <3>3. k \notin places(k - 1, o) OBVIOUS
    <3>4. places(k, o) = IF list[k] = o THEN places(k - 1, o) \cup {k} ELSE places(k - 1, o)
      <4>1. ASSUME NEW j
            PROVE  j \in 1 .. k <=> j \in 1 .. k - 1 \/ j = k
        OBVIOUS
      <4> QED  BY <4>1
    <3>5. Cardinality(places(k - 1, o)) \in Nat BY <3>2, FS_CardinalityType
    <3> HIDE DEF places
    <3>6. Cardinality(places(k - 1, o) \cup {k}) = Cardinality(places(k - 1, o)) + 1
      BY <3>2, <3>3, FS_AddElement
    <3> QED  BY <3>4, <3>5, <3>6
  <2> HIDE DEF bag, places
  <2>3. IsABag(one) /\ \A o : Copies(o, one) = IF o = list[k] THEN 1 ELSE 0
    BY OneCopy DEF FiniteBag
  <2> HIDE DEF one
  <2>4. /\ IsABag(bag(k - 1)) /\ \A o : Copies(o, bag(k - 1)) = Cardinality(places(k - 1, o))
        /\ IsABag(bag(k)) /\ \A o : Copies(o, bag(k)) = Cardinality(places(k, o))
    BY <1>1, <2>1 DEF FiniteBag
  <2>5. IsABag(sum) /\ \A o : Copies(o, sum) = Copies(o, bag(k - 1)) + Copies(o, one)
    BY <2>3, <2>4, AddCopies
  <2> HIDE DEF sum
  <2>6. \A o : Copies(o, sum) = Copies(o, bag(k)) BY <2>2, <2>3, <2>4, <2>5
  <2>7. sum = bag(k) BY <2>4, <2>5, <2>6, SameCopies
  <2> QED  BY <2>7 DEF sum, one
<1> QED  BY <1>1, <1>2, <1>3, <1>4

\* No word reaches the order of the group.
LEMMA WordsDoNotWrap == MaxWord < Order /\ \A v \in Amounts : v \in Nat /\ v % Order = v
<1>1. MaxOutputs * MaxWord \in Nat BY LedgerAssumption
<1>2. (MaxOutputs + 1) * MaxWord = MaxOutputs * MaxWord + MaxWord BY LedgerAssumption
<1> QED  BY <1>1, <1>2, LedgerAssumption

\* What a commitment hides is a word of one token.
HidesWord(o) == \E v \in Amounts, t \in Tokens : CommitmentOf(o).h = Units(v, t)

\* Such an output is worth what it hides, no more than a word of each token.
LEMMA WordIsSmall ==
  ASSUME NEW o, HidesWord(o)
  PROVE  /\ CommitmentOf(o).h \in [Tokens -> 0 .. MaxWord]
         /\ Total(Ledger(SetToBag({o}))) = CommitmentOf(o).h
<1>1. PICK v \in Amounts, t \in Tokens : CommitmentOf(o).h = Units(v, t) BY DEF HidesWord
<1>2. v \in 0 .. MaxWord /\ 0 \in 0 .. MaxWord BY LedgerAssumption
<1>3. Units(v, t) \in [Tokens -> 0 .. MaxWord] BY <1>2 DEF Units
<1> QED  BY <1>1, <1>3, WorthOfOne

\* The coins of a list are worth the sum of what its outputs hide.
LEMMA WorthOfList ==
  ASSUME NEW n \in Nat, NEW list \in [1 .. n -> Output], \A j \in 1 .. n : HidesWord(list[j])
  PROVE  \E s \in [0 .. n -> [Tokens -> Nat]] :
           /\ s[0] = NoValue /\ s[n] = Total(Ledger(BagOf(list)))
           /\ \A k \in 1 .. n : s[k] = AddValue(s[k - 1], CommitmentOf(list[k]).h)
           /\ \A k \in 0 .. n : \A t \in Tokens : s[k][t] <= k * MaxWord
<1> DEFINE bag(k) == BagOf(FirstOf(list, k))
           s == [k \in 0 .. n |-> Total(Ledger(bag(k)))]
<1>1. /\ bag(0) = SetToBag({}) /\ bag(n) = BagOf(list)
      /\ \A k \in 0 .. n : FiniteBag(bag(k))
      /\ \A k \in 1 .. n : bag(k) = bag(k - 1) (+) SetToBag({list[k]})
  BY BagOfFirst
<1> HIDE DEF bag
<1>2. ASSUME NEW k \in 0 .. n PROVE Total(Ledger(bag(k))) \in [Tokens -> Nat]
  BY <1>1, LedgerCopies, TotalType
<1>3. s \in [0 .. n -> [Tokens -> Nat]] BY <1>2
<1>4. s[n] = Total(Ledger(BagOf(list))) BY <1>1
<1>5. s[0] = NoValue
  <2>1. FiniteBag(SetToBag({})) BY OneCopy
  <2>2. IsABag(Ledger(SetToBag({})))
        /\ \A w : Copies(w, Ledger(SetToBag({}))) = IF w = NoValue THEN 0 ELSE
                    Cardinality(WorthThis(SetToBag({}), w))
    BY <2>1, LedgerCopies
  <2>3. Ledger(SetToBag({})) = SetToBag({})
    <3>1. DOMAIN Ledger(SetToBag({})) = {} /\ DOMAIN SetToBag({}) = {}
      BY DEF Ledger, SetToBag, BagToSet
    <3>2. \A w : Copies(w, Ledger(SetToBag({}))) = Copies(w, SetToBag({}))
      BY <3>1 DEF Copies
    <3> QED  BY <2>1, <2>2, <3>2, SameCopies DEF FiniteBag
  <2> QED  BY <1>1, <2>3, TotalNothing
<1>6. ASSUME NEW k \in 1 .. n PROVE s[k] = AddValue(s[k - 1], CommitmentOf(list[k]).h)
  <2> DEFINE o == list[k]
  <2>1. k \in 0 .. n /\ k - 1 \in 0 .. n /\ HidesWord(o) OBVIOUS
  <2>2. bag(k) = bag(k - 1) (+) SetToBag({o}) /\ FiniteBag(bag(k - 1)) BY <1>1, <2>1
  <2> HIDE DEF o
  <2>3. FiniteBag(SetToBag({o})) BY OneCopy
  <2>4. Ledger(bag(k)) = Ledger(bag(k - 1)) (+) Ledger(SetToBag({o}))
    BY <2>2, <2>3, LedgerAdd
  <2>5. IsABag(Ledger(bag(k - 1))) /\ IsABag(Ledger(SetToBag({o})))
    BY <2>2, <2>3, LedgerCopies
  <2>6. Total(Ledger(bag(k)))
          = AddValue(Total(Ledger(bag(k - 1))), Total(Ledger(SetToBag({o}))))
    BY <2>4, <2>5, TotalAdd
  <2>7. Total(Ledger(SetToBag({o}))) = CommitmentOf(o).h BY <2>1, WordIsSmall
  <2> QED  BY <2>1, <2>6, <2>7 DEF o
<1> HIDE DEF s
<1>7. ASSUME NEW t \in Tokens PROVE \A k \in 0 .. n : s[k][t] <= k * MaxWord
  <2> DEFINE T == {k \in 0 .. n : s[k][t] <= k * MaxWord}
  <2>1. MaxWord \in Nat BY LedgerAssumption
  <2>2. 0 \in T BY <1>5, <2>1 DEF NoValue
  <2>3. ASSUME NEW k \in 0 .. n - 1, k \in T PROVE k + 1 \in T
    <3> DEFINE h == CommitmentOf(list[k + 1]).h
    <3>1. k + 1 \in 1 .. n /\ k + 1 - 1 = k OBVIOUS
    <3>2. HidesWord(list[k + 1]) BY <3>1
    <3>3. h \in [Tokens -> 0 .. MaxWord] BY <3>2, WordIsSmall
    <3> HIDE DEF h
    <3>4. s[k + 1] = AddValue(s[k], h) BY <1>6, <3>1 DEF h
    <3>5. s[k + 1][t] = s[k][t] + h[t] BY <3>4 DEF AddValue
    <3>6. s[k][t] \in Nat /\ s[k][t] <= k * MaxWord /\ h[t] \in 0 .. MaxWord
      BY <1>3, <2>3, <3>3
    <3>7. (k + 1) * MaxWord = k * MaxWord + MaxWord /\ k * MaxWord \in Nat BY <2>1
    <3>8. s[k + 1][t] <= (k + 1) * MaxWord BY <2>1, <3>5, <3>6, <3>7
    <3> QED  BY <3>1, <3>8
  <2> HIDE DEF T
  <2>4. 0 .. n \subseteq T BY <2>2, <2>3, Induction
  <2> QED  BY <2>4 DEF T
<1> QED  BY <1>3, <1>4, <1>5, <1>6, <1>7

\* An output that hides a word has a point for a commitment.
LEMMA OutputPoint ==
  ASSUME NEW o \in Output
  PROVE  CommitmentOf(o) \in [h : [Tokens -> Nat], g : Scalars]
<1>1. Order \in Nat \ {0}
  <2>1. MaxWord < Order /\ MaxWord \in Nat BY WordsDoNotWrap, LedgerAssumption
  <2> QED  BY <2>1, LedgerAssumption
<1>2. CASE o \in TransparentOutput
  <2>1. ~IsShielded(o) /\ o.token \in Tokens /\ o.amount \in Amounts
    BY <1>2 DEF TransparentOutput, IsShielded
  <2>2. Units(o.amount, o.token) \in [Tokens -> Nat]
    BY <2>1, AmountAssumption DEF Units
  <2> QED
    BY <2>1, <2>2, ScalarAssumption
    DEF CommitmentOf, Commit, Opening, derive_asset_tag, create_asset_commitment
<1>3. CASE o \in AmountOutput \cup FullOutput
  <2>1. IsShielded(o) /\ o.commitment \in Serialized
    BY <1>3 DEF AmountOutput, FullOutput, IsShielded
  <2> QED  BY <1>1, <2>1 DEF Serialized, CommitmentOf
<1> QED  BY <1>2, <1>3 DEF Output

\* The sum of a list of outputs that hide words, by the recursion of SumOf.
LEMMA SumOfCounts ==
  ASSUME NEW n \in Nat, NEW list \in [1 .. n -> Output]
  PROVE  \E f : /\ f[0] = Identity /\ f[n] = SumOf(list)
                /\ \A k \in 1 .. n : f[k] = Add(f[k - 1], CommitmentOf(list[k]))
<1> DEFINE IsSum(f) == f = [j \in 0 .. Len(list) |->
                              IF j = 0 THEN Identity ELSE Add(f[j - 1], CommitmentOf(list[j]))]
           P == [h : [Tokens -> Nat], g : Scalars]
           step == [k \in 1 .. n |-> [p \in P |-> Add(p, CommitmentOf(list[k]))]]
<1>1. Len(list) = n OBVIOUS
<1>2. Order \in Nat \ {0}
  <2>1. MaxWord < Order /\ MaxWord \in Nat BY WordsDoNotWrap, LedgerAssumption
  <2> QED  BY <2>1, LedgerAssumption
<1>3. ASSUME NEW p \in P, NEW q \in P PROVE Add(p, q) \in P
  <2>1. \A t \in Tokens : (p.h[t] + q.h[t]) % Order \in Nat BY <1>2
  <2> QED  BY <2>1, ScalarAssumption DEF Add
<1>4. Identity \in P BY ScalarAssumption DEF Identity, NoValue
<1>5. \A k \in 1 .. n : CommitmentOf(list[k]) \in P BY OutputPoint
<1> HIDE DEF P
<1>6. step \in [1 .. n -> [P -> P]] BY <1>3, <1>5
<1>7. PICK f \in [0 .. n -> P] : IsRecursion(f, n, Identity, step)
  <2> HIDE DEF step
  <2> QED  BY <1>4, <1>6, RecursionExists
<1>8. IsSum(f)
  <2>1. ASSUME NEW k \in 0 .. n
        PROVE  f[k] = IF k = 0 THEN Identity ELSE Add(f[k - 1], CommitmentOf(list[k]))
    <3>1. f[k] = IF k = 0 THEN Identity ELSE step[k][f[k - 1]] BY <1>7 DEF IsRecursion
    <3>2. k # 0 => k \in 1 .. n /\ f[k - 1] \in P OBVIOUS
    <3> QED  BY <3>1, <3>2
  <2>2. f = [k \in 0 .. n |-> f[k]] OBVIOUS
  <2> QED  BY <1>1, <2>1, <2>2
<1> DEFINE g == CHOOSE g : IsSum(g)
<1>9. IsSum(g) BY <1>8
<1>10. SumOf(list) = g[n] BY <1>1 DEF SumOf
<1> HIDE DEF g
<1>11. g[0] = Identity /\ \A k \in 1 .. n : g[k] = Add(g[k - 1], CommitmentOf(list[k]))
  BY <1>1, <1>9
<1> QED  BY <1>10, <1>11

\* A number below the modulus is its own remainder.
LEMMA SmallRemainder ==
  \A a, b, c, m \in Nat : a <= b /\ b <= c /\ c < m => a % m = a
<1>1. ASSUME NEW a \in Nat, NEW m \in Nat, 0 < m, a < m PROVE a % m = a
  BY <1>1
<1>2. ASSUME NEW a \in Nat, NEW b \in Nat, NEW c \in Nat, NEW m \in Nat, a <= b, b <= c, c < m
      PROVE  a < m /\ 0 < m
  BY <1>2
<1> QED  BY <1>1, <1>2

\* The commitments of a list that is not too long add up to what its coins are
\* worth: nothing wraps.
LEMMA SumOfWorth ==
  ASSUME NEW n \in Nat, NEW list \in [1 .. n -> Output],
         \A j \in 1 .. n : HidesWord(list[j]), n * MaxWord < Order
  PROVE  /\ SumOf(list).h = Total(Ledger(BagOf(list)))
         /\ Total(Ledger(BagOf(list))) \in [Tokens -> Nat]
         /\ \A t \in Tokens : Total(Ledger(BagOf(list)))[t] <= n * MaxWord
<1>1. PICK s \in [0 .. n -> [Tokens -> Nat]] :
        /\ s[0] = NoValue /\ s[n] = Total(Ledger(BagOf(list)))
        /\ \A k \in 1 .. n : s[k] = AddValue(s[k - 1], CommitmentOf(list[k]).h)
        /\ \A k \in 0 .. n : \A t \in Tokens : s[k][t] <= k * MaxWord
  BY WorthOfList
<1>2. PICK f : /\ f[0] = Identity /\ f[n] = SumOf(list)
               /\ \A k \in 1 .. n : f[k] = Add(f[k - 1], CommitmentOf(list[k]))
  BY SumOfCounts
<1> DEFINE T == {k \in 0 .. n : f[k].h = s[k]}
<1>3. 0 \in T BY <1>1, <1>2 DEF Identity
<1>4. ASSUME NEW k \in 0 .. n - 1, k \in T PROVE k + 1 \in T
  <2> DEFINE p == f[k]
             q == CommitmentOf(list[k + 1])
             r == s[k + 1]
  <2>1. k + 1 \in 1 .. n /\ k + 1 - 1 = k OBVIOUS
  <2>2. f[k + 1] = Add(p, q) BY <1>2, <2>1
  <2>3. r = AddValue(p.h, q.h) BY <1>1, <1>4, <2>1
  <2>4. r \in [Tokens -> Nat] /\ \A t \in Tokens : r[t] <= (k + 1) * MaxWord BY <1>1, <2>1
  <2>5. (k + 1) * MaxWord <= n * MaxWord
    <3>1. MaxWord \in Nat /\ n - (k + 1) \in Nat BY LedgerAssumption
    <3>2. n * MaxWord = (k + 1) * MaxWord + (n - (k + 1)) * MaxWord BY <3>1
    <3>3. (n - (k + 1)) * MaxWord \in Nat /\ (k + 1) * MaxWord \in Nat BY <3>1
    <3> QED  BY <3>2, <3>3
  <2>6. \A a, b, c \in Nat : a <= b /\ b <= c /\ c < Order => a % Order = a
    BY LedgerAssumption, SmallRemainder
  <2>7. (k + 1) * MaxWord \in Nat /\ n * MaxWord \in Nat BY LedgerAssumption
  <2> HIDE DEF p, q, r
  <2>8. \A t \in Tokens : r[t] % Order = r[t] BY <2>4, <2>5, <2>6, <2>7
  <2>9. \A t \in Tokens : r[t] = p.h[t] + q.h[t] BY <2>3 DEF AddValue
  <2>10. Add(p, q).h = [t \in Tokens |-> r[t]] BY <2>8, <2>9 DEF Add
  <2>11. Add(p, q).h = r BY <2>4, <2>10
  <2>12. f[k + 1].h = s[k + 1] BY <2>2, <2>11 DEF r
  <2> QED  BY <2>1, <2>12
<1> HIDE DEF T
<1>5. 0 .. n \subseteq T BY <1>3, <1>4, Induction
<1>6. n \in T BY <1>5
<1>7. f[n].h = s[n] BY <1>6 DEF T
<1> QED  BY <1>1, <1>2, <1>7

----------------------------------------------------------------------------
(* The verifiers.                                                          *)

\* verify_range_proof: over the tag of a token, whatever blinds it, a commitment
\* with a proof hides a positive word of that token and nothing else.
LEMMA RangeProofMeansCoin ==
  ASSUME NEW t \in Tokens, NEW generator, generator.h = Units(1, t),
         NEW commitment \in Serialized, RangeVerifies(commitment, generator)
  PROVE  \E v \in Amounts \ {0} : commitment.h = Units(v, t)
<1>1. PICK v \in Amounts \ {0} :
        \A u \in Tokens : commitment.h[u] = (v * generator.h[u]) % Order
  BY DEF RangeVerifies
<1>2. v \in Nat /\ v % Order = v /\ 0 % Order = 0
  BY WordsDoNotWrap, LedgerAssumption
<1>3. ASSUME NEW u \in Tokens PROVE commitment.h[u] = Units(v, t)[u]
  BY <1>1, <1>2 DEF Units
<1>4. commitment.h \in [Tokens -> 0 .. Order - 1] BY DEF Serialized
<1> QED  BY <1>3, <1>4 DEF Units

\* The generator of a transparent output or of a coin is the tag of a token.
LEMMA GeneratorIsTag ==
  ASSUME NEW o \in Output, IsShielded(o) => IsCoin(o)
  PROVE  \E t \in Tokens : GeneratorOf(o).h = Units(1, t)
BY DEF Output, TransparentOutput, AmountOutput, FullOutput, IsShielded, IsCoin,
       GeneratorOf, TagPoint

\* What the verifiers let through, when the inputs are coins, is a coin.
LEMMA VerifiedIsCoin ==
  ASSUME NEW n \in Nat, NEW inputs \in [1 .. n -> Output],
         \A i \in Range(inputs) : IsShielded(i) => IsCoin(i),
         NEW o \in Verified(inputs)
  PROVE  o \in Output /\ (IsShielded(o) => IsCoin(o))
<1>1. CASE o \in [kind : {"transparent"}, token : Tokens, amount : U64]
  BY <1>1 DEF U64, Output, TransparentOutput, IsShielded
<1>2. CASE o \in AmountProven
  <2>1. PICK p \in Tokens \X Serialized :
          /\ RangeVerifies(p[2], TagPoint(p[1]))
          /\ o = [kind |-> "amount", token |-> p[1], commitment |-> p[2]]
    BY <1>2 DEF AmountProven
  <2>2. TagPoint(p[1]).h = Units(1, p[1]) BY DEF TagPoint
  <2>3. \E v \in Amounts \ {0} : p[2].h = Units(v, p[1])
    BY <2>1, <2>2, RangeProofMeansCoin
  <2> QED
    BY <2>1, <2>2, <2>3 DEF Output, AmountOutput, IsShielded, IsCoin, GeneratorOf, CommitmentOf
<1>3. CASE /\ o \in FullProven
           /\ \E i \in Range(inputs) : o.generator.h = GeneratorOf(i).h
  <2>1. PICK p \in Serialized \X Serialized :
          /\ RangeVerifies(p[2], p[1])
          /\ o = [kind |-> "full", generator |-> p[1], commitment |-> p[2]]
    BY <1>3 DEF FullProven
  <2>2. PICK i \in Range(inputs) : p[1].h = GeneratorOf(i).h BY <1>3, <2>1
  <2>3. i \in Output BY DEF Range
  <2>4. PICK t \in Tokens : p[1].h = Units(1, t) BY <2>2, <2>3, GeneratorIsTag
  <2>5. \E v \in Amounts \ {0} : p[2].h = Units(v, t)
    BY <2>1, <2>4, RangeProofMeansCoin
  <2> QED
    BY <2>1, <2>4, <2>5 DEF Output, FullOutput, IsShielded, IsCoin, GeneratorOf, CommitmentOf
<1> QED  BY <1>1, <1>2, <1>3 DEF Verified, SurjectionVerifies

----------------------------------------------------------------------------
(* The chain.                                                              *)

\* A surjection proof is as good as the inputs it is made against: the invariant
\* carries over from the outputs that a transaction spends to those it makes.
LedgerInvariant == TypeOK /\ IsFiniteSet(DOMAIN unspent) /\ EveryOutputIsCoin

\* At first there are transparent outputs only.
LEMMA InitLedger == Init => LedgerInvariant
<1>1. Init => IsFiniteSet(DOMAIN unspent) BY GenesisAssumption DEF Init, BagToSet
<1>2. Init => TypeOK /\ EveryOutputIsCoin
  BY GenesisAssumption
     DEF Init, TypeOK, EveryOutputIsCoin, BagToSet, Output, TransparentOutput, IsShielded
<1> QED  BY <1>1, <1>2 DEF LedgerInvariant

\* What a transaction does to a chain that satisfies the invariant.
LEMMA SubmitMakes ==
  ASSUME LedgerInvariant, NEW n \in 0 .. MaxInputs, NEW inputs \in [1 .. n -> BagToSet(unspent)],
         Submit(inputs)
  PROVE  /\ n \in Nat /\ inputs \in [1 .. n -> Output] /\ BagOf(inputs) \sqsubseteq unspent
         /\ \A i \in Range(inputs) : IsShielded(i) => IsCoin(i)
         /\ \E m \in 0 .. MaxOutputs : \E outputs \in [1 .. m -> Output] :
              /\ \A o \in Range(outputs) : IsShielded(o) => IsCoin(o)
              /\ BalanceVerifies(inputs, outputs, Amounts)
              /\ unspent' = (unspent (-) BagOf(inputs)) (+) BagOf(outputs)
<1>1. PICK m \in 0 .. MaxOutputs : \E outputs \in [1 .. m -> Verified(inputs)] :
        /\ BalanceVerifies(inputs, outputs, Amounts)
        /\ unspent' = (unspent (-) BagOf(inputs)) (+) BagOf(outputs)
  BY DEF Submit
<1>2. PICK outputs \in [1 .. m -> Verified(inputs)] :
        /\ BalanceVerifies(inputs, outputs, Amounts)
        /\ unspent' = (unspent (-) BagOf(inputs)) (+) BagOf(outputs)
  BY <1>1
<1>3. n \in Nat /\ m \in Nat BY LedgerAssumption
<1>4. inputs \in [1 .. n -> Output] /\ Range(inputs) \subseteq BagToSet(unspent)
  BY DEF LedgerInvariant, TypeOK, Range
<1>5. \A i \in Range(inputs) : IsShielded(i) => IsCoin(i)
  BY <1>4 DEF LedgerInvariant, EveryOutputIsCoin
<1>6. ASSUME NEW o \in Range(outputs)
      PROVE  o \in Output /\ (IsShielded(o) => IsCoin(o))
  <2>1. o \in Verified(inputs) BY DEF Range
  <2> QED  BY <1>3, <1>4, <1>5, <2>1, VerifiedIsCoin
<1>7. outputs \in [1 .. m -> Output] BY <1>6 DEF Range
<1>8. BagOf(inputs) \sqsubseteq unspent BY DEF Submit
<1> QED  BY <1>2, <1>3, <1>4, <1>5, <1>6, <1>7, <1>8

\* The invariant holds after a transaction if it held before.
LEMMA SubmitLedger ==
  ASSUME LedgerInvariant, NEW n \in 0 .. MaxInputs, NEW inputs \in [1 .. n -> BagToSet(unspent)],
         Submit(inputs)
  PROVE  LedgerInvariant'
<1>1. n \in Nat /\ inputs \in [1 .. n -> Output] BY SubmitMakes
<1>2. PICK m \in 0 .. MaxOutputs : \E outputs \in [1 .. m -> Output] :
        /\ \A o \in Range(outputs) : IsShielded(o) => IsCoin(o)
        /\ unspent' = (unspent (-) BagOf(inputs)) (+) BagOf(outputs)
  BY SubmitMakes
<1>3. PICK outputs \in [1 .. m -> Output] :
        /\ \A o \in Range(outputs) : IsShielded(o) => IsCoin(o)
        /\ unspent' = (unspent (-) BagOf(inputs)) (+) BagOf(outputs)
  BY <1>2
<1>4. m \in Nat BY LedgerAssumption
<1> DEFINE in == BagOf(inputs)
           out == BagOf(outputs)
<1>5. FiniteBag(unspent) BY DEF LedgerInvariant, TypeOK, FiniteBag
<1>6. FiniteBag(in) /\ FiniteBag(out) /\ DOMAIN out = Range(outputs)
  BY <1>1, <1>4, BagOfCopies, BagOfIsBag DEF BagToSet
<1> HIDE DEF in, out
<1>7. FiniteBag(unspent (-) in) /\ DOMAIN (unspent (-) in) \subseteq DOMAIN unspent
  BY <1>5, <1>6, FiniteBags, TakeCopies DEF FiniteBag
<1>8. FiniteBag(unspent') /\ DOMAIN unspent' \subseteq DOMAIN unspent \cup Range(outputs)
  <2>1. unspent' = (unspent (-) in) (+) out BY <1>3 DEF in, out
  <2> QED  BY <1>6, <1>7, <2>1, FiniteBags, AddCopies DEF FiniteBag
<1>9. Range(outputs) \subseteq Output BY DEF Range
<1> QED  BY <1>3, <1>8, <1>9 DEF LedgerInvariant, TypeOK, EveryOutputIsCoin, FiniteBag, BagToSet

LEMMA StepLedger == LedgerInvariant /\ [Next]_unspent => LedgerInvariant'
<1>1. CASE UNCHANGED unspent
  BY <1>1 DEF LedgerInvariant, TypeOK, EveryOutputIsCoin
<1>2. CASE Next
  BY <1>2, SubmitLedger DEF Next
<1> QED  BY <1>1, <1>2

\* No chain of accepted transactions leaves the invariant.
THEOREM LedgerCorrect == Spec => []LedgerInvariant
<1> QED  BY InitLedger, StepLedger, PTL DEF Spec

\* The chain keeps a bag of outputs.
THEOREM LedgerType == Spec => []TypeOK
<1>1. LedgerInvariant => TypeOK BY DEF LedgerInvariant
<1> QED  BY LedgerCorrect, <1>1, PTL

\* No chain of transactions leads to an output that is no coin of a token.
THEOREM CoinsOnly == Spec => []EveryOutputIsCoin
<1>1. LedgerInvariant => EveryOutputIsCoin BY DEF LedgerInvariant
<1> QED  BY LedgerCorrect, <1>1, PTL

----------------------------------------------------------------------------
(* The transparent ledger.                                                 *)

\* A transparent output and a coin hide a word.
LEMMA OutputsHideWords ==
  ASSUME NEW o \in Output, IsShielded(o) => IsCoin(o)
  PROVE  HidesWord(o)
<1>1. CASE IsShielded(o) BY <1>1 DEF IsCoin, HidesWord
<1>2. CASE ~IsShielded(o)
  <2>1. o.token \in Tokens /\ o.amount \in Amounts
    BY <1>2 DEF Output, TransparentOutput, AmountOutput, FullOutput, IsShielded
  <2>2. CommitmentOf(o).h = Units(o.amount, o.token)
    BY <1>2 DEF CommitmentOf, Commit, derive_asset_tag, create_asset_commitment
  <2> QED  BY <2>1, <2>2 DEF HidesWord
<1> QED  BY <1>1, <1>2

\* The most that a list can be worth grows with its length.
LEMMA Longer ==
  ASSUME NEW a \in Nat, NEW b \in Nat, a <= b, NEW m \in Nat
  PROVE  a * m <= b * m /\ a * m \in Nat
<1>1. b * m = a * m + (b - a) * m /\ b - a \in Nat OBVIOUS
<1>2. (b - a) * m \in Nat /\ a * m \in Nat BY <1>1
<1> QED  BY <1>1, <1>2

\* A difference below the order that is taken modulo the order.
LEMMA NoBorrow ==
  ASSUME NEW m \in Nat, NEW a \in Nat, NEW b \in Nat, NEW fee \in Nat,
         a < m, b + fee < m, (a + m - b) % m = fee
  PROVE  a = b + fee
<1>1. CASE a < b
  <2>1. a + m - b \in Nat /\ a + m - b < m BY <1>1
  <2>2. (a + m - b) % m = a + m - b BY <2>1, SmallRemainder
  <2> QED  BY <2>1, <2>2
<1>2. CASE a >= b
  <2>1. a - b \in Nat /\ a - b < m /\ a + m - b = (a - b) + m BY <1>2
  <2>2. ASSUME NEW d \in Nat, d < m PROVE (d + m) % m = d BY <2>2
  <2>3. (a + m - b) % m = a - b BY <2>1, <2>2
  <2> QED  BY <1>2, <2>3
<1> QED  BY <1>1, <1>2

\* verify_balance: inputs are worth what the outputs are and a fee.
LEMMA BalanceMeansWorth ==
  ASSUME NEW n \in 0 .. MaxInputs, NEW inputs \in [1 .. n -> Output],
         NEW m \in 0 .. MaxOutputs, NEW outputs \in [1 .. m -> Output],
         \A i \in Range(inputs) : HidesWord(i), \A o \in Range(outputs) : HidesWord(o),
         BalanceVerifies(inputs, outputs, Amounts)
  PROVE  \E fee \in Amounts :
           Total(Ledger(BagOf(inputs)))
             = AddValue(Total(Ledger(BagOf(outputs))), Units(fee, HTR))
<1> DEFINE a == Total(Ledger(BagOf(inputs)))
           b == Total(Ledger(BagOf(outputs)))
<1>1. /\ n \in Nat /\ n <= MaxInputs /\ m \in Nat /\ m <= MaxOutputs
      /\ MaxWord \in Nat /\ MaxInputs \in Nat /\ MaxOutputs \in Nat /\ Order \in Nat
      /\ MaxInputs * MaxWord < Order
  BY LedgerAssumption
<1>2. n * MaxWord < Order /\ n * MaxWord \in Nat
  <2>1. n * MaxWord <= MaxInputs * MaxWord /\ n * MaxWord \in Nat BY <1>1, Longer
  <2>2. MaxInputs * MaxWord \in Nat BY <1>1
  <2> QED  BY <1>1, <2>1, <2>2
<1>3. m * MaxWord + MaxWord < Order /\ m * MaxWord \in Nat
  <2>1. m * MaxWord <= MaxOutputs * MaxWord /\ m * MaxWord \in Nat BY <1>1, Longer
  <2>2. (MaxOutputs + 1) * MaxWord = MaxOutputs * MaxWord + MaxWord
        /\ MaxOutputs * MaxWord \in Nat
    BY <1>1
  <2>3. MaxOutputs * MaxWord + MaxWord < Order BY <2>2, LedgerAssumption
  <2> QED  BY <1>1, <2>1, <2>2, <2>3
<1>4. \A j \in 1 .. n : HidesWord(inputs[j]) BY DEF Range
<1>5. \A j \in 1 .. m : HidesWord(outputs[j]) BY DEF Range
<1>6. /\ SumOf(inputs).h = a /\ a \in [Tokens -> Nat]
      /\ \A t \in Tokens : a[t] <= n * MaxWord
  BY <1>1, <1>2, <1>4, SumOfWorth
<1>7. /\ SumOf(outputs).h = b /\ b \in [Tokens -> Nat]
      /\ \A t \in Tokens : b[t] <= m * MaxWord
  <2>1. m * MaxWord < Order BY <1>1, <1>3
  <2> QED  BY <1>1, <1>5, <2>1, SumOfWorth
<1>8. PICK fee \in Amounts : \E excess \in AllowedExcess(inputs, outputs) :
        Subtract(SumOf(inputs), SumOf(outputs)) = Extra(fee, excess)
  BY DEF BalanceVerifies
<1> HIDE DEF a, b
<1>9. \A t \in Tokens : (a[t] + Order - b[t]) % Order = Units(fee, HTR)[t]
  <2>1. Subtract(SumOf(inputs), SumOf(outputs)).h = Units(fee, HTR) BY <1>8 DEF Extra
  <2> QED  BY <1>6, <1>7, <2>1 DEF Subtract
<1>10. ASSUME NEW t \in Tokens PROVE a[t] = b[t] + Units(fee, HTR)[t]
  <2> DEFINE units == Units(fee, HTR)[t]
  <2>1. units \in 0 .. MaxWord BY LedgerAssumption DEF Units
  <2> HIDE DEF units
  <2>2. a[t] \in Nat /\ b[t] \in Nat /\ a[t] <= n * MaxWord /\ b[t] <= m * MaxWord
    BY <1>6, <1>7
  <2>3. a[t] < Order /\ b[t] + units < Order
    BY <1>1, <1>2, <1>3, <2>1, <2>2
  <2>4. (a[t] + Order - b[t]) % Order = units BY <1>9 DEF units
  <2>5. units \in Nat BY <1>1, <2>1
  <2> DEFINE x == a[t]
             y == b[t]
  <2>6. /\ x \in Nat /\ y \in Nat /\ x < Order /\ y + units < Order
        /\ (x + Order - y) % Order = units
    BY <2>2, <2>3, <2>4
  <2> HIDE DEF x, y
  <2>7. x = y + units BY <1>1, <2>5, <2>6, NoBorrow
  <2> QED  BY <2>7 DEF x, y, units
<1>11. a = AddValue(b, Units(fee, HTR)) BY <1>6, <1>10 DEF AddValue
<1> QED  BY <1>11 DEF a, b

\* The operators of bags are those of the transparent ledger's.
LEMMA SameBags ==
  ASSUME NEW A, NEW B
  PROVE  /\ Abstract!(+)(A, B) = A (+) B /\ Abstract!(-)(A, B) = A (-) B
         /\ Abstract!BagToSet(A) = BagToSet(A)
         /\ Abstract!\sqsubseteq(A, B) <=> A \sqsubseteq B
BY DEF (+), Abstract!(+), (-), Abstract!(-), BagToSet, Abstract!BagToSet,
       \sqsubseteq, Abstract!\sqsubseteq, BagIn, Abstract!BagIn

\* The order in which bags are put together does not matter.
LEMMA BagsCommute ==
  ASSUME NEW A, NEW B, IsABag(A), IsABag(B)
  PROVE  A (+) B = B (+) A
<1>1. IsABag(A (+) B) /\ IsABag(B (+) A) BY AddCopies
<1>2. \A e : Copies(e, A (+) B) = Copies(e, B (+) A)
  <2>1. \A e : Copies(e, A) \in Nat /\ Copies(e, B) \in Nat BY CopiesOfBag
  <2>2. \A e : Copies(e, A (+) B) = Copies(e, A) + Copies(e, B)
               /\ Copies(e, B (+) A) = Copies(e, B) + Copies(e, A)
    BY AddCopies
  <2> QED  BY <2>1, <2>2
<1> QED  BY <1>1, <1>2, SameCopies

\* Some of the coins that there are, are a part of them.
LEMMA LedgerPart ==
  ASSUME NEW A, NEW B, IsABag(A), IsABag(B), A \sqsubseteq B
  PROVE  A \in Abstract!Part(B)
<1>1. DOMAIN A \subseteq DOMAIN B /\ \A c \in DOMAIN A : A[c] \in 1 .. B[c]
  <2>1. \A c : Copies(c, A) <= Copies(c, B) BY PartCopies
  <2>2. \A c : /\ Copies(c, A) \in Nat /\ Copies(c, B) \in Nat
               /\ (Copies(c, A) = 0 <=> c \notin DOMAIN A)
               /\ (Copies(c, B) = 0 <=> c \notin DOMAIN B)
    BY CopiesOfBag
  <2>3. \A c : c \in DOMAIN A => /\ c \in DOMAIN B
                                 /\ Copies(c, A) >= 1 /\ Copies(c, A) <= Copies(c, B)
    BY <2>1, <2>2
  <2>4. \A c \in DOMAIN A : A[c] = Copies(c, A) /\ B[c] = Copies(c, B)
    BY <2>3, CopiesOfBag
  <2> QED  BY <2>2, <2>3, <2>4
<1> DEFINE S == DOMAIN A
           most == UNION {1 .. B[c] : c \in S}
<1>2. A \in [S -> most]
  <2>1. A = [c \in S |-> A[c]] BY DEF IsABag
  <2>2. \A c \in S : A[c] \in most BY <1>1
  <2> HIDE DEF most
  <2> QED  BY <2>1, <2>2
<1>3. S \in SUBSET Abstract!BagToSet(B) BY <1>1 DEF Abstract!BagToSet
<1>4. Abstract!\sqsubseteq(A, B) BY SameBags
<1> QED  BY <1>2, <1>3, <1>4 DEF Abstract!Part

\* Whatever the verifiers accept transfers coins.
LEMMA SubmitTransfers ==
  ASSUME LedgerInvariant, NEW n \in 0 .. MaxInputs, NEW inputs \in [1 .. n -> BagToSet(unspent)],
         Submit(inputs)
  PROVE  Abstract!Next
<1>1. /\ n \in Nat /\ inputs \in [1 .. n -> Output] /\ BagOf(inputs) \sqsubseteq unspent
      /\ \A i \in Range(inputs) : IsShielded(i) => IsCoin(i)
  BY SubmitMakes
<1>0. PICK m \in 0 .. MaxOutputs : \E outputs \in [1 .. m -> Output] :
        /\ \A o \in Range(outputs) : IsShielded(o) => IsCoin(o)
        /\ BalanceVerifies(inputs, outputs, Amounts)
        /\ unspent' = (unspent (-) BagOf(inputs)) (+) BagOf(outputs)
  BY SubmitMakes
<1>2. PICK outputs \in [1 .. m -> Output] :
        /\ \A o \in Range(outputs) : IsShielded(o) => IsCoin(o)
        /\ BalanceVerifies(inputs, outputs, Amounts)
        /\ unspent' = (unspent (-) BagOf(inputs)) (+) BagOf(outputs)
  BY <1>0
<1>3. m \in Nat BY LedgerAssumption
<1>4. Range(inputs) \subseteq Output /\ Range(outputs) \subseteq Output BY <1>1 DEF Range
<1>5. \A i \in Range(inputs) : HidesWord(i) BY <1>1, <1>4, OutputsHideWords
<1>6. \A o \in Range(outputs) : HidesWord(o) BY <1>2, <1>4, OutputsHideWords
<1>7. PICK fee \in Amounts :
        Total(Ledger(BagOf(inputs))) = AddValue(Total(Ledger(BagOf(outputs))), Units(fee, HTR))
  BY <1>1, <1>2, <1>5, <1>6, BalanceMeansWorth
<1> DEFINE in == BagOf(inputs)
           out == BagOf(outputs)
           rest == unspent (-) in
           spent == Ledger(in)
           left == Ledger(rest)
           made == Ledger(out)
<1>8. FiniteBag(unspent) BY DEF LedgerInvariant, TypeOK, FiniteBag
<1>9. FiniteBag(in) /\ FiniteBag(out) /\ DOMAIN out = Range(outputs)
  BY <1>1, <1>3, BagOfCopies, BagOfIsBag DEF BagToSet
<1>10. in \sqsubseteq unspent /\ unspent' = rest (+) out BY <1>1, <1>2
<1>11. \A c \in DOMAIN made : Abstract!IsCoin(c)
  <2>1. DOMAIN made = {CommitmentOf(o).h : o \in Range(outputs)} \ {NoValue}
    BY <1>9 DEF Ledger, BagToSet
  <2>2. ASSUME NEW o \in Range(outputs), CommitmentOf(o).h # NoValue
        PROVE  Abstract!IsCoin(CommitmentOf(o).h)
    <3>1. PICK v \in Amounts, t \in Tokens : CommitmentOf(o).h = Units(v, t)
      BY <1>6 DEF HidesWord
    <3>2. v # 0 BY <2>2, <3>1 DEF Units, NoValue
    <3>3. v \in 1 .. MaxWord BY <3>2, LedgerAssumption
    <3>4. Units(v, t) = Abstract!Coin(v, t) BY DEF Units, Abstract!Coin
    <3> QED  BY <3>1, <3>3, <3>4 DEF Abstract!IsCoin
  <2> QED  BY <2>1, <2>2
<1>12. Total(spent) = AddValue(Total(made), Units(fee, HTR)) BY <1>7
<1> HIDE DEF in, out
<1>13. FiniteBag(rest) BY <1>8, <1>9, FiniteBags
<1>14. unspent = rest (+) in BY <1>8, <1>9, <1>10, PutBack DEF FiniteBag
<1> HIDE DEF rest
<1>15. IsABag(spent) /\ IsABag(left) /\ IsABag(made) /\ IsABag(Ledger(unspent))
  BY <1>8, <1>9, <1>13, LedgerCopies
<1>16. Ledger(unspent) = left (+) spent /\ Ledger(unspent)' = left (+) made
  <2>1. Ledger(rest (+) in) = left (+) spent /\ Ledger(rest (+) out) = left (+) made
    BY <1>9, <1>13, LedgerAdd
  <2>2. Ledger(unspent)' = Ledger(rest (+) out) BY <1>10 DEF Ledger, WorthThis
  <2> QED  BY <1>14, <2>1, <2>2
<1> HIDE DEF spent, left, made
<1> DEFINE coins == Ledger(unspent)
           after == Ledger(unspent)'
<1>17. spent \in Abstract!Part(coins)
  <2>1. \A c : Copies(c, left) \in Nat /\ Copies(c, spent) \in Nat BY <1>15, CopiesOfBag
  <2>2. \A c : Copies(c, coins) = Copies(c, left) + Copies(c, spent)
    BY <1>15, <1>16, AddCopies
  <2>3. \A c : Copies(c, spent) <= Copies(c, coins) BY <2>1, <2>2
  <2> QED  BY <1>15, <2>3, PartCopies, LedgerPart
<1>18. Abstract!(-)(coins, spent) = left
  <2>1. coins = spent (+) left BY <1>15, <1>16, BagsCommute
  <2> QED  BY <1>15, <2>1, TakeOut, SameBags
<1>19. Abstract!(-)(after, left) = made
  BY <1>15, <1>16, TakeOut, SameBags
<1>20. Abstract!Transfer(spent, left, made)
  <2>1. after = Abstract!(+)(left, made) BY <1>16, SameBags
  <2>2. \A c \in Abstract!BagToSet(made) : Abstract!IsCoin(c)
    BY <1>11, SameBags DEF BagToSet
  <2>3. Abstract!Total(spent) = Abstract!AddWorth(Abstract!Total(made), Abstract!Coin(fee, HTR))
    BY <1>12 DEF Total, Abstract!AddWorth, AddValue, Abstract!Coin, Units
  <2>4. fee \in 0 .. MaxWord BY LedgerAssumption
  <2> QED  BY <2>1, <2>2, <2>3, <2>4 DEF Abstract!Transfer
<1> HIDE DEF coins, after
<1>21. \E spends \in Abstract!Part(coins) :
         Abstract!Transfer(spends, Abstract!(-)(coins, spends),
                           Abstract!(-)(after, Abstract!(-)(coins, spends)))
  BY <1>17, <1>18, <1>19, <1>20
<1> QED  BY <1>21 DEF Abstract!Next, coins, after

\* Every chain of accepted transactions is a run of the transparent ledger.
THEOREM LedgerImplementsTokens == Spec => ImplementsTokenLedger
<1>1. Init => Abstract!Init BY DEF Init, Abstract!Init
<1>2. LedgerInvariant /\ [Next]_unspent => [Abstract!Next]_(Ledger(unspent))
  <2>1. CASE UNCHANGED unspent
    <3>1. Ledger(unspent)' = Ledger(unspent) BY <2>1 DEF Ledger, WorthThis
    <3> QED  BY <3>1
  <2>2. CASE Next BY <2>2, SubmitTransfers DEF Next
  <2> QED  BY <2>1, <2>2
<1> QED  BY LedgerCorrect, <1>1, <1>2, PTL DEF Spec, ImplementsTokenLedger, Abstract!Spec

----------------------------------------------------------------------------
(* Every coin can be spent.                                                *)

\* The sum of one output, by the recursion of SumOf.
LEMMA SumOfOne ==
  ASSUME NEW o
  PROVE  SumOf(<<o>>) = Add(Identity, CommitmentOf(o))
<1> DEFINE list == <<o>>
           IsSum(f) == f = [j \in 0 .. Len(list) |->
                              IF j = 0 THEN Identity ELSE Add(f[j - 1], CommitmentOf(list[j]))]
           one == [j \in 0 .. 1 |-> IF j = 0 THEN Identity ELSE Add(Identity, CommitmentOf(o))]
<1>1. IsSum(one)
  <2>1. Len(list) = 1 /\ list[1] = o OBVIOUS
  <2>2. ASSUME NEW j \in 0 .. 1
        PROVE  one[j] = IF j = 0 THEN Identity ELSE Add(one[j - 1], CommitmentOf(list[j]))
    <3>1. CASE j = 0 BY <3>1
    <3>2. CASE j = 1
      <4>1. one[j - 1] = Identity BY <3>2
      <4> QED  BY <2>1, <3>2, <4>1
    <3> QED  BY <3>1, <3>2
  <2> QED  BY <2>1, <2>2
<1>2. PICK f : IsSum(f) /\ SumOf(<<o>>) = f[1]
  <2>1. IsSum(CHOOSE f : IsSum(f)) BY <1>1
  <2>2. SumOf(<<o>>) = (CHOOSE f : IsSum(f))[1] BY DEF SumOf
  <2> QED  BY <2>1, <2>2
<1>3. f[0] = Identity BY <1>2
<1>4. f[1] = Add(f[0], CommitmentOf(o)) BY <1>2
<1> QED  BY <1>2, <1>3, <1>4

\* One output balances another with as much of the same token, when the blinding
\* that is left is in the excess.
LEMMA OneForOne ==
  ASSUME NEW o, NEW made, NEW v \in Amounts, NEW t \in Tokens,
         CommitmentOf(o).h = Units(v, t), CommitmentOf(made).h = Units(v, t),
         CommitmentOf(o).g \in Scalars, CommitmentOf(made).g \in Scalars,
         NEW excess \in AllowedExcess(<<o>>, <<made>>),
         IF excess = NoExcess THEN CommitmentOf(made).g = CommitmentOf(o).g
         ELSE /\ excess \in Scalars
              /\ excess = Minus(CommitmentOf(o).g, CommitmentOf(made).g),
         NoCommitment(<<o>>) <=> NoCommitment(<<made>>) /\ Extra(0, excess) = Identity
  PROVE  BalanceVerifies(<<o>>, <<made>>, {0})
<1> DEFINE p == Add(Identity, CommitmentOf(o))
           q == Add(Identity, CommitmentOf(made))
<1>1. \A u \in Tokens : p.h[u] = Units(v, t)[u] /\ q.h[u] = Units(v, t)[u]
                        /\ Units(v, t)[u] \in 0 .. Order - 1
  <2>1. v \in Nat /\ v % Order = v /\ 0 % Order = 0 /\ v < Order
    BY WordsDoNotWrap, LedgerAssumption
  <2>2. ASSUME NEW u \in Tokens
        PROVE  /\ Units(v, t)[u] \in 0 .. Order - 1
               /\ (NoValue[u] + Units(v, t)[u]) % Order = Units(v, t)[u]
    <3>1. NoValue[u] = 0 /\ Units(v, t)[u] \in {0, v} BY DEF Units, NoValue
    <3>2. CASE Units(v, t)[u] = 0 BY <2>1, <3>1, <3>2, LedgerAssumption
    <3>3. CASE Units(v, t)[u] = v BY <2>1, <3>1, <3>3, LedgerAssumption
    <3> QED  BY <3>1, <3>2, <3>3
  <2>3. \A u \in Tokens : p.h[u] = (NoValue[u] + Units(v, t)[u]) % Order
                          /\ q.h[u] = (NoValue[u] + Units(v, t)[u]) % Order
    BY DEF Add, Identity
  <2> QED  BY <2>2, <2>3
<1>2. ASSUME NEW u \in Tokens PROVE (p.h[u] + Order - q.h[u]) % Order = 0
  <2>1. p.h[u] + Order - q.h[u] = Order /\ Order \in Nat \ {0} BY <1>1, LedgerAssumption
  <2>2. Order % Order = 0 BY <2>1
  <2> QED  BY <2>1, <2>2
<1>3. p.g = CommitmentOf(o).g /\ q.g = CommitmentOf(made).g
  BY ScalarAssumption DEF Add, Identity
<1>4. Subtract(p, q) = [h |-> NoValue, g |-> Minus(CommitmentOf(o).g, CommitmentOf(made).g)]
  BY <1>2, <1>3 DEF Subtract, NoValue
<1>5. Extra(0, excess) = [h |-> NoValue, g |-> Minus(CommitmentOf(o).g, CommitmentOf(made).g)]
  <2>1. Units(0, HTR) = NoValue BY DEF Units, NoValue
  <2>2. CASE excess = NoExcess BY <2>1, <2>2, ScalarAssumption DEF Extra, Minus
  <2>3. CASE excess # NoExcess BY <2>1, <2>3 DEF Extra
  <2> QED  BY <2>2, <2>3
<1>6. Subtract(SumOf(<<o>>), SumOf(<<made>>)) = Extra(0, excess)
  BY <1>4, <1>5, SumOfOne
<1> QED  BY <1>6 DEF BalanceVerifies

\* The outputs of a chain, one by one.
LEMMA UnspentOutput ==
  ASSUME LedgerInvariant, NEW o \in BagToSet(unspent), NEW t \in Tokens, NEW v \in Amounts,
         CommitmentOf(o).h = Units(v, t)
  PROVE  /\ o \in Output /\ CommitmentOf(o).g \in Scalars
         /\ IsShielded(o) => v > 0
         /\ v > 0 => GeneratorOf(o).h = Units(1, t)
         /\ ~IsShielded(o) => o.amount = v /\ CommitmentOf(o).g = ZERO_TWEAK
<1>1. o \in Output BY DEF LedgerInvariant, TypeOK
<1>2. \A w \in Amounts, u \in Tokens :
        Units(w, u) = Units(v, t) => w = v /\ (v > 0 => u = t)
  <2> SUFFICES ASSUME NEW w \in Amounts, NEW u \in Tokens, Units(w, u) = Units(v, t)
               PROVE  w = v /\ (v > 0 => u = t)
    OBVIOUS
  <2>1. Units(w, u)[u] = w /\ Units(v, t)[u] \in {0, v} /\ (u # t => Units(v, t)[u] = 0)
    BY DEF Units
  <2>2. Units(v, t)[t] = v /\ Units(w, u)[t] \in {0, w} /\ (u # t => Units(w, u)[t] = 0)
    BY DEF Units
  <2>3. v \in Nat /\ w \in Nat BY AmountAssumption
  <2> QED  BY <2>1, <2>2, <2>3
<1>3. CASE IsShielded(o)
  <2>1. IsCoin(o) BY <1>3 DEF LedgerInvariant, EveryOutputIsCoin
  <2>2. PICK u \in Tokens, w \in Amounts \ {0} :
          GeneratorOf(o).h = Units(1, u) /\ CommitmentOf(o).h = Units(w, u)
    BY <2>1 DEF IsCoin
  <2>3. w = v /\ v \in Nat \ {0} /\ u = t BY <1>2, <2>2, AmountAssumption
  <2>4. CommitmentOf(o).g \in Scalars
    BY <1>1, <1>3 DEF Output, TransparentOutput, AmountOutput, FullOutput, IsShielded,
                      CommitmentOf, Serialized
  <2> QED  BY <1>1, <1>3, <2>2, <2>3, <2>4
<1>4. CASE ~IsShielded(o)
  <2>1. o \in TransparentOutput
    BY <1>1, <1>4 DEF Output, AmountOutput, FullOutput, IsShielded
  <2>2. o.token \in Tokens /\ o.amount \in Amounts BY <2>1 DEF TransparentOutput
  <2>3. CommitmentOf(o).h = Units(o.amount, o.token) /\ CommitmentOf(o).g = ZERO_TWEAK
    BY <1>4, <2>2, ScalarAssumption
    DEF CommitmentOf, Commit, Opening, derive_asset_tag, create_asset_commitment
  <2>4. o.amount = v /\ (v > 0 => o.token = t) BY <1>2, <2>2, <2>3
  <2>5. v > 0 => GeneratorOf(o).h = Units(1, t)
    BY <1>4, <2>4 DEF GeneratorOf, IsShielded, TagPoint
  <2> QED  BY <1>1, <1>4, <2>3, <2>4, <2>5, ScalarAssumption
<1> QED  BY <1>3, <1>4

\* Any coin, made transparent with the excess that is its blinding, balances.
LEMMA UnshieldsAgain ==
  ASSUME LedgerInvariant, NEW o \in BagToSet(unspent), NEW t \in Tokens, NEW v \in Amounts,
         CommitmentOf(o).h = Units(v, t),
         NEW made, made = [kind |-> "transparent", token |-> t, amount |-> v]
  PROVE  made \in Verified(<<o>>) /\ BalanceVerifies(<<o>>, <<made>>, {0})
<1>1. made \in Verified(<<o>>) BY DEF Verified, U64
<1>2. /\ ~IsShielded(made) /\ CommitmentOf(made).h = Units(v, t)
      /\ CommitmentOf(made).g = ZERO_TWEAK
  BY ScalarAssumption
  DEF IsShielded, CommitmentOf, Commit, Opening, derive_asset_tag, create_asset_commitment
<1>3. NoCommitment(<<made>>) <=> v = 0 BY <1>2 DEF NoCommitment
<1>4. NoCommitment(<<o>>) <=> ~IsShielded(o) /\ o.amount = 0 BY DEF NoCommitment
<1>5. CASE IsShielded(o)
  <2> DEFINE excess == Minus(CommitmentOf(o).g, CommitmentOf(made).g)
  <2>1. excess \in Scalars
    BY <1>2, UnspentOutput, ScalarAssumption DEF Minus
  <2>2. HasShielded(<<o>>) /\ ~HasShielded(<<made>>) BY <1>2, <1>5 DEF HasShielded
  <2>3. excess \in AllowedExcess(<<o>>, <<made>>) BY <2>1, <2>2 DEF AllowedExcess
  <2>4. ~NoCommitment(<<o>>) /\ ~NoCommitment(<<made>>)
    BY <1>3, <1>4, <1>5, UnspentOutput, AmountAssumption
  <2>5. excess # NoExcess BY <2>1, LedgerAssumption
  <2>6. CommitmentOf(o).g \in Scalars /\ CommitmentOf(made).g \in Scalars
    BY <1>2, UnspentOutput, ScalarAssumption
  <2> HIDE DEF excess
  <2>7. excess = Minus(CommitmentOf(o).g, CommitmentOf(made).g) BY DEF excess
  <2> QED  BY <1>1, <1>2, <2>1, <2>3, <2>4, <2>5, <2>6, <2>7, OneForOne
<1>6. CASE ~IsShielded(o)
  <2>1. CommitmentOf(o).g = ZERO_TWEAK /\ o.amount = v BY <1>6, UnspentOutput
  <2>2. NoExcess \in AllowedExcess(<<o>>, <<made>>) BY DEF AllowedExcess
  <2>3. Extra(0, NoExcess) = Identity BY DEF Extra, Identity, Units, NoValue
  <2>4. NoCommitment(<<o>>) <=> NoCommitment(<<made>>) /\ Extra(0, NoExcess) = Identity
    BY <1>3, <1>4, <1>6, <2>1, <2>3
  <2> QED  BY <1>1, <1>2, <2>1, <2>2, <2>4, ScalarAssumption, OneForOne
<1> QED  BY <1>5, <1>6

\* Any coin, in a new commitment with the blinding of the old, balances.
LEMMA ShieldsAgain ==
  ASSUME LedgerInvariant, NEW o \in BagToSet(unspent), NEW t \in Tokens, NEW v \in Amounts, v > 0,
         CommitmentOf(o).h = Units(v, t),
         NEW made, IsShielded(made), CommitmentOf(made).h = Units(v, t),
         CommitmentOf(made).g = CommitmentOf(o).g
  PROVE  BalanceVerifies(<<o>>, <<made>>, {0})
<1>1. CommitmentOf(o).g \in Scalars BY UnspentOutput
<1>2. NoExcess \in AllowedExcess(<<o>>, <<made>>) BY DEF AllowedExcess
<1>3. ~NoCommitment(<<made>>) BY DEF NoCommitment
<1>4. ~NoCommitment(<<o>>)
  <2>1. ~IsShielded(o) => o.amount = v BY UnspentOutput
  <2> QED  BY <2>1, AmountAssumption DEF NoCommitment
<1> QED  BY <1>1, <1>2, <1>3, <1>4, OneForOne

\* Points that a holder of a coin makes can be serialized and proved.
LEMMA CoinPoint ==
  ASSUME NEW t \in Tokens, NEW v \in Amounts, v > 0, NEW g \in Scalars
  PROVE  /\ [h |-> Units(v, t), g |-> g] \in Serialized
         /\ [h |-> Units(1, t), g |-> g] \in Serialized
         /\ \A generator : generator.h = Units(1, t) =>
              RangeVerifies([h |-> Units(v, t), g |-> g], generator)
<1>1. v \in Nat /\ v < Order /\ v % Order = v /\ 0 % Order = 0 /\ 1 \in 0 .. Order - 1
  BY WordsDoNotWrap, LedgerAssumption
<1>2. ASSUME NEW w \in 1 .. Order - 1 PROVE [h |-> Units(w, t), g |-> g] \in Serialized
  <2>1. w \in 0 .. Order - 1 /\ 0 \in 0 .. Order - 1 /\ w # 0
    BY <1>2, <1>1, LedgerAssumption
  <2>2. Units(w, t) \in [Tokens -> 0 .. Order - 1] BY <2>1 DEF Units
  <2>3. Units(w, t)[t] # NoValue[t] BY <2>1 DEF Units, NoValue
  <2> QED  BY <2>2, <2>3 DEF Serialized, Identity
<1>3. \A u \in Tokens : Units(v, t)[u] = (v * Units(1, t)[u]) % Order
  BY <1>1 DEF Units
<1>4. v \in Amounts \ {0} BY <1>1
<1>5. v \in 1 .. Order - 1 /\ 1 \in 1 .. Order - 1 BY <1>1, LedgerAssumption
<1> QED  BY <1>2, <1>3, <1>4, <1>5 DEF RangeVerifies

\* Whatever provers did before, the holder of any coin can unshield it, and can
\* shield it again in either form.
THEOREM CoinsMove == Spec => []NothingIsStuck
<1>1. LedgerInvariant => NothingIsStuck
  <2> SUFFICES ASSUME LedgerInvariant, NEW o \in BagToSet(unspent), NEW t \in Tokens,
                      NEW v \in Amounts, CommitmentOf(o).h = Units(v, t)
               PROVE  LET MayBecome(made) ==
                            made \in Verified(<<o>>) /\ BalanceVerifies(<<o>>, <<made>>, {0})
                      IN  /\ MayBecome([kind |-> "transparent", token |-> t, amount |-> v])
                          /\ v > 0 =>
                               /\ \E vbf \in Scalars :
                                    MayBecome([kind |-> "amount", token |-> t,
                                      commitment |-> Commit(v, vbf, derive_asset_tag(t))])
                               /\ \A abf \in Scalars : \E vbf \in Scalars :
                                    MayBecome([kind |-> "full",
                                      generator |-> [h |-> Units(1, t), g |-> abf],
                                      commitment |-> Commit(v, vbf, create_asset_commitment(t, abf))])
    BY DEF NothingIsStuck
  <2> DEFINE MayBecome(made) ==
        made \in Verified(<<o>>) /\ BalanceVerifies(<<o>>, <<made>>, {0})
  <2>1. MayBecome([kind |-> "transparent", token |-> t, amount |-> v])
    BY UnshieldsAgain
  <2>2. ASSUME v > 0, NEW abf \in Scalars
        PROVE  \E vbf \in Scalars :
                 Commit(v, vbf, create_asset_commitment(t, abf)) =
                   [h |-> Units(v, t), g |-> CommitmentOf(o).g]
    <3> DEFINE g == CommitmentOf(o).g
               hidden == Times(v, abf)
               vbf == Plus(Negate(hidden), g)
    <3>1. g \in Scalars /\ hidden \in Scalars /\ Negate(hidden) \in Scalars
      BY UnspentOutput, ScalarAssumption
    <3> HIDE DEF g, hidden
    <3>2. vbf \in Scalars BY <3>1, ScalarAssumption
    <3>3. Plus(hidden, vbf) = g
      <4>1. Plus(hidden, vbf) = Plus(Plus(hidden, Negate(hidden)), g)
        BY <3>1, ScalarAssumption
      <4>2. Plus(ZERO_TWEAK, g) = g BY <3>1, ScalarAssumption
      <4> QED  BY <3>1, <4>1, <4>2, ScalarAssumption
    <3>4. Commit(v, vbf, create_asset_commitment(t, abf)) = [h |-> Units(v, t), g |-> g]
      BY <3>3 DEF Commit, Opening, create_asset_commitment, hidden
    <3> QED  BY <3>2, <3>4 DEF g
  <2>3. ASSUME v > 0
        PROVE  \E vbf \in Scalars :
                 MayBecome([kind |-> "amount", token |-> t,
                            commitment |-> Commit(v, vbf, derive_asset_tag(t))])
    <3>1. PICK vbf \in Scalars :
            Commit(v, vbf, derive_asset_tag(t)) = [h |-> Units(v, t), g |-> CommitmentOf(o).g]
      BY <2>2, <2>3, ScalarAssumption DEF derive_asset_tag
    <3> DEFINE c == Commit(v, vbf, derive_asset_tag(t))
               made == [kind |-> "amount", token |-> t, commitment |-> c]
    <3>2. CommitmentOf(o).g \in Scalars BY UnspentOutput
    <3>3. TagPoint(t).h = Units(1, t) BY DEF TagPoint
    <3>4. c \in Serialized /\ RangeVerifies(c, TagPoint(t))
      BY <2>3, <3>1, <3>2, <3>3, CoinPoint
    <3>5. IsShielded(made) /\ CommitmentOf(made) = c BY DEF IsShielded, CommitmentOf
    <3> HIDE DEF c
    <3>6. made \in AmountProven
      <4> DEFINE pair == <<t, c>>
      <4>1. pair \in {q \in Tokens \X Serialized : RangeVerifies(q[2], TagPoint(q[1]))}
        BY <3>4
      <4> QED  BY <4>1 DEF AmountProven
    <3>7. made \in Verified(<<o>>) BY <3>6 DEF Verified
    <3>8. c.h = Units(v, t) /\ c.g = CommitmentOf(o).g BY <3>1 DEF c
    <3> HIDE DEF made
    <3>9. BalanceVerifies(<<o>>, <<made>>, {0}) BY <2>3, <3>5, <3>8, ShieldsAgain
    <3> QED  BY <3>7, <3>9 DEF made, c
  <2>4. ASSUME v > 0, NEW abf \in Scalars
        PROVE  \E vbf \in Scalars :
                 MayBecome([kind |-> "full", generator |-> [h |-> Units(1, t), g |-> abf],
                            commitment |-> Commit(v, vbf, create_asset_commitment(t, abf))])
    <3>1. PICK vbf \in Scalars : Commit(v, vbf, create_asset_commitment(t, abf)) =
                                   [h |-> Units(v, t), g |-> CommitmentOf(o).g]
      BY <2>2, <2>4
    <3> DEFINE c == Commit(v, vbf, create_asset_commitment(t, abf))
               generator == [h |-> Units(1, t), g |-> abf]
               made == [kind |-> "full", generator |-> generator, commitment |-> c]
    <3>2. CommitmentOf(o).g \in Scalars /\ GeneratorOf(o).h = Units(1, t)
      BY <2>4, UnspentOutput
    <3>3. generator \in Serialized BY <2>4, CoinPoint
    <3>4. c \in Serialized /\ RangeVerifies(c, generator)
      <4> DEFINE coin == [h |-> Units(v, t), g |-> CommitmentOf(o).g]
      <4>1. generator.h = Units(1, t) OBVIOUS
      <4> HIDE DEF generator
      <4>2. coin \in Serialized /\ RangeVerifies(coin, generator)
        BY <2>4, <3>2, <4>1, CoinPoint
      <4> HIDE DEF coin
      <4>3. c = coin BY <3>1 DEF coin
      <4> QED  BY <4>2, <4>3
    <3>5. IsShielded(made) /\ CommitmentOf(made) = c BY DEF IsShielded, CommitmentOf
    <3>6. generator.h \in {GeneratorOf(i).h : i \in Range(<<o>>)}
      <4>1. o \in Range(<<o>>)
        <5>1. <<o>>[1] = o /\ 1 \in DOMAIN <<o>> OBVIOUS
        <5> QED  BY <5>1 DEF Range
      <4> QED  BY <3>2, <4>1
    <3> HIDE DEF c, generator
    <3>7. made \in FullProven
      <4> DEFINE pair == <<generator, c>>
      <4>1. pair \in {q \in Serialized \X Serialized : RangeVerifies(q[2], q[1])}
        BY <3>3, <3>4
      <4> QED  BY <4>1 DEF FullProven
    <3>8. made \in Verified(<<o>>) BY <3>6, <3>7 DEF Verified, SurjectionVerifies
    <3>9. c.h = Units(v, t) /\ c.g = CommitmentOf(o).g BY <3>1 DEF c
    <3> HIDE DEF made
    <3>10. BalanceVerifies(<<o>>, <<made>>, {0}) BY <2>4, <3>5, <3>9, ShieldsAgain
    <3> QED  BY <3>8, <3>10 DEF made, c, generator
  <2> QED  BY <2>1, <2>3, <2>4
<1> QED  BY LedgerCorrect, <1>1, PTL
=============================================================================
