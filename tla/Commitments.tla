---------------------------- MODULE Commitments ----------------------------
(***************************************************************************)
(* Asset generators and Pedersen commitments (crypto-core/src/generators.rs *)
(* and pedersen.rs), at the level of the group they live in.               *)
(*                                                                         *)
(* The asset tags are NUMS points: nobody knows a relation between two of  *)
(* them or between one of them and G.  A point a prover can name is then   *)
(* a combination of the tags and of G in only one way, and it is           *)
(* represented by that combination: h[t] is the multiple of token t's tag, *)
(* g the multiple of G.  The multiples of the tags are natural numbers: a  *)
(* transaction has fewer than 2^16 entries of fewer than 2^64 units each,  *)
(* far below the 2^256 at which they would wrap.                           *)
(*                                                                         *)
(* Scalars (tweaks) form a commutative group; Times(n, s) is s added n     *)
(* times, of which only the zero cases are used.                           *)
(***************************************************************************)
EXTENDS Naturals, Sequences

CONSTANTS Tokens,         \* token uids
          HTR,            \* the uid of HTR, 32 zero bytes
          Amounts,        \* the u64 amounts that callers pass
          Scalars,        \* blinding factors (tweaks)
          ZERO_TWEAK,
          Plus(_, _),     \* addition of scalars
          Negate(_),      \* its inverse
          Times(_, _)     \* an amount times a scalar

ASSUME TokenAssumption == HTR \in Tokens

ASSUME AmountAssumption == Amounts \subseteq Nat /\ 0 \in Amounts

ASSUME ScalarAssumption ==
  /\ ZERO_TWEAK \in Scalars
  /\ \A a, b \in Scalars : Plus(a, b) \in Scalars
  /\ \A a, b \in Scalars : Plus(a, b) = Plus(b, a)
  /\ \A a, b, c \in Scalars : Plus(Plus(a, b), c) = Plus(a, Plus(b, c))
  /\ \A a \in Scalars : Plus(a, ZERO_TWEAK) = a
  /\ \A a \in Scalars : Negate(a) \in Scalars /\ Plus(a, Negate(a)) = ZERO_TWEAK
  /\ \A n \in Amounts, a \in Scalars : Times(n, a) \in Scalars
  /\ \A n \in Amounts : Times(n, ZERO_TWEAK) = ZERO_TWEAK
  /\ \A a \in Scalars : Times(0, a) = ZERO_TWEAK

Minus(a, b) == Plus(a, Negate(b))

----------------------------------------------------------------------------
(* Generators.                                                             *)

\* A tag, plus r times G when the generator is blinded.
Generator == [tag : Tokens, r : Scalars]

create_asset_commitment(token, r) == [tag |-> token, r |-> r]

\* Generator::new_unblinded: the same point as blinding by zero.
derive_asset_tag(token) == create_asset_commitment(token, ZERO_TWEAK)

htr_asset_tag == derive_asset_tag(HTR)

----------------------------------------------------------------------------
(* Points.                                                                 *)

Point == [h : [Tokens -> Nat], g : Scalars]

NoValue == [t \in Tokens |-> 0]

\* v units of token t and nothing of the others.
Units(v, token) == [t \in Tokens |-> IF t = token THEN v ELSE 0]

AddValue(a, b) == [t \in Tokens |-> a[t] + b[t]]

Identity == [h |-> NoValue, g |-> ZERO_TWEAK]

PointAdd(p, q) == [h |-> AddValue(p.h, q.h), g |-> Plus(p.g, q.g)]

\* The sums of a list of points, of scalars, of values by token.
SumUp(list, Add(_, _), zero) ==
  LET sum[j \in 0 .. Len(list)] == IF j = 0 THEN zero ELSE Add(sum[j - 1], list[j])
  IN  sum[Len(list)]

PointSum(points) == SumUp(points, PointAdd, Identity)
ScalarSum(scalars) == SumUp(scalars, Plus, ZERO_TWEAK)
ValueSum(values) == SumUp(values, AddValue, NoValue)

\* A list of lists, joined into one.
Joined(lists) == SumUp(lists, \o, << >>)

\* The multiple of G in amount * gen + blinding * G.
Opening(amount, blinding, r) == Plus(Times(amount, r), blinding)

\* PedersenCommitment::new, except that it aborts when the result is Identity.
Commit(amount, blinding, gen) ==
  [h |-> Units(amount, gen.tag), g |-> Opening(amount, blinding, gen.r)]

\* The check create_commitment makes before it calls PedersenCommitment::new.
RejectedByCreateCommitment(amount, blinding) ==
  amount = 0 /\ blinding = ZERO_TWEAK
============================================================================
