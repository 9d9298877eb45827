----------------------------- MODULE TokenLedger -----------------------------
(***************************************************************************)
(* What the verifiers promise together: a ledger in which everything can   *)
(* be seen.  A coin is a positive number of units of one token; a transfer *)
(* replaces some coins by others that are worth the same, less the fee.    *)
(***************************************************************************)
EXTENDS Naturals, Bags

CONSTANTS Tokens,
          HTR,        \* the token in which fees are paid
          MaxAmount,  \* the largest amount of one coin
          Genesis     \* the coins there are at first

VARIABLE coins        \* a bag of coins

\* What a coin is worth, by token.
Coin(amount, token) == [t \in Tokens |-> IF t = token THEN amount ELSE 0]

IsCoin(worth) == \E amount \in 1 .. MaxAmount, t \in Tokens : worth = Coin(amount, t)

AddWorth(a, b) == [t \in Tokens |-> a[t] + b[t]]

Copies(coin, bag) == IF BagIn(coin, bag) THEN bag[coin] ELSE 0

\* In each token, the coins of one unit, of two units, and so on.
Total(bag) ==
  [t \in Tokens |->
     LET upTo[amount \in 0 .. MaxAmount] ==
           IF amount = 0 THEN 0
           ELSE upTo[amount - 1] + amount * Copies(Coin(amount, t), bag)
     IN  upTo[MaxAmount]]

\* The bags of some of the coins.
Part(bag) ==
  {b \in UNION {[S -> UNION {1 .. bag[c] : c \in S}] : S \in SUBSET BagToSet(bag)} :
     b \sqsubseteq bag}

Init == coins = Genesis

\* From the coins there are, some are spent and others made; the difference in
\* worth is the fee.
Transfer(spent, left, made) ==
  /\ coins' = left (+) made
  /\ \A c \in BagToSet(made) : IsCoin(c)
  /\ \E fee \in 0 .. MaxAmount : Total(spent) = AddWorth(Total(made), Coin(fee, HTR))

\* What is made is what there is then and was not left.
Next == \E spent \in Part(coins) :
          LET left == coins (-) spent
          IN  Transfer(spent, left, coins' (-) left)

Spec == Init /\ [][Next]_coins
=============================================================================
