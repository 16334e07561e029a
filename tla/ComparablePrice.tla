--------------------------- MODULE ComparablePrice ---------------------------
(***************************************************************************)
(* book::ComparablePrice: a price that knows which side of the market it   *)
(* is on.  It is the key of the four multimaps of the order book, so its   *)
(* operator< decides the order in which resting orders are visited and     *)
(* matches() decides where the visit stops.                                *)
(*                                                                         *)
(* The first operand of every operator is the pair (buy, p) that the C++   *)
(* object holds; the second one is a plain price.  0 is a market price.    *)
(***************************************************************************)
EXTENDS Integers

Price == Nat
MARKET_ORDER_PRICE == 0

(* matches(): can the key trade with a price of the opposite side? *)
Matches(buy, p, rhs) ==
  \/ p = rhs
  \/ buy /\ (rhs < p \/ p = MARKET_ORDER_PRICE)
  \/ ~buy /\ (p < rhs \/ rhs = MARKET_ORDER_PRICE)

(* Mutant of Less: a market price does not sort first. *)
LessWithoutMarket(buy, p, rhs) == IF buy THEN rhs < p ELSE p < rhs

(* operator<: is the key easier to match than a price of the same side? *)
Less(buy, p, rhs) ==
  /\ rhs # MARKET_ORDER_PRICE
  /\ \/ p = MARKET_ORDER_PRICE
     \/ buy /\ rhs < p
     \/ ~buy /\ p < rhs

(* operator>: is the key harder to match than a price of the same side? *)
Greater(buy, p, rhs) ==
  /\ p # MARKET_ORDER_PRICE
  /\ \/ rhs = MARKET_ORDER_PRICE
     \/ IF buy THEN rhs > p ELSE p > rhs

LessOrEqual(buy, p, rhs) == Less(buy, p, rhs) \/ p = rhs

GreaterOrEqual(buy, p, rhs) == Greater(buy, p, rhs) \/ p = rhs
=============================================================================
