------------------------------- MODULE MCMarket -------------------------------
(***************************************************************************)
(* The orders that are entered when model-checking Market.                 *)
(***************************************************************************)
EXTENDS Market

Limit(buy, price, qty) ==
  [buy |-> buy, price |-> price, qty |-> qty, stop |-> 0, aon |-> FALSE,
   ioc |-> FALSE]

(* Limit orders that trade with each other, a market and an immediate-or-  *)
(* cancel order, stops of both sides, one of them above the greatest       *)
(* price, and an order that the program refuses to enter.                  *)
EntryMenu ==
  {Limit(TRUE, 1, 2), Limit(FALSE, 2, 2), Limit(FALSE, 0, 1),
   [Limit(FALSE, 1, 3) EXCEPT !.ioc = TRUE], [Limit(FALSE, 1, 1) EXCEPT !.stop = 1],
   [Limit(TRUE, 2, 1) EXCEPT !.stop = 3], Limit(FALSE, 1, 0)}

EntryDeltas == {-2, 0, 1}
=============================================================================
