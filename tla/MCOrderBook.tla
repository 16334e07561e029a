---------------------------- MODULE MCOrderBook ----------------------------
(***************************************************************************)
(* Order menus for model-checking OrderBook.                               *)
(***************************************************************************)
EXTENDS OrderBook

Limit(buy, price, qty) ==
  [buy |-> buy, price |-> price, qty |-> qty, stop |-> 0, aon |-> FALSE,
   ioc |-> FALSE]

Buy(price, qty) == Limit(TRUE, price, qty)
Sell(price, qty) == Limit(FALSE, price, qty)
Aon(t) == [t EXCEPT !.aon = TRUE]
Ioc(t) == [t EXCEPT !.ioc = TRUE]
Stop(t, price) == [t EXCEPT !.stop = price]

(* Limit and market orders, immediate-or-cancel orders, and stop orders of *)
(* both sides that become limit and market orders, and an empty order.     *)
MatchingMenu ==
  {Buy(0, 1), Buy(1, 2), Buy(3, 1), Ioc(Buy(2, 2)), Stop(Buy(0, 1), 3),
   Sell(0, 2), Sell(1, 1), Sell(3, 2), Sell(3, 0), Stop(Sell(1, 1), 1)}

(* All-or-none limit orders that need one or several regular or            *)
(* all-or-none orders of the other side.                                   *)
AonMenu ==
  {Buy(1, 1), Buy(2, 2), Aon(Buy(2, 4)), Aon(Buy(1, 3)),
   Sell(1, 2), Sell(2, 1), Aon(Sell(1, 1)), Aon(Sell(1, 2)), Ioc(Aon(Sell(2, 3)))}

(* Orders for a listener that calls the book, with a stop that the first  *)
(* trade triggers, and with an all-or-none order that is deferred.         *)
SmallDeltas == {-2, 1}

SmallMenu == {Buy(1, 2), Sell(1, 1), Stop(Sell(1, 1), 1)}

ThrowMenu == SmallMenu \cup {Aon(Sell(1, 3))}

-----------------------------------------------------------------------------
(* Menus for what the code does otherwise than its documentation says. *)

MarketAonMenu == {Aon(Buy(0, 3)), Sell(0, 1), Sell(1, 1)}

AonReplaceMenu == {Aon(Sell(2, 2)), Buy(1, 1), Buy(2, 1)}
=============================================================================
