--------------------------- MODULE MCDepthOrderBook ---------------------------
(***************************************************************************)
(* Order menus for model-checking DepthOrderBook.                          *)
(***************************************************************************)
EXTENDS DepthOrderBook

Limit(buy, price, qty) ==
  [buy |-> buy, price |-> price, qty |-> qty, stop |-> 0, aon |-> FALSE,
   ioc |-> FALSE]

Buy(price, qty) == Limit(TRUE, price, qty)
Sell(price, qty) == Limit(FALSE, price, qty)

(* Limit orders at three bid prices, orders that fill at once, an          *)
(* all-or-none, a market and an immediate-or-cancel order, a stop order    *)
(* that is held and counted, and an order that is refused.                 *)
DepthMenu ==
  {Buy(2, 2), [Buy(3, 2) EXCEPT !.ioc = TRUE],
   Sell(2, 1), [Sell(2, 2) EXCEPT !.aon = TRUE],
   [Sell(2, 1) EXCEPT !.stop = 1], Sell(0, 1)}

DepthDeltas == {-1}

(* A bid that is filled in part and then moved. *)
MovedMenu == {Buy(1, 2), Sell(1, 1)}
=============================================================================
