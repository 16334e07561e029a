---------------------------- MODULE DepthOrderBook ----------------------------
(***************************************************************************)
(* book::DepthOrderBook and simple::SimpleOrderBook: the matching engine   *)
(* with a Depth that is kept by the callbacks, not by the changes they     *)
(* tell of.  When a callback is delivered the depth is changed from what   *)
(* the callback and the order object say, and only then is the order       *)
(* object told; a call of the depth that throws leaves the object untold.  *)
(***************************************************************************)
EXTENDS OrderBook

CONSTANTS
  SIZE,  \* the levels of a side that the depth shows
  Word   \* quantities are modulo this: 2^32 in the code

ASSUME DepthBookAssumption == SIZE \in Nat \ {0} /\ Word \in Nat /\ Word > 1

D == INSTANCE DepthTracker

VARIABLES
  depth,     \* depth_
  seen,      \* history: the levels when on_depth_change() was last called
  seenBest,  \* history: the first levels when on_bbo_change() was last called
  misled     \* history: the depth was told other than the order's open quantity

depthVars == <<depth, seen, seenBest, misled>>
bookVars == <<vars, depthVars>>

-----------------------------------------------------------------------------
(* The callbacks that DepthOrderBook handles *)

IsLimit(o) == order[o].price # MARKET_ORDER_PRICE

(* Mutant of OnAccept: the fills of an order that was not added are not    *)
(* announced to be ignored.                                                *)
OnAcceptNoIgnore(d, o, filled) ==
  IF IsLimit(o) /\ filled # order[o].qty
  THEN D!AddOrder(d, order[o].buy, order[o].price, order[o].qty) ELSE d

(* An order that is filled when it is accepted never enters the depth.     *)
OnAccept(d, o, filled) ==
  LET x == order[o]
  IN  CASE ~IsLimit(o) -> d
        [] IsLimit(o) /\ filled = x.qty -> D!IgnoreFillQty(d, x.buy, filled)
        [] OTHER -> D!AddOrder(d, x.buy, x.price, x.qty)

(* Mutant of FillPart: the flag of the order is not looked at. *)
FillPartUnflagged(d, o, cb) ==
  IF IsLimit(o)
  THEN D!FillOrder(d, order[o].buy, order[o].price, cb.qty, FALSE)
  ELSE d

FillPart(d, o, cb) ==
  IF IsLimit(o)
  THEN D!FillOrder(d, order[o].buy, order[o].price, cb.qty, o \in cb.done)
  ELSE d

OnFill(d, cb) == FillPart(FillPart(d, cb.matched, cb), cb.order, cb)

OnCancel(d, o, qty) ==
  IF IsLimit(o) THEN D!CloseOrder(d, order[o].buy, order[o].price, qty) ELSE d

(* Mutant of OnReplace: the prices are swapped. *)
OnReplaceBack(d, o, delta, price) ==
  LET x == order[o]
  IN  D!ReplaceOrder(d, x.buy, price, x.price, x.qty, x.qty + delta)

(* The current quantity is that of the order, not what it has open. *)
OnReplace(d, o, delta, price) ==
  LET x == order[o]
  IN  D!ReplaceOrder(d, x.buy, x.price, price, x.qty, x.qty + delta)

Heard(d, cb) ==
  CASE cb.type = "accept" -> OnAccept(d, cb.order, cb.qty)
    [] cb.type = "fill" -> OnFill(d, cb)
    [] cb.type = "cancel" -> OnCancel(d, cb.order, cb.qty)
    [] cb.type = "replace" -> OnReplace(d, cb.order, cb.delta, cb.price)
    [] cb.type = "book_update" /\ D!Changed(d) -> D!Published(d)
    [] OTHER -> d

(* The first levels, and whether the listener for them is called. *)
Best(d) == [buy \in Side |-> d.level[buy][1]]

(* Mutant of BestChanged: the asks are not looked at. *)
BidChanged(d) == d.stamp[TRUE][1] > d.lastPublished

BestChanged(d) == \E buy \in Side : d.stamp[buy][1] > d.lastPublished

(* Three callbacks do not tell the depth what it needs: the cancel of an   *)
(* immediate-or-cancel order has quantity 0; the replace of a market order *)
(* moves an order that is not in the depth; and a partly filled order is   *)
(* moved to another price with its whole quantity.                         *)
Misleads(cb) ==
  LET x == order[cb.order]
  IN  \/ cb.type = "cancel" /\ IsLimit(cb.order) /\ cb.qty # x.qty - x.filled
      \/ cb.type = "replace" /\ ~IsLimit(cb.order)
      \/ cb.type = "replace" /\ cb.price # x.price /\ x.filled > 0

(* SimpleOrderBook::perform_callback().  A call of the depth that failed   *)
(* threw, and the object is not told, or it used a level it did not mean.  *)
PerformWithDepth ==
  /\ Performed
  /\ \E cb \in {Head(working)} :
       /\ depth' = Heard(depth, cb)
       /\ misled' = (misled \/ Misleads(cb))
       /\ IF cb.type = "book_update" /\ D!Changed(depth)
          THEN /\ seen' = depth.level
               /\ seenBest' = IF BestChanged(depth) THEN Best(depth) ELSE seenBest
          ELSE UNCHANGED <<seen, seenBest>>
       /\ \/ order' = Notified(cb)
          \/ depth'.failed /\ UNCHANGED order

-----------------------------------------------------------------------------

DepthInit ==
  /\ Init
  /\ depth = D!NewDepth
  /\ seen = D!NewDepth.level
  /\ seenBest = Best(D!NewDepth)
  /\ misled = FALSE

DepthNext ==
  \/ PerformWithDepth
  \/ (MatchStep \/ AddOrderStep \/ PendingStep \/ Application) /\ UNCHANGED depthVars

DepthSpec == DepthInit /\ [][DepthNext]_bookVars

-----------------------------------------------------------------------------
(* Properties *)

DepthTypeOK ==
  /\ TypeOK
  /\ depth \in D!DepthObject
  /\ seen \in [Side -> [1..SIZE -> D!Level]]
  /\ seenBest \in [Side -> D!Level]
  /\ misled \in BOOLEAN

(* The limit orders that are in the book or held as stops. *)
Living(buy) == {o \in market[buy] \cup stops[buy] : IsLimit(o)}

OpenAt(buy, price) ==
  LET here == {o \in Living(buy) : order[o].price = price}
  IN  [count |-> Cardinality(here), qty |-> D!MapThenSumSet(LAMBDA o : open[o], here)]

DepthPrices == {order[o].price : o \in Used} \ {MARKET_ORDER_PRICE}

AddsUp == \A buy \in Side, price \in DepthPrices :
            D!LevelTotal(depth, buy, price) = OpenAt(buy, price)

(* README.md:17: a depth book "records the number of open orders and total *)
(* quantity represented by those orders at individual price levels".       *)
DepthRecordsOpenQuantity == Idle => AddsUp

(* After each call the depth has at each price the orders of the engine's  *)
(* containers and their open quantity, whatever mixture of fills on        *)
(* arrival, later fills, triggered stops, resizes, moves and cancels was   *)
(* delivered late, but for the three callbacks that mislead it.            *)
DepthFollowsBook == Idle /\ ~misled => AddsUp

(* No call of the depth throws or changes a level that is not its own, and *)
(* what it was asked to ignore is used up when the call returns: the fills *)
(* of an order that arrives are delivered next to its acceptance.          *)
NoDepthCallFails ==
  ~misled => ~depth.failed /\ (Idle => \A buy \in Side : depth.ignore[buy] = 0)

(* When a call returns, the listeners have seen the levels as they are:    *)
(* the depth listener all of them, the best-bid-and-offer listener the     *)
(* first ones (on_order_book_change()).                                    *)
ListenersAreCurrent ==
  Idle /\ ~depth.failed => seen = depth.level /\ seenBest = Best(depth)

(* No order object misses what happened to it because the depth threw:     *)
(* after each call the objects agree with the engine.                      *)
ObjectsAreTold == ~misled => ApplicationAgrees
=============================================================================
