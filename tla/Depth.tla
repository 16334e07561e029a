------------------------------- MODULE Depth -------------------------------
(***************************************************************************)
(* A Depth object (DepthTracker) and a client that keeps its own orders in *)
(* step: the actions are the calls of the client, every order of calls     *)
(* that the declarations in depth.h allow.                                 *)
(***************************************************************************)
EXTENDS DepthTracker

CONSTANTS
  Orders,      \* the orders the client may have open at a time
  Prices,      \* their prices
  Quantities,  \* their quantities
  MaxChanges   \* the last change number at which a call is made: a bound

ASSUME DepthAssumption ==
  /\ SIZE \in Nat \ {0}
  /\ IsFiniteSet(Orders)
  /\ Prices \subseteq Nat \ {0}
  /\ Word \in Nat \ {0}
  /\ Quantities \subseteq 1..(Word - 1)
  /\ MaxChanges \in Nat

VARIABLES
  depth,  \* the Depth object
  order,  \* the open orders of the client
  shown   \* history: the levels as they were when last published

vars == <<depth, order, shown>>

-----------------------------------------------------------------------------
(* The client: the fills it reports are those of its own orders, or of the *)
(* one whose fills it asked to ignore.                                     *)

ClientOrder == [buy : BOOLEAN, price : Nat, qty : Quantity]
NoOrder == [buy |-> TRUE, price |-> 0, qty |-> 0]

IsOpen(o) == order[o] # NoOrder

(* All quantities fit in a word. *)
Fits(qty) == MapThenSumSet(LAMBDA o : order[o].qty, Orders) + qty < Word

Init ==
  /\ depth = NewDepth
  /\ order = [o \in Orders |-> NoOrder]
  /\ shown = NewDepth.level

Add(o) ==
  \E buy \in BOOLEAN, price \in Prices, qty \in Quantities :
    /\ ~IsOpen(o) /\ Fits(qty) /\ depth.ignore[buy] = 0
    /\ depth' = AddOrder(depth, buy, price, qty)
    /\ order' = [order EXCEPT ![o] = [buy |-> buy, price |-> price, qty |-> qty]]

Fill(o) ==
  LET c == order[o]
  IN  \E qty \in 1..c.qty :
        /\ depth.ignore[c.buy] = 0
        /\ depth' = FillOrder(depth, c.buy, c.price, qty, qty = c.qty)
        /\ order' = [order EXCEPT ![o] = IF qty = c.qty THEN NoOrder
                                         ELSE [c EXCEPT !.qty = @ - qty]]

Close(o) ==
  LET c == order[o]
  IN  /\ IsOpen(o) /\ depth.ignore[c.buy] = 0
      /\ depth' = CloseOrder(depth, c.buy, c.price, c.qty)
      /\ order' = [order EXCEPT ![o] = NoOrder]

(* A replace to a quantity of 0 at the same price leaves the order to be   *)
(* closed by a call of its own.                                            *)
Replace(o) ==
  LET c == order[o]
  IN  \E price \in Prices, qty \in Quantities \cup {0} :
        /\ c.qty > 0 /\ depth.ignore[c.buy] = 0
        /\ qty = 0 => price = c.price
        /\ Fits(qty)
        /\ depth' = ReplaceOrder(depth, c.buy, c.price, price, c.qty, qty)
        /\ order' = [order EXCEPT ![o] = [c EXCEPT !.price = price, !.qty = qty]]

Ignore ==
  \E buy \in BOOLEAN, qty \in Quantities :
    /\ depth.ignore[buy] = 0
    /\ depth' = IgnoreFillQty(depth, buy, qty)
    /\ UNCHANGED order

FillIgnored ==
  \E buy \in BOOLEAN : \E qty \in 1..depth.ignore[buy], price \in Prices :
    /\ depth' = FillOrder(depth, buy, price, qty, qty = depth.ignore[buy])
    /\ UNCHANGED order

(* The listener has seen the levels that changed. *)
Publish ==
  /\ Changed(depth)
  /\ depth' = Published(depth)
  /\ shown' = depth.level
  /\ UNCHANGED order

Next ==
  \/ Publish
  \/ /\ depth.lastChange < MaxChanges
     /\ UNCHANGED shown
     /\ \/ Ignore \/ FillIgnored
        \/ \E o \in Orders : Add(o) \/ Fill(o) \/ Close(o) \/ Replace(o)

Spec == Init /\ [][Next]_vars

-----------------------------------------------------------------------------
(* Properties *)

TypeOK ==
  /\ depth \in DepthObject
  /\ order \in [Orders -> ClientOrder]
  /\ shown \in [BOOLEAN -> [1..SIZE -> Level]]

(* The array L of a side is sorted, the best price first and the blank     *)
(* levels last, and the excess levels E, one for a price at most, are      *)
(* worse than all in the array, which is full when there are any.          *)
Ordered(L, E, buy) ==
  /\ \A i, j \in 1..SIZE :
       i < j /\ L[j].price # INVALID_LEVEL_PRICE =>
         L[i].price # INVALID_LEVEL_PRICE /\ Better(buy, L[i].price, L[j].price)
  /\ \A e \in E, i \in 1..SIZE :
       L[i].price # INVALID_LEVEL_PRICE /\ Better(buy, L[i].price, e.price)
  /\ \A e, f \in E : e.price = f.price => e = f

(* find_level() stops at the first level that is blank or worse: it would  *)
(* make a second level for a price if this did not hold after every call.  *)
WellFormed == \A buy \in BOOLEAN : Ordered(depth.level[buy], depth.excess[buy], buy)

(* The level that a call looks for is there, and holds what is to be taken *)
(* from it: no exception, and no write to the levels of the other side.    *)
NoCallFails == ~depth.failed

Total(buy, price) == LevelTotal(depth, buy, price)

(* No order is lost or counted twice while levels move between the array   *)
(* and the excess map: each price has the count and the quantity of the    *)
(* open orders there.  (insert_level_before(), erase_level())              *)
LevelsAddUp ==
  \A buy \in BOOLEAN, price \in Prices :
    LET here == {o \in Orders : order[o].buy = buy /\ order[o].price = price}
    IN  Total(buy, price) = [count |-> Cardinality(here),
                             qty |-> MapThenSumSet(LAMBDA o : order[o].qty, here)]

(* A feed may send just the levels with changed_since(): every level that  *)
(* is not as it was published has a later stamp, and changed() is true,    *)
(* unless a call failed.                                                   *)
ChangesAreStamped ==
  ~depth.failed =>
    \A buy \in BOOLEAN, i \in 1..SIZE :
      /\ depth.stamp[buy][i] <= depth.lastChange
      /\ depth.level[buy][i] # shown[buy][i] => depth.stamp[buy][i] > depth.lastPublished

(* The array is at all times what Levels promises of the totals: the best  *)
(* prices that have orders, the best one first, complete and up to date.   *)
Amounts == UNION {0..qty : qty \in Quantities}

Promise == INSTANCE Levels WITH
  Quantities <- Amounts,
  total <- [buy \in BOOLEAN |-> [p \in Prices |-> Total(buy, p)]],
  view <- depth.level

ImplementsLevels == Promise!LevelsSpec
=============================================================================
