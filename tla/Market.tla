-------------------------------- MODULE Market --------------------------------
(***************************************************************************)
(* The order entry program: the commands of orderentry::Market on the book *)
(* of a symbol, and what its Order objects show, which the market keeps up *)
(* to date as a listener of the book.                                      *)
(*                                                                         *)
(* Books do not share orders, so one symbol is enough.  The number of an   *)
(* order in the model is its order id: orderIdSeed_ is the number of       *)
(* orders so far.                                                          *)
(*                                                                         *)
(* The program has orders of its own class and no SimpleOrder: shown has   *)
(* what they say.  The book reads the price and the quantity of its orders *)
(* from order; MarketProofs proves that these are the price and quantity   *)
(* of shown at every step.  The fields filled and state of order have no   *)
(* counterpart in the program.                                             *)
(***************************************************************************)
EXTENDS OrderBook

CONSTANTS
  MaxQuantity,  \* the greatest quantity that doAdd() takes
  MaxPrice      \* the greatest price that it takes

ASSUME MarketAssumption == MaxQuantity \in Nat /\ MaxPrice \in Nat

VARIABLE shown  \* the Order objects; history has the states in history_, event the last

marketVars == <<vars, shown>>

Event == {"Unknown", "Submitted", "Rejected", "Accepted", "Modified", "ModifyRejected",
          "Filled", "CancelRejected", "Cancelled"}

Shown == [price : Price, quantity : Int, onMarket : Nat, event : Event,
          history : SUBSET Event]

(* An order object after an event.  quantityFilled_ is 0 for ever: no      *)
(* function of Order changes it.                                           *)
Noted(s, event, onMarket) ==
  [s EXCEPT !.event = event, !.history = @ \cup {event}, !.onMarket = onMarket]

Show(o, s) == shown' = [shown EXCEPT ![o] = s]

-----------------------------------------------------------------------------
(* Commands *)

NewShown(t) == [price |-> t.price, quantity |-> t.qty, onMarket |-> 0,
                event |-> "Submitted", history |-> {"Submitted"}]

(* doAdd(), for BUY and SELL: the book is told the conditions as well.  A  *)
(* stop price may be above MaxPrice: a prompted one that is too high is    *)
(* reported and kept.                                                      *)
DoAdd(o, t) ==
  /\ t.qty \in 1..MaxQuantity
  /\ t.price <= MaxPrice
  /\ Add(o, t)
  /\ Show(o, NewShown(t))

(* doCancel(): findExistingOrder() finds every order that was added. *)
DoCancel(o) == Cancel(o) /\ UNCHANGED shown

(* doModify(): the quantity of the command is a change; price 0 is none. *)
DoModify(o, quantity, price) == Replace(o, quantity, price) /\ UNCHANGED shown

-----------------------------------------------------------------------------
(* The listener.  OnFilled, OnReplaced and the rest are those of Order.    *)

(* Any fill, the last one or not, shows as Filled. *)
OnFilled(s, qty) == Noted(s, "Filled", s.onMarket - qty)

OnFill(cb) ==
  shown' = [o \in Order |-> IF o \in {cb.order, cb.matched} THEN OnFilled(shown[o], cb.qty)
                            ELSE shown[o]]

(* Mutant of OnCancelled: the quantity stays. *)
OnCancelledKeeps(s) == Noted(s, "Cancelled", s.onMarket)

OnCancelled(s) == Noted(s, "Cancelled", 0)

OnReplaced(s, delta, price) ==
  [Noted(s, "Modified", s.onMarket + delta) EXCEPT
     !.quantity = @ + delta, !.price = IF price = 0 THEN @ ELSE price]

Listen(cb) ==
  LET o == cb.order
      s == shown[o]
  IN  CASE cb.type = "accept" -> Show(o, Noted(s, "Accepted", s.quantity))
        [] cb.type = "reject" -> Show(o, Noted(s, "Rejected", s.onMarket))
        [] cb.type = "fill" -> OnFill(cb)
        [] cb.type = "cancel" -> Show(o, OnCancelled(s))
        [] cb.type = "cancel_reject" -> Show(o, Noted(s, "CancelRejected", s.onMarket))
        [] cb.type = "replace" -> Show(o, OnReplaced(s, cb.delta, cb.price))
        [] cb.type = "replace_reject" -> Show(o, Noted(s, "ModifyRejected", s.onMarket))
        [] cb.type = "book_update" -> UNCHANGED shown

PerformShown == Perform /\ Listen(Head(working))

-----------------------------------------------------------------------------

NoShown == [price |-> 0, quantity |-> 0, onMarket |-> 0, event |-> "Unknown", history |-> {}]

MarketInit == Init /\ shown = [o \in Order |-> NoShown]

Command ==
  \/ \E o \in Order, t \in Menu : DoAdd(o, t)
  \/ \E o \in Order : DoCancel(o)
  \/ \E o \in Order, quantity \in Deltas, price \in NewPrices : DoModify(o, quantity, price)

MarketNext ==
  \/ Command
  \/ PerformShown
  \/ (MatchStep \/ AddOrderStep \/ PendingStep) /\ UNCHANGED shown

MarketSpec == MarketInit /\ [][MarketNext]_marketVars

-----------------------------------------------------------------------------
(* Properties *)

MarketTypeOK ==
  /\ TypeOK
  /\ shown \in [Order -> Shown]

(* Between two commands the program shows of every order the quantity that *)
(* is left of it in the book or held as a stop, and 0 when it is neither:  *)
(* fills, changes of the quantity and cancels are counted once each and in *)
(* an order in which no quantity becomes negative.                         *)
ShowsOpenQuantity ==
  Idle => \A o \in Order :
            shown[o].onMarket = IF o \in market[order[o].buy] \cup stops[order[o].buy]
                                THEN open[o] ELSE 0

(* Between two commands the object of every resting order has the price    *)
(* its entry is filed under, by which alone CANCEL and MODIFY find it, and *)
(* its quantity is what was traded and what is left of it: of fills, and   *)
(* modifications of the price and the quantity, none is missed or counted  *)
(* twice.                                                                  *)
OrdersAreFound ==
  Idle => \A s \in Side : \A o \in market[s] :
            /\ shown[o].price = key[o]
            /\ shown[o].quantity = traded[o] + open[o]

(* An order with a Cancelled in its history never trades again, however    *)
(* the book goes on, and shows no quantity: it only ever notes that        *)
(* further requests for it are refused.                                    *)
CancelledOrdersAreOver ==
  [][\A o \in Order : "Cancelled" \in shown[o].history =>
       /\ traded'[o] = traded[o]
       /\ shown'[o].onMarket = 0
       /\ shown'[o].event \in {"Cancelled", "CancelRejected", "ModifyRejected"}]_marketVars
=============================================================================
