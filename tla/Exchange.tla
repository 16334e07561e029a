------------------------------- MODULE Exchange -------------------------------
(***************************************************************************)
(* The example exchange: the FIX handlers of publisher_main.cpp, the table *)
(* of orders of the Exchange, one book of plain limit orders, and the rows *)
(* of the database the orders are loaded from when the process starts.     *)
(*                                                                         *)
(* One thread handles the requests one after the other.  A process may be  *)
(* killed between any two steps, and then only the rows are left.  A trade *)
(* is written as two updates, one for each order; an update that fails is  *)
(* reported and forgotten.  The rows are inserted by the web application,  *)
(* which is not in the repository.                                         *)
(*                                                                         *)
(* The book does for plain limit orders what OrderBook does, see there.    *)
(***************************************************************************)
EXTENDS Integers, Sequences, FiniteSets, Functions

CONSTANTS
  Ids, NoId,
  Buys,         \* the identifiers of buy orders
  Price,        \* the limit price of an order, in parts of a cent
  Cent,         \* how many parts a cent has
  Amount,       \* the amount of an order, in parts of a unit
  Unit,         \* how many parts a unit has
  MaxRequests,  \* how many requests are sent: a bound
  MaxCrashes,   \* how many times the process is killed: a bound
  MaxFailures   \* how many statements of the database fail: a bound

ASSUME ExchangeAssumption ==
  /\ NoId \notin Ids /\ Buys \subseteq Ids /\ IsFiniteSet(Ids)
  /\ Price \in [Ids -> Nat \ {0}] /\ Amount \in [Ids -> Nat] /\ Unit \in Nat \ {0}
  /\ MaxRequests \in Nat /\ MaxCrashes \in Nat /\ MaxFailures \in Nat

ASSUME PriceAssumption == Cent \in Nat \ {0} /\ \A o \in Ids : Price[o] >= Cent

VARIABLES
  \* the database
  row,       \* status and market_amount of each order
  placed,    \* the orders by order_place_date
  \* the process
  server,    \* "down", "loading" its orders, or "serving" FIX requests
  result,    \* what is left of the result of the query for orders
  known,     \* orders_, the table of the exchange
  object,    \* the order objects: what their rows said, state, quantityOnMarket_
  queue,     \* the orders that rest in the book, in order of arrival
  open,      \* their open quantities
  adding,    \* the order in add_order()
  matching,  \* the same while add() has still to match it
  calls,     \* the calls of the order objects that are due
  requests, crashes, failures,
  \* history
  behind,    \* orders whose row does not say what their object says
  excused,   \* orders that were taken up again from a row that was behind
  traded,    \* the quantity of each order that was ever traded
  lost       \* the quantity whose record was lost on one side of a trade

database == <<row, placed>>
memory == <<known, object, queue, open, adding, matching, calls>>
bounds == <<requests, crashes, failures>>
history == <<behind, excused, traded, lost>>

vars == <<database, server, result, memory, bounds, history>>

(* The conversion from the double of a row or a message to a Quantity. *)
Units(amount) == amount \div Unit

(* The same for the price, which loses what is less than a cent.  Below a  *)
(* cent it would be 0, the price of a market order; there are none here.   *)
BookPrice(o) == Price[o] \div Cent

Final == {"Completed", "Cancelled"}

State == {"none", "Accepted", "PartialFilled", "Filled", "Cancelled"}

Call == [kind : {"accept", "fill", "cancel"}, order : Ids, qty : Nat]

Told(kind, o, qty) == [kind |-> kind, order |-> o, qty |-> qty]

Idle == adding = NoId /\ calls = <<>>

FreshObject == [status |-> "", state |-> "none", onMarket |-> 0]

(* What the row of an order says was traded of it. *)
Booked(o) ==
  Units(Amount[o]) - IF row[o].status = "Completed" THEN 0 ELSE Units(row[o].amount)

-----------------------------------------------------------------------------
(* Adding an order *)

NewObject(o, amount, status) ==
  /\ object' = [object EXCEPT ![o] = [FreshObject EXCEPT !.status = status]]
  /\ adding' = o
  /\ open' = [open EXCEPT ![o] = Units(amount)]
  /\ IF Units(amount) = 0
     THEN UNCHANGED <<matching, calls>>
     ELSE matching' = o /\ calls' = <<Told("accept", o, Units(amount))>>
  /\ UNCHANGED <<known, queue>>

(* processOrder() and Exchange::add_order(): nothing for an order that is  *)
(* in the table.  One without a whole unit is rejected by the book, which  *)
(* tells its object nothing.                                               *)
AddOrder(o, amount, status) ==
  IF o \in known THEN UNCHANGED memory ELSE NewObject(o, amount, status)

Crosses(o, p) ==
  /\ (o \in Buys) # (p \in Buys)
  /\ IF o \in Buys THEN BookPrice(p) <= BookPrice(o) ELSE BookPrice(p) >= BookPrice(o)

Better(p, q) ==
  IF p \in Buys THEN BookPrice(p) > BookPrice(q) ELSE BookPrice(p) < BookPrice(q)

(* The first order in the queue at the best price. *)
IsBest(k) ==
  /\ Crosses(matching, queue[k])
  /\ \A j \in DOMAIN queue :
       Crosses(matching, queue[j]) =>
         /\ ~Better(queue[j], queue[k])
         /\ j < k => Better(queue[k], queue[j])

(* Mutant of TradeQty: what the resting order has. *)
TradeQtyResting(p) == open[p]

TradeQty(p) == IF open[matching] < open[p] THEN open[matching] ELSE open[p]

Without(k) == SubSeq(queue, 1, k - 1) \o SubSeq(queue, k + 1, Len(queue))

(* A trade: both orders will be told, the inbound one first. *)
Match ==
  /\ matching # NoId
  /\ \E k \in DOMAIN queue :
       /\ IsBest(k)
       /\ LET p == queue[k]
              qty == TradeQty(p)
          IN  /\ open' = [open EXCEPT ![matching] = @ - qty, ![p] = @ - qty]
              /\ calls' = calls \o <<Told("fill", matching, qty), Told("fill", p, qty)>>
              /\ queue' = IF open[p] = qty THEN Without(k) ELSE queue
              /\ matching' = IF open[matching] = qty THEN NoId ELSE matching
  /\ UNCHANGED <<database, server, result, known, object, adding, bounds, history>>

(* No order crosses: what is left of the order rests in the book. *)
Rest ==
  /\ matching # NoId
  /\ \A k \in DOMAIN queue : ~Crosses(matching, queue[k])
  /\ queue' = Append(queue, matching)
  /\ matching' = NoId
  /\ UNCHANGED <<database, server, result, known, object, open, adding, calls, bounds, history>>

(* The table has the order when the book has told all it had to tell. *)
Added ==
  /\ adding # NoId
  /\ matching = NoId
  /\ calls = <<>>
  /\ known' = known \cup {adding}
  /\ adding' = NoId
  /\ UNCHANGED <<database, server, result, object, queue, open, matching, calls, bounds, history>>

-----------------------------------------------------------------------------
(* What an order object does when it is called, and the update of its row. *)

(* onAccepted(): the state is the one of the row; nothing is written. *)
OnAccepted(x, qty) ==
  [x EXCEPT !.onMarket = qty,
            !.state = IF x.status = "Processing" THEN "PartialFilled" ELSE "Accepted"]

OnFilled(x, qty) ==
  [x EXCEPT !.onMarket = @ - qty,
            !.state = IF x.onMarket > qty THEN "PartialFilled" ELSE "Filled"]

OnCancelled(x) == [x EXCEPT !.onMarket = 0, !.state = "Cancelled"]

(* Mutant of Written: writes what was traded and not what is left. *)
WrittenTraded(r, x) ==
  CASE x.state = "PartialFilled" ->
         [status |-> "Processing", amount |-> r.amount - x.onMarket * Unit]
    [] x.state = "Filled" -> [r EXCEPT !.status = "Completed"]
    [] x.state = "Cancelled" -> [r EXCEPT !.status = "Cancelled"]

(* sendJSONtoSocket() *)
Written(r, x) ==
  CASE x.state = "PartialFilled" -> [status |-> "Processing", amount |-> x.onMarket * Unit]
    [] x.state = "Filled" -> [r EXCEPT !.status = "Completed"]
    [] x.state = "Cancelled" -> [r EXCEPT !.status = "Cancelled"]

(* An order that is sent when its row is final, or when part of it was     *)
(* traded, starts anew: its row is behind, and what it booked will be      *)
(* overwritten.                                                            *)
StartsAnew(o) == server = "serving" /\ (row[o].status \in Final \/ Booked(o) > 0)

TellAccept ==
  /\ Head(calls).kind = "accept"
  /\ LET o == Head(calls).order
     IN  /\ object' = [object EXCEPT ![o] = OnAccepted(@, Head(calls).qty)]
         /\ IF StartsAnew(o)
            THEN /\ behind' = behind \cup {o}
                 /\ excused' = excused \cup {o}
                 /\ lost' = lost + Booked(o)
            ELSE UNCHANGED <<behind, excused, lost>>
  /\ UNCHANGED <<row, traded, failures>>

(* The statement for the row may fail. *)
Update(o, x, qty) ==
  /\ object' = [object EXCEPT ![o] = x]
  /\ \/ /\ row' = [row EXCEPT ![o] = Written(@, x)]
        /\ behind' = behind \ {o}
        /\ UNCHANGED <<lost, failures>>
     \/ /\ failures < MaxFailures
        /\ failures' = failures + 1
        /\ behind' = behind \cup {o}
        /\ lost' = lost + qty
        /\ UNCHANGED row

TellFill ==
  /\ Head(calls).kind = "fill"
  /\ LET o == Head(calls).order
         qty == Head(calls).qty
     IN  /\ Update(o, OnFilled(object[o], qty), qty)
         /\ traded' = [traded EXCEPT ![o] = @ + qty]
  /\ UNCHANGED excused

TellCancel ==
  /\ Head(calls).kind = "cancel"
  /\ LET o == Head(calls).order IN Update(o, OnCancelled(object[o]), 0)
  /\ UNCHANGED <<excused, traded>>

(* perform_callbacks(): a call at a time, after the matching is done. *)
Tell ==
  /\ matching = NoId
  /\ calls # <<>>
  /\ TellAccept \/ TellFill \/ TellCancel
  /\ calls' = Tail(calls)
  /\ UNCHANGED <<placed, server, result, known, queue, open, adding, matching, requests, crashes>>

-----------------------------------------------------------------------------
(* FIX requests *)

Request ==
  /\ server = "serving"
  /\ Idle
  /\ requests < MaxRequests
  /\ requests' = requests + 1
  /\ UNCHANGED <<database, server, result, crashes, failures, history>>

(* onMessage(NewOrderSingle): an order may be sent more than once. *)
NewOrder(o) ==
  /\ row[o].status # "none"
  /\ AddOrder(o, Amount[o], "")
  /\ Request

(* onMessage(OrderCancelRequest): the book refuses an order it has not. *)
CancelOrder(o) ==
  /\ o \in known
  /\ \E k \in DOMAIN queue : queue[k] = o /\ queue' = Without(k)
  /\ open' = [open EXCEPT ![o] = 0]
  /\ calls' = <<Told("cancel", o, 0)>>
  /\ UNCHANGED <<known, object, adding, matching>>
  /\ Request

(* The web application inserts a row before it sends the order. *)
Place(o) ==
  /\ row[o].status = "none"
  /\ row' = [row EXCEPT ![o].status = "Pending"]
  /\ placed' = Append(placed, o)
  /\ UNCHANGED <<server, result, memory, bounds, history>>

-----------------------------------------------------------------------------
(* Crash and start *)

(* The quantity of a trade of which one of the two orders was told. *)
HalfTold ==
  IF Len(calls) % 2 = 1 /\ Head(calls).kind = "fill" THEN Head(calls).qty ELSE 0

Crash ==
  /\ server # "down"
  /\ crashes < MaxCrashes
  /\ crashes' = crashes + 1
  /\ server' = "down"
  /\ result' = <<>>
  /\ known' = {}
  /\ object' = [o \in Ids |-> FreshObject]
  /\ queue' = <<>>
  /\ open' = [o \in Ids |-> 0]
  /\ adding' = NoId /\ matching' = NoId
  /\ calls' = <<>>
  /\ lost' = lost + HalfTold
  /\ excused' = excused \cup behind
  /\ behind' = {}
  /\ UNCHANGED <<database, requests, failures, traded>>

(* Mutant of Wanted: all orders that are not completed. *)
WantedNotCompleted(r) == r.status # "Completed"

Wanted(r) == r.status \notin Final

(* The member of S that has n - 1 smaller ones. *)
Nth(S, n) == CHOOSE k \in S : Cardinality({j \in S : j <= k}) = n

(* main(): the query for the orders that are not final, by place date. *)
Start ==
  /\ server = "down"
  /\ server' = "loading"
  /\ LET wanted == {k \in DOMAIN placed : Wanted(row[placed[k]])}
         Row(o) == [order |-> o, status |-> row[o].status, amount |-> row[o].amount]
     IN  result' = [n \in 1..Cardinality(wanted) |-> Row(placed[Nth(wanted, n)])]
  /\ UNCHANGED <<database, memory, bounds, history>>

(* Mutant of Load: with the amount that was ordered, not what is left. *)
LoadOrdered ==
  /\ server = "loading" /\ Idle /\ result # <<>>
  /\ AddOrder(Head(result).order, Amount[Head(result).order], Head(result).status)
  /\ result' = Tail(result)
  /\ UNCHANGED <<database, server, bounds, history>>

Load ==
  /\ server = "loading" /\ Idle /\ result # <<>>
  /\ AddOrder(Head(result).order, Head(result).amount, Head(result).status)
  /\ result' = Tail(result)
  /\ UNCHANGED <<database, server, bounds, history>>

(* An exception of the database while the orders are loaded is caught, and *)
(* the exchange opens with those it has.                                   *)
LoadFails ==
  /\ server = "loading" /\ Idle
  /\ failures < MaxFailures
  /\ failures' = failures + 1
  /\ server' = "serving"
  /\ result' = <<>>
  /\ UNCHANGED <<database, memory, requests, crashes, history>>

Serve ==
  /\ server = "loading" /\ Idle /\ result = <<>>
  /\ server' = "serving"
  /\ UNCHANGED <<database, result, memory, bounds, history>>

-----------------------------------------------------------------------------

Init ==
  /\ row = [o \in Ids |-> [status |-> "none", amount |-> Amount[o]]]
  /\ placed = <<>>
  /\ server = "down"
  /\ result = <<>>
  /\ known = {}
  /\ object = [o \in Ids |-> FreshObject]
  /\ queue = <<>>
  /\ open = [o \in Ids |-> 0]
  /\ adding = NoId /\ matching = NoId
  /\ calls = <<>>
  /\ requests = 0 /\ crashes = 0 /\ failures = 0
  /\ behind = {} /\ excused = {}
  /\ traded = [o \in Ids |-> 0]
  /\ lost = 0

Next ==
  \/ \E o \in Ids : Place(o) \/ NewOrder(o) \/ CancelOrder(o)
  \/ Match \/ Rest \/ Tell \/ Added
  \/ Crash \/ Start \/ Load \/ LoadFails \/ Serve

Spec == Init /\ [][Next]_vars

-----------------------------------------------------------------------------
(* Properties *)

ExchangeTypeOK ==
  /\ row \in [Ids -> [status : {"none", "Pending", "Processing"} \cup Final, amount : Nat]]
  /\ placed \in Seq(Ids)
  /\ server \in {"down", "loading", "serving"}
  /\ result \in Seq([order : Ids, status : {"Pending", "Processing"}, amount : Nat])
  /\ known \in SUBSET Ids
  /\ object \in [Ids -> [status : {"", "Pending", "Processing"}, state : State, onMarket : Nat]]
  /\ queue \in Seq(Ids) /\ open \in [Ids -> Nat]
  /\ {adding, matching} \subseteq Ids \cup {NoId}
  /\ calls \in Seq(Call)
  /\ requests \in Nat /\ crashes \in Nat /\ failures \in Nat
  /\ behind \in SUBSET Ids /\ excused \in SUBSET Ids
  /\ traded \in [Ids -> Nat] /\ lost \in Nat

Resting == {queue[k] : k \in DOMAIN queue}

Live(o) == row[o].status \in {"Pending", "Processing"} /\ Units(row[o].amount) > 0

(* Between requests the book is what the rows say: an order that the       *)
(* process knows rests exactly if its row is live, once, with the quantity *)
(* of the row, except where an update was lost or a final order was sent   *)
(* again.  So a crash at such a moment loses nothing.                      *)
BookIsWhatRowsSay ==
  Idle => \A o \in known \ behind :
            /\ o \in Resting <=> Live(o)
            /\ o \in Resting => open[o] = Units(row[o].amount)
            /\ Cardinality({k \in DOMAIN queue : queue[k] = o}) <= 1

(* The rows of the buy orders and those of the sell orders book the same   *)
(* quantity, up to what crashes and failed updates lost, and the trade of  *)
(* which one order was told.                                               *)
SidesBalance ==
  LET Total(S) == FoldFunctionOnSet(LAMBDA x, y : x + y, 0, [o \in Ids |-> Booked(o)], S)
      difference == Total(Buys) - Total(Ids \ Buys)
  IN  difference \in -(lost + HalfTold) .. (lost + HalfTold)

(* However often the process is killed and an order is sent, no more of it *)
(* is traded than was ordered, unless an update of it was lost or it was   *)
(* sent again after part of it was traded.                                 *)
NoOrderTradesTwice ==
  \A o \in Ids \ excused : traded[o] <= Units(Amount[o])
=============================================================================
