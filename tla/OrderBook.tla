------------------------------ MODULE OrderBook ------------------------------
(***************************************************************************)
(* book::OrderBook, the matching engine, with the simple::SimpleOrder      *)
(* objects it notifies.                                                    *)
(*                                                                         *)
(* A call of add, cancel or replace runs to its end before the next one    *)
(* starts, unless a listener makes it from inside a callback.  Inside a    *)
(* call every iteration of a loop of the code is one step of the model, so *)
(* that the loops need no recursion; pc says which loop is running.        *)
(*                                                                         *)
(* A multimap is the set of the orders in it: key[o] is the price o is     *)
(* filed under, rank[o] when it was filed, and Before the order in which   *)
(* the multimap is visited.  The trackers are kept in open[o], the open    *)
(* quantity of the one live tracker of o; the second copy that add() keeps *)
(* while the first one rests in the book is call.unfilled.                 *)
(***************************************************************************)
EXTENDS ComparablePrice, Sequences, FiniteSets

CONSTANTS
  MaxOrders,      \* how many orders the application submits: a bound
  Menu,           \* the requests it chooses an order from
  Deltas,         \* the quantity changes it asks replace() for
  NewPrices,      \* the prices it asks replace() for; 0 is PRICE_UNCHANGED
  MarketPrices,   \* the prices it may pass to set_market_price() at first
  MaxCalls,       \* how many calls other than add() it makes: a bound
  PassConditions, \* does it pass the conditions of an order to add()?
  Reentrant,      \* may a listener call the book?
  Throwing        \* may a listener throw?

Order == 1..MaxOrders
Side == BOOLEAN         \* TRUE is the buy side: bids_ and stopBids_
Quantity == Nat

Request == [buy : Side, price : Price, qty : Quantity, stop : Price,
            aon : BOOLEAN, ioc : BOOLEAN]

ASSUME ConstantsAssumption ==
  /\ MaxOrders \in Nat \ {0}
  /\ MaxCalls \in Nat
  /\ Menu \subseteq Request
  /\ Deltas \subseteq Int
  /\ NewPrices \subseteq Price
  /\ MarketPrices \subseteq Price
  /\ PassConditions \in BOOLEAN /\ Reentrant \in BOOLEAN /\ Throwing \in BOOLEAN

VARIABLES
  order,        \* the application's SimpleOrder objects
  market,       \* bids_ and asks_: the resting orders of each side
  stops,        \* stopBids_ and stopAsks_
  key, rank,    \* where an order is filed in a multimap
  clock,        \* the next rank
  open,         \* the open quantity of the tracker of an order
  pending,      \* pendingOrders_: batches of triggered stop orders
  submitting,   \* what submit_pending_orders took from pending
  marketPrice,  \* marketPrice_
  callbacks,    \* callbacks_
  working,      \* the part of workingCallbacks_ not yet performed
  handling,     \* handling_callbacks_
  pc,           \* the loop that runs, "idle" between calls
  call,         \* the order that add_order() works on, and for whom
  m,            \* the locals of match_order()
  aons,         \* deferred_aons of the running add_order()
  plan,         \* the locals of try_create_deferred_trades()
  traded,       \* history: the quantity of the fills of an order
  calls         \* how many calls other than add() were made

containers == <<market, stops, key, rank, clock>>
trackers == <<open, traded>>
queues == <<callbacks, working, handling>>
triggered == <<pending, submitting>>
locals == <<call, m, aons, plan>>

vars == <<order, market, stops, key, rank, clock, open, pending, submitting,
          marketPrice, callbacks, working, handling, pc, call, m, aons, plan,
          traded, calls>>

-----------------------------------------------------------------------------
(* Trackers and multimaps *)

States == {"none", "new", "accepted", "complete", "cancelled"}

SimpleOrder == [buy : Side, price : Price, qty : Int, stop : Price,
                aon : BOOLEAN, ioc : BOOLEAN, filled : Quantity, state : States]

NoOrder == [buy |-> TRUE, price |-> 0, qty |-> 0, stop |-> 0, aon |-> FALSE,
            ioc |-> FALSE, filled |-> 0, state |-> "none"]

Used == {o \in Order : order[o].state # "none"}

(* The tracker takes its conditions from the argument of add(): what the   *)
(* constructor or-s into that argument comes after conditions_ is set.     *)
AllOrNone(o) == PassConditions /\ order[o].aon
ImmediateOrCancel(o) == PassConditions /\ order[o].ioc

(* The order in which a multimap is visited. *)
Before(o, p) ==
  \/ Less(order[o].buy, key[o], key[p])
  \/ key[o] = key[p] /\ rank[o] < rank[p]

(* Mutant of First: the book is visited in time order only. *)
FirstInTime(o, S) == o \in S /\ \A p \in S \ {o} : rank[o] < rank[p]

First(o, S) == o \in S /\ \A p \in S \ {o} : Before(o, p)

(* A new tracker is filed behind those with its key. *)
File(o, price) ==
  /\ key' = [key EXCEPT ![o] = price]
  /\ rank' = [rank EXCEPT ![o] = clock]
  /\ clock' = clock + 1

(* find_on_market(): the lookup is by the price of the order object. *)
OnMarket(o) == o \in market[order[o].buy] /\ key[o] = order[o].price

-----------------------------------------------------------------------------
(* Callbacks *)

CallbackTypes == {"accept", "reject", "fill", "cancel", "cancel_reject",
                  "replace", "replace_reject", "book_update"}

(* done has the orders that the fill leaves nothing open of: the flags.    *)
Callback == [type : CallbackTypes, order : Order, matched : Order,
             qty : Quantity, price : Price, delta : Int, done : SUBSET Order]

Cb(type, o) == [type |-> type, order |-> o, matched |-> o, qty |-> 0,
                price |-> 0, delta |-> 0, done |-> {}]

FillCb(o, matched, qty, price) ==
  [type |-> "fill", order |-> o, matched |-> matched, qty |-> qty,
   price |-> price, delta |-> 0, done |-> {p \in {o, matched} : open[p] = qty}]

(* Mutant of ReplaceCb: announces the price before the replace. *)
ReplaceCbOldPrice(o, delta, price) ==
  [type |-> "replace", order |-> o, matched |-> o, qty |-> open[o],
   price |-> order[o].price, delta |-> delta, done |-> {}]

ReplaceCb(o, delta, price) ==
  [type |-> "replace", order |-> o, matched |-> o, qty |-> open[o],
   price |-> price, delta |-> delta, done |-> {}]

NoCall == [kind |-> "none", order |-> 1, accept |-> 0, unfilled |-> 0]
NoMatch == [taker |-> 1, price |-> 0, left |-> 0, todo |-> {}, dqty |-> 0,
            deferred |-> {}]
NoPlan == [goal |-> 1, max |-> 0, min |-> 0, found |-> 0, got |-> 0,
           fills |-> [o \in Order |-> 0], todo |-> {}]

Reset == call' = NoCall /\ m' = NoMatch /\ aons' = {} /\ plan' = NoPlan

(* Mutants of CallbackNow: the callbacks of a call made by a listener      *)
(* overtake the others, or take the place of the others.                   *)
CallbackNowFirst(pushed) ==
  /\ pc' = "deliver"
  /\ Reset
  /\ working' = IF handling THEN <<Head(working)>> \o callbacks \o pushed \o Tail(working)
                 ELSE callbacks \o pushed
  /\ callbacks' = <<>>
  /\ handling' = TRUE

CallbackNowUnguarded(pushed) ==
  /\ pc' = "deliver"
  /\ Reset
  /\ working' = callbacks \o pushed
  /\ callbacks' = <<>>
  /\ handling' = TRUE

(* callback_now() after more was pushed: a call that a listener made only  *)
(* leaves its callbacks behind, the outermost one starts to deliver.       *)
CallbackNow(pushed) ==
  /\ pc' = "deliver"
  /\ Reset
  /\ IF handling
     THEN callbacks' = callbacks \o pushed /\ UNCHANGED <<working, handling>>
     ELSE /\ working' = callbacks \o pushed
          /\ callbacks' = <<>>
          /\ handling' = TRUE

-----------------------------------------------------------------------------
(* Trades *)

(* set_market_price(): a rise looks at the stop bids and only then, even   *)
(* when there was no price before, does a fall look at the stop asks.      *)
StopSide(price) == price > marketPrice \/ marketPrice = MARKET_ORDER_PRICE

PriceMoves(price) == StopSide(price) \/ price < marketPrice

(* check_stop_orders(): the leading stops that "until" does not precede.   *)
Triggered(side, price) == {o \in stops[side] : ~Less(side, price, key[o])}

(* Mutant of SetMarketPrice: a triggered stop is not taken out. *)
SetMarketPriceKeepsStops(price) ==
  LET side == StopSide(price)
      batch == IF PriceMoves(price) THEN Triggered(side, price) ELSE {}
  IN  /\ marketPrice' = price
      /\ pending' = IF batch = {} THEN pending ELSE Append(pending, batch)
      /\ UNCHANGED stops

SetMarketPrice(price) ==
  LET side == StopSide(price)
      batch == IF PriceMoves(price) THEN Triggered(side, price) ELSE {}
  IN  /\ marketPrice' = price
      /\ stops' = [stops EXCEPT ![side] = @ \ batch]
      /\ pending' = IF batch = {} THEN pending ELSE Append(pending, batch)

Opposite(o) == ~order[o].buy

(* The price of a trade with a resting order, 0 when there is none. *)
CrossPrice(cur) ==
  IF order[cur].price # MARKET_ORDER_PRICE THEN order[cur].price
  ELSE IF order[m.taker].price # MARKET_ORDER_PRICE THEN order[m.taker].price
  ELSE marketPrice

Least(x, y) == IF x < y THEN x ELSE y

(* Mutant of TradeQty: forgets what the inbound order has open. *)
TradeQtyOfResting(cur, maxQty) ==
  IF CrossPrice(cur) = MARKET_ORDER_PRICE THEN 0
  ELSE Least(maxQty, open[cur])

(* What create_trade() returns for a resting order and a maximum. *)
TradeQty(cur, maxQty) ==
  IF CrossPrice(cur) = MARKET_ORDER_PRICE THEN 0
  ELSE Least(maxQty, Least(open[m.taker], open[cur]))

(* create_trade() of q > 0, and the erase that follows it when the resting *)
(* order is filled or, for some callers, in any case.                      *)
CreateTrade(cur, q, always) ==
  /\ open' = [open EXCEPT ![m.taker] = @ - q, ![cur] = @ - q]
  /\ traded' = [traded EXCEPT ![m.taker] = @ + q, ![cur] = @ + q]
  /\ market' = IF always \/ open[cur] = q
               THEN [market EXCEPT ![Opposite(m.taker)] = @ \ {cur}]
               ELSE market
  /\ SetMarketPrice(CrossPrice(cur))
  /\ callbacks' = Append(callbacks, FillCb(m.taker, cur, q, CrossPrice(cur)))

MaybeTrade(cur, q, always) ==
  /\ IF q > 0
     THEN CreateTrade(cur, q, always)
     ELSE UNCHANGED <<open, traded, market, marketPrice, stops, pending, callbacks>>
  /\ UNCHANGED <<order, key, rank, clock, submitting, working, handling, calls>>

-----------------------------------------------------------------------------
(* match_order() *)

(* The frame of match_order(o, price) against the orders of the other side. *)
StartMatch(o, price, qty, others) ==
  /\ pc' = "match"
  /\ m' = [taker |-> o, price |-> price, left |-> qty, todo |-> others,
           dqty |-> 0, deferred |-> {}]

(* match_order() runs for a deferred all-or-none order, not for add_order. *)
Nested == m.taker # call.order

(* Mutant of Candidate: the price is not looked at. *)
CandidateAtAnyPrice(e) == pc = "match" /\ open[m.taker] > 0 /\ First(e, m.todo)

(* e is the next order, and its price matches. *)
Candidate(e) ==
  /\ pc = "match"
  /\ open[m.taker] > 0
  /\ First(e, m.todo)
  /\ Matches(order[e].buy, key[e], m.price)

MatchEnds ==
  /\ pc = "match"
  /\ \/ open[m.taker] = 0
     \/ m.todo = {}
     \/ \E e \in m.todo : First(e, m.todo) /\ ~Matches(order[e].buy, key[e], m.price)

(* The resting all-or-none order wants more than the taker has left. *)
TooBig(e) == AllOrNone(e) /\ open[e] > m.left

DeferAon(e) ==
  /\ Candidate(e)
  /\ TooBig(e)
  /\ aons' = IF Nested THEN aons ELSE aons \cup {e}
  /\ m' = [m EXCEPT !.todo = @ \ {e}]
  /\ UNCHANGED <<order, containers, trackers, triggered, marketPrice, queues,
                 pc, call, plan, calls>>

(* match_regular_order() *)
MatchRegular(e) ==
  /\ Candidate(e)
  /\ ~AllOrNone(m.taker)
  /\ ~TooBig(e)
  /\ LET q == TradeQty(e, open[e])
     IN  /\ MaybeTrade(e, q, AllOrNone(e))
         /\ m' = [m EXCEPT !.left = @ - q, !.todo = @ \ {e}]
  /\ UNCHANGED <<pc, call, aons, plan>>

(* match_aon_order(): e and the deferred orders are not enough yet. *)
DeferMatch(e) ==
  /\ Candidate(e)
  /\ AllOrNone(m.taker)
  /\ ~TooBig(e)
  /\ m.left > open[e] + m.dqty
  /\ m' = [m EXCEPT !.dqty = @ + open[e], !.deferred = @ \cup {e}, !.todo = @ \ {e}]
  /\ UNCHANGED <<order, containers, trackers, triggered, marketPrice, queues,
                 pc, call, aons, plan, calls>>

(* match_aon_order() calls try_create_deferred_trades() for e: the most    *)
(* and the least it wants from the deferred orders.                        *)
MostFromDeferred(e) == IF AllOrNone(e) THEN m.left - open[e] ELSE m.left
LeastFromDeferred(e) == IF m.left > open[e] THEN m.left - open[e] ELSE 0

TryDeferred(e) ==
  /\ Candidate(e)
  /\ AllOrNone(m.taker)
  /\ ~TooBig(e)
  /\ m.left <= open[e] + m.dqty
  /\ plan' = [NoPlan EXCEPT !.goal = e, !.max = MostFromDeferred(e),
                            !.min = LeastFromDeferred(e), !.todo = m.deferred]
  /\ m' = [m EXCEPT !.todo = @ \ {e}]
  /\ pc' = "propose"
  /\ UNCHANGED <<order, containers, trackers, triggered, marketPrice, queues,
                 call, aons, calls>>

(* A deferred order that an earlier, incomplete attempt filled and erased  *)
(* leaves a dangling iterator behind: what its use does is undefined.      *)
Dangling(d) == d \notin market[Opposite(m.taker)]

(* try_create_deferred_trades(): the quantity proposed for a deferred      *)
(* order, which may not take the proposal over the maximum.                *)
Proposal(d) ==
  IF plan.found + open[d] <= plan.max THEN open[d]
  ELSE IF AllOrNone(d) THEN 0
  ELSE plan.max - plan.found

Propose(d) ==
  /\ pc = "propose"
  /\ plan.found < plan.max
  /\ First(d, plan.todo)
  /\ pc' = IF Dangling(d) THEN "undefined" ELSE pc
  /\ plan' = [plan EXCEPT !.found = @ + Proposal(d), !.fills[d] = Proposal(d),
                          !.todo = @ \ {d}]
  /\ UNCHANGED <<order, containers, trackers, triggered, marketPrice, queues,
                 call, m, aons, calls>>

(* Mutant of EnoughFound: the deferred orders may give too little. *)
AnythingFound == plan.found <= plan.max

EnoughFound == plan.found >= plan.min /\ plan.found <= plan.max

ProposalEnds ==
  /\ pc = "propose"
  /\ plan.todo = {} \/ plan.found >= plan.max
  /\ pc' = IF EnoughFound THEN "settle" ELSE "close"
  /\ plan' = [plan EXCEPT !.todo = m.deferred]
  /\ UNCHANGED <<order, containers, trackers, triggered, marketPrice, queues,
                 call, m, aons, calls>>

Settle(d) ==
  /\ pc = "settle"
  /\ plan.got < plan.found
  /\ First(d, plan.todo)
  /\ LET q == TradeQty(d, plan.fills[d])
     IN  /\ MaybeTrade(d, IF Dangling(d) THEN 0 ELSE q, FALSE)
         /\ plan' = [plan EXCEPT !.got = @ + q, !.todo = @ \ {d}]
  /\ pc' = IF Dangling(d) THEN "undefined" ELSE pc
  /\ UNCHANGED <<call, m, aons>>

SettleEnds ==
  /\ pc = "settle"
  /\ plan.todo = {} \/ plan.got >= plan.found
  /\ pc' = "close"
  /\ UNCHANGED <<order, containers, trackers, triggered, marketPrice, queues,
                 call, m, aons, plan, calls>>

(* Back in match_aon_order(): trade with e if the deferred orders gave     *)
(* what was needed; if not, go on to the next order.                       *)
GoalReached(e) ==
  IF AllOrNone(e) THEN plan.got = plan.max ELSE m.left <= open[e] + plan.got

Close(e) ==
  /\ pc = "close"
  /\ e = plan.goal
  /\ LET q == IF GoalReached(e) THEN TradeQty(e, open[e]) ELSE 0
     IN  /\ MaybeTrade(e, q, AllOrNone(e))
         /\ m' = IF GoalReached(e) THEN [m EXCEPT !.left = @ - plan.got - q] ELSE m
  /\ pc' = "match"
  /\ plan' = NoPlan
  /\ UNCHANGED <<call, aons>>

-----------------------------------------------------------------------------
(* add_order() *)

(* Mutant of Rests: a filled order goes into the book. *)
RestsFilled(o) == ~ImmediateOrCancel(o)

(* Mutant of Rests: an immediate-or-cancel order goes into the book. *)
RestsIoc(o) == open[o] > 0

Rests(o) == open[o] > 0 /\ ~ImmediateOrCancel(o)

(* The inbound order is matched.  If it rests, a copy of its tracker goes  *)
(* into the book, and the deferred all-or-none orders get another chance.  *)
Rest ==
  /\ MatchEnds
  /\ ~Nested
  /\ pc' = "deferred"
  /\ call' = [call EXCEPT !.unfilled = open[m.taker]]
  /\ IF Rests(m.taker)
     THEN /\ market' = [market EXCEPT ![~Opposite(m.taker)] = @ \cup {m.taker}]
          /\ File(m.taker, m.price)
          /\ UNCHANGED aons
     ELSE /\ aons' = {}
          /\ UNCHANGED <<market, key, rank, clock>>
  /\ UNCHANGED <<order, stops, trackers, triggered, marketPrice, queues, m,
                 plan, calls>>

(* Mutant of CheckDeferred: the list of the deferred orders does not get  *)
(* shorter.                                                                *)
CheckDeferredAgain(a) ==
  /\ pc = "deferred"
  /\ First(a, aons)
  /\ StartMatch(a, key[a], open[a], market[Opposite(a)])
  /\ UNCHANGED <<order, containers, trackers, triggered, marketPrice, queues,
                 call, aons, plan, calls>>

(* check_deferred_aons(): the next deferred order, at the price it is      *)
(* filed under, against the side of the inbound order.                     *)
CheckDeferred(a) ==
  /\ pc = "deferred"
  /\ First(a, aons)
  /\ StartMatch(a, key[a], open[a], market[Opposite(a)])
  /\ aons' = aons \ {a}
  /\ UNCHANGED <<order, containers, trackers, triggered, marketPrice, queues,
                 call, plan, calls>>

NestedEnds ==
  /\ MatchEnds
  /\ Nested
  /\ pc' = "deferred"
  /\ market' = IF open[m.taker] = 0
               THEN [market EXCEPT ![~Opposite(m.taker)] = @ \ {m.taker}]
               ELSE market
  /\ UNCHANGED <<order, stops, key, rank, clock, trackers, triggered,
                 marketPrice, queues, call, m, aons, plan, calls>>

(* add() notes in the accept callback what its own copy of the tracker had *)
(* filled, and cancels what is left of an immediate-or-cancel order.       *)
Accepted(o) == [callbacks EXCEPT ![call.accept].qty = order[o].qty - call.unfilled]

IocCancel(o) ==
  IF ImmediateOrCancel(o) /\ call.unfilled > 0 THEN <<Cb("cancel", o)>> ELSE <<>>

Submitted ==
  /\ pc = "deferred"
  /\ aons = {}
  /\ pc' = "pending"
  /\ callbacks' = IF call.kind = "add"
                  THEN Accepted(call.order) \o IocCancel(call.order)
                  ELSE callbacks
  /\ Reset
  /\ UNCHANGED <<order, containers, trackers, triggered, marketPrice, working,
                 handling, calls>>

-----------------------------------------------------------------------------
(* The loop over pendingOrders_ that ends add() and replace() *)

TakePending ==
  /\ pc = "pending"
  /\ submitting = <<>>
  /\ pending # <<>>
  /\ submitting' = pending
  /\ pending' = <<>>
  /\ UNCHANGED <<order, containers, trackers, marketPrice, queues, pc, locals,
                 calls>>

SubmitPending(o) ==
  /\ pc = "pending"
  /\ submitting # <<>>
  /\ First(o, Head(submitting))
  /\ submitting' = IF Head(submitting) = {o} THEN Tail(submitting)
                   ELSE [submitting EXCEPT ![1] = @ \ {o}]
  /\ call' = [NoCall EXCEPT !.kind = "pending", !.order = o]
  /\ StartMatch(o, order[o].price, open[o], market[Opposite(o)])
  /\ UNCHANGED <<order, containers, trackers, pending, marketPrice, queues,
                 aons, plan, calls>>

(* Mutant of Finish: the loop over pendingOrders_ runs only once. *)
FinishEarly ==
  /\ pc = "pending"
  /\ submitting = <<>>
  /\ CallbackNow(<<Cb("book_update", 1)>>)
  /\ UNCHANGED <<order, containers, trackers, triggered, marketPrice, calls>>

Finish ==
  /\ pc = "pending"
  /\ pending = <<>>
  /\ submitting = <<>>
  /\ CallbackNow(<<Cb("book_update", 1)>>)
  /\ UNCHANGED <<order, containers, trackers, triggered, marketPrice, calls>>

-----------------------------------------------------------------------------
(* The calls of the application *)

(* The application has the control: between calls, or in a listener.       *)
Ready == pc = "idle" \/ (Reentrant /\ pc = "deliver")

NewOrder(o, t) ==
  [buy |-> t.buy, price |-> t.price, qty |-> t.qty, stop |-> t.stop,
   aon |-> t.aon, ioc |-> t.ioc, filled |-> 0, state |-> "new"]

(* add_stop_order() holds an order that has a stop price worse than the    *)
(* market price.                                                           *)
Held(t) == t.stop # 0 /\ Less(t.buy, t.stop, marketPrice)

Add(o, t) ==
  /\ Ready
  /\ Used = 1..(o - 1)
  /\ order' = [order EXCEPT ![o] = NewOrder(o, t)]
  /\ open' = [open EXCEPT ![o] = t.qty]
  /\ IF t.qty = 0
     THEN /\ CallbackNow(<<Cb("reject", o)>>)
          /\ UNCHANGED containers
     ELSE /\ callbacks' = Append(callbacks, Cb("accept", o))
          /\ UNCHANGED <<market, working, handling, aons, plan>>
          /\ IF Held(t)
             THEN /\ stops' = [stops EXCEPT ![t.buy] = @ \cup {o}]
                  /\ File(o, t.stop)
                  /\ pc' = "pending"
                  /\ UNCHANGED <<call, m>>
             ELSE /\ StartMatch(o, t.price, t.qty, market[~t.buy])
                  /\ call' = [kind |-> "add", order |-> o,
                              accept |-> Len(callbacks) + 1, unfilled |-> 0]
                  /\ UNCHANGED <<stops, key, rank, clock>>
  /\ UNCHANGED <<triggered, marketPrice, traded, calls>>

CanCall == Ready /\ calls < MaxCalls /\ calls' = calls + 1

Cancel(o) ==
  /\ CanCall
  /\ o \in Used
  /\ IF OnMarket(o)
     THEN /\ market' = [market EXCEPT ![order[o].buy] = @ \ {o}]
          /\ CallbackNow(<<[Cb("cancel", o) EXCEPT !.qty = open[o]],
                           Cb("book_update", 1)>>)
     ELSE /\ CallbackNow(<<Cb("cancel_reject", o)>>)
          /\ UNCHANGED market
  /\ UNCHANGED <<order, stops, key, rank, clock, trackers, triggered,
                 marketPrice>>

(* Mutant of AllowedDelta: a reduction is not limited. *)
AllowedDeltaAny(o, delta) == delta

(* A reduction may not take more than is open. *)
AllowedDelta(o, delta) == IF open[o] + delta < 0 THEN -open[o] ELSE delta

ReplacedPrice(o, newPrice) == IF newPrice = 0 THEN order[o].price ELSE newPrice

(* The replaced tracker leaves the book and is added again at the price    *)
(* the book accepted.                                                      *)
ReplaceFound(o, delta, price) ==
  /\ open' = [open EXCEPT ![o] = @ + delta]
  /\ market' = [market EXCEPT ![order[o].buy] = @ \ {o}]
  /\ IF open[o] + delta = 0
     THEN /\ callbacks' = callbacks \o <<ReplaceCb(o, delta, price), Cb("cancel", o)>>
          /\ pc' = "pending"
          /\ UNCHANGED <<call, m>>
     ELSE /\ callbacks' = Append(callbacks, ReplaceCb(o, delta, price))
          /\ StartMatch(o, price, open[o] + delta, market[Opposite(o)])
          /\ call' = [NoCall EXCEPT !.kind = "replace", !.order = o]
  /\ UNCHANGED <<working, handling, aons, plan>>

(* The early return of replace() for an order that has nothing open is not *)
(* here: no such order is found on the market (RestingOrdersAreOpen).      *)
Replace(o, delta, newPrice) ==
  /\ CanCall
  /\ o \in Used
  /\ IF OnMarket(o)
     THEN ReplaceFound(o, AllowedDelta(o, delta), ReplacedPrice(o, newPrice))
     ELSE /\ CallbackNow(<<Cb("replace_reject", o)>>)
          /\ UNCHANGED <<open, market>>
  /\ UNCHANGED <<order, stops, key, rank, clock, traded, triggered, marketPrice>>

(* The public set_market_price(), which order_book.h:108 intends for the   *)
(* initialization of the book.                                             *)
MarketPriceSet(price) ==
  /\ pc = "idle"
  /\ Used = {}
  /\ SetMarketPrice(price)
  /\ UNCHANGED <<order, market, key, rank, clock, trackers, submitting, queues,
                 pc, locals, calls>>

-----------------------------------------------------------------------------
(* callback_now() *)

(* SimpleOrder::fill(), accept(), cancel() and replace() *)
Filled(x, qty) ==
  [x EXCEPT !.filled = @ + qty, !.state = IF x.filled + qty >= x.qty THEN "complete" ELSE @]

Notified(cb) ==
  LET o == cb.order
  IN  CASE cb.type = "accept" /\ order[o].state = "new"
             -> [order EXCEPT ![o].state = "accepted"]
        [] cb.type = "fill"
             -> [p \in Order |-> IF p \in {o, cb.matched} THEN Filled(order[p], cb.qty)
                               ELSE order[p]]
        [] cb.type = "cancel" /\ order[o].state # "complete"
             -> [order EXCEPT ![o].state = "cancelled"]
        [] cb.type = "replace" /\ order[o].state = "accepted"
             -> [order EXCEPT ![o].qty = @ + cb.delta, ![o].price = cb.price]
        [] OTHER -> order

(* The next callback is done.  When workingCallbacks_ is exhausted, it     *)
(* takes what was pushed meanwhile.                                        *)
Performed ==
  /\ pc = "deliver"
  /\ IF Tail(working) # <<>>
     THEN working' = Tail(working) /\ UNCHANGED <<callbacks, handling, pc>>
     ELSE /\ working' = callbacks
          /\ callbacks' = <<>>
          /\ handling' = (callbacks # <<>>)
          /\ pc' = IF callbacks = <<>> THEN "idle" ELSE "deliver"
  /\ UNCHANGED <<containers, trackers, triggered, marketPrice, locals, calls>>

Perform == Performed /\ order' = Notified(Head(working))

(* A listener throws: callback_now() catches it, and the order object is   *)
(* not told.                                                               *)
ListenerThrows == Throwing /\ Performed /\ UNCHANGED order

-----------------------------------------------------------------------------
Init ==
  /\ order = [o \in Order |-> NoOrder]
  /\ market = [s \in Side |-> {}]
  /\ stops = [s \in Side |-> {}]
  /\ key = [o \in Order |-> 0]
  /\ rank = [o \in Order |-> 0]
  /\ clock = 0
  /\ open = [o \in Order |-> 0]
  /\ pending = <<>>
  /\ submitting = <<>>
  /\ marketPrice = MARKET_ORDER_PRICE
  /\ callbacks = <<>>
  /\ working = <<>>
  /\ handling = FALSE
  /\ pc = "idle"
  /\ call = NoCall
  /\ m = NoMatch
  /\ aons = {}
  /\ plan = NoPlan
  /\ traded = [o \in Order |-> 0]
  /\ calls = 0

MatchStep ==
  \/ \E e \in m.todo : DeferAon(e) \/ MatchRegular(e) \/ DeferMatch(e) \/ TryDeferred(e)
  \/ \E d \in plan.todo : Propose(d) \/ Settle(d)
  \/ ProposalEnds
  \/ SettleEnds
  \/ Close(plan.goal)

AddOrderStep == Rest \/ (\E a \in aons : CheckDeferred(a)) \/ NestedEnds \/ Submitted

PendingStep == TakePending \/ (\E o \in Order : SubmitPending(o)) \/ Finish

(* What the thread inside a call does. *)
BookStep == MatchStep \/ AddOrderStep \/ PendingStep \/ Perform \/ ListenerThrows

Application ==
  \/ \E o \in Order, t \in Menu : Add(o, t)
  \/ \E o \in Order : Cancel(o)
  \/ \E o \in Order, delta \in Deltas, price \in NewPrices : Replace(o, delta, price)
  \/ \E price \in MarketPrices : MarketPriceSet(price)

Next == BookStep \/ Application

(* A call runs to its end on the caller's thread. *)
Spec == Init /\ [][Next]_vars /\ WF_vars(BookStep)

-----------------------------------------------------------------------------
(* Properties *)

Controls == {"idle", "match", "propose", "settle", "close", "deferred",
             "pending", "deliver", "undefined"}

Call == [kind : {"none", "add", "replace", "pending"}, order : Order,
         accept : Nat, unfilled : Nat]

Match == [taker : Order, price : Price, left : Int, todo : SUBSET Order,
          dqty : Nat, deferred : SUBSET Order]

Plan == [goal : Order, max : Int, min : Int, found : Int, got : Int,
         fills : [Order -> Int], todo : SUBSET Order]

(* Type invariant: in particular no tracker's quantity ever goes below 0,  *)
(* so neither OrderTracker::fill() nor change_qty() throws.                *)
TypeOK ==
  /\ order \in [Order -> SimpleOrder]
  /\ market \in [Side -> SUBSET Order] /\ stops \in [Side -> SUBSET Order]
  /\ key \in [Order -> Price] /\ rank \in [Order -> Nat] /\ clock \in Nat
  /\ open \in [Order -> Quantity] /\ traded \in [Order -> Quantity]
  /\ pending \in Seq(SUBSET Order) /\ submitting \in Seq(SUBSET Order)
  /\ marketPrice \in Price
  /\ callbacks \in Seq(Callback) /\ working \in Seq(Callback)
  /\ handling \in BOOLEAN
  /\ pc \in Controls
  /\ call \in Call /\ m \in Match /\ aons \in SUBSET Order /\ plan \in Plan
  /\ calls \in Nat

Idle == pc = "idle"

Matching == pc \in {"match", "propose", "settle", "close", "undefined"}

(* No filled order rests in the book, and every order rests on its side;   *)
(* a deferred order that is being matched leaves when its match ends.      *)
RestingOrdersAreOpen ==
  \A s \in Side : \A o \in market[s] :
    order[o].buy = s /\ (open[o] > 0 \/ (Matching /\ Nested /\ o = m.taker))

(* Where trackers are kept besides the local variables of a call. *)
Places == {market[TRUE], market[FALSE], stops[TRUE], stops[FALSE]}
          \cup {pending[i] : i \in DOMAIN pending}
          \cup {submitting[i] : i \in DOMAIN submitting}

(* A tracker is moved between the multimaps and pendingOrders_, and copied *)
(* into a match and back: it is never in two places, nor in the book while *)
(* it is being matched as an inbound order.                                *)
OnePlace ==
  /\ \A o \in Order : \A S, T \in Places : o \in S /\ o \in T => S = T
  /\ Matching /\ ~Nested => m.taker \notin UNION Places

(* What the application's order objects say between two calls is what the  *)
(* book holds: the fills they were told, the open quantity, and the price, *)
(* by which alone cancel() and replace() find the order again.             *)
ApplicationAgrees ==
  Idle => /\ \A o \in Order : order[o].filled = traded[o]
          /\ \A s \in Side : \A o \in market[s] :
               /\ order[o].state = "accepted"
               /\ order[o].qty - order[o].filled = open[o]
               /\ OnMarket(o)

(* No order is lost: one that was accepted and not told to be complete or  *)
(* cancelled is resting in the book or held as a stop.                     *)
NoOrderIsLost ==
  Idle => \A o \in Order : order[o].state = "accepted" =>
            o \in market[order[o].buy] \cup stops[order[o].buy]

(* Every pair of orders that could trade has traded: between two calls the *)
(* book is not crossed, but for all-or-none orders, and for two market     *)
(* orders, which found no price when they met.                             *)
BookIsNotCrossed ==
  Idle => \A b \in market[TRUE], a \in market[FALSE] :
            Matches(TRUE, key[b], key[a]) =>
              \/ AllOrNone(a) \/ AllOrNone(b)
              \/ key[a] = MARKET_ORDER_PRICE /\ key[b] = MARKET_ORDER_PRICE

(* README.md:42: "the entire order should be filled or no trades should    *)
(* happen".                                                                *)
AllOrNothing ==
  Idle => \A o \in Order : AllOrNone(o) => traded[o] = 0 \/ open[o] = 0

(* match_aon_order() never uses the iterator of an order that was erased.  *)
NoDanglingIterator == pc # "undefined"

(* The fill that a step has just made. *)
LastFill == callbacks'[Len(callbacks')]

Acceptable(buy, limit, price) ==
  limit = MARKET_ORDER_PRICE \/ (IF buy THEN price <= limit ELSE price >= limit)

(* README.md:39: "Trades will be generated at the specified price or any   *)
(* better price", for both orders, at the price the book last accepted.    *)
TradesWithinLimits ==
  [][traded' # traded =>
       LET f == LastFill
       IN  /\ f.price # MARKET_ORDER_PRICE
           /\ Acceptable(order[f.order].buy, m.price, f.price)
           /\ Acceptable(order[f.matched].buy, key[f.matched], f.price)]_vars

(* Price-time priority: a regular order trades only when no regular order  *)
(* before it in its queue is left, unless no price could be found for that *)
(* one, a market order meeting a market order.                             *)
PriceTimePriority ==
  [][traded' # traded =>
       LET f == LastFill
       IN  \A e \in market'[order[f.matched].buy] :
             Before(e, f.matched) =>
               \/ AllOrNone(e) \/ AllOrNone(f.matched)
               \/ order[e].price = 0 /\ order[f.order].price = 0]_vars

(* A listener is told the life of an order in order: accepted first, then  *)
(* its fills, and no fill after it was told to be complete or cancelled.   *)
FillsOnlyLiveOrders ==
  [][\A o \in Order : order'[o].filled # order[o].filled =>
       order[o].state = "accepted"]_vars

(* Every call returns, after all its callbacks and those of the calls that *)
(* the listeners made; the loops over matches and triggered stops end.     *)
CallsReturn == pc # "idle" ~> pc = "idle"

(* Every order that is submitted is accepted or rejected. *)
OrdersAreAnswered ==
  \A o \in Order : (order[o].state = "new" /\ order[o].qty > 0) ~> order[o].state # "new"
=============================================================================
