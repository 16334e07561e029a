# Liquibook in TLA+

Liquibook is a C++ library: a limit order book that matches orders by price and
time and tells the application about it through callbacks. Around it the
repository has a depth aggregation, a few demonstration programs and a FIX
gateway. This directory models the matching engine, the depth that follows it, and
the three demonstration programs around them (the depth feed, the example exchange
with its database, the order entry program); it checks them with TLC, and proves with
TLAPS what must hold of the engine, the depth and the three programs at every size.

Source paths below are relative to the repository.

## 1. Inventory

### 1.1 Components

| Component | Source | State | Operations |
|---|---|---|---|
| Price keys | `src/book/comparable_price.h` | a price and the side it is on | `operator<`, `matches()`, the other relations |
| Matching engine | `src/book/order_book.h`, `order_tracker.h`, `callback.h` | two multimaps of resting orders, two of stop orders, `pendingOrders_`, the market price, two callback queues and a re-entrance flag | `add`, `cancel`, `replace`, `set_market_price`; privately `add_order`, `match_order` (regular, all-or-none), `create_trade`, `check_deferred_aons`, `check_stop_orders`, `submit_pending_orders`, `callback_now` |
| Order objects | `src/simple/simple_order.*`, `simple_order_book.h` | side, price, quantities, state | `accept`, `fill`, `cancel`, `replace` |
| Listeners | `src/book/*_listener.h`, `order.h` | none of their own | what the application does when it is called |
| Depth levels | `src/book/depth.h`, `depth_level.h` | a fixed array of visible levels of both sides, two maps of the excess ones, change stamps | `add_order`, `fill_order`, `close_order`, `change_qty_order`, `replace_order`, `published` |
| Depth book | `src/book/depth_order_book.h` | a depth tracker | translates the callbacks of the engine into changes of the depth |
| Depth feed | `examples/depth_feed_publisher/depth_feed_*.cpp` | sessions, sequence numbers, the subscriber's copy of the depth | accept, publish full and incremental messages, detect a gap, reconnect |
| Example exchange | `examples/depth_feed_publisher/exchange.cpp`, `example_order_book.cpp`, `publisher_main.cpp`, `Application.cpp` | the order table and its rows in a database | submit, cancel, persist every change, reload at startup |
| Order entry market | `examples/mt_order_entry/Market.cpp`, `Order.cpp` | books by symbol, orders by id, the history of each order | buy, sell, modify, cancel |
| FIX client, status updater | `exchange_quickfix/*.js` | rows and messages of third-party libraries | I/O |
| QuickFIX, tests, web, build files | `examples/depth_feed_publisher/quickfix`, `test`, `web`, `mpc` | | |

### 1.2 How they interact

* The application owns the order objects. It gives a pointer to `add()`; the
  engine reads the order through the `Order` interface and keeps its own open
  quantity in an `OrderTracker` *by value*. The tracker is copied: from the
  inbound one into a multimap, from a stop multimap into `pendingOrders_`, from
  there into a local vector, from there into the book.
* Every change is first noted in a queue of callbacks. Only at the end of the
  call does `callback_now()` deliver the queue: `perform_callback()` of the
  `SimpleOrderBook` first updates the order object, the depth book updates the
  depth, then the listener runs. So *between the change and the delivery the
  engine and the order objects disagree*, and the engine reads the order
  objects: the price of a trade, the lookup of `cancel()` and `replace()`.
* A listener may call the book again. Its callbacks are queued and delivered by
  the outermost `callback_now()`.
* Several threads may each own books, but a book is not locked: the library
  expects one thread at a time. The only threads of the repository that share
  state are those of the depth feed.

### 1.3 What is hard, and what makes each component correct

* **Price keys.** One type gives the visiting order of four multimaps and the
  condition to stop the visit. Correct if `operator<` is a strict total order
  of the keys of a side (with the market price first), if a key that sorts first
  matches at least what a later one matches, and if both sides agree on whether
  two orders match.
* **Matching engine.** Ordering (price, then time, with all-or-none orders
  skipped), partial failure (a group of deferred trades of which one does not
  happen), iterators kept over erasures, stop orders that trade and thereby
  trigger stop orders, callbacks delivered late and calls made from callbacks,
  listeners that throw. Correct if no two orders that could trade are left in the
  book; trades happen at acceptable prices and in the right order; all-or-none
  orders trade completely or not at all; no order is lost, duplicated or filled
  beyond its quantity; every call returns; the application's view is the book's
  view once a call has returned.
* **Depth levels.** Levels shift between a bounded array and a map. Correct if
  the levels are at all times the sums of the orders at each price, best first,
  the visible ones being the best ones; and if the change stamps name every level
  that changed since it was published.
* **Depth book.** Correct if the depth equals what the engine's containers add
  up to after each call, whatever mixture of fills, replaces and cancels.
* **Depth feed.** Lost sessions, lost messages, full against incremental messages, a
  thread that accepts sessions while another publishes. Correct if a subscriber only
  ever shows a whole state that the publisher was in, never goes back, has the
  current one when it has read all, leaves a session only for a reason, and is not
  left waiting on a connection that nobody serves.
* **Exchange.** A crash between the two rows of a trade, a statement that fails, orders
  sent twice, reload. Correct if book and rows agree between requests, if the two sides
  book the same quantity up to what is known to be lost, and if no order is traded
  beyond its amount.
* **Order entry market.** What the program shows of an order against the engine, with
  modifications that change quantity and price at once.

`PROJECT.json` lists the hazards one by one with their lines.

## 2. Plan

| Step | Module | About | State |
|---|---|---|---|
| 1 | `ComparablePrice` | the keys as operators | done |
| 2 | `OrderBookProofs` (its first part) | what the matching loops rest on, for every price | done |
| 3 | `OrderBook` | the engine with the order objects, one action per loop iteration | done |
| 4 | `OrderBookProofs` | the inductive invariant; types, open resting orders, one place per order; then prices: limits, priority, a book that is not crossed | done |
| 5 | `Levels`, `Depth` | the array of visible levels and the excess maps, implementing the abstract `Levels` (price to orders and quantity) through a refinement mapping | done |
| 6 | `DepthProofs` | the levels stay in order and no change escapes the stamps, for every number of levels | done |
| 7 | `DepthTracker`, `DepthOrderBook` | the operators of the depth on their own, and the engine with a depth that its callbacks keep: the depth against the containers | done |
| 8 | `FeedMirror`, `DepthFeed` | sessions, sequence numbers, full and incremental messages, two threads; the feed implements the mirror | done |
| 9 | `DepthFeedProofs` | the feed for every number of clients, symbols, levels and sessions: the mirror, completeness, no false alarm | done |
| 10 | `Exchange` | order table, database rows, crash and reload, over a book of limit orders | done |
| 11 | `Market` | the order entry program on the engine itself | done |
| 12 | `DepthProofs` (its second part) | the levels are the sums of the orders, no call fails, each call is one of `Levels` | done |
| 13 | `SumLemmas`, `ExchangeProofs` | sums over finite sets; the exchange for every table of orders, with crashes and failing statements | done |
| 14 | `ApplicationProofs` | the callbacks against the book: what order objects show, fills in their time, no accepted order lost | done |
| 15 | `OrderBookProofs` (its last part) | all-or-none limit orders are traded whole, and no iterator dangles | done |
| 16 | `MarketProofs` | the display of the order entry program against the book | done |
| 17 | `DepthOrderBookProofs` | the depth of a book against its containers; what the listeners of the depth have seen | done |
| 18 | more proofs | prices of trades when replaces change them, without re-entrance | open |
| 19 | `Ledger` | the abstract engine below, implemented by `OrderBook` | open |

An abstract specification of the engine worth stating is the *ledger*: orders
with a limit, an open and a traded quantity, where a step trades a positive
quantity between two open orders of opposite sides that accept the price, or
closes an order. `DepthOrderBook` and `Market` stand on `OrderBook` itself, so nothing
needs it yet.

## 3. Modules

### `ComparablePrice`

Operators only. The pair `(buy, p)` is the C++ object, the third parameter the plain
price it is compared with; `0` is `MARKET_ORDER_PRICE`. `Less`, `Greater`,
`LessOrEqual`, `GreaterOrEqual` and `Matches` are the member functions.

### `OrderBook`

State against the code:

| Variable | Code |
|---|---|
| `order` | the application's `SimpleOrder` objects |
| `market`, `stops` | `bids_`/`asks_`, `stopBids_`/`stopAsks_` as sets of orders by side |
| `key`, `rank`, `clock` | the `ComparablePrice` an entry is filed under and its insertion position among equal keys |
| `open` | `open_qty_` of the live tracker of an order |
| `pending`, `submitting` | `pendingOrders_` and the local vector it is swapped into; a set per batch, visited as the multimap was |
| `marketPrice` | `marketPrice_` |
| `callbacks`, `working`, `handling` | `callbacks_`, `workingCallbacks_` and `handling_callbacks_` |
| `pc` | the loop that runs; `idle` between calls |
| `call` | the order `add_order()` works on, who called it, where its accept callback is, and the open quantity of the *copy* of the tracker that `add()` keeps |
| `m`, `plan`, `aons` | the locals of `match_order()`, `try_create_deferred_trades()` and the `deferred_aons` list |
| `traded`, `calls` | history and bound |

Actions against the code:

| Action | Code |
|---|---|
| `Add`, `Cancel`, `Replace`, `MarketPriceSet` | the public functions up to the first loop |
| `DeferAon`, `MatchRegular`, `DeferMatch`, `TryDeferred` | one iteration of the loop of `match_regular_order()` or `match_aon_order()` |
| `Propose`, `ProposalEnds`, `Settle`, `SettleEnds`, `Close` | the two loops of `try_create_deferred_trades()` and what follows its return |
| `Rest`, `CheckDeferred`, `NestedEnds`, `Submitted` | `add_order()` after the match, `check_deferred_aons()`, the rest of `add()` |
| `TakePending`, `SubmitPending`, `Finish` | the loop over `pendingOrders_` |
| `Perform`, `ListenerThrows` | one callback of `callback_now()` |

A multimap is a *set* with `First`, the entry before which no other is visited. A
loop over a multimap keeps the set of entries it has still to visit; entries that the
loop itself erases leave the multimap, and nothing is inserted during a loop. The
one iterator that may dangle is detected (`Dangling`): its use is undefined
behaviour, and the model stops in `pc = "undefined"`, which `NoDanglingIterator`
says is never reached.

All that a call does is atomic with respect to other calls, except that
with `Reentrant` the application may make a call whenever a callback is about to be
delivered (`pc = "deliver"`).

`MCOrderBook` holds the menus of orders that the runs draw from.

### `Levels` and `Depth`

`Levels` is the promise of a market depth: `total` says how many orders there are at
each price and what they add up to, `view` shows the best `SIZE` prices that have
orders, best first. Each step is one order that enters, leaves, trades or changes its
size, or moves to another price.

`DepthTracker` is the code. The member functions are operators from an object `d` to the
object they leave, so that `replace_order()` can call `add_order()` and `close_order()` as
it does in the code, and so that other modules may hold a depth:

| Field | Code |
|---|---|
| `level`, `stamp` | the array `levels_` by side: price, count and quantity of a `DepthLevel`, and its `last_change_` |
| `excess` | `excess_bid_levels_`, `excess_ask_levels_` as sets, `BestExcess` being their `begin()`. Their stamps are never read before they are overwritten, and are left out |
| `lastChange`, `lastPublished` | `last_change_`, `last_published_change_` |
| `ignore` | `ignore_bid_fill_qty_`, `ignore_ask_fill_qty_` |
| `failed` | history: a call threw, or changed a level that is not the one it meant |

A pointer to a level is a side and an index, or index 0 and a price for a level of the
map. `find_level()` returns a pointer *behind* the levels of the side when there is no
level for the price: behind the bids that is the first ask level, and the model goes on
with it as the code would (`PastEnd`), noting the failure (`Checked`). Quantities are
numbers modulo `Word`, 2^32 in the code.

`Depth` is a client. Its actions are the calls of one that keeps the contract the
declarations of `depth.h` (47-114) state: it reports the fills, closes and moves of orders that it
added before, with their price and quantity, and fills it asked to ignore. `Publish`
is the listener, which reads the levels and calls `published()`.

`MCDepth` gives the orders as a symmetric set: no definition tells them apart.

### `DepthOrderBook`

`OrderBook` with a `DepthTracker` that only the callbacks change, as in
`depth_order_book.h` and `simple_order_book.h`. `PerformWithDepth` is `perform_callback()`
of both classes: `OnAccept`, `OnFill`, `OnCancel` and `OnReplace` change the depth from
what the callback and the *order object* say, the book update calls the two listeners
and `published()`, and only then is the order object told. If the depth throws, the object
is not told. The field `done` of a fill callback is the set of orders that
`order_book.h:999-1007` flags as filled.

`seen` and `seenBest` are what the depth and the best-bid-and-offer listener saw last.
`misled` is set by the three callbacks that do not say what the depth needs
(`Misleads`; section 5): after one of them depth and book drift apart for good, and the
properties speak of the time before.

### `FeedMirror` and `DepthFeed`

`FeedMirror` is the promise of a feed without sessions and messages: `log` holds the
states of a symbol, every client shows one of them, and moves forward only.

`DepthFeed` is the code of `depth_feed_publisher.cpp`, `depth_feed_connection.cpp` and
`depth_feed_subscriber.cpp`. A depth is an array of levels with opaque values; that a
change names at least the levels that differ is what `ChangesAreStamped` says of the depth.

| Variable | Code |
|---|---|
| `job`, `todo`, `noneNew` | the message in preparation, the iterator of the loop over `sessions_`, `none_new` |
| `sessions`, `connected`, `sent`, `seqNum` | `sessions_`, and of each session `connected_`, `sent_symbols_`, `seq_num_` |
| `closed`, `broken` | its socket was closed by the destructor; the network failed it |
| `accepting`, `accepted` | the session that `on_accept()` holds between `push_back` and `set_connected` |
| `out`, `taken` | the messages written to a session, and how many its client has read |
| `current`, `expected`, `view` | the subscriber's connection, `expected_seq_`, `depth_map_` |
| `log`, `told`, `at` | history: the states of a symbol, the one a session was last told, the one a client shows |

The publisher's steps are one visit of a session each (`Visit`): the thread that changes
books and the io_service thread interleave between visits. `AcceptPush` puts a new session
behind a loop that runs. A visit itself and a change of the vector are indivisible here.
In the code they are not, and what two threads then do to the vector is undefined
(section 7). A subscriber's read may return several messages, of which `on_receive()`
decodes the first: `Receive(c, count)`. The client notices the loss at the next message.

### `Exchange`

The FIX handlers of `publisher_main.cpp` and `Application.cpp`, the table of `Exchange`,
the book, and the rows of the database. The book of this program has plain limit orders
only, so the model has a queue, `IsBest` and `Match` in place of `OrderBook`.

| Variable | Code |
|---|---|
| `row`, `placed` | the table of orders: status, `market_amount`, `order_place_date` |
| `server`, `result` | the program that is down, loads its orders or serves requests; the rows it has still to load |
| `known`, `object` | `orders_` and the order objects |
| `queue`, `open`, `adding`, `matching`, `calls` | the book, the order that `add()` works on, and the callbacks that are due |
| `behind`, `excused`, `traded`, `lost` | history: rows that missed an update, orders that were taken up again from such a row, what was traded, what was lost on one side of a trade |

Each callback that writes a row is a step (`Tell`), and a crash may come between any
two: `Crash` forgets everything but the rows. `Update` has the statement that fails, which
the code reports and forgets. `Start`, `Load`, `LoadFails` and `Serve` are `main()`. A
conversion from the amount of a row to the quantity of the engine drops the part of a unit
(`Units`), that from its price the part of a cent (`BookPrice`).

### `Market`

The order entry program on `OrderBook` itself. `DoAdd`, `DoCancel` and `DoModify` are the
commands of `Market.cpp`, `Listen` the listener with the functions of `Order.cpp` it
calls. The program has an `Order` class of its own and no `SimpleOrder`; `shown` has its
objects: `price_`, `quantity_`, `quantityOnMarket_`, and of `history_` the states that are
in it and the last one. `quantityFilled_` is left out because nothing changes it (section 5).
The engine of the model reads price and quantity from `order`; that those of `shown` are the
same at every step is part of what `MarketProofs` proves (`DisplaysCount`), and the
properties of the program do not use the rest of `order`. Books do not share orders, so one
symbol is enough.

### `OrderBookProofs`, `ApplicationProofs`, `MarketProofs`, `DepthProofs`, `DepthOrderBookProofs`, `DepthFeedProofs`, `SumLemmas`, `ExchangeProofs`

Section 6.

## 4. Runs

Bounds of the engine: the number of orders (`MaxOrders`), the requests they are drawn
from (`Menu`), the calls other than `add` (`MaxCalls`) with their arguments (`Deltas`,
`NewPrices`), and the first market price (`MarketPrices`). Of the levels: `SIZE`, the
orders that may be open at a time, their prices and quantities, and the change number up
to which calls are made (`MaxChanges`). Of the feed: connections (`MaxSessions`), trades and
changes of a depth (`MaxEvents`), messages per read (`MaxRead`). Of the exchange: requests,
crashes and failing statements. Nothing else is bounded.
`CHECK_DEADLOCK FALSE` because the application runs out of orders, calls or events: the
system really stops then. That it does not stop *inside* a call is `CallsReturn`.

| Run | Bounds | Shows |
|---|---|---|
| `matching` | 5 orders of 10 kinds: limit, market, immediate-or-cancel, stops of both sides that become limit and market orders, an empty one | `TypeOK`; `RestingOrdersAreOpen`, `OnePlace`, `NoOrderIsLost`; `BookIsNotCrossed`; `TradesWithinLimits`; `PriceTimePriority` |
| `aon` | 5 limit orders of 9 kinds, half of them all-or-none | `AllOrNothing`, `NoDanglingIterator`, `PriceTimePriority` |
| `reentrant` | 3 orders, 2 other calls, made at any moment a listener has control | `ApplicationAgrees`, `FillsOnlyLiveOrders`, `OrdersAreAnswered` |
| `throwing` | 3 orders, one kind of them all-or-none, 1 other call, any listener call may throw | `OnePlace`, `CallsReturn` |
| `depth` | 2 levels a side, 4 prices, 4 orders of quantity 2, calls up to change number 4 | `WellFormed`, `NoCallFails`, `LevelsAddUp`, `ChangesAreStamped`, `ImplementsLevels` |
| `depth_book` | 3 orders of 6 kinds, 2 other calls, listeners that call back, 1 visible level, words of 16 values | `DepthFollowsBook`, `NoDepthCallFails`, `ListenersAreCurrent`, `ObjectsAreTold`, `DepthTypeOK` |
| `feed` | 1 client, 1 symbol, 2 levels of 2 values, 2 connections, 3 events, reads of up to 2 messages | `ShowsPublishedState`, `CaughtUp`, `RefusesOnlyLoss`, `ImplementsMirror`, `NoClientIsOrphaned`, `FeedTypeOK` |
| `exchange` | a buy order of 3 1/2 units, sell orders of 2, 1 and 1/2, 4 requests, 2 crashes, 1 failing statement | `BookIsWhatRowsSay`, `SidesBalance`, `NoOrderTradesTwice`, `ExchangeTypeOK` |
| `market` | 4 orders of 7 kinds, with stops of both sides, 2 cancels or modifications, 3 changes of quantity, 1 new price | `ShowsOpenQuantity`, `OrdersAreFound`, `CancelledOrdersAreOver`, `TradesWithinLimits`, `MarketTypeOK` |
| `moved_partly`, `market_aon`, `stale_price` | 2 to 4 orders | divergences, section 5 |

Why these bounds are enough for the cases to happen. A deferred group needs three
resting orders at least (two that are too small and one that completes them) and
the taker: four orders; the fifth makes the group fail for another reason or compete
with a regular order. A cascade of stops needs two to trade, one to be triggered and one
for the trade that triggers the next: five. Quantities to 4 distinguish smaller,
equal and larger; prices to 3 put one strictly between two others; 0 is the market
price. A replace in mid-flight needs one order on each side and one more to be
passed over. Two levels and four orders at four prices fill the array of a side and put
two levels into its map, so that levels cross the boundary in both directions and the
map has a best level to choose; a quantity of 2 is filled in one part or two; four
change numbers are enough for an insertion or an erasure at the boundary between two
publications. With a depth of one level two prices already fill the map, and a listener
that calls back from each kind of callback needs no third call. In the feed the first
event starts a symbol for a session, the second is told by an incremental message and
the third is lost or comes after the client reconnected; a second client or symbol adds
no case because sessions share nothing but the list, and the proofs of section 6 hold for
any number. In the exchange the first buy order trades with two others, so that a crash
finds it filled in part, and the half units are dropped on both sides; the second crash
comes while the orders of the first are loaded; one sell order asks half a cent more than
the buy order bids, which the book does not see. In the order entry program two orders trade,
a third is the stop that the trade triggers and the fourth trades with that one; of two
requests the first can cancel an order and the second be refused for it. Every property of a
passing run is also checked against a mutated definition, a plausible slip in the code, which
TLC must catch under the same bounds.

### Fairness

`WF_vars(BookStep)`: once inside a call, the thread that made it goes on. The code
has no lock, no wait and no I/O in the engine, so a call only fails to return if one
of its loops does not end; this is what `CallsReturn` checks. Nothing is assumed of
the application: it may never call again. Liveness does assume that listeners
return.

In the feed `PublisherStep`, `AcceptPush` and `AcceptDone` are fair, because both threads
of the publisher run and their loops end. So is `Working(c) /\ ReadSomething(c)`: a
subscriber always has a read outstanding, and as long as the network carries the connection
the read completes when there are bytes or when the peer closed the socket. When the network
fails the connection nothing is assumed. The read has no timeout, no keepalive is set
(`depth_feed_connection.cpp:331-340`), and the subscriber never writes, so it may never
notice. Therefore `NoClientIsOrphaned` speaks of connections that the network carries: a
client that has one is served on it some day, or loses it. Neither events nor connections
nor failures are assumed: the property must hold whether or not they come.
The exchange has no liveness property: a process that is killed is started by hand.

## 5. Known divergences

Three runs end in a violation, each of a sentence of the documentation:

1. `moved_partly`. `perform_callback()` (`order_book.h:1144`) gives `on_replace()` the whole
   quantity of the order where `depth.h:84` asks for its open quantity. A partly filled
   order that is moved to another price takes its whole quantity there.
2. `market_aon`. An all-or-none *market* order meets a resting market order for
   which no price can be found. `create_trade()` returns 0, but the trades with the
   other deferred orders are made and not undone: the order is filled in part, and what is
   left of it rests.
3. `stale_price`. `create_trade()` takes the price from the order object, which learns
   of a replace only when the callbacks are delivered. A bid of 1 is raised to 2; an
   all-or-none sell order with limit 2, passed over at first, trades with it at 1.
   Two more orders of calls meet the old price, both without all-or-none orders and without
   calls from listeners (TLC finds them with menus of their own). A buy at 2 is replaced to 3
   and trades there, the trade releases a stop sell with limit 3, and that order trades with
   the buy at 2. And a resting market order that is replaced to a limit still shows price 0
   to a resting market order of the other side: no price is found, and both rest although
   their keys now match.

Met on the way, modelled as the code has it or kept out of the passing runs as said here,
without a run of their own. In the engine:

* `check_stop_orders()` (`order_book.h:571-590`) walks the stops from the easiest to
  match and stops at the first that the new price precedes. For a stop bid that releases
  those *at or above* the price, not those it reached. Buy stops at 3 are submitted when
  the market rises to 2, and one at 1 stays held when the market jumps from 0 over it.
* With `LIQUIBOOK_ORDER_KNOWS_CONDITIONS` the constructor of the tracker or-s the order's
  own conditions into its *parameter*, after the member was initialised from it
  (`order_tracker.h:60-78`). They are lost. The runs pass the conditions
  (`PassConditions`).
* `cancel()` and `replace()` look in `bids_` and `asks_` only (`order_book.h:444`). A held
  stop order cannot be withdrawn.
* What an immediate-or-cancel *stop* order does not trade after it was triggered
  is dropped with no callback: only `add()` sends the cancel, for its own
  order. The menus of the passing runs have no such order; the order entry program would
  show a quantity of it for ever.
* The order object in `stale_price` also explains why a listener that replaces an order
  at a new price and at once calls again is refused or trades at the old one: run
  `reentrant` gives listeners size changes only (`NewPrices = {0}`).
* `operator!=` (`comparable_price.h:87-90`) returns `! price_ == rhs`. Nothing calls it.
* The second test of an unset market price in `set_market_price()` can never be reached
  (`order_book.h:343-360`): the first covers it.

In the depth book, beside `moved_partly` (all three set `misled`):

* The cancel callback of an immediate-or-cancel order has quantity 0 (`order_book.h:420`):
  its level keeps the quantity that was cancelled.
* A replace of a *resting market order* moves an order that is not in the depth. The depth
  throws, and the order object is not told.

A held stop order counts in the depth from its acceptance; `DepthFollowsBook` says so.

In the feed:

* A read that returns several messages decodes the first and drops the rest
  (`depth_feed_connection.cpp:300`). The client notices at the next message
  and reconnects.
* A subscriber whose connection the network failed without telling it waits for ever: its
  read has no timeout and it never writes (`depth_feed_connection.cpp:331-340`), while the
  publisher's next send fails and drops the session (`depth_feed_connection.cpp:111-123`).
* After a reconnection a symbol shows its old state until it changes again: a new session
  starts a symbol only with its next change. This is why `CaughtUp` speaks of symbols
  that the session was started for.
* `ExampleOrderBook` overrides the callbacks of `DepthOrderBook` without calling them, so
  that the depth of the example exchange is never changed and its feed has nothing to
  publish. `DepthFeed` models the feed on its own.

In the exchange:

* An order that is sent again after a restart is accepted although its row is final or
  partly booked, and trades its whole amount once more (`StartsAnew`, `excused`).
* An order of less than a unit is reported as taken, but the book rejects it without
  telling its object, and its row stays "Pending".
* A statement that fails is printed and forgotten; while orders are loaded it ends the
  loading, and the exchange opens with part of them.
* After a restart time priority follows `order_place_date`, not the order of acceptance.
* A price is a double that is multiplied by 100 and cut to an integer (`order.cpp:39-42`). A
  buy order trades with a sell order that asks up to a cent more, and 0.29, which has no exact
  double, becomes 28. `BookPrice` has this. A price below a cent becomes 0, which the book takes
  for a market order; the model has none (`PriceAssumption`).
* A status request for an order without history reads `back()` of an empty vector.

In the order entry program:

* The quantity of MODIFY is handed to the engine as a *change* of the quantity;
  `README_ORDER_ENTRY.md:224-225` says it is the new initial quantity and no delta.
* `quantityFilled_` of `Order` is set to 0 in the constructor (`Order.cpp:26`) and never
  changed, `onFilled()` included; the line of the display that says how much was filled
  (`Order.cpp:313-317`) is never printed.
* `Order::onFilled()` enters `Filled` at every fill (`Order.cpp:173`), which `Order.h:26` calls
  a terminal state; no order ever enters `PartialFilled`. An order that was filled in part
  shows as filled, rests, and is traded again.
* The history of an order that is over goes on: a refused request is entered after the
  final state and is then what shows. `CancelledOrdersAreOver` therefore asks whether a cancel
  is anywhere in the history.
* A stop price above the maximum is refused on the command line; the same entered at the
  prompt is reported and kept (`Market.cpp:276-291`), so the model has such orders.

## 6. Proofs

`OrderBookProofs` proves first, for every price, that the sides agree, that
`operator<` is a strict total order as `std::multimap` demands, and that a key that
sorts first matches whatever a later one matches. The last is why the loops of
`match_order()` may stop at the first key that does not match. `RelationsAreOfOneOrder`
says that the other relational operators belong to the same order.

It goes on with three of the invariants for every number of orders and calls,
every menu (all-or-none, stops, immediate-or-cancel, market orders in any mixture),
every price and quantity, with listeners that call the book and that throw. The only
assumption is `ConstantsAssumption`, the types of the constants, and that there is at
least one order.

* `TypeCorrect`: `[]TypeOK`. The content is `open \in [Order -> Nat]`: no tracker is
  filled or reduced beyond what it has open, so neither exception of
  `order_tracker.h` is ever thrown. The same for the quantity in the accept callback,
  which is a difference.
* `RestingOrdersStayOpen`: the multimaps hold open orders only, on their own side. The
  exception is the one order that `check_deferred_aons()` is matching: it leaves
  when its match ends.
* `OrdersHaveOnePlace`: an order is in one multimap or batch at a time, and in none
  while it is matched as inbound order. The code copies a tracker first and erases the
  original afterwards.

None of them is inductive. The invariant `IInv` adds what they rest on:

* `Filed`: the containers hold submitted orders, each on its own side. Without it a
  new order could already be somewhere, and a stop of the wrong side could be triggered.
* `Facing`: the orders still to be visited, the deferred ones and the goal of a group
  are of the side opposite to the taker. Hence a taker never trades with itself, and the
  two subtractions of `create_trade()` act on two trackers.
* `Apart` and `Inbound`: `OnePlace` in a form that speaks of orders instead of sets,
  which the steps that move orders can be checked against one by one.
* `Answering`: the copy of the tracker that `add()` keeps never shows more than was
  ordered.
* `Delivering`: while the handling flag is set there is a callback to deliver.

The proof has a lemma per action. They rest on three: `MatchStepKeepsIInv` for a step
of a match, with or without a trade (`TradeEffect` says what a trade does to the
containers, `ApartAfterPriceMove` what the stops do that it triggers);
`InboundStepKeepsIInv` for a step that starts a match; `OutsideStepKeepsIInv` for
all that happens outside of one.

The next part of `OrderBookProofs` is about prices, for every number of orders and calls and
for the same listeners:

* `BookStaysUncrossed`: `[]BookIsNotCrossed`, for every menu. What rests and matches is an
  all-or-none order, or two market orders.
* `TradesAreWithinLimits`: `TradesWithinLimits`, for every menu. Every trade has a price, at
  the limit of either order or better.
* `TradesAreInPriority`: `PriceTimePriority`, for menus without all-or-none orders
  (`NoAllOrNone`), as in run `matching`; run `aon` checks it with them.

All three assume `SizesOnly`: a replace changes the size, not the price. A price that was
replaced is in the order object only after its callback, and `create_trade()` reads the
object before; the second is then false (`stale_price`). Of the runs in which the three hold,
only `market` replaces prices: there no listener calls back, nothing is all-or-none, and with
its menu and four orders it meets neither of the two other cases of section 5.

The inductive invariant is `PInv` (`PricesAreKept`), on top of `IInv`. Its parts:

* `MatchPriced` and `KeysKept`: keys, and the price a match runs at, are those of the order
  objects; the candidates that a match keeps for later match it.
* `ReplacesPriced`: no callback that is due, in either queue, has a new price.
  Without it a delivery in a re-entrant call could change an object under a resting order.
* `TakerWasServed`: a regular taker that still has something open could not trade with
  any order of the other side that it went past. When the loop ends, the rest do not match
  either, because `EasierKeysMatchMore`; so what is filed does not cross the book.
* `OnlyAonTries`: only an all-or-none taker trades through `try_create_deferred_trades()`.
* `NotCrossed`: `BookIsNotCrossed` at every step, not only between calls, because a listener
  may call at any delivery.

`TradingSteps` finds the three callers of `create_trade()` and what is known of the order they
pass it, which both action properties rest on.

The last part of `OrderBookProofs` proves, from `IInv` and sums, what all-or-none orders rest
on, with listeners that add, cancel, replace and throw:

* `AonAreWhole`: `[]AllOrNothing`. Between two calls an all-or-none order has been filled
  or has not been traded at all.
* `NoIteratorDangles`: `[]NoDanglingIterator`. `match_aon_order()` and
  `try_create_deferred_trades()` keep iterators to orders while trades erase others. None is
  used after its order was erased: an attempt that trades fills its taker, which ends the match.

Both assume `AonAreLimits`: no all-or-none order of the menu is a market order. This is
necessary: two market orders that meet while there is no market price make no trade although
`match_order()` has counted on it, and run `market_aon` shows what follows. `LInv` says that
the assumption survives replaces (`LimitsToCome`: no callback that is due takes
the limit from an all-or-none order). `WInv` follows the quantities. `Level`: an order that
is all-or-none has traded nothing or has nothing open, but for the two at work. `GoalStands`:
what a group of deferred orders is expected to bring (`plan.max`) is the sum of what they have
open. `Proposing` and `Settling`: the group was found to fill the goal, and what is still to be traded is
the sum over the orders still to be visited. `Closing`: after the loop nothing is left. `DeferredStand`
and `TodoStands`: the orders a match may still trade with have not been touched.

`ApplicationProofs` goes on from `IInv` and proves that what the application is told is
what the book does, again for every menu and every number of orders and calls, with
listeners that add, cancel and replace in the middle of a delivery:

* `ApplicationIsTold`: `[]ApplicationAgrees`. Between two calls an order object shows every
  fill of its order, and if the order rests, its open quantity and the price at which
  `cancel()` and `replace()` look for it. With re-entrant listeners this is not evident:
  callbacks of several calls are queued and delivered later, while the book has moved on.
* `FillsAreInTime`: `FillsOnlyLiveOrders`, an action property. No fill is told before the
  accept callback, nor after a cancel or the fill that completed the order.
* `AcceptedOrdersAreKept`: `[]NoOrderIsLost`. An order whose object is accepted rests in
  the book or is held as a stop, on its own side.

All three have the hypothesis `~Throwing`: the callback whose listener throws is never
told to the object (`order_book.h:1058-1069`), so there they are not to be had. The third has also
`NothingDropped`, no all-or-none market orders and no immediate-or-cancel stop orders in the
menu. Of the latter the engine drops what is left after a trigger (section 5).
`match_aon_order()` erases an all-or-none order after its trade whatever is left of it; that
nothing is left (`Whole`, from `WInv`) is true for limits only. The menus of the runs `matching`
and `depth_book` satisfy it.

The inductive invariant is `AInv` (`Agreement`). The order object is compared with the
book not as it is but as it will be: `Leads(o, Due, order[o], y)` says that the
callbacks still due, `working` followed by `callbacks`, take the object to `y`, each of them
finding it in the state it is for, with enough left to be filled or reduced (`Timely`), and `Stands(o, y)` that `y` agrees with the
book. A step of the book appends callbacks and moves `y` (`InformedOn`, `InformedTwice`); a
delivery takes the first away and leaves `y` where it is (`PerformTells`, `LeadsFrom`).
`add()` writes its accept callback first and the quantity in it last; `LeadsAlike` says
that the object does not notice. `Stands` has to say where an order may be in the course of
a call: `Carried` is resting, waiting as a stop in any of its batches, taken as inbound
order, or left over for the cancel of `add()`. The other parts: `Fitting`, callbacks are
for submitted orders and no replaced order is a stop; `Untouched`, nothing happened to
orders not yet submitted; `Handed`, the queues are empty when the book is left;
`AcceptNoted`, the callback `add()` amends is the accept; `Standing`, the orders a match
may still trade with rest on the other side and none is both visited and deferred; `IocDone`
and `NoneDropped`, what is left of an immediate-or-cancel order is in one place only and is
not kept.

`DepthProofs` proves, for every number of levels, orders, prices and quantities:

* `LevelsStayInOrder`: `[]WellFormed`. `find_level()` stops at the first level that is
  blank or worse, which is right only because of this.
* `NoChangeEscapes`: `[]ChangesAreStamped`. Insertions and erasures rewrite the levels
  behind them; every rewritten level gets a new stamp.
* `DepthIsTyped`: `[]TypeOK`.

Assumed is `DepthAssumption`: there is a level and a word, prices and quantities are
positive, and quantities fit in a word. The invariant `DInv` adds that excess prices are positive
and bounded (a best one exists only in a set that has a bound; it holds because every
call adds at most one level), that a level without a price is blank as long as
no call failed (otherwise moving it up would be a change without a stamp), and that no
stamp is ahead of the change number. The library has no theorem on least elements of sets of
numbers without an operator parameter; `LeastNatural` gets it from the well-foundedness
of `<`. One lemma per member function says that it keeps `Structure` and `Numbered` and
that it `Advances`: each level is the same, stamp included, or has a stamp above the old
change number, or the call failed. `Advances` is transitive, which is what
`replace_order()` needs.

The second part of `DepthProofs` goes on from there and proves, from the same assumption, that the depth
is what it is for:

* `CallsSucceed`: `[]NoCallFails`. No call of a client that keeps the contract throws,
  runs behind the levels of a side, or takes more from a level than is there.
* `LevelsAreTheOrders`: `[]LevelsAddUp`. What array and map hold together at a price is the
  number and the sum of the orders there.
* `DepthImplementsLevels`: `ImplementsLevels`, the depth implements `Levels`: each call
  changes the totals as one order does, and the visible levels are the best of them.

The code keeps a level in the array or in the excess map, and moves levels between the two
when one is inserted or erased. The proofs forget where: `Holds` says that a level with a
price, a count and a quantity is in one of them, and what a member function does is said by
`Swapped` (one held level was replaced by another) and `Gone` (one was erased, and no
other). From this `AddOrderAdds`, `ChangeQtyOrderChanges`, `CloseOrderTakes` and
`ReplaceOrderMoves` give the totals after a call. On the side of the orders the sums change by
what the one order in the call changes (`OneChanged`, `OneLess`). `LInv` is `DInv` with
`Kept`, which ties the two together: no call has failed, what is held at each price is what the
orders there add up to, no level without orders is held (`Counted`), and all quantities
together fit in a word. The last holds of the client (`Amounts` bounds what it has in
the book) and is why arithmetic modulo `Word` agrees with that of numbers. The third is why
a close finds its level: an order at the price keeps the level alive.

`DepthOrderBookProofs` puts the two together: a depth that is told of the book by delayed
callbacks, for every menu, every number of orders, calls and visible levels, with
listeners that call the book.

* `DepthShowsTheBook`: `[]DepthFollowsBook`. After each call the depth has at each price the
  number and the open quantity of the limit orders in the multimaps and among the stops.
* `DepthCallsSucceed`: `[]NoDepthCallFails`. No callback makes the depth throw, and nothing is
  left to be ignored when a call returns.
* `EveryObjectIsTold`: `[]ObjectsAreTold`. So no order object misses a callback.
* `ListenersSeeTheDepth`: `[]ListenersAreCurrent`. When a call returns, the listener of the
  depth has seen all levels as they are and that of the best bid and offer the first ones.
* `DepthBookIsTyped`: `[]DepthTypeOK`.

The first three speak of the time until `misled`, as the properties do; the last two of all
times. Assumed is `DepthBookAssumption`: the depth has a level, and a word more than one
value. One hypothesis is about the behaviour, because nothing in the code enforces it:
`[]QuantitiesFit` says that the quantities of the order objects are 32-bit words, and that
twice what all of them have left is one too (a move adds the new quantity before it
takes the old one away). In the run `depth_book` it holds in every state. The last two
theorems need only that each quantity is a word (`QuantitiesAreWords`), and
`DepthShowsTheBook` needs `NothingDropped`, as in `ApplicationProofs`.

The depth lags behind the book, so the invariant cannot compare them. `KInv` compares the
depth with the order *objects*, which lag as much: it keeps what they have left, as the client
of `DepthProofs` does, whose lemmas are used through `INSTANCE`. The one exception is an
order that was filled on arrival. It never enters the depth, which is told to ignore the
quantity of its fills, a counter for each side and not for an order. That this works rests on
the order of the callbacks: `QInv` says that behind an acceptance with nothing left come the
fills of that order and nothing else (`Streak`), although the acceptance is pushed first, its quantity
is filled in last, and a listener may push other callbacks behind all of them. From `KInv` and `QInv` follows that one delivery
succeeds and leaves `KInv` true (`HeardFollows`); the other steps only push callbacks behind
(`DueGrows`, `KeptStill`). When nothing is due, the objects agree with the book (`AInv`), and
the sums over orders are those of `OpenAt` (`LevelIsOpen`).

For the listeners another invariant is needed, since after a misleading callback the depth
may hold a level without a price. `ListenInv` says that whatever differs from what a
listener saw carries a number later than the last published one (`Shown`, with `Marked` of
`DepthProofs` for what any call of the depth keeps of this), and that a callback that may change
the depth has the book update of its call behind it whenever a listener has the control
(`UpdateFollows`).

`MarketProofs` proves, for every menu, every number of orders and commands, and also if the
listener entered commands of its own:

* `MarketShowsTheBook`: `[]ShowsOpenQuantity`. Between two commands the display of every
  order is what the book has open of it, or 0.
* `MarketFindsItsOrders`: `[]OrdersAreFound`. Between two commands the program's object of a
  resting order has the price of its entry and the quantity that was traded and is open.
* `CancelledStaysCancelled`: `CancelledOrdersAreOver`, an action property. No step trades an
  order that has a cancel in its history, also when a refused request was entered after it.
* `MarketIsTyped`: `[]MarketTypeOK`. No fill or reduction takes more than is shown.

`MarketStepIsBookStep` gives the program the invariants of the book. `MInv` (`DisplaysCount`)
compares the program's object with the object that the book reads, not with the book: both
hear the same callbacks, so they agree also while others are due. That the object can take
each callback (`Timely`) is known from `AInv`, that it agrees with the book in the end as well.
For the cancelled orders this says more: no callback that is due can be for one
(`OverStays`, by the first callback that would change its object), so what was traded of it is
what its object says, before and after each step, and no step changes that object. The
hypotheses are those of `ApplicationProofs`, `NothingDropped` only for the first.

`DepthFeedProofs` proves, for every number of clients, symbols, levels, values, sessions,
events and messages per read, everything the feed's run checks but liveness:

* `ShowsPublished`: `[]ShowsPublishedState`, a client shows whole published states.
* `FeedImplementsMirror`: the feed implements `FeedMirror`, so a client never goes back.
* `ReadersCatchUp`: `[]CaughtUp`.
* `HangsUpOnlyOnLoss`: `RefusesOnlyLoss`, the numbers have no gap of their own.
* `FeedIsTyped`: `[]FeedTypeOK`.

Assumed is `FeedAssumption`: there is a symbol, the blank value is a value, the bounds are
numbers. Of the variables that the properties name, `at` and `view` change when a message is
taken, which may be long after it was written. So the invariant `FInv` speaks of what was
written. `Record` says of each session that its messages are numbered without a gap
(`Numbered`), that each leads on from what its predecessors told (`Chained`, with
`Continues` for what a message may be made from), that they tell of no state to come
(`Tracked`) and never go back (`Rising`). `UpToDate` says that a session in the list was
told the current state of each of its symbols, but for the change that the loop has still
to bring it; `Differing`, that what the loop brings covers all that changed; `Listed`, that
a connection that was not accepted was sent nothing. For the subscribers `Owned` gives
each session one client; `InStep` says that a client that lost nothing shows what the
messages it took told; `NotAhead`, that no message still to come would take it back.
`NotAhead` survives a reconnection because whatever a new session is told is
current when it is told. The proof has a lemma per action. `ToldOneMore` and
`RecordLonger` are about sequences only: a record stays one when a message that leads on
is appended, and when a state is.

`SumLemmas` is about sums over finite sets, for the three modules that need them. The
specifications write them with `MapThenSumSet` of the community modules, a fold; the
theorems of the library on induction take an operator as a parameter, which the provers cannot
instantiate. So the induction is done by hand: if a formula failed for some subset of a finite
set it would fail for a smallest one (`SmallestSubset`), and that one has a member whose
removal gives a smaller counterexample. From it come the equations of a sum (`SumOfNone`,
`SumWithout`), that equal terms have equal sums (`SumOfSame`), and how it changes when one
term changes (`SumAfterChange`).

`ExchangeProofs` proves, for every finite set of orders with any sides, prices and amounts,
any unit of quantity, every number of requests, crashes and failing statements, at every
step at which the code may meet them:

* `TypesAlways`: `[]ExchangeTypeOK`. As in the engine the content is that no fill takes more than
  an object has on the market, and no trade more than is open.
* `BookAlways`: `[]BookIsWhatRowsSay`. Between requests, an order rests with the quantity
  its row says, unless an update of the row failed.
* `TradedAlways`: `[]NoOrderTradesTwice`. However often an order is loaded again, no more of it
  is traded than was ordered, unless it was taken up from a row that missed an update.
* `SidesAlways`: `[]SidesBalance`. What the buying rows and the selling rows book differs
  by what crashes between the two rows of a trade, and failed statements, can explain.

Assumed is `ExchangeAssumption`: the types of the constants, a finite set of orders. None
of the theorems needs `PriceAssumption`.
The properties speak of the moments at which no callback is due; the invariant has to speak
of the others. `Owes` does so for the calls that are due: they take the quantity of an
object from what it shows now to what the book has open, and never below zero
(`Balanced`). `Paired` says that, counted from the end, the calls are the two fills of a
trade each, so at most one of a pair was told. `RowsAgree` ties each row that missed nothing to
its object, `TradedOnce` bounds what was traded by what was ordered *less* what can still be
traded, in the row as well as in the object (a crash replaces the second by the
first), and `SidesInv` says that the difference between the sides is one of the sums that the
losses allow. `ResultStands` is about the load: rows not yet loaded are as they were
read, because nothing else runs. `QueueStands`, `Phases`, `RowsPlaced`, `RowsExist` and
`Within` are what a reader of the code would take for granted.

Model-checked only: for the feed `NoClientIsOrphaned`. Proved only in part: for the depth
book all properties up to the first wrap of a 32-bit quantity, `DepthFollowsBook` for menus
as said above; `BookIsNotCrossed`, `TradesWithinLimits` and `PriceTimePriority` for replaces of the
size; `ApplicationAgrees` and `FillsOnlyLiveOrders` for listeners that do not throw, and
`NoOrderIsLost` for menus as said above; the run `throwing` shows what is left when they do
throw. Liveness (`CallsReturn`, `OrdersAreAnswered`, `NoClientIsOrphaned`) is out
of the prover's reach and stays with TLC.

## 7. Not modelled

* The components marked `not_modelled` in `PROJECT.json`, with the reason there. By far the
  most lines of the repository are a vendored copy of QuickFIX with its generated message
  classes, of which the programs use sessions and parsing; the tests and performance
  programs drive what is modelled; the JavaScript programs call third-party services.
* In the engine: the boolean that `add()` returns; the cost of a fill and its 32-bit
  product; transaction ids and user data; logging; `reserve()` of the tracker, which
  nothing calls; the branch of `replace()` for an order without open quantity, which
  `RestingOrdersAreOpen` shows to be unreachable; `operator!=` of the keys.
* `set_market_price()` from outside is modelled before the first order only, as
  `order_book.h:108` intends it. Called later it would move stops to `pendingOrders_`
  where nothing submits them until the next `add` or `replace`.
* In the levels: `needs_bid_restoration()` and `needs_ask_restoration()`, which nothing calls;
  `DepthLevel::set()`, which only the subscriber of the feed calls (`Shown` of
  `DepthFeed`); that a change of an
  excess level makes `changed()` true although nothing visible changed is not a property.
* In the feed: two threads that change or walk the vector of sessions at the same
  time, and a send that completes after its session was destroyed, are undefined behaviour,
  and what could be said of the outcome is nothing. FAST encoding and decoding, and
  messages that do not fit the buffer of a read, which the code takes for damaged ones.
* In the exchange: status requests, the handlers of FIX 4.2, the other columns of a row,
  and books of several symbols, which share only the table.
* In the order entry program: reading and parsing commands, the text of the history,
  files of commands, and the depth that `Market` publishes on the console.
* A listener that never returns, or that destroys an order.
* Quantities wider than 32 bits: the engine only subtracts what `TypeCorrect` shows to be
  there, and adds in `replace()`, where a size that overflows is the caller's.
