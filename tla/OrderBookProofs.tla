--------------------------- MODULE OrderBookProofs ---------------------------
(***************************************************************************)
(* The safety of the book's containers, what it does with prices, and how  *)
(* it trades all-or-none orders: for every menu of orders, every number of *)
(* orders and calls, with listeners that call the book and that throw.     *)
(***************************************************************************)
EXTENDS OrderBook, SequenceTheorems, SumLemmas, TLAPS

USE ConstantsAssumption

-----------------------------------------------------------------------------
(* What the matching loops need of their keys, for every price *)

(* Two orders of opposite sides agree on whether they can trade: the loop  *)
(* over the asks asks the key of the ask, the loop over the bids that of   *)
(* the bid, and match_order() may start from either.                       *)
THEOREM SidesAgreeAlways ==
  ASSUME NEW buy \in BOOLEAN, NEW p \in Price, NEW counter \in Price
  PROVE  Matches(buy, p, counter) <=> Matches(~buy, counter, p)
<1>1. CASE buy
  BY <1>1, SMT DEF Matches, Price, MARKET_ORDER_PRICE
<1>2. CASE ~buy
  BY <1>2, SMT DEF Matches, Price, MARKET_ORDER_PRICE
<1> QED
  BY <1>1, <1>2

(* operator< is a strict order of the keys of a side in which keys that    *)
(* differ are comparable: what std::multimap demands of it.                *)
THEOREM LessIsStrictTotalOrder ==
  ASSUME NEW buy \in BOOLEAN, NEW p \in Price, NEW q \in Price, NEW r \in Price
  PROVE  /\ ~Less(buy, p, p)
         /\ Less(buy, p, q) /\ Less(buy, q, r) => Less(buy, p, r)
         /\ p # q => Less(buy, p, q) \/ Less(buy, q, p)
         /\ Less(buy, p, q) => ~Less(buy, q, p)
<1>1. CASE buy
  BY <1>1, SMT DEF Less, Price, MARKET_ORDER_PRICE
<1>2. CASE ~buy
  BY <1>2, SMT DEF Less, Price, MARKET_ORDER_PRICE
<1> QED
  BY <1>1, <1>2

(* The other relational operators are those of the same order: p > q is    *)
(* q < p, and of p <= q and q <= p one holds, both only for equal prices.  *)
THEOREM RelationsAreOfOneOrder ==
  ASSUME NEW buy \in BOOLEAN, NEW p \in Price, NEW q \in Price
  PROVE  /\ Greater(buy, p, q) <=> Less(buy, q, p)
         /\ GreaterOrEqual(buy, p, q) <=> ~Less(buy, p, q)
         /\ LessOrEqual(buy, p, q) <=> ~Greater(buy, p, q)
<1> USE DEF Less, Greater, LessOrEqual, GreaterOrEqual, Price, MARKET_ORDER_PRICE
<1>1. CASE buy
  BY <1>1, SMT
<1>2. CASE ~buy
  BY <1>2, SMT
<1> QED
  BY <1>1, <1>2

(* A key that sorts first can trade with all that a later one can trade    *)
(* with, so the loops of match_order() lose no trade when they stop at the *)
(* first key that does not match.                                          *)
THEOREM EasierKeysMatchMore ==
  ASSUME NEW buy \in BOOLEAN, NEW p \in Price, NEW q \in Price,
         NEW counter \in Price,
         Less(buy, p, q), Matches(buy, q, counter)
  PROVE  Matches(buy, p, counter)
<1>1. CASE buy
  BY <1>1, SMT DEF Less, Matches, Price, MARKET_ORDER_PRICE
<1>2. CASE ~buy
  BY <1>2, SMT DEF Less, Matches, Price, MARKET_ORDER_PRICE
<1> QED
  BY <1>1, <1>2

-----------------------------------------------------------------------------
(* The inductive invariant *)

(* Callbacks are being delivered only while there is one to deliver. *)
Delivering ==
  /\ pc = "deliver" => handling
  /\ handling => working # <<>>

(* The containers of a side hold submitted orders of that side. *)
Filed ==
  /\ \A s \in Side : \A o \in market[s] : o \in Used /\ order[o].buy = s
  /\ \A s \in Side : \A o \in stops[s] : o \in Used /\ order[o].buy = s
  /\ \A i \in DOMAIN pending : pending[i] \subseteq Used
  /\ \A i \in DOMAIN submitting : submitting[i] \subseteq Used

(* A match is between an order and orders of the other side. *)
InAddOrder == Matching \/ pc = "deferred"

Facing ==
  /\ Matching =>
       /\ m.taker \in Used
       /\ \A e \in m.todo \cup m.deferred : e \in Used /\ order[e].buy = Opposite(m.taker)
  /\ pc \in {"propose", "settle", "close"} =>
       /\ order[plan.goal].buy = Opposite(m.taker)
       /\ plan.todo \subseteq m.deferred
  /\ InAddOrder => \A a \in aons : a \in Used /\ order[a].buy = Opposite(call.order)
  /\ ~InAddOrder => aons = {}

(* While add() runs, its order has no more open than was ordered. *)
Answering ==
  InAddOrder /\ call.kind = "add" =>
    /\ open[call.order] <= order[call.order].qty
    /\ call.unfilled <= order[call.order].qty

(* An order is a member of one container at most, and of none while it is  *)
(* matched for the first time.                                             *)
InBook(o) == \E s \in Side : o \in market[s] \/ o \in stops[s]
InQueue(o, q) == \E i \in DOMAIN q : o \in q[i]

Apart ==
  /\ \A s, t \in Side : market[s] \cap stops[t] = {}
  /\ \A o \in Order : ~(InBook(o) /\ InQueue(o, pending))
  /\ \A o \in Order : ~(InBook(o) /\ InQueue(o, submitting))
  /\ \A o \in Order : ~(InQueue(o, pending) /\ InQueue(o, submitting))
  /\ \A i, j \in DOMAIN pending : i # j => pending[i] \cap pending[j] = {}
  /\ \A i, j \in DOMAIN submitting : i # j => submitting[i] \cap submitting[j] = {}

Inbound ==
  Matching /\ ~Nested =>
    ~InBook(m.taker) /\ ~InQueue(m.taker, pending) /\ ~InQueue(m.taker, submitting)

IInv == /\ TypeOK /\ Delivering /\ Filed /\ Facing /\ Answering /\ Apart /\ Inbound
        /\ RestingOrdersAreOpen

-----------------------------------------------------------------------------
(* Callbacks are well-formed *)

(* A callback without a quantity is well-formed. *)
LEMMA CbType ==
  ASSUME NEW type \in CallbackTypes, NEW o \in Order
  PROVE  Cb(type, o) \in Callback
BY DEF Cb, Callback, Quantity, Price

(* So is the callback of a trade. *)
LEMMA FillCbType ==
  ASSUME NEW o \in Order, NEW p \in Order, NEW q \in Quantity, NEW price \in Price
  PROVE  FillCb(o, p, q, price) \in Callback
BY DEF FillCb, Cb, Callback, CallbackTypes, Quantity, Price

(* So is that of a replace, which notes the quantity that was open. *)
LEMMA ReplaceCbType ==
  ASSUME TypeOK, NEW o \in Order, NEW delta \in Int, NEW price \in Price
  PROVE  ReplaceCb(o, delta, price) \in Callback
BY DEF ReplaceCb, Cb, Callback, CallbackTypes, Quantity, Price, TypeOK

-----------------------------------------------------------------------------
(* What a trade does to the containers *)

(* set_market_price() moves stops to the end of pendingOrders_. *)
LEMMA MarketPriceEffect ==
  ASSUME TypeOK, NEW price \in Price, SetMarketPrice(price)
  PROVE  /\ marketPrice' \in Price
         /\ stops' \in [Side -> SUBSET Order]
         /\ pending' \in Seq(SUBSET Order)
         /\ \A s \in Side : stops'[s] \subseteq stops[s]
         /\ \/ pending' = pending
            \/ \E side \in Side :
                 /\ pending' = Append(pending, stops[side] \ stops'[side])
<1> DEFINE side == StopSide(price)
           batch == IF PriceMoves(price) THEN Triggered(side, price) ELSE {}
<1>1. side \in Side /\ batch \subseteq stops[side]
  BY DEF Triggered, Side, StopSide
<1>2. /\ marketPrice' = price
      /\ stops' = [stops EXCEPT ![side] = @ \ batch]
      /\ pending' = IF batch = {} THEN pending ELSE Append(pending, batch)
  BY DEF SetMarketPrice
<1>3. stops \in [Side -> SUBSET Order] /\ pending \in Seq(SUBSET Order)
  BY DEF TypeOK
<1> HIDE DEF side, batch
<1>4. batch \in SUBSET Order
  BY <1>1, <1>3
<1>5. stops'[side] = stops[side] \ batch
  BY <1>1, <1>2, <1>3
<1>6. stops[side] \ stops'[side] = batch
  BY <1>1, <1>5
<1>7. pending' \in Seq(SUBSET Order)
  BY <1>2, <1>3, <1>4
<1>8. stops' \in [Side -> SUBSET Order] /\ \A s \in Side : stops'[s] \subseteq stops[s]
  BY <1>1, <1>2, <1>3
<1> QED
  BY <1>1, <1>2, <1>6, <1>7, <1>8

(* Moving stops to pendingOrders_ keeps every order in one container.      *)
LEMMA ApartAfterPriceMove ==
  ASSUME TypeOK, Apart, Filed,
         NEW side \in Side,
         market' \in [Side -> SUBSET Order],
         \A s \in Side : market'[s] \subseteq market[s],
         stops' \in [Side -> SUBSET Order],
         \A s \in Side : stops'[s] \subseteq stops[s],
         pending' = Append(pending, stops[side] \ stops'[side]),
         submitting' = submitting
  PROVE  /\ Apart'
         /\ \A o \in Order : InQueue(o, pending') => InBook(o) \/ InQueue(o, pending)
<1> DEFINE batch == stops[side] \ stops'[side]
           n == Len(pending)
<1>1. /\ pending \in Seq(SUBSET Order) /\ submitting \in Seq(SUBSET Order)
      /\ stops \in [Side -> SUBSET Order] /\ market \in [Side -> SUBSET Order]
  BY DEF TypeOK
<1>2. batch \in SUBSET Order
  BY <1>1
<1>3. /\ n \in Nat /\ DOMAIN pending = 1..n
      /\ DOMAIN pending' = 1..(n + 1)
      /\ \A i \in 1..n : pending'[i] = pending[i]
      /\ pending'[n + 1] = batch
  BY <1>1, <1>2
<1>4. \A o \in batch : o \in stops[side] /\ o \notin stops'[side]
  OBVIOUS
<1> HIDE DEF batch, n
<1>5. ASSUME NEW o \in Order, InQueue(o, pending')
      PROVE  InQueue(o, pending) \/ o \in batch
  BY <1>3, <1>5 DEF InQueue
<1>6. ASSUME NEW o \in Order, InBook(o)'
      PROVE  InBook(o) /\ o \notin batch
  <2>1. PICK s \in Side : o \in market'[s] \/ o \in stops'[s]
    BY <1>6 DEF InBook
  <2>2. InBook(o)
    BY <2>1 DEF InBook
  <2>3. CASE o \in market'[s]
    BY <1>4, <2>2, <2>3 DEF Apart
  <2>4. CASE o \in stops'[s] /\ s = side
    BY <1>4, <2>2, <2>4
  <2>5. CASE o \in stops'[s] /\ s # side
    BY <1>4, <2>2, <2>5 DEF Filed
  <2> QED
    BY <2>1, <2>3, <2>4, <2>5
<1>7. \A s, t \in Side : market'[s] \cap stops'[t] = {}
  BY DEF Apart
<1>8. \A o \in Order : ~(InBook(o)' /\ InQueue(o, pending'))
  BY <1>5, <1>6 DEF Apart
<1>9. \A o \in Order : ~(InBook(o)' /\ InQueue(o, submitting'))
  BY <1>6 DEF Apart
<1>10. \A o \in batch : InBook(o) /\ o \in Order
  BY <1>2, <1>4 DEF InBook
<1>11. \A o \in Order : ~(InQueue(o, pending') /\ InQueue(o, submitting'))
  BY <1>5, <1>10 DEF Apart
<1>12. ASSUME NEW i \in DOMAIN pending', NEW j \in DOMAIN pending', i # j
       PROVE  pending'[i] \cap pending'[j] = {}
  <2>1. CASE i \in 1..n /\ j \in 1..n
    BY <1>3, <1>12, <2>1 DEF Apart
  <2>2. ASSUME NEW k \in 1..n
        PROVE  pending[k] \cap batch = {}
    <3>1. \A o \in pending[k] : InQueue(o, pending) /\ o \in Order
      BY <1>1, <1>3 DEF InQueue
    <3> QED
      BY <1>10, <3>1 DEF Apart
  <2>3. CASE i = n + 1
    <3>1. j \in 1..n
      BY <1>3, <1>12, <2>3
    <3> QED
      BY <1>3, <2>2, <2>3, <3>1
  <2>4. CASE j = n + 1
    <3>1. i \in 1..n
      BY <1>3, <1>12, <2>4
    <3> QED
      BY <1>3, <2>2, <2>4, <3>1
  <2>5. \A k \in 1..(n + 1) : k \in 1..n \/ k = n + 1
    BY <1>3
  <2> QED
    BY <1>3, <2>1, <2>3, <2>4, <2>5
<1>13. \A i, j \in DOMAIN submitting' : i # j => submitting'[i] \cap submitting'[j] = {}
  BY DEF Apart
<1>14. Apart'
  BY <1>7, <1>8, <1>9, <1>11, <1>12, <1>13 DEF Apart
<1> QED
  BY <1>5, <1>10, <1>14

(* What moves into pendingOrders_ was in the book, hence was submitted.    *)
LEMMA QueueKeepsSide ==
  ASSUME TypeOK, Filed,
         \A o \in Used : o \in Used' /\ order'[o].buy = order[o].buy,
         market' \in [Side -> SUBSET Order],
         \A s \in Side : market'[s] \subseteq market[s],
         stops' \in [Side -> SUBSET Order],
         \A s \in Side : stops'[s] \subseteq stops[s],
         pending' \in Seq(SUBSET Order),
         \A o \in Order : InQueue(o, pending') => InBook(o) \/ InQueue(o, pending),
         submitting' = submitting
  PROVE  Filed'
<1>1. \A o \in Order : InBook(o) => o \in Used
  BY DEF InBook, Filed
<1>2. \A o \in Order : InQueue(o, pending) => o \in Used
  BY DEF InQueue, Filed
<1>3. \A s \in Side : \A o \in market'[s] : o \in Used' /\ order'[o].buy = s
  BY DEF Filed
<1>4. \A s \in Side : \A o \in stops'[s] : o \in Used' /\ order'[o].buy = s
  BY DEF Filed
<1>5. ASSUME NEW i \in DOMAIN pending', NEW o \in pending'[i]
      PROVE  o \in Used'
  <2>1. o \in Order
    OBVIOUS
  <2>2. InQueue(o, pending')
    BY DEF InQueue
  <2> QED
    BY <1>1, <1>2, <2>1, <2>2
<1>6. \A i \in DOMAIN submitting' : submitting'[i] \subseteq Used'
  BY DEF Filed
<1> QED
  BY <1>3, <1>4, <1>5, <1>6 DEF Filed

(* create_trade() trades no more than either order has open.               *)
LEMMA TradeQtyBound ==
  ASSUME TypeOK, NEW cur \in Order, NEW max \in Int
  PROVE  /\ TradeQty(cur, max) \in Int
         /\ TradeQty(cur, max) <= open[cur]
         /\ TradeQty(cur, max) <= open[m.taker]
<1>1. m.taker \in Order /\ open[cur] \in Nat /\ open[m.taker] \in Nat
  BY DEF TypeOK, Match, Quantity
<1> QED
  BY <1>1 DEF TradeQty, Least

(* The price of a trade is a price. *)
LEMMA CrossPriceType ==
  ASSUME TypeOK, NEW cur \in Order
  PROVE  CrossPrice(cur) \in Price
<1>1. m.taker \in Order
  BY DEF TypeOK, Match
<1>2. order[cur].price \in Price /\ order[m.taker].price \in Price /\ marketPrice \in Price
  BY <1>1 DEF TypeOK, SimpleOrder
<1> QED
  BY <1>2 DEF CrossPrice

(* What is left after a trade: the parts of the invariant that speak of    *)
(* containers hold, no quantity went below 0, no order entered the book.   *)
LEMMA TradeEffect ==
  ASSUME IInv, Matching,
         NEW cur \in Order, order[cur].buy = Opposite(m.taker),
         NEW q \in Int, q <= open[cur], q <= open[m.taker],
         NEW always \in BOOLEAN,
         MaybeTrade(cur, q, always)
  PROVE  /\ market' \in [Side -> SUBSET Order] /\ stops' \in [Side -> SUBSET Order]
         /\ open' \in [Order -> Quantity] /\ traded' \in [Order -> Quantity]
         /\ pending' \in Seq(SUBSET Order) /\ marketPrice' \in Price
         /\ callbacks' \in Seq(Callback)
         /\ Filed' /\ Apart'
         /\ \A o \in Order : open'[o] <= open[o]
         /\ \A o \in Order : InBook(o)' \/ InQueue(o, pending') => InBook(o) \/ InQueue(o, pending)
         /\ \A s \in Side : \A o \in market'[s] :
              order[o].buy = s /\ (open'[o] > 0 \/ (Nested /\ o = m.taker))
<1> USE DEF IInv
<1>1. /\ m.taker \in Order /\ m.taker # cur /\ Opposite(m.taker) \in Side
      /\ open[cur] \in Nat /\ open[m.taker] \in Nat
      /\ open \in [Order -> Nat] /\ traded \in [Order -> Nat]
      /\ market \in [Side -> SUBSET Order] /\ stops \in [Side -> SUBSET Order]
      /\ pending \in Seq(SUBSET Order) /\ callbacks \in Seq(Callback)
      /\ order \in [Order -> SimpleOrder]
  BY DEF TypeOK, Match, Quantity, Opposite, SimpleOrder, Side
<1>2. CASE q <= 0
  <2>1. UNCHANGED <<open, traded, market, marketPrice, stops, pending, callbacks, order, submitting>>
    BY <1>2 DEF MaybeTrade
  <2>2. Filed'
    BY <2>1 DEF Filed, Used
  <2>3. Apart'
    BY <2>1 DEF Apart, InBook, InQueue
  <2>4. /\ \A o \in Order : open'[o] <= open[o]
        /\ \A o \in Order : InBook(o)' \/ InQueue(o, pending') => InBook(o) \/ InQueue(o, pending)
    BY <1>1, <2>1 DEF InBook, InQueue
  <2>5. \A s \in Side : \A o \in market'[s] :
          order[o].buy = s /\ (open'[o] > 0 \/ (Nested /\ o = m.taker))
    BY <2>1 DEF Filed, RestingOrdersAreOpen
  <2>6. /\ market' \in [Side -> SUBSET Order] /\ stops' \in [Side -> SUBSET Order]
        /\ open' \in [Order -> Quantity] /\ traded' \in [Order -> Quantity]
        /\ pending' \in Seq(SUBSET Order) /\ marketPrice' \in Price
        /\ callbacks' \in Seq(Callback)
    BY <2>1 DEF TypeOK
  <2> QED
    BY <2>2, <2>3, <2>4, <2>5, <2>6
<1>3. CASE q > 0
  <2>1. /\ CreateTrade(cur, q, always)
        /\ UNCHANGED <<order, submitting>>
    BY <1>3 DEF MaybeTrade
  <2>2. /\ open' = [open EXCEPT ![m.taker] = @ - q, ![cur] = @ - q]
        /\ traded' = [traded EXCEPT ![m.taker] = @ + q, ![cur] = @ + q]
        /\ market' = IF always \/ open[cur] = q
                     THEN [market EXCEPT ![Opposite(m.taker)] = @ \ {cur}]
                     ELSE market
        /\ SetMarketPrice(CrossPrice(cur))
        /\ callbacks' = Append(callbacks, FillCb(m.taker, cur, q, CrossPrice(cur)))
    BY <2>1 DEF CreateTrade
  <2>3. /\ open' \in [Order -> Nat] /\ traded' \in [Order -> Nat]
        /\ open'[cur] = open[cur] - q /\ open'[m.taker] = open[m.taker] - q
        /\ \A o \in Order \ {cur, m.taker} : open'[o] = open[o]
    <3>1. DOMAIN open' = Order /\ DOMAIN traded' = Order
      BY <1>1, <2>2
    <3>2. /\ open'[cur] = open[cur] - q
          /\ open'[m.taker] = open[m.taker] - q
          /\ \A o \in Order \ {cur, m.taker} : open'[o] = open[o]
      BY <1>1, <2>2
    <3>3. /\ traded'[cur] = traded[cur] + q
          /\ traded'[m.taker] = traded[m.taker] + q
          /\ \A o \in Order \ {cur, m.taker} : traded'[o] = traded[o]
      BY <1>1, <2>2
    <3>4. ASSUME NEW o \in Order
          PROVE  open'[o] \in Nat /\ traded'[o] \in Nat
      <4>1. open[o] \in Nat /\ traded[o] \in Nat
        BY <1>1
      <4>2. CASE o = cur
        BY <1>1, <1>3, <3>2, <3>3, <4>1, <4>2
      <4>3. CASE o = m.taker
        BY <1>1, <1>3, <3>2, <3>3, <4>1, <4>3
      <4>4. CASE o \notin {cur, m.taker}
        BY <3>2, <3>3, <4>1, <4>4
      <4> QED
        BY <4>2, <4>3, <4>4
    <3>6. /\ open' = [o \in DOMAIN open' |-> open'[o]]
          /\ traded' = [o \in DOMAIN traded' |-> traded'[o]]
      BY <2>2
    <3> QED
      BY <3>1, <3>2, <3>4, <3>6
  <2>4. market' \in [Side -> SUBSET Order] /\ \A s \in Side : market'[s] \subseteq market[s]
    BY <1>1, <2>2
  <2>5. CrossPrice(cur) \in Price
    BY CrossPriceType
  <2>6. callbacks' \in Seq(Callback)
    <3>1. FillCb(m.taker, cur, q, CrossPrice(cur)) \in Callback
      BY <1>1, <1>3, <2>5, FillCbType DEF Quantity
    <3> QED
      BY <1>1, <2>2, <3>1
  <2>7. /\ marketPrice' \in Price
        /\ stops' \in [Side -> SUBSET Order]
        /\ pending' \in Seq(SUBSET Order)
        /\ \A s \in Side : stops'[s] \subseteq stops[s]
        /\ \/ pending' = pending
           \/ \E side \in Side : pending' = Append(pending, stops[side] \ stops'[side])
    BY <2>2, <2>5, MarketPriceEffect
  <2>8. Apart' /\ \A o \in Order : InQueue(o, pending') => InBook(o) \/ InQueue(o, pending)
    <3>1. CASE pending' = pending
      <4>1. \A s \in Side : market'[s] \subseteq market[s] /\ stops'[s] \subseteq stops[s]
        BY <2>4, <2>7
      <4>2. \A o \in Order : InBook(o)' => InBook(o)
        BY <4>1 DEF InBook
      <4>3. \A s, t \in Side : market'[s] \cap stops'[t] = {}
        BY <4>1 DEF Apart
      <4>4. submitting' = submitting
        BY <2>1
      <4>5. /\ \A o \in Order : InQueue(o, pending') <=> InQueue(o, pending)
            /\ \A o \in Order : InQueue(o, submitting') <=> InQueue(o, submitting)
        BY <3>1, <4>4
      <4>6. Apart'
        BY <3>1, <4>2, <4>3, <4>4, <4>5 DEF Apart
      <4> QED
        BY <4>5, <4>6
    <3>2. ASSUME NEW side \in Side, pending' = Append(pending, stops[side] \ stops'[side])
          PROVE  Apart' /\ \A o \in Order : InQueue(o, pending') => InBook(o) \/ InQueue(o, pending)
      BY <2>1, <2>4, <2>7, <3>2, ApartAfterPriceMove
    <3> QED
      BY <2>7, <3>1, <3>2
  <2>9. Filed'
    <3>1. \A o \in Used : o \in Used' /\ order'[o].buy = order[o].buy
      BY <2>1 DEF Used
    <3> QED
      BY <2>1, <2>4, <2>7, <2>8, <3>1, QueueKeepsSide
  <2>10. \A o \in Order : InBook(o)' => InBook(o)
    BY <2>4, <2>7 DEF InBook
  <2>11. ASSUME NEW s \in Side, NEW o \in market'[s]
         PROVE  order[o].buy = s /\ (open'[o] > 0 \/ (Nested /\ o = m.taker))
    <3>1. /\ o \in market[s] /\ o \in Order /\ order[o].buy = s
          /\ open[o] > 0 \/ (Nested /\ o = m.taker)
      BY <1>1, <2>4 DEF RestingOrdersAreOpen
    <3>2. CASE o = cur
      <4>1. s = Opposite(m.taker)
        BY <3>1, <3>2
      <4>2. open[cur] # q
        BY <1>1, <2>2, <3>2, <4>1
      <4> QED
        BY <1>1, <2>3, <3>1, <3>2, <4>2
    <3>3. CASE o = m.taker
      <4>1. Nested
        BY <3>1, <3>3 DEF Inbound, InBook
      <4> QED
        BY <3>1, <3>3, <4>1
    <3> QED
      BY <2>3, <3>1, <3>2, <3>3
  <2>12. ASSUME NEW o \in Order
         PROVE  open'[o] <= open[o]
    <3>1. open[o] \in Nat
      BY <1>1
    <3>2. CASE o \in {cur, m.taker}
      BY <1>1, <1>3, <2>3, <3>2
    <3>3. CASE o \notin {cur, m.taker}
      BY <2>3, <3>1, <3>3
    <3> QED
      BY <3>2, <3>3
  <2> QED
    BY <2>3, <2>4, <2>6, <2>7, <2>8, <2>9, <2>10, <2>11, <2>12 DEF Quantity
<1> QED
  BY <1>2, <1>3

-----------------------------------------------------------------------------
(* match_order() *)

(* The next order to look at is one of the other side. *)
LEMMA CandidateFacts ==
  ASSUME IInv, NEW e \in m.todo, Candidate(e)
  PROVE  /\ pc = "match" /\ Matching
         /\ m \in Match /\ m.taker \in Used
         /\ e \in Order /\ e \in Used /\ order[e].buy = Opposite(m.taker)
         /\ open[e] \in Nat /\ m.left \in Int /\ m.dqty \in Nat
         /\ m.todo \in SUBSET Order /\ m.deferred \in SUBSET Order
BY DEF IInv, TypeOK, Match, Candidate, Matching, Facing, Quantity

(* Deferring an all-or-none order changes no container. *)
LEMMA DeferAonStep ==
  ASSUME IInv, NEW e \in m.todo, DeferAon(e)
  PROVE  IInv'
<1>1. /\ pc' = pc /\ call' = call
      /\ aons' = IF Nested THEN aons ELSE aons \cup {e}
      /\ m' = [m EXCEPT !.todo = @ \ {e}]
      /\ UNCHANGED <<order, containers, trackers, triggered, marketPrice, queues, plan, calls>>
  BY DEF DeferAon
<1>2. /\ pc = "match" /\ Matching
      /\ m \in Match /\ m.taker \in Used
      /\ e \in Order /\ e \in Used /\ order[e].buy = Opposite(m.taker)
      /\ m.todo \in SUBSET Order
  BY CandidateFacts DEF DeferAon
<1>3. /\ m' \in Match
      /\ m'.taker = m.taker /\ m'.todo \subseteq m.todo /\ m'.deferred = m.deferred
  BY <1>1, <1>2 DEF Match
<1>4. TypeOK'
  BY <1>1, <1>2, <1>3 DEF IInv, TypeOK, containers, trackers, triggered, queues
<1>5. Filed' /\ Apart' /\ Delivering' /\ Answering'
  BY <1>1, <1>2 DEF IInv, Filed, Apart, Delivering, Answering, InBook, InQueue, Used,
                    InAddOrder, Matching, containers, trackers, triggered, queues
<1>6. Facing'
  <2>1. \A a \in aons' : a \in Used /\ order[a].buy = Opposite(call.order)
    BY <1>1, <1>2 DEF IInv, Facing, Nested, Opposite, InAddOrder
  <2> QED
    BY <1>1, <1>2, <1>3, <2>1 DEF IInv, Facing, Matching, InAddOrder, Opposite, Used
<1>7. Inbound' /\ RestingOrdersAreOpen'
  BY <1>1, <1>2, <1>3 DEF IInv, Inbound, RestingOrdersAreOpen, Matching, Nested, InBook, InQueue,
                          containers, trackers, triggered
<1> QED
  BY <1>4, <1>5, <1>6, <1>7 DEF IInv

(* A step of match_order() that makes a trade of q, or none if q is 0.     *)
LEMMA MatchStepKeepsIInv ==
  ASSUME IInv, Matching,
         NEW cur \in Order, order[cur].buy = Opposite(m.taker),
         NEW q \in Int, q <= open[cur], q <= open[m.taker],
         NEW always \in BOOLEAN,
         MaybeTrade(cur, q, always),
         call' = call, aons' = aons,
         m' \in Match, m'.taker = m.taker, m'.todo \subseteq m.todo,
         m'.deferred \subseteq m.deferred \cup m.todo,
         plan' \in Plan,
         pc' \in {"match", "propose", "settle", "close", "undefined"},
         pc' \in {"propose", "settle", "close"} =>
           /\ order[plan'.goal].buy = Opposite(m.taker)
           /\ plan'.todo \subseteq m'.deferred
  PROVE  IInv'
<1>1. /\ market' \in [Side -> SUBSET Order] /\ stops' \in [Side -> SUBSET Order]
      /\ open' \in [Order -> Quantity] /\ traded' \in [Order -> Quantity]
      /\ pending' \in Seq(SUBSET Order) /\ marketPrice' \in Price
      /\ callbacks' \in Seq(Callback)
      /\ Filed' /\ Apart'
      /\ \A o \in Order : open'[o] <= open[o]
      /\ \A o \in Order : InBook(o)' \/ InQueue(o, pending') => InBook(o) \/ InQueue(o, pending)
      /\ \A s \in Side : \A o \in market'[s] :
           order[o].buy = s /\ (open'[o] > 0 \/ (Nested /\ o = m.taker))
  BY TradeEffect
<1>2. UNCHANGED <<order, key, rank, clock, submitting, working, handling, calls>>
  BY DEF MaybeTrade
<1>3. Matching' /\ InAddOrder' /\ InAddOrder /\ (Nested' <=> Nested)
  BY DEF Matching, InAddOrder, Nested
<1>4. TypeOK'
  BY <1>1, <1>2, <1>3 DEF IInv, TypeOK, Matching, Controls
<1>5. Delivering'
  BY <1>2 DEF IInv, Delivering
<1>6. Facing'
  BY <1>2, <1>3 DEF IInv, Facing, Used, Opposite
<1>7. Answering'
  <2>1. call.order \in Order /\ call.unfilled \in Nat
    BY DEF IInv, TypeOK, Call
  <2>2. open[call.order] \in Int /\ open'[call.order] \in Int /\ order[call.order].qty \in Int
    <3>1. open \in [Order -> Quantity] /\ order \in [Order -> SimpleOrder]
      BY DEF IInv, TypeOK
    <3>2. open[call.order] \in Int /\ open'[call.order] \in Int
      BY <1>1, <2>1, <3>1 DEF Quantity
    <3>3. order[call.order].qty \in Int
      <4>1. order[call.order] \in SimpleOrder
        BY <2>1, <3>1
      <4> QED
        BY <4>1 DEF SimpleOrder, Quantity
    <3> QED
      BY <3>2, <3>3
  <2>3. call' = call /\ order' = order /\ (InAddOrder' <=> InAddOrder)
    <3>1. UNCHANGED <<call, order>>
      BY <1>2 DEF MaybeTrade
    <3> QED
      BY <1>3, <3>1
  <2>4. open'[call.order] <= open[call.order]
    BY <1>1, <2>1
  <2>5. InAddOrder /\ call.kind = "add" =>
          open'[call.order] <= order[call.order].qty /\ call.unfilled <= order[call.order].qty
    <3>1. InAddOrder /\ call.kind = "add" =>
            open[call.order] <= order[call.order].qty /\ call.unfilled <= order[call.order].qty
      BY DEF IInv, Answering
    <3>2. \A a, b, c \in Int : a <= b /\ b <= c => a <= c
      OBVIOUS
    <3> QED
      BY <2>2, <2>4, <3>1, <3>2
  <2> QED
    BY <2>3, <2>5 DEF Answering
<1>8. Inbound'
  <2>1. m.taker \in Order
    BY DEF IInv, TypeOK, Match
  <2>2. ~Nested => ~InBook(m.taker)' /\ ~InQueue(m.taker, pending')
    BY <1>1, <2>1 DEF IInv, Inbound
  <2>3. ~Nested => ~InQueue(m.taker, submitting')
    BY <1>2 DEF IInv, Inbound
  <2> QED
    BY <1>3, <2>2, <2>3 DEF Inbound, InBook, InQueue
<1>9. RestingOrdersAreOpen'
  BY <1>1, <1>2, <1>3 DEF RestingOrdersAreOpen
<1> QED
  BY <1>1, <1>4, <1>5, <1>6, <1>7, <1>8, <1>9 DEF IInv

(* A step of match_order() that makes no trade.                            *)
LEMMA QuietStepKeepsIInv ==
  ASSUME IInv, Matching,
         UNCHANGED <<order, containers, trackers, triggered, marketPrice, queues, calls>>,
         NEW cur \in Order, order[cur].buy = Opposite(m.taker),
         call' = call, aons' = aons,
         m' \in Match, m'.taker = m.taker, m'.todo \subseteq m.todo,
         m'.deferred \subseteq m.deferred \cup m.todo,
         plan' \in Plan,
         pc' \in {"match", "propose", "settle", "close", "undefined"},
         pc' \in {"propose", "settle", "close"} =>
           /\ order[plan'.goal].buy = Opposite(m.taker)
           /\ plan'.todo \subseteq m'.deferred
  PROVE  IInv'
<1>1. PICK q \in Int : q = 0
  OBVIOUS
<1>2. PICK always \in BOOLEAN : TRUE
  OBVIOUS
<1>3. m.taker \in Order
  BY DEF IInv, TypeOK, Match
<1>4. q <= open[cur] /\ q <= open[m.taker]
  BY <1>1, <1>3 DEF IInv, TypeOK, Quantity
<1>5. MaybeTrade(cur, q, always)
  BY <1>1 DEF MaybeTrade, containers, trackers, triggered, queues
<1> QED
  BY <1>4, <1>5, MatchStepKeepsIInv

(* match_regular_order() trades with the candidate and goes on. *)
LEMMA MatchRegularStep ==
  ASSUME IInv, NEW e \in m.todo, MatchRegular(e)
  PROVE  IInv'
<1> DEFINE q == TradeQty(e, open[e])
           m1 == [m EXCEPT !.left = @ - q]
<1>1. /\ Candidate(e)
      /\ MaybeTrade(e, q, AllOrNone(e))
      /\ pc' = pc /\ call' = call /\ aons' = aons /\ plan' = plan
  BY DEF MatchRegular
<1>2. m' = [m1 EXCEPT !.todo = @ \ {e}]
  BY DEF MatchRegular
<1>3. /\ pc = "match" /\ Matching
      /\ m \in Match
      /\ e \in Order /\ order[e].buy = Opposite(m.taker)
      /\ open[e] \in Nat /\ m.left \in Int
      /\ m.todo \in SUBSET Order
  BY <1>1, CandidateFacts
<1>4. q \in Int /\ q <= open[e] /\ q <= open[m.taker]
  BY <1>3, TradeQtyBound DEF IInv
<1> HIDE DEF q
<1>5. /\ m1 \in Match /\ m1.taker = m.taker /\ m1.todo = m.todo
      /\ m1.deferred = m.deferred
  BY <1>3, <1>4 DEF Match
<1> HIDE DEF m1
<1>6. /\ m' \in Match /\ m'.taker = m.taker /\ m'.todo \subseteq m.todo
      /\ m'.deferred = m.deferred
  BY <1>2, <1>5 DEF Match
<1>7. AllOrNone(e) \in BOOLEAN
  BY <1>3 DEF AllOrNone, ConstantsAssumption, IInv, TypeOK, SimpleOrder
<1>8. plan' \in Plan
  BY <1>1 DEF IInv, TypeOK
<1> QED
  BY <1>1, <1>3, <1>4, <1>6, <1>7, <1>8, MatchStepKeepsIInv

(* Nor does deferring an order that an all-or-none taker may need later.  *)
LEMMA DeferMatchStep ==
  ASSUME IInv, NEW e \in m.todo, DeferMatch(e)
  PROVE  IInv'
<1> DEFINE m1 == [m EXCEPT !.dqty = @ + open[e]]
           m2 == [m1 EXCEPT !.deferred = @ \cup {e}]
<1>1. /\ Candidate(e)
      /\ pc' = pc /\ call' = call /\ aons' = aons /\ plan' = plan
      /\ UNCHANGED <<order, containers, trackers, triggered, marketPrice, queues, calls>>
  BY DEF DeferMatch
<1>2. m' = [m2 EXCEPT !.todo = @ \ {e}]
  BY DEF DeferMatch
<1>3. /\ pc = "match" /\ Matching
      /\ m \in Match
      /\ e \in Order /\ order[e].buy = Opposite(m.taker)
      /\ open[e] \in Nat /\ m.dqty \in Nat
      /\ m.todo \in SUBSET Order /\ m.deferred \in SUBSET Order
  BY <1>1, CandidateFacts
<1>4. /\ m1 \in Match /\ m1.taker = m.taker /\ m1.todo = m.todo
      /\ m1.deferred = m.deferred
  BY <1>3 DEF Match
<1> HIDE DEF m1
<1>5. /\ m2 \in Match /\ m2.taker = m.taker /\ m2.todo = m.todo
      /\ m2.deferred = m.deferred \cup {e}
  BY <1>3, <1>4 DEF Match
<1> HIDE DEF m2
<1>6. /\ m' \in Match /\ m'.taker = m.taker /\ m'.todo \subseteq m.todo
      /\ m'.deferred \subseteq m.deferred \cup m.todo
  BY <1>2, <1>5 DEF Match
<1>7. plan' \in Plan
  BY <1>1 DEF IInv, TypeOK
<1> QED
  BY <1>1, <1>3, <1>6, <1>7, QuietStepKeepsIInv

(* Nor does starting to look at the deferred orders. *)
LEMMA TryDeferredStep ==
  ASSUME IInv, NEW e \in m.todo, TryDeferred(e)
  PROVE  IInv'
<1> DEFINE p1 == [NoPlan EXCEPT !.goal = e]
           p2 == [p1 EXCEPT !.max = MostFromDeferred(e)]
           p3 == [p2 EXCEPT !.min = LeastFromDeferred(e)]
<1>1. /\ Candidate(e)
      /\ m' = [m EXCEPT !.todo = @ \ {e}]
      /\ pc' = "propose" /\ call' = call /\ aons' = aons
      /\ UNCHANGED <<order, containers, trackers, triggered, marketPrice, queues, calls>>
  BY DEF TryDeferred
<1>2. plan' = [p3 EXCEPT !.todo = m.deferred]
  BY DEF TryDeferred
<1>3. /\ pc = "match" /\ Matching
      /\ m \in Match
      /\ e \in Order /\ order[e].buy = Opposite(m.taker)
      /\ open[e] \in Nat /\ m.left \in Int
      /\ m.todo \in SUBSET Order /\ m.deferred \in SUBSET Order
  BY <1>1, CandidateFacts
<1>4. /\ m' \in Match /\ m'.taker = m.taker /\ m'.todo \subseteq m.todo
      /\ m'.deferred = m.deferred
  BY <1>1, <1>3 DEF Match
<1>5. MostFromDeferred(e) \in Int /\ LeastFromDeferred(e) \in Int
  BY <1>3 DEF MostFromDeferred, LeastFromDeferred
<1>6. NoPlan \in Plan
  BY DEF NoPlan, Plan, Order, ConstantsAssumption
<1>7. p1 \in Plan /\ p1.goal = e
  BY <1>3, <1>6 DEF Plan
<1> HIDE DEF p1
<1>8. p2 \in Plan /\ p2.goal = e
  BY <1>5, <1>7 DEF Plan
<1> HIDE DEF p2
<1>9. p3 \in Plan /\ p3.goal = e
  BY <1>5, <1>8 DEF Plan
<1> HIDE DEF p3
<1>10. plan' \in Plan /\ plan'.goal = e /\ plan'.todo = m.deferred
  BY <1>2, <1>3, <1>9 DEF Plan
<1> QED
  BY <1>1, <1>3, <1>4, <1>10, QuietStepKeepsIInv

(* Proposing a deferred order changes only the proposal. *)
LEMMA ProposeStep ==
  ASSUME IInv, NEW d \in plan.todo, Propose(d)
  PROVE  IInv'
<1> DEFINE p1 == [plan EXCEPT !.found = @ + Proposal(d)]
           p2 == [p1 EXCEPT !.fills[d] = Proposal(d)]
<1>1. /\ pc = "propose" /\ pc' \in {"propose", "undefined"}
      /\ call' = call /\ aons' = aons /\ m' = m
      /\ UNCHANGED <<order, containers, trackers, triggered, marketPrice, queues, calls>>
  BY DEF Propose
<1>2. plan' = [p2 EXCEPT !.todo = @ \ {d}]
  BY DEF Propose
<1>3. /\ Matching /\ plan \in Plan /\ m \in Match /\ d \in Order /\ d \in m.deferred
      /\ order[plan.goal].buy = Opposite(m.taker) /\ plan.todo \subseteq m.deferred
      /\ plan.goal \in Order /\ open[d] \in Nat /\ plan.found \in Int /\ plan.max \in Int
  BY <1>1 DEF IInv, TypeOK, Facing, Matching, Plan, Quantity
<1>4. Proposal(d) \in Int
  BY <1>3 DEF Proposal
<1>5. p1 \in Plan /\ p1.goal = plan.goal /\ p1.todo = plan.todo
  BY <1>3, <1>4 DEF Plan
<1> HIDE DEF p1
<1>6. p2 \in Plan /\ p2.goal = plan.goal /\ p2.todo = plan.todo
  BY <1>3, <1>4, <1>5 DEF Plan
<1> HIDE DEF p2
<1>7. plan' \in Plan /\ plan'.goal = plan.goal /\ plan'.todo \subseteq plan.todo
  BY <1>2, <1>6 DEF Plan
<1> QED
  BY <1>1, <1>3, <1>7, QuietStepKeepsIInv

(* Neither does looking at the proposal. *)
LEMMA ProposalEndsStep ==
  ASSUME IInv, ProposalEnds
  PROVE  IInv'
<1>1. /\ pc = "propose" /\ pc' \in {"settle", "close"}
      /\ call' = call /\ aons' = aons /\ m' = m
      /\ plan' = [plan EXCEPT !.todo = m.deferred]
      /\ UNCHANGED <<order, containers, trackers, triggered, marketPrice, queues, calls>>
  BY DEF ProposalEnds
<1>2. /\ Matching /\ plan \in Plan /\ m \in Match
      /\ order[plan.goal].buy = Opposite(m.taker)
      /\ plan.goal \in Order /\ m.deferred \in SUBSET Order
  BY <1>1 DEF IInv, TypeOK, Facing, Matching, Plan, Match
<1>3. plan' \in Plan /\ plan'.goal = plan.goal /\ plan'.todo = m.deferred
  BY <1>1, <1>2 DEF Plan
<1> QED
  BY <1>1, <1>2, <1>3, QuietStepKeepsIInv

(* A trade with a deferred order. *)
LEMMA SettleStep ==
  ASSUME IInv, NEW d \in plan.todo, Settle(d)
  PROVE  IInv'
<1> DEFINE q == TradeQty(d, plan.fills[d])
           p1 == [plan EXCEPT !.got = @ + q]
<1>1. /\ pc = "settle" /\ pc' \in {"settle", "undefined"}
      /\ call' = call /\ aons' = aons /\ m' = m
      /\ MaybeTrade(d, IF Dangling(d) THEN 0 ELSE q, FALSE)
  BY DEF Settle
<1>2. plan' = [p1 EXCEPT !.todo = @ \ {d}]
  BY DEF Settle
<1>3. /\ Matching /\ plan \in Plan /\ m \in Match /\ d \in Order /\ d \in m.deferred
      /\ order[plan.goal].buy = Opposite(m.taker) /\ plan.todo \subseteq m.deferred
      /\ order[d].buy = Opposite(m.taker)
      /\ plan.fills[d] \in Int /\ m.taker \in Order
  BY <1>1 DEF IInv, TypeOK, Facing, Matching, Plan, Match
<1>4. q \in Int /\ q <= open[d] /\ q <= open[m.taker]
  BY <1>3, TradeQtyBound DEF IInv
<1> HIDE DEF q
<1>5. p1 \in Plan /\ p1.goal = plan.goal /\ p1.todo = plan.todo
  BY <1>3, <1>4 DEF Plan
<1> HIDE DEF p1
<1>6. plan' \in Plan /\ plan'.goal = plan.goal /\ plan'.todo \subseteq plan.todo
  BY <1>2, <1>5 DEF Plan
<1>7. PICK done \in Int : done = IF Dangling(d) THEN 0 ELSE q
  BY <1>4
<1>8. done <= open[d] /\ done <= open[m.taker]
  BY <1>3, <1>4, <1>7 DEF IInv, TypeOK, Quantity
<1>9. PICK always \in BOOLEAN : always = FALSE
  OBVIOUS
<1>10. MaybeTrade(d, done, always)
  BY <1>1, <1>7, <1>9
<1> QED
  BY <1>1, <1>3, <1>6, <1>8, <1>10, MatchStepKeepsIInv

(* The deferred orders have given what was proposed. *)
LEMMA SettleEndsStep ==
  ASSUME IInv, SettleEnds
  PROVE  IInv'
<1>1. /\ pc = "settle" /\ pc' = "close"
      /\ call' = call /\ aons' = aons /\ m' = m /\ plan' = plan
      /\ UNCHANGED <<order, containers, trackers, triggered, marketPrice, queues, calls>>
  BY DEF SettleEnds
<1>2. /\ Matching /\ plan \in Plan /\ m \in Match /\ plan.goal \in Order
      /\ order[plan.goal].buy = Opposite(m.taker) /\ plan.todo \subseteq m.deferred
  BY <1>1 DEF IInv, TypeOK, Facing, Matching, Plan
<1> QED
  BY <1>1, <1>2, QuietStepKeepsIInv

(* The trade with the order that the deferred orders were tried for. *)
LEMMA CloseStep ==
  ASSUME IInv, Close(plan.goal)
  PROVE  IInv'
<1> DEFINE e == plan.goal
           q == IF GoalReached(e) THEN TradeQty(e, open[e]) ELSE 0
<1>1. /\ pc = "close" /\ pc' = "match"
      /\ call' = call /\ aons' = aons /\ plan' = NoPlan
      /\ MaybeTrade(e, q, AllOrNone(e))
  BY DEF Close
<1>2. m' = IF GoalReached(e) THEN [m EXCEPT !.left = @ - plan.got - q] ELSE m
  BY DEF Close
<1>3. /\ Matching /\ plan \in Plan /\ m \in Match /\ e \in Order
      /\ order[e].buy = Opposite(m.taker)
      /\ open[e] \in Nat /\ m.taker \in Order /\ open[m.taker] \in Nat
      /\ m.left \in Int /\ plan.got \in Int
  BY <1>1 DEF IInv, TypeOK, Facing, Matching, Plan, Match, Quantity
<1>4. q \in Int /\ q <= open[e] /\ q <= open[m.taker]
  BY <1>3, TradeQtyBound DEF IInv
<1>5. AllOrNone(e) \in BOOLEAN
  BY <1>3 DEF AllOrNone, ConstantsAssumption, IInv, TypeOK, SimpleOrder
<1> HIDE DEF q, e
<1>6. m' \in Match /\ m'.taker = m.taker /\ m'.todo = m.todo /\ m'.deferred = m.deferred
  <2>1. CASE GoalReached(e)
    BY <1>2, <1>3, <1>4, <2>1 DEF Match
  <2>2. CASE ~GoalReached(e)
    BY <1>2, <1>3, <2>2
  <2> QED
    BY <2>1, <2>2
<1>7. NoPlan \in Plan
  BY DEF NoPlan, Plan, Order, ConstantsAssumption
<1> QED
  BY <1>1, <1>3, <1>4, <1>5, <1>6, <1>7, MatchStepKeepsIInv

-----------------------------------------------------------------------------
(* add_order() *)

(* Outside of a match every resting order is open; the orders of the       *)
(* containers have been submitted.                                         *)
LEMMA ContainerFacts ==
  ASSUME IInv
  PROVE  /\ \A o \in Order : InBook(o) => o \in Used
         /\ \A o \in Order : InQueue(o, pending) => o \in Used
         /\ \A o \in Order : InQueue(o, submitting) => o \in Used
         /\ order \in [Order -> SimpleOrder]
         /\ \A o \in Order : order[o].buy \in Side
         /\ open \in [Order -> Nat]
         /\ market \in [Side -> SUBSET Order] /\ stops \in [Side -> SUBSET Order]
         /\ ~Matching => \A s \in Side : \A o \in market[s] : open[o] > 0
BY DEF IInv, TypeOK, Filed, RestingOrdersAreOpen, InBook, InQueue, Quantity, SimpleOrder

(* The local variables that a finished call leaves behind. *)
LEMMA ResetType ==
  ASSUME Reset
  PROVE  call' \in Call /\ m' \in Match /\ aons' = {} /\ plan' \in Plan
BY DEF Reset, NoCall, NoMatch, NoPlan, Call, Match, Plan, Order, Price, ConstantsAssumption

(* The inbound order may go into the book: it is in no other place.        *)
LEMMA RestStep ==
  ASSUME IInv, Rest
  PROVE  IInv'
<1> DEFINE o == m.taker
           s == ~Opposite(m.taker)
<1>1. /\ pc = "match" /\ Matching /\ ~Nested /\ pc' = "deferred"
      /\ call' = [call EXCEPT !.unfilled = open[o]]
      /\ UNCHANGED <<order, stops, trackers, triggered, marketPrice, queues, m, plan, calls>>
      /\ \/ /\ Rests(o)
            /\ market' = [market EXCEPT ![s] = @ \cup {o}]
            /\ File(o, m.price)
            /\ aons' = aons
         \/ aons' = {} /\ UNCHANGED <<market, key, rank, clock>>
  BY DEF Rest, MatchEnds, Matching
<1>2. /\ o \in Order /\ o \in Used /\ order[o].buy = s /\ s \in Side /\ m.price \in Price
      /\ open[o] \in Nat /\ call \in Call /\ call.order = o /\ m \in Match
  BY <1>1, ContainerFacts DEF IInv, TypeOK, Facing, Match, Nested, Opposite, Side, Used
<1> HIDE DEF o, s
<1>3. /\ call' \in Call /\ call'.order = call.order /\ call'.kind = call.kind
      /\ call'.unfilled = open[o]
  BY <1>1, <1>2 DEF Call
<1>4. /\ market' \in [Side -> SUBSET Order]
      /\ \A t \in Side : \A p \in market'[t] : p \in market[t] \/ (p = o /\ t = s /\ open[o] > 0)
      /\ key' \in [Order -> Price] /\ rank' \in [Order -> Nat] /\ clock' \in Nat
      /\ aons' \subseteq aons
  <2>1. /\ market \in [Side -> SUBSET Order] /\ key \in [Order -> Price]
        /\ rank \in [Order -> Nat] /\ clock \in Nat
    BY DEF IInv, TypeOK
  <2>2. CASE /\ Rests(o) /\ market' = [market EXCEPT ![s] = @ \cup {o}]
             /\ File(o, m.price) /\ aons' = aons
    BY <1>2, <2>1, <2>2 DEF File, Rests
  <2>3. CASE aons' = {} /\ UNCHANGED <<market, key, rank, clock>>
    BY <2>1, <2>3
  <2> QED
    BY <1>1, <2>2, <2>3
<1>5. TypeOK'
  BY <1>1, <1>3, <1>4 DEF IInv, TypeOK, trackers, triggered, queues, Controls
<1>6. Delivering' /\ Inbound'
  BY <1>1 DEF IInv, Delivering, Inbound, Matching, queues
<1>7. Filed'
  BY <1>1, <1>2, <1>4 DEF IInv, Filed, Used, triggered
<1>8. Facing'
  BY <1>1, <1>3, <1>4 DEF IInv, Facing, Matching, InAddOrder, Used, Opposite
<1>9. Answering'
  BY <1>1, <1>2, <1>3 DEF IInv, Answering, InAddOrder, trackers
<1>10. RestingOrdersAreOpen'
  <2>1. ASSUME NEW t \in Side, NEW p \in market[t]
        PROVE  order[p].buy = t /\ open[p] > 0
    BY <1>1 DEF IInv, RestingOrdersAreOpen
  <2> QED
    BY <1>1, <1>2, <1>4, <2>1 DEF RestingOrdersAreOpen, trackers
<1>11. Apart'
  <2>1. ~InBook(o) /\ ~InQueue(o, pending) /\ ~InQueue(o, submitting)
    BY <1>1 DEF IInv, Inbound, o
  <2>2. \A p \in Order : InBook(p)' => InBook(p) \/ p = o
    BY <1>1, <1>4 DEF InBook
  <2>3. pending' = pending /\ submitting' = submitting /\ stops' = stops
    BY <1>1 DEF triggered
  <2>4. \A t, u \in Side : market'[t] \cap stops'[u] = {}
    BY <1>4, <2>1, <2>3 DEF IInv, Apart, InBook
  <2>5. /\ \A p \in Order : ~(InBook(p)' /\ InQueue(p, pending'))
        /\ \A p \in Order : ~(InBook(p)' /\ InQueue(p, submitting'))
    BY <2>1, <2>2, <2>3 DEF IInv, Apart
  <2> QED
    BY <2>3, <2>4, <2>5 DEF IInv, Apart
<1> QED
  BY <1>5, <1>6, <1>7, <1>8, <1>9, <1>10, <1>11 DEF IInv

(* A deferred all-or-none order is matched where it rests. *)
LEMMA CheckDeferredStep ==
  ASSUME IInv, NEW a \in aons, CheckDeferred(a)
  PROVE  IInv'
<1>1. /\ pc = "deferred" /\ InAddOrder /\ ~Matching
      /\ pc' = "match" /\ aons' = aons \ {a} /\ call' = call /\ plan' = plan
      /\ m' = [taker |-> a, price |-> key[a], left |-> open[a], todo |-> market[Opposite(a)],
               dqty |-> 0, deferred |-> {}]
      /\ UNCHANGED <<order, containers, trackers, triggered, marketPrice, queues, calls>>
  BY DEF CheckDeferred, StartMatch, InAddOrder, Matching
<1>2. /\ a \in Order /\ a \in Used /\ order[a].buy = Opposite(call.order)
      /\ call \in Call /\ call.order \in Order
      /\ key[a] \in Price /\ open[a] \in Nat /\ aons \in SUBSET Order
      /\ Opposite(a) \in Side /\ market[Opposite(a)] \in SUBSET Order
  BY <1>1 DEF IInv, TypeOK, Facing, Call, Quantity, Opposite, Side
<1>3. a # call.order
  BY <1>2, ContainerFacts DEF Opposite, Side
<1>4. /\ m' \in Match /\ m'.taker = a /\ m'.todo = market[Opposite(a)] /\ m'.deferred = {}
  BY <1>1, <1>2 DEF Match, Price
<1>5. TypeOK'
  BY <1>1, <1>2, <1>4 DEF IInv, TypeOK, containers, trackers, triggered, queues, Controls
<1>6. Delivering' /\ Filed' /\ Apart' /\ Answering'
  BY <1>1 DEF IInv, Delivering, Filed, Apart, Answering, InBook, InQueue, Used, InAddOrder,
              Matching, containers, trackers, triggered, queues
<1>7. Facing'
  BY <1>1, <1>2, <1>4 DEF IInv, Facing, Filed, Used, Opposite, Matching, InAddOrder
<1>8. Inbound'
  BY <1>1, <1>3, <1>4 DEF Inbound, Nested
<1>9. RestingOrdersAreOpen'
  BY <1>1 DEF IInv, RestingOrdersAreOpen, containers, trackers
<1> QED
  BY <1>5, <1>6, <1>7, <1>8, <1>9 DEF IInv

(* It leaves the book if it was filled. *)
LEMMA NestedEndsStep ==
  ASSUME IInv, NestedEnds
  PROVE  IInv'
<1> DEFINE s == ~Opposite(m.taker)
<1>1. /\ pc = "match" /\ Matching /\ Nested /\ pc' = "deferred"
      /\ market' = IF open[m.taker] = 0 THEN [market EXCEPT ![s] = @ \ {m.taker}] ELSE market
      /\ UNCHANGED <<order, stops, key, rank, clock, trackers, triggered, marketPrice, queues,
                     call, m, aons, plan, calls>>
  BY DEF NestedEnds, MatchEnds, Matching
<1>2. /\ m.taker \in Order /\ order[m.taker].buy = s /\ s \in Side
      /\ market \in [Side -> SUBSET Order] /\ open[m.taker] \in Nat
  BY ContainerFacts DEF IInv, TypeOK, Match, Opposite, Side
<1> HIDE DEF s
<1>3. /\ market' \in [Side -> SUBSET Order]
      /\ \A t \in Side : market'[t] \subseteq market[t]
      /\ open[m.taker] = 0 => m.taker \notin market'[s]
  BY <1>1, <1>2
<1>4. TypeOK'
  BY <1>1, <1>3 DEF IInv, TypeOK, trackers, triggered, queues, Controls
<1>5. Delivering' /\ Facing' /\ Answering' /\ Inbound'
  BY <1>1 DEF IInv, Delivering, Facing, Answering, Inbound, InAddOrder, Matching, Used, Opposite,
              queues, trackers
<1>6. Filed'
  BY <1>1, <1>3 DEF IInv, Filed, Used, triggered
<1>7. Apart'
  BY <1>1, <1>3 DEF IInv, Apart, InBook, InQueue, triggered
<1>8. RestingOrdersAreOpen'
  <2>1. ASSUME NEW t \in Side, NEW p \in market'[t]
        PROVE  order[p].buy = t /\ open[p] > 0
    <3>1. p \in market[t] /\ order[p].buy = t /\ (open[p] > 0 \/ p = m.taker)
      BY <1>3 DEF IInv, RestingOrdersAreOpen
    <3>2. CASE p = m.taker
      BY <1>2, <1>3, <3>1, <3>2
    <3> QED
      BY <3>1, <3>2
  <2> QED
    BY <1>1, <2>1 DEF RestingOrdersAreOpen, trackers
<1> QED
  BY <1>4, <1>5, <1>6, <1>7, <1>8 DEF IInv

-----------------------------------------------------------------------------
(* Steps that leave no order being matched *)

(* Outside of add_order() nothing needs the local variables: a step that   *)
(* files no order and changes the quantity of no resting one is harmless.  *)
LEMMA OutsideStepKeepsIInv ==
  ASSUME IInv, ~Matching, pc' \in {"idle", "pending", "deliver"},
         order' \in [Order -> SimpleOrder],
         \A o \in Used : o \in Used' /\ order'[o].buy = order[o].buy,
         market' \in [Side -> SUBSET Order],
         \A s \in Side : market'[s] \subseteq market[s],
         UNCHANGED <<stops, key, rank, clock, pending, submitting, marketPrice>>,
         open' \in [Order -> Quantity], traded' \in [Order -> Quantity],
         \A s \in Side : \A o \in market'[s] : open'[o] = open[o],
         callbacks' \in Seq(Callback), working' \in Seq(Callback), handling' \in BOOLEAN,
         Delivering',
         call' \in Call, m' \in Match, aons' = {}, plan' \in Plan, calls' \in Nat
  PROVE  IInv'
<1>1. ~Matching' /\ ~InAddOrder'
  BY DEF Matching, InAddOrder
<1>2. TypeOK'
  BY DEF IInv, TypeOK, Controls
<1>3. Facing' /\ Answering' /\ Inbound'
  BY <1>1 DEF Facing, Answering, Inbound, InAddOrder, Matching
<1>4. Filed'
  BY DEF IInv, Filed
<1>5. Apart'
  <2>1. \A o \in Order : InBook(o)' => InBook(o)
    BY DEF InBook
  <2>2. \A s, t \in Side : market'[s] \cap stops'[t] = {}
    BY DEF IInv, Apart
  <2> QED
    BY <2>1, <2>2 DEF IInv, Apart
<1>6. RestingOrdersAreOpen'
  <2>1. ASSUME NEW s \in Side, NEW o \in market'[s]
        PROVE  order'[o].buy = s /\ open'[o] > 0
    <3>1. o \in market[s] /\ open[o] > 0 /\ order[o].buy = s /\ o \in Used
      BY DEF IInv, RestingOrdersAreOpen, Filed
    <3> QED
      BY <3>1
  <2> QED
    BY <2>1 DEF RestingOrdersAreOpen
<1> QED
  BY <1>2, <1>3, <1>4, <1>5, <1>6 DEF IInv

(* callback_now() never leaves the handling flag set with nothing to do.   *)
LEMMA CallbackNowEffect ==
  ASSUME IInv, NEW pushed \in Seq(Callback), pushed # <<>>, CallbackNow(pushed)
  PROVE  /\ pc' = "deliver"
         /\ callbacks' \in Seq(Callback) /\ working' \in Seq(Callback) /\ handling' \in BOOLEAN
         /\ Delivering'
         /\ call' \in Call /\ m' \in Match /\ aons' = {} /\ plan' \in Plan
<1>1. call' \in Call /\ m' \in Match /\ aons' = {} /\ plan' \in Plan
  BY ResetType DEF CallbackNow
<1>2. callbacks \in Seq(Callback) /\ working \in Seq(Callback) /\ handling \in BOOLEAN
  BY DEF IInv, TypeOK
<1>3. callbacks \o pushed \in Seq(Callback) /\ callbacks \o pushed # <<>>
  BY <1>2
<1>4. CASE handling
  BY <1>1, <1>2, <1>3, <1>4 DEF CallbackNow, IInv, Delivering
<1>5. CASE ~handling
  <2>1. pc' = "deliver" /\ working' = callbacks \o pushed /\ callbacks' = <<>> /\ handling'
    BY <1>5 DEF CallbackNow
  <2>2. working' \in Seq(Callback) /\ Delivering'
    BY <1>3, <2>1 DEF Delivering
  <2> QED
    BY <1>1, <2>1, <2>2
<1> QED
  BY <1>2, <1>4, <1>5

(* The accept callback is amended where it is. *)
LEMMA AcceptedType ==
  ASSUME IInv, Submitted, call.kind = "add"
  PROVE  Accepted(call.order) \in Seq(Callback)
<1> DEFINE k == call.accept
           qty == order[call.order].qty - call.unfilled
           c == [callbacks[k] EXCEPT !.qty = qty]
<1>1. /\ callbacks \in Seq(Callback) /\ call.order \in Order /\ call.unfilled \in Nat
      /\ order[call.order].qty \in Int
  BY DEF IInv, TypeOK, Call, SimpleOrder
<1>2. qty \in Nat
  BY <1>1 DEF IInv, Answering, Submitted, InAddOrder
<1>3. Accepted(call.order) = [callbacks EXCEPT ![k] = c]
  BY DEF Accepted
<1>4. k \in DOMAIN callbacks => c \in Callback
  <2>1. k \in DOMAIN callbacks => callbacks[k] \in Callback
    BY <1>1
  <2> QED
    BY <1>2, <2>1 DEF Callback, Quantity
<1> HIDE DEF c, k, qty
<1>5. CASE k \in DOMAIN callbacks
  BY <1>1, <1>3, <1>4, <1>5, ExceptSeq
<1>6. CASE k \notin DOMAIN callbacks
  <2>1. DOMAIN callbacks = 1..Len(callbacks) /\ Len(callbacks) \in Nat
    BY <1>1
  <2>2. Accepted(call.order) = [i \in 1..Len(callbacks) |-> callbacks[i]]
    BY <1>3, <1>6, <2>1
  <2>3. \A i \in 1..Len(callbacks) : callbacks[i] \in Callback
    BY <1>1
  <2> QED
    BY <2>1, <2>2, <2>3
<1> QED
  BY <1>5, <1>6

(* add() completes its accept callback: the quantity it writes is not      *)
(* negative, for the order has no more open than was ordered.              *)
LEMMA SubmittedStep ==
  ASSUME IInv, Submitted
  PROVE  IInv'
<1>1. /\ pc = "deferred" /\ pc' = "pending" /\ ~Matching /\ InAddOrder
      /\ callbacks' = IF call.kind = "add"
                      THEN Accepted(call.order) \o IocCancel(call.order)
                      ELSE callbacks
      /\ Reset
      /\ UNCHANGED <<order, containers, trackers, triggered, marketPrice, working, handling, calls>>
  BY DEF Submitted, Matching, InAddOrder
<1>2. call' \in Call /\ m' \in Match /\ aons' = {} /\ plan' \in Plan
  BY <1>1, ResetType
<1>3. /\ callbacks \in Seq(Callback) /\ call.order \in Order /\ call.unfilled \in Nat
      /\ order[call.order].qty \in Int
  BY DEF IInv, TypeOK, Call, SimpleOrder
<1>4. callbacks' \in Seq(Callback)
  <2>1. CASE call.kind = "add"
    <3>1. Accepted(call.order) \in Seq(Callback)
      BY <2>1, AcceptedType
    <3>2. "cancel" \in CallbackTypes
      BY DEF CallbackTypes
    <3>3. IocCancel(call.order) \in Seq(Callback)
      BY <1>3, <3>2, CbType DEF IocCancel
    <3> QED
      BY <1>1, <2>1, <3>1, <3>3
  <2>2. CASE call.kind # "add"
    BY <1>1, <1>3, <2>2
  <2> QED
    BY <2>1, <2>2
<1>5. Delivering'
  BY <1>1 DEF IInv, Delivering
<1>6. /\ UNCHANGED <<stops, key, rank, clock, pending, submitting, marketPrice>>
      /\ order' \in [Order -> SimpleOrder] /\ market' \in [Side -> SUBSET Order]
      /\ open' \in [Order -> Quantity] /\ traded' \in [Order -> Quantity]
      /\ working' \in Seq(Callback) /\ handling' \in BOOLEAN /\ calls' \in Nat
      /\ open' = open /\ market' = market
      /\ \A o \in Used : o \in Used' /\ order'[o].buy = order[o].buy
  BY <1>1 DEF IInv, TypeOK, containers, trackers, triggered, Used
<1> QED
  BY <1>1, <1>2, <1>4, <1>5, <1>6, OutsideStepKeepsIInv

(* The update of the book is the last callback of a call. *)
LEMMA FinishStep ==
  ASSUME IInv, Finish
  PROVE  IInv'
<1>1. /\ pc = "pending" /\ ~Matching
      /\ CallbackNow(<<Cb("book_update", 1)>>)
      /\ UNCHANGED <<order, containers, trackers, triggered, marketPrice, calls>>
  BY DEF Finish, Matching
<1>2. "book_update" \in CallbackTypes /\ 1 \in Order
  BY DEF CallbackTypes, Order, ConstantsAssumption
<1>3. PICK cb \in Callback : cb = Cb("book_update", 1)
  <2>1. PICK type \in CallbackTypes, o \in Order : type = "book_update" /\ o = 1
    BY <1>2
  <2> QED
    BY <2>1, CbType
<1>4. <<cb>> \in Seq(Callback) /\ <<cb>> # <<>>
  OBVIOUS
<1>5. /\ pc' = "deliver"
      /\ callbacks' \in Seq(Callback) /\ working' \in Seq(Callback) /\ handling' \in BOOLEAN
      /\ Delivering'
      /\ call' \in Call /\ m' \in Match /\ aons' = {} /\ plan' \in Plan
  BY <1>1, <1>3, <1>4, CallbackNowEffect
<1>6. /\ UNCHANGED <<stops, key, rank, clock, pending, submitting, marketPrice>>
      /\ order' \in [Order -> SimpleOrder] /\ market' \in [Side -> SUBSET Order]
      /\ open' \in [Order -> Quantity] /\ traded' \in [Order -> Quantity]
      /\ calls' \in Nat
      /\ open' = open /\ market' = market
      /\ \A o \in Used : o \in Used' /\ order'[o].buy = order[o].buy
  BY <1>1 DEF IInv, TypeOK, containers, trackers, triggered, Used
<1> QED
  BY <1>1, <1>5, <1>6, OutsideStepKeepsIInv

-----------------------------------------------------------------------------
(* Steps that start to match an order *)

(* What a step leaves alone that starts to match the order o.              *)
LeavesTheRest(o) ==
  /\ order' \in [Order -> SimpleOrder] /\ o \in Used'
  /\ \A p \in Used : p \in Used' /\ order'[p].buy = order[p].buy
  /\ market' \in [Side -> SUBSET Order]
  /\ \A s \in Side : market'[s] \subseteq market[s]
  /\ UNCHANGED <<stops, key, rank, clock, pending, marketPrice, working, handling, aons, plan>>
  /\ submitting' \in Seq(SUBSET Order)
  /\ \A p \in Order : InQueue(p, submitting') => InQueue(p, submitting)
  /\ \A i, j \in DOMAIN submitting' : i # j => submitting'[i] \cap submitting'[j] = {}
  /\ open' \in [Order -> Quantity] /\ traded' \in [Order -> Quantity]
  /\ \A s \in Side : \A p \in market'[s] : open'[p] = open[p]
  /\ callbacks' \in Seq(Callback) /\ calls' \in Nat
  /\ call' \in Call /\ call'.order = o
  /\ call'.kind = "add" => open'[o] <= order'[o].qty /\ call'.unfilled <= order'[o].qty
  /\ ~InBook(o)' /\ ~InQueue(o, pending') /\ ~InQueue(o, submitting')

(* An order that is in no container may be matched as an inbound order.    *)
LEMMA InboundStepKeepsIInv ==
  ASSUME IInv, ~InAddOrder,
         NEW o \in Order, NEW price \in Price, NEW qty \in Int,
         StartMatch(o, price, qty, market[~order'[o].buy]),
         LeavesTheRest(o)
  PROVE  IInv'
<1> USE DEF LeavesTheRest
<1>1. /\ pc' = "match" /\ Matching' /\ InAddOrder' /\ ~Matching /\ aons = {}
      /\ m' = [taker |-> o, price |-> price, left |-> qty, todo |-> market[~order'[o].buy],
               dqty |-> 0, deferred |-> {}]
  BY DEF StartMatch, Matching, InAddOrder, IInv, Facing
<1>2. order'[o].buy \in Side /\ (~order'[o].buy) \in Side
  <2>1. order'[o] \in SimpleOrder
    OBVIOUS
  <2>2. order'[o].buy \in Side
    BY <2>1 DEF SimpleOrder
  <2> QED
    BY <2>2 DEF Side
<1>3. \A e \in market[~order'[o].buy] : e \in Order /\ e \in Used /\ order[e].buy = ~order'[o].buy
  BY <1>2 DEF IInv, Filed, TypeOK
<1>4. market[~order'[o].buy] \in SUBSET Order
  BY <1>3
<1>5. /\ m' \in Match /\ m'.taker = o /\ m'.todo = market[~order'[o].buy] /\ m'.deferred = {}
  BY <1>1, <1>4 DEF Match, Price
<1>6. TypeOK'
  BY <1>1, <1>5 DEF IInv, TypeOK, Controls
<1>7. Delivering'
  BY <1>1 DEF IInv, Delivering
<1>8. Facing'
  BY <1>1, <1>3, <1>5 DEF Facing, Opposite
<1>9. Answering' /\ Inbound'
  BY <1>5 DEF Answering, Inbound
<1>10. Filed'
  <2>1. ASSUME NEW i \in DOMAIN submitting', NEW p \in submitting'[i]
        PROVE  p \in Used'
    <3>1. p \in Order /\ InQueue(p, submitting')
      BY DEF InQueue
    <3>2. p \in Used
      BY <3>1, ContainerFacts
    <3> QED
      BY <3>2
  <2> QED
    BY <2>1 DEF IInv, Filed
<1>11. Apart'
  <2>1. \A p \in Order : InBook(p)' => InBook(p)
    BY DEF InBook
  <2>2. \A s, t \in Side : market'[s] \cap stops'[t] = {}
    BY DEF IInv, Apart
  <2> QED
    BY <2>1, <2>2 DEF IInv, Apart
<1>12. RestingOrdersAreOpen'
  <2>1. ASSUME NEW s \in Side, NEW p \in market'[s]
        PROVE  order'[p].buy = s /\ open'[p] > 0
    <3>1. p \in market[s] /\ open[p] > 0 /\ order[p].buy = s /\ p \in Used
      BY <1>1 DEF IInv, RestingOrdersAreOpen, Filed
    <3> QED
      BY <3>1
  <2> QED
    BY <2>1 DEF RestingOrdersAreOpen
<1> QED
  BY <1>6, <1>7, <1>8, <1>9, <1>10, <1>11, <1>12 DEF IInv

(* The batches only move from pendingOrders_ to the local list. *)
LEMMA TakePendingStep ==
  ASSUME IInv, TakePending
  PROVE  IInv'
<1>1. /\ pc = "pending" /\ pc' = pc /\ submitting = <<>>
      /\ submitting' = pending /\ pending' = <<>>
      /\ UNCHANGED <<order, market, stops, key, rank, clock, open, traded, marketPrice, callbacks,
                     working, handling, call, m, aons, plan, calls>>
  BY DEF TakePending, containers, trackers, queues, locals
<1>2. \A o \in Order : ~InQueue(o, pending') /\ (InQueue(o, submitting') <=> InQueue(o, pending))
  BY <1>1 DEF InQueue
<1>3. pending' \in Seq(SUBSET Order) /\ submitting' \in Seq(SUBSET Order)
  BY <1>1 DEF IInv, TypeOK
<1>4. TypeOK'
  BY <1>1, <1>3 DEF IInv, TypeOK
<1>5. Delivering' /\ Facing' /\ Answering' /\ Inbound' /\ RestingOrdersAreOpen'
  BY <1>1 DEF IInv, Delivering, Facing, Answering, Inbound, RestingOrdersAreOpen, InAddOrder,
              Matching, Nested, Used, Opposite
<1>6. Filed'
  BY <1>1 DEF IInv, Filed, Used
<1>7. Apart'
  <2>1. \A o \in Order : InBook(o)' <=> InBook(o)
    BY <1>1 DEF InBook
  <2>2. \A i, j \in DOMAIN pending' : i # j => pending'[i] \cap pending'[j] = {}
    BY <1>1
  <2> QED
    BY <1>1, <1>2, <2>1, <2>2 DEF IInv, Apart
<1> QED
  BY <1>4, <1>5, <1>6, <1>7 DEF IInv

(* A triggered stop leaves its batch, and its batch alone held it. *)
LEMMA SubmitPendingStep ==
  ASSUME IInv, NEW o \in Order, SubmitPending(o)
  PROVE  IInv'
<1> DEFINE c1 == [NoCall EXCEPT !.kind = "pending"]
<1>1. /\ pc = "pending" /\ ~InAddOrder
      /\ submitting # <<>> /\ o \in Head(submitting)
      /\ submitting' = IF Head(submitting) = {o} THEN Tail(submitting)
                       ELSE [submitting EXCEPT ![1] = @ \ {o}]
      /\ StartMatch(o, order[o].price, open[o], market[Opposite(o)])
      /\ UNCHANGED <<order, market, stops, key, rank, clock, open, traded, pending, marketPrice,
                     callbacks, working, handling, aons, plan, calls>>
  BY DEF SubmitPending, First, InAddOrder, Matching, containers, trackers, queues
<1>2. call' = [c1 EXCEPT !.order = o]
  BY DEF SubmitPending
<1>3. /\ submitting \in Seq(SUBSET Order) /\ Len(submitting) > 0 /\ 1 \in DOMAIN submitting
      /\ Head(submitting) = submitting[1]
  BY <1>1 DEF IInv, TypeOK
<1>4. /\ submitting' \in Seq(SUBSET Order)
      /\ \A p \in Order : InQueue(p, submitting') => InQueue(p, submitting) /\ p # o
      /\ \A i, j \in DOMAIN submitting' : i # j => submitting'[i] \cap submitting'[j] = {}
  <2>1. \A i \in DOMAIN submitting : i # 1 => o \notin submitting[i]
    BY <1>1, <1>3 DEF IInv, Apart
  <2>2. CASE Head(submitting) = {o}
    <3>1. submitting' = Tail(submitting)
      BY <1>1, <2>2
    <3>2. /\ submitting' \in Seq(SUBSET Order)
          /\ \A i \in DOMAIN submitting' :
               i + 1 \in DOMAIN submitting /\ submitting'[i] = submitting[i + 1]
      BY <1>3, <3>1
    <3>3. \A i \in DOMAIN submitting' : i \in Nat /\ i > 0
      BY <3>2
    <3>4. \A p \in Order : InQueue(p, submitting') => InQueue(p, submitting) /\ p # o
      BY <2>1, <3>2, <3>3 DEF InQueue
    <3>5. \A i, j \in DOMAIN submitting' : i # j => submitting'[i] \cap submitting'[j] = {}
      <4>1. \A i, j \in DOMAIN submitting' : i # j => i + 1 # j + 1
        BY <3>3
      <4> QED
        BY <3>2, <4>1 DEF IInv, Apart
    <3> QED
      BY <3>2, <3>4, <3>5
  <2>3. CASE Head(submitting) # {o}
    <3>1. submitting' = [submitting EXCEPT ![1] = @ \ {o}]
      BY <1>1, <2>3
    <3>2. /\ submitting' \in Seq(SUBSET Order)
          /\ DOMAIN submitting' = DOMAIN submitting
          /\ submitting'[1] = submitting[1] \ {o}
          /\ \A i \in DOMAIN submitting : i # 1 => submitting'[i] = submitting[i]
      BY <1>3, <3>1
    <3>3. \A p \in Order : InQueue(p, submitting') => InQueue(p, submitting) /\ p # o
      BY <2>1, <3>2 DEF InQueue
    <3>4. \A i \in DOMAIN submitting' : submitting'[i] \subseteq submitting[i]
      BY <3>2
    <3>5. \A i, j \in DOMAIN submitting' : i # j => submitting'[i] \cap submitting'[j] = {}
      BY <3>2, <3>4 DEF IInv, Apart
    <3> QED
      BY <3>2, <3>3, <3>5
  <2> QED
    BY <2>2, <2>3
<1>5. /\ o \in Used /\ ~InBook(o) /\ ~InQueue(o, pending)
  <2>1. InQueue(o, submitting)
    BY <1>1, <1>3 DEF InQueue
  <2> QED
    BY <2>1, ContainerFacts DEF IInv, Apart
<1>6. c1 \in Call
  BY DEF NoCall, Call, Order, ConstantsAssumption
<1> HIDE DEF c1
<1>7. call' \in Call /\ call'.order = o /\ call'.kind = c1.kind
  BY <1>2, <1>6 DEF Call
<1>8. c1.kind = "pending"
  BY DEF c1, NoCall
<1>9. ~InBook(o)' /\ ~InQueue(o, pending') /\ ~InQueue(o, submitting')
  BY <1>1, <1>4, <1>5 DEF InBook
<1>10. /\ order[o].price \in Price /\ open[o] \in Int /\ order' = order
       /\ StartMatch(o, order[o].price, open[o], market[~order'[o].buy])
  BY <1>1 DEF IInv, TypeOK, SimpleOrder, Quantity, Opposite
<1>11. /\ order' \in [Order -> SimpleOrder] /\ o \in Used'
       /\ \A p \in Used : p \in Used' /\ order'[p].buy = order[p].buy
       /\ market' \in [Side -> SUBSET Order]
       /\ \A s \in Side : market'[s] \subseteq market[s]
       /\ open' \in [Order -> Quantity] /\ traded' \in [Order -> Quantity]
       /\ open' = open /\ callbacks' \in Seq(Callback) /\ calls' \in Nat
  BY <1>1, <1>5 DEF IInv, TypeOK, Used
<1> QED
  <2>1. LeavesTheRest(o)
    BY <1>1, <1>4, <1>7, <1>8, <1>9, <1>11 DEF LeavesTheRest
  <2> QED
    BY <1>1, <1>10, <2>1, InboundStepKeepsIInv

-----------------------------------------------------------------------------
(* The calls of the application *)

(* One callback, or two, to start the delivery with. *)
LEMMA PushedType ==
  ASSUME IInv, NEW c \in Callback, NEW d \in Callback
  PROVE  /\ <<c>> \in Seq(Callback) /\ <<c>> # <<>>
         /\ <<c, d>> \in Seq(Callback) /\ <<c, d>> # <<>>
         /\ Append(callbacks, c) \in Seq(Callback)
         /\ callbacks \o <<c, d>> \in Seq(Callback)
<1>1. callbacks \in Seq(Callback)
  BY DEF IInv, TypeOK
<1> QED
  BY <1>1

(* Every type of callback without a quantity, for every order. *)
LEMMA PlainCb ==
  ASSUME NEW o \in Order
  PROVE  /\ Cb("accept", o) \in Callback /\ Cb("reject", o) \in Callback
         /\ Cb("cancel", o) \in Callback /\ Cb("cancel_reject", o) \in Callback
         /\ Cb("replace_reject", o) \in Callback /\ Cb("book_update", 1) \in Callback
<1>1. \A type \in CallbackTypes, p \in Order : Cb(type, p) \in Callback
  BY CbType
<1>2. 1 \in Order
  BY DEF Order, ConstantsAssumption
<1> QED
  BY <1>1, <1>2 DEF CallbackTypes

(* A new order is in no container: all that is in one was submitted. *)
LEMMA AddStep ==
  ASSUME IInv, NEW o \in Order, NEW t \in Menu, Add(o, t)
  PROVE  IInv'
<1>1. /\ pc \in {"idle", "deliver"} /\ ~Matching /\ ~InAddOrder
      /\ Used = 1..(o - 1)
      /\ order' = [order EXCEPT ![o] = NewOrder(o, t)]
      /\ open' = [open EXCEPT ![o] = t.qty]
      /\ UNCHANGED <<pending, submitting, marketPrice, traded, calls>>
  BY DEF Add, Ready, Matching, InAddOrder, triggered
<1>2. /\ t.buy \in Side /\ t.price \in Price /\ t.qty \in Nat /\ t.stop \in Price
      /\ t.aon \in BOOLEAN /\ t.ioc \in BOOLEAN
  BY DEF ConstantsAssumption, Request, Quantity
<1>3. o \in Nat /\ o \notin Used
  BY <1>1 DEF Order, ConstantsAssumption
<1>4. /\ order \in [Order -> SimpleOrder] /\ market \in [Side -> SUBSET Order]
      /\ stops \in [Side -> SUBSET Order] /\ key \in [Order -> Price] /\ rank \in [Order -> Nat]
      /\ clock \in Nat /\ open \in [Order -> Nat] /\ traded \in [Order -> Quantity]
      /\ callbacks \in Seq(Callback) /\ call \in Call /\ calls \in Nat
      /\ submitting \in Seq(SUBSET Order) /\ Len(callbacks) \in Nat
  BY DEF IInv, TypeOK, Quantity
<1>5. /\ order' \in [Order -> SimpleOrder]
      /\ order'[o].buy = t.buy /\ order'[o].qty = t.qty
      /\ o \in Used'
      /\ \A p \in Order : p # o => order'[p] = order[p]
  <2>1. NewOrder(o, t) \in SimpleOrder
    BY <1>2 DEF NewOrder, SimpleOrder, States, Quantity
  <2>2. NewOrder(o, t).buy = t.buy /\ NewOrder(o, t).qty = t.qty /\ NewOrder(o, t).state = "new"
    BY DEF NewOrder
  <2> QED
    BY <1>1, <1>4, <2>1, <2>2 DEF Used
<1>6. \A p \in Used : p \in Used' /\ p # o /\ order'[p].buy = order[p].buy
  BY <1>3, <1>5 DEF Used
<1>7. /\ open' \in [Order -> Quantity] /\ open'[o] = t.qty
      /\ \A p \in Order : p # o => open'[p] = open[p]
  BY <1>1, <1>2, <1>4 DEF Quantity
<1>8. ~InBook(o) /\ ~InQueue(o, pending) /\ ~InQueue(o, submitting)
  BY <1>3, ContainerFacts
<1>9. \A s \in Side : \A p \in market[s] : p # o /\ p \in Order
  BY <1>4, <1>8 DEF InBook
<1>10. CASE t.qty = 0
  <2>1. CallbackNow(<<Cb("reject", o)>>) /\ UNCHANGED <<market, stops, key, rank, clock>>
    BY <1>10 DEF Add, containers
  <2>2. <<Cb("reject", o)>> \in Seq(Callback) /\ <<Cb("reject", o)>> # <<>>
    BY PlainCb, PushedType
  <2>3. /\ pc' = "deliver"
        /\ callbacks' \in Seq(Callback) /\ working' \in Seq(Callback) /\ handling' \in BOOLEAN
        /\ Delivering'
        /\ call' \in Call /\ m' \in Match /\ aons' = {} /\ plan' \in Plan
    BY <2>1, <2>2, CallbackNowEffect
  <2>4. market' \in [Side -> SUBSET Order] /\ \A s \in Side : market'[s] \subseteq market[s]
    BY <1>4, <2>1
  <2>5. \A s \in Side : \A p \in market'[s] : open'[p] = open[p]
    BY <1>7, <1>9, <2>1
  <2> QED
    BY <1>1, <1>4, <1>5, <1>6, <1>7, <2>1, <2>3, <2>4, <2>5, OutsideStepKeepsIInv
<1>11. ASSUME t.qty # 0
       PROVE  /\ callbacks' = Append(callbacks, Cb("accept", o))
              /\ callbacks' \in Seq(Callback)
              /\ UNCHANGED <<market, working, handling, aons, plan>>
  <2>1. /\ callbacks' = Append(callbacks, Cb("accept", o))
        /\ UNCHANGED <<market, working, handling, aons, plan>>
    BY <1>11 DEF Add
  <2> QED
    BY <2>1, PlainCb, PushedType
<1>12. CASE t.qty # 0 /\ Held(t)
  <2>1. /\ stops' = [stops EXCEPT ![t.buy] = @ \cup {o}]
        /\ File(o, t.stop)
        /\ pc' = "pending"
        /\ UNCHANGED <<call, m>>
    BY <1>12 DEF Add
  <2>2. /\ stops' \in [Side -> SUBSET Order]
        /\ \A s \in Side : \A p \in stops'[s] : p \in stops[s] \/ (p = o /\ s = t.buy)
    BY <1>2, <1>4, <2>1
  <2>3. key' \in [Order -> Price] /\ rank' \in [Order -> Nat] /\ clock' \in Nat
    BY <1>2, <1>4, <2>1 DEF File
  <2>4. ~Matching' /\ ~InAddOrder' /\ aons' = {}
    BY <1>1, <1>11, <1>12, <2>1 DEF Matching, InAddOrder, IInv, Facing
  <2>5. TypeOK'
    BY <1>1, <1>4, <1>5, <1>7, <1>11, <1>12, <2>1, <2>2, <2>3 DEF IInv, TypeOK, Controls
  <2>6. Delivering'
    BY <1>11, <1>12, <2>1 DEF IInv, Delivering
  <2>7. Facing' /\ Answering' /\ Inbound'
    BY <2>4 DEF Facing, Answering, Inbound, InAddOrder, Matching
  <2>8. Filed'
    BY <1>1, <1>5, <1>6, <1>11, <1>12, <2>2 DEF IInv, Filed
  <2>9. RestingOrdersAreOpen'
    <3>1. ASSUME NEW s \in Side, NEW p \in market'[s]
          PROVE  order'[p].buy = s /\ open'[p] > 0
      <4>1. p \in market[s] /\ p \in Order /\ p # o
        BY <1>9, <1>11, <1>12
      <4>2. order[p].buy = s /\ open[p] > 0
        BY <1>1, <4>1 DEF IInv, RestingOrdersAreOpen
      <4> QED
        BY <1>5, <1>7, <4>1, <4>2
    <3> QED
      BY <3>1 DEF RestingOrdersAreOpen
  <2>10. Apart'
    <3>1. market' = market /\ pending' = pending /\ submitting' = submitting
      BY <1>1, <1>11, <1>12
    <3>2. \A p \in Order : InBook(p)' => InBook(p) \/ p = o
      BY <2>2, <3>1 DEF InBook
    <3>3. \A s, u \in Side : market'[s] \cap stops'[u] = {}
      BY <1>9, <2>2, <3>1 DEF IInv, Apart
    <3> QED
      BY <1>8, <3>1, <3>2, <3>3 DEF IInv, Apart
  <2> QED
    BY <2>5, <2>6, <2>7, <2>8, <2>9, <2>10 DEF IInv
<1>13. CASE t.qty # 0 /\ ~Held(t)
  <2>1. /\ StartMatch(o, t.price, t.qty, market[~t.buy])
        /\ call' = [kind |-> "add", order |-> o, accept |-> Len(callbacks) + 1, unfilled |-> 0]
        /\ UNCHANGED <<stops, key, rank, clock>>
    BY <1>13 DEF Add
  <2>2. /\ call' \in Call /\ call'.order = o
        /\ open'[o] <= order'[o].qty /\ call'.unfilled <= order'[o].qty
    BY <1>2, <1>4, <1>5, <1>7, <2>1 DEF Call
  <2>3. StartMatch(o, t.price, t.qty, market[~order'[o].buy])
    BY <1>5, <2>1
  <2>4. /\ market' \in [Side -> SUBSET Order] /\ \A s \in Side : market'[s] \subseteq market[s]
        /\ \A s \in Side : \A p \in market'[s] : open'[p] = open[p]
    BY <1>4, <1>7, <1>9, <1>11, <1>13
  <2>5. ~InBook(o)' /\ ~InQueue(o, pending') /\ ~InQueue(o, submitting')
    BY <1>1, <1>8, <1>11, <1>13, <2>1 DEF InBook
  <2>6. /\ submitting' \in Seq(SUBSET Order)
        /\ \A p \in Order : InQueue(p, submitting') => InQueue(p, submitting)
        /\ \A i, j \in DOMAIN submitting' : i # j => submitting'[i] \cap submitting'[j] = {}
    BY <1>1, <1>4 DEF IInv, Apart
  <2>7. t.qty \in Int /\ traded' \in [Order -> Quantity] /\ calls' \in Nat
    BY <1>1, <1>2, <1>4
  <2> QED
    <3>1. LeavesTheRest(o)
      <4>1. /\ order' \in [Order -> SimpleOrder] /\ o \in Used'
            /\ \A p \in Used : p \in Used' /\ order'[p].buy = order[p].buy
        BY <1>5, <1>6, <1>7
      <4>2. /\ UNCHANGED <<stops, key, rank, clock, pending, marketPrice, working, handling, aons,
                           plan>>
            /\ callbacks' \in Seq(Callback) /\ open' \in [Order -> Quantity]
        BY <1>1, <1>2, <1>5, <1>7, <1>11, <1>13, <2>1
      <4> QED
        BY <2>2, <2>4, <2>5, <2>6, <2>7, <4>1, <4>2 DEF LeavesTheRest
    <3>2. ~InAddOrder /\ t.price \in Price
      BY <1>1, <1>2
    <3> QED
      BY <2>3, <2>7, <3>1, <3>2, InboundStepKeepsIInv
<1> QED
  BY <1>10, <1>12, <1>13

(* What a call may change besides callbacks and the book. *)
LEMMA CallFrame ==
  ASSUME IInv, CanCall
  PROVE  /\ pc \in {"idle", "deliver"} /\ ~Matching /\ ~InAddOrder /\ aons = {}
         /\ calls' \in Nat
         /\ order' = order => /\ order' \in [Order -> SimpleOrder]
                              /\ \A o \in Used : o \in Used' /\ order'[o].buy = order[o].buy
BY DEF CanCall, Ready, Matching, InAddOrder, IInv, TypeOK, Facing, Used

(* A cancel takes the order out of the book, or changes nothing.           *)
LEMMA CancelStep ==
  ASSUME IInv, NEW o \in Order, Cancel(o)
  PROVE  IInv'
<1> DEFINE s == order[o].buy
           cb == [Cb("cancel", o) EXCEPT !.qty = open[o]]
<1>1. /\ CanCall
      /\ UNCHANGED <<order, stops, key, rank, clock, open, traded, pending, submitting, marketPrice>>
      /\ \/ market' = [market EXCEPT ![s] = @ \ {o}] /\ CallbackNow(<<cb, Cb("book_update", 1)>>)
         \/ market' = market /\ CallbackNow(<<Cb("cancel_reject", o)>>)
  BY DEF Cancel, trackers, triggered
<1>2. /\ order \in [Order -> SimpleOrder] /\ market \in [Side -> SUBSET Order]
      /\ open \in [Order -> Nat] /\ s \in Side
  BY ContainerFacts
<1>3. /\ market' \in [Side -> SUBSET Order] /\ \A t \in Side : market'[t] \subseteq market[t]
  BY <1>1, <1>2
<1>4. cb \in Callback
  BY <1>2, PlainCb DEF Callback, Quantity
<1> HIDE DEF cb
<1>5. PICK pushed \in Seq(Callback) : pushed # <<>> /\ CallbackNow(pushed)
  <2>1. CASE CallbackNow(<<cb, Cb("book_update", 1)>>)
    BY <1>4, <2>1, PlainCb, PushedType
  <2>2. CASE CallbackNow(<<Cb("cancel_reject", o)>>)
    BY <2>2, PlainCb, PushedType
  <2> QED
    BY <1>1, <2>1, <2>2
<1>6. /\ pc' = "deliver"
      /\ callbacks' \in Seq(Callback) /\ working' \in Seq(Callback) /\ handling' \in BOOLEAN
      /\ Delivering'
      /\ call' \in Call /\ m' \in Match /\ aons' = {} /\ plan' \in Plan
  BY <1>5, CallbackNowEffect
<1>7. open' \in [Order -> Quantity] /\ traded' \in [Order -> Quantity] /\ open' = open
  BY <1>1 DEF IInv, TypeOK
<1> QED
  BY <1>1, <1>3, <1>6, <1>7, CallFrame, OutsideStepKeepsIInv

(* A reduction takes at most what is open. *)
LEMMA DeltaFacts ==
  ASSUME IInv, NEW o \in Order, NEW delta \in Deltas
  PROVE  AllowedDelta(o, delta) \in Int /\ open[o] + AllowedDelta(o, delta) \in Nat
<1>1. open[o] \in Nat /\ delta \in Int
  BY ContainerFacts DEF ConstantsAssumption
<1> QED
  BY <1>1 DEF AllowedDelta

(* The replaced order leaves the book, its only place, and is matched.     *)
LEMMA ReplaceFoundStep ==
  ASSUME IInv, CanCall, NEW o \in Order, OnMarket(o),
         NEW delta \in Int, open[o] + delta \in Nat, NEW price \in Price,
         ReplaceFound(o, delta, price),
         UNCHANGED <<order, stops, key, rank, clock, traded, triggered, marketPrice>>
  PROVE  IInv'
<1> DEFINE s == order[o].buy
<1>1. /\ open' = [open EXCEPT ![o] = @ + delta]
      /\ market' = [market EXCEPT ![s] = @ \ {o}]
      /\ UNCHANGED <<working, handling, aons, plan>>
  BY DEF ReplaceFound
<1>2. /\ order \in [Order -> SimpleOrder] /\ market \in [Side -> SUBSET Order]
      /\ open \in [Order -> Nat] /\ s \in Side /\ o \in market[s]
  BY ContainerFacts DEF OnMarket
<1>3. /\ market' \in [Side -> SUBSET Order] /\ \A t \in Side : market'[t] \subseteq market[t]
      /\ \A t \in Side : \A p \in market'[t] : p # o
  <2>1. \A t \in Side : o \in market[t] => t = s
    BY DEF IInv, Filed
  <2> QED
    BY <1>1, <1>2, <2>1
<1>4. /\ open' \in [Order -> Quantity] /\ open'[o] = open[o] + delta
      /\ \A t \in Side : \A p \in market'[t] : open'[p] = open[p]
  <2>1. open[o] + delta \in Nat
    OBVIOUS
  <2> QED
    BY <1>1, <1>2, <1>3, <2>1 DEF Quantity
<1>5. /\ ReplaceCb(o, delta, price) \in Callback /\ Cb("cancel", o) \in Callback
  BY ReplaceCbType, PlainCb DEF IInv
<1>6. /\ pc \in {"idle", "deliver"} /\ ~Matching /\ ~InAddOrder /\ aons = {} /\ calls' \in Nat
      /\ order' \in [Order -> SimpleOrder]
      /\ \A p \in Used : p \in Used' /\ order'[p].buy = order[p].buy
  BY CallFrame
<1>7. /\ traded' \in [Order -> Quantity] /\ working' \in Seq(Callback) /\ handling' \in BOOLEAN
      /\ call \in Call /\ m \in Match /\ plan' \in Plan
      /\ submitting' \in Seq(SUBSET Order) /\ pending' = pending /\ submitting' = submitting
  BY <1>1 DEF IInv, TypeOK, triggered
<1>8. CASE open[o] + delta = 0
  <2>1. /\ callbacks' = callbacks \o <<ReplaceCb(o, delta, price), Cb("cancel", o)>>
        /\ pc' = "pending" /\ UNCHANGED <<call, m>>
    BY <1>8 DEF ReplaceFound
  <2>2. callbacks' \in Seq(Callback)
    BY <1>5, <2>1, PushedType
  <2>3. Delivering'
    BY <1>1, <2>1 DEF IInv, Delivering
  <2> QED
    BY <1>1, <1>3, <1>4, <1>6, <1>7, <2>1, <2>2, <2>3, OutsideStepKeepsIInv
<1>9. CASE open[o] + delta # 0
  <2> DEFINE c1 == [NoCall EXCEPT !.kind = "replace"]
  <2>1. /\ callbacks' = Append(callbacks, ReplaceCb(o, delta, price))
        /\ StartMatch(o, price, open[o] + delta, market[Opposite(o)])
    BY <1>9 DEF ReplaceFound
  <2>2. call' = [c1 EXCEPT !.order = o]
    BY <1>9 DEF ReplaceFound
  <2>3. c1 \in Call /\ c1.kind = "replace"
    BY DEF NoCall, Call, Order, ConstantsAssumption
  <2> HIDE DEF c1
  <2>4. call' \in Call /\ call'.order = o /\ call'.kind # "add"
    BY <2>2, <2>3 DEF Call
  <2>5. callbacks' \in Seq(Callback)
    BY <1>5, <2>1, PushedType
  <2>6. StartMatch(o, price, open[o] + delta, market[~order'[o].buy]) /\ open[o] + delta \in Int
    BY <1>2, <2>1 DEF Opposite
  <2>7. o \in Used'
    <3>1. o \in Used
      BY <1>2, ContainerFacts DEF InBook
    <3> QED
      BY <1>6, <3>1
  <2>8. ~InBook(o)' /\ ~InQueue(o, pending') /\ ~InQueue(o, submitting')
    <3>1. InBook(o) /\ \A t \in Side : o \notin stops[t]
      BY <1>2 DEF InBook, IInv, Apart
    <3>2. ~InBook(o)'
      BY <1>3, <3>1 DEF InBook
    <3> QED
      BY <1>7, <3>1, <3>2 DEF IInv, Apart
  <2>9. /\ \A p \in Order : InQueue(p, submitting') => InQueue(p, submitting)
        /\ \A i, j \in DOMAIN submitting' : i # j => submitting'[i] \cap submitting'[j] = {}
    BY <1>7 DEF IInv, Apart
  <2> QED
    <3>1. LeavesTheRest(o)
      BY <1>1, <1>3, <1>4, <1>6, <1>7, <2>4, <2>5, <2>7, <2>8, <2>9 DEF LeavesTheRest
    <3> QED
      BY <1>6, <2>6, <3>1, InboundStepKeepsIInv
<1> QED
  BY <1>8, <1>9

(* A replace is one of an order that is found, or is refused.              *)
LEMMA ReplaceStep ==
  ASSUME IInv, NEW o \in Order, NEW delta \in Deltas, NEW newPrice \in NewPrices,
         Replace(o, delta, newPrice)
  PROVE  IInv'
<1>1. /\ CanCall
      /\ UNCHANGED <<order, stops, key, rank, clock, traded, triggered, marketPrice>>
  BY DEF Replace
<1>2. CASE OnMarket(o)
  <2>1. ReplaceFound(o, AllowedDelta(o, delta), ReplacedPrice(o, newPrice))
    BY <1>2 DEF Replace
  <2>2. ReplacedPrice(o, newPrice) \in Price
    BY DEF ReplacedPrice, ConstantsAssumption, IInv, TypeOK, SimpleOrder
  <2> QED
    BY <1>1, <1>2, <2>1, <2>2, DeltaFacts, ReplaceFoundStep
<1>3. CASE ~OnMarket(o)
  <2>1. CallbackNow(<<Cb("replace_reject", o)>>) /\ UNCHANGED <<open, market>>
    BY <1>3 DEF Replace
  <2>2. <<Cb("replace_reject", o)>> \in Seq(Callback) /\ <<Cb("replace_reject", o)>> # <<>>
    BY PlainCb, PushedType
  <2>3. /\ pc' = "deliver"
        /\ callbacks' \in Seq(Callback) /\ working' \in Seq(Callback) /\ handling' \in BOOLEAN
        /\ Delivering'
        /\ call' \in Call /\ m' \in Match /\ aons' = {} /\ plan' \in Plan
    BY <2>1, <2>2, CallbackNowEffect
  <2>4. /\ market' \in [Side -> SUBSET Order] /\ \A t \in Side : market'[t] \subseteq market[t]
        /\ open' \in [Order -> Quantity] /\ traded' \in [Order -> Quantity] /\ open' = open
        /\ UNCHANGED <<pending, submitting>>
    BY <1>1, <2>1 DEF IInv, TypeOK, triggered
  <2> QED
    BY <1>1, <2>3, <2>4, CallFrame, OutsideStepKeepsIInv
<1> QED
  BY <1>2, <1>3

(* Before the first order there is nothing to trigger. *)
LEMMA MarketPriceSetStep ==
  ASSUME IInv, NEW price \in MarketPrices, MarketPriceSet(price)
  PROVE  IInv'
<1>1. /\ pc = "idle" /\ Used = {} /\ SetMarketPrice(price)
      /\ UNCHANGED <<order, market, key, rank, clock, open, traded, submitting, callbacks, working,
                     handling, pc, call, m, aons, plan, calls>>
  BY DEF MarketPriceSet, trackers, queues, locals
<1>2. price \in Price
  BY DEF ConstantsAssumption
<1>3. /\ marketPrice' \in Price
      /\ stops' \in [Side -> SUBSET Order]
      /\ pending' \in Seq(SUBSET Order)
      /\ \A s \in Side : stops'[s] \subseteq stops[s]
      /\ \/ pending' = pending
         \/ \E side \in Side : pending' = Append(pending, stops[side] \ stops'[side])
  BY <1>1, <1>2, MarketPriceEffect DEF IInv
<1>4. /\ market' \in [Side -> SUBSET Order]
      /\ \A s \in Side : market'[s] \subseteq market[s]
  BY <1>1 DEF IInv, TypeOK
<1>5. Apart' /\ \A o \in Order : InQueue(o, pending') => InBook(o) \/ InQueue(o, pending)
  <2>1. CASE pending' = pending
    <3>1. \A o \in Order : InBook(o)' => InBook(o)
      BY <1>3, <1>4 DEF InBook
    <3>2. \A s, t \in Side : market'[s] \cap stops'[t] = {}
      BY <1>3, <1>4 DEF IInv, Apart
    <3> QED
      BY <1>1, <2>1, <3>1, <3>2 DEF IInv, Apart
  <2>2. ASSUME NEW side \in Side, pending' = Append(pending, stops[side] \ stops'[side])
        PROVE  Apart' /\ \A o \in Order : InQueue(o, pending') => InBook(o) \/ InQueue(o, pending)
    BY <1>1, <1>3, <1>4, <2>2, ApartAfterPriceMove DEF IInv
  <2> QED
    BY <1>3, <2>1, <2>2
<1>6. Filed'
  <2>1. \A o \in Used : o \in Used' /\ order'[o].buy = order[o].buy
    BY <1>1
  <2> QED
    BY <1>1, <1>3, <1>4, <1>5, <2>1, QueueKeepsSide DEF IInv
<1>7. TypeOK'
  BY <1>1, <1>3 DEF IInv, TypeOK
<1>8. ~Matching /\ ~Matching' /\ ~InAddOrder /\ ~InAddOrder'
  BY <1>1 DEF Matching, InAddOrder
<1>9. Delivering' /\ Facing' /\ Answering' /\ Inbound'
  BY <1>1, <1>8 DEF IInv, Delivering, Facing, Answering, Inbound, Matching
<1>10. RestingOrdersAreOpen'
  BY <1>1, <1>8 DEF IInv, RestingOrdersAreOpen
<1> QED
  BY <1>5, <1>6, <1>7, <1>9, <1>10 DEF IInv

-----------------------------------------------------------------------------
(* callback_now() *)

(* SimpleOrder::fill() *)
LEMMA FilledType ==
  ASSUME NEW x \in SimpleOrder, NEW q \in Quantity
  PROVE  /\ Filled(x, q) \in SimpleOrder /\ Filled(x, q).buy = x.buy
         /\ x.state # "none" => Filled(x, q).state # "none"
<1> DEFINE y == [x EXCEPT !.filled = @ + q]
<1>1. Filled(x, q) = [y EXCEPT !.state = IF x.filled + q >= x.qty THEN "complete" ELSE @]
  BY DEF Filled
<1>2. y \in SimpleOrder /\ y.buy = x.buy /\ y.state = x.state
  BY DEF SimpleOrder, Quantity
<1> HIDE DEF y
<1> QED
  BY <1>1, <1>2 DEF SimpleOrder, States

(* What a callback does to the order objects: no order changes its side,   *)
(* and none becomes unsubmitted.                                           *)
LEMMA NotifiedType ==
  ASSUME TypeOK, NEW cb \in Callback
  PROVE  /\ Notified(cb) \in [Order -> SimpleOrder]
         /\ \A p \in Order : /\ Notified(cb)[p].buy = order[p].buy
                             /\ order[p].state # "none" => Notified(cb)[p].state # "none"
<1> DEFINE o == cb.order
           q == cb.matched
<1>1. /\ order \in [Order -> SimpleOrder] /\ o \in Order /\ q \in Order /\ cb.qty \in Quantity
      /\ cb.price \in Price /\ cb.delta \in Int
  BY DEF TypeOK, Callback
<1>2. ASSUME NEW x \in SimpleOrder
      PROVE  /\ [order EXCEPT ![o] = x] \in [Order -> SimpleOrder]
             /\ [order EXCEPT ![o] = x][o] = x
             /\ \A p \in Order : p # o => [order EXCEPT ![o] = x][p] = order[p]
  BY <1>1
<1>3. \A p \in Order : order[p] \in SimpleOrder
  BY <1>1
<1>4. CASE cb.type = "accept" /\ order[o].state = "new"
  <2> DEFINE x == [order[o] EXCEPT !.state = "accepted"]
  <2>1. Notified(cb) = [order EXCEPT ![o] = x]
    BY <1>4 DEF Notified
  <2>2. x \in SimpleOrder /\ x.buy = order[o].buy /\ x.state # "none"
    BY <1>3, <1>1 DEF SimpleOrder, States
  <2> HIDE DEF x
  <2> QED
    BY <1>1, <1>2, <2>1, <2>2
<1>5. CASE cb.type = "fill"
  <2>1. Notified(cb) = [p \in Order |-> IF p \in {o, q} THEN Filled(order[p], cb.qty)
                                       ELSE order[p]]
    BY <1>5 DEF Notified
  <2>2. \A p \in Order :
          /\ Filled(order[p], cb.qty) \in SimpleOrder
          /\ Filled(order[p], cb.qty).buy = order[p].buy
          /\ order[p].state # "none" => Filled(order[p], cb.qty).state # "none"
    BY <1>1, <1>3, FilledType
  <2> QED
    BY <1>3, <2>1, <2>2
<1>6. CASE cb.type = "cancel" /\ order[o].state # "complete"
  <2> DEFINE x == [order[o] EXCEPT !.state = "cancelled"]
  <2>1. Notified(cb) = [order EXCEPT ![o] = x]
    BY <1>6 DEF Notified
  <2>2. x \in SimpleOrder /\ x.buy = order[o].buy /\ x.state # "none"
    BY <1>3, <1>1 DEF SimpleOrder, States
  <2> HIDE DEF x
  <2> QED
    BY <1>1, <1>2, <2>1, <2>2
<1>7. CASE cb.type = "replace" /\ order[o].state = "accepted"
  <2> DEFINE x == [order[o] EXCEPT !.qty = @ + cb.delta]
             y == [x EXCEPT !.price = cb.price]
             f == [order EXCEPT ![o] = x]
  <2>1. Notified(cb) = [f EXCEPT ![o].price = cb.price]
    BY <1>7 DEF Notified
  <2>2. x \in SimpleOrder /\ x.buy = order[o].buy /\ x.state = order[o].state
    BY <1>3, <1>1 DEF SimpleOrder
  <2>3. y \in SimpleOrder /\ y.buy = order[o].buy /\ y.state # "none"
    BY <1>1, <1>7, <2>2 DEF SimpleOrder
  <2>4. f \in [Order -> SimpleOrder] /\ f[o] = x
    BY <1>2, <2>2
  <2>5. Notified(cb) = [order EXCEPT ![o] = y]
    BY <1>1, <2>1, <2>4
  <2> HIDE DEF y
  <2> QED
    BY <1>1, <1>2, <2>3, <2>5
<1>8. CASE /\ ~(cb.type = "accept" /\ order[o].state = "new")
           /\ cb.type # "fill"
           /\ ~(cb.type = "cancel" /\ order[o].state # "complete")
           /\ ~(cb.type = "replace" /\ order[o].state = "accepted")
  <2>1. Notified(cb) = order
    BY <1>8 DEF Notified
  <2> QED
    BY <1>1, <2>1
<1> QED
  BY <1>4, <1>5, <1>6, <1>7, <1>8

(* A callback is delivered, and the order objects keep their sides. *)
LEMMA PerformedStep ==
  ASSUME IInv, Performed,
         order' \in [Order -> SimpleOrder],
         \A o \in Used : o \in Used' /\ order'[o].buy = order[o].buy
  PROVE  IInv'
<1>1. /\ pc = "deliver" /\ ~Matching /\ ~InAddOrder
      /\ UNCHANGED <<market, stops, key, rank, clock, open, traded, pending, submitting,
                     marketPrice, call, m, aons, plan, calls>>
  BY DEF Performed, Matching, InAddOrder, containers, trackers, triggered, locals
<1>2. /\ working \in Seq(Callback) /\ working # <<>> /\ callbacks \in Seq(Callback)
      /\ handling
  BY <1>1 DEF IInv, TypeOK, Delivering
<1>3. /\ callbacks' \in Seq(Callback) /\ working' \in Seq(Callback) /\ handling' \in BOOLEAN
      /\ Delivering' /\ pc' \in {"idle", "pending", "deliver"}
  <2>1. CASE Tail(working) # <<>>
    <3>1. working' = Tail(working) /\ UNCHANGED <<callbacks, handling, pc>>
      BY <2>1 DEF Performed
    <3>2. Tail(working) \in Seq(Callback)
      BY <1>2
    <3> QED
      BY <1>1, <1>2, <2>1, <3>1, <3>2 DEF Delivering
  <2>2. CASE Tail(working) = <<>>
    <3>1. /\ working' = callbacks /\ callbacks' = <<>> /\ handling' = (callbacks # <<>>)
          /\ pc' = IF callbacks = <<>> THEN "idle" ELSE "deliver"
      BY <2>2 DEF Performed
    <3>2. callbacks' \in Seq(Callback) /\ working' \in Seq(Callback)
      BY <1>2, <3>1
    <3>3. CASE callbacks = <<>>
      BY <3>1, <3>2, <3>3 DEF Delivering
    <3>4. CASE callbacks # <<>>
      BY <3>1, <3>2, <3>4 DEF Delivering
    <3> QED
      BY <3>3, <3>4
  <2> QED
    BY <2>1, <2>2
<1>4. /\ market' \in [Side -> SUBSET Order] /\ market' = market
      /\ open' \in [Order -> Quantity] /\ traded' \in [Order -> Quantity] /\ open' = open
      /\ call' \in Call /\ m' \in Match /\ plan' \in Plan /\ calls' \in Nat /\ aons' = {}
  BY <1>1 DEF IInv, TypeOK, Facing
<1> QED
  BY <1>1, <1>3, <1>4, OutsideStepKeepsIInv

(* A listener is notified and returns. *)
LEMMA PerformStep ==
  ASSUME IInv, Perform
  PROVE  IInv'
<1>1. Performed /\ order' = Notified(Head(working)) /\ pc = "deliver"
  BY DEF Perform, Performed
<1>2. Head(working) \in Callback
  BY <1>1 DEF IInv, TypeOK, Delivering
<1>3. /\ order' \in [Order -> SimpleOrder]
      /\ \A o \in Used : o \in Used' /\ order'[o].buy = order[o].buy
  BY <1>1, <1>2, NotifiedType DEF IInv, Used
<1> QED
  BY <1>1, <1>3, PerformedStep

(* A listener is notified and throws. *)
LEMMA ListenerThrowsStep ==
  ASSUME IInv, ListenerThrows
  PROVE  IInv'
<1>1. Performed /\ order' = order
  BY DEF ListenerThrows
<1>2. /\ order' \in [Order -> SimpleOrder]
      /\ \A o \in Used : o \in Used' /\ order'[o].buy = order[o].buy
  BY <1>1 DEF IInv, TypeOK, Used
<1> QED
  BY <1>1, <1>2, PerformedStep

-----------------------------------------------------------------------------
(* The theorems *)

(* The book is created empty. *)
LEMMA InitIInv ==
  ASSUME Init
  PROVE  IInv
<1>1. TypeOK
  <2>1. NoOrder \in SimpleOrder
    BY DEF NoOrder, SimpleOrder, Side, Price, Quantity, States
  <2>2. NoCall \in Call /\ NoMatch \in Match /\ NoPlan \in Plan
    BY DEF NoCall, NoMatch, NoPlan, Call, Match, Plan, Order, Price, ConstantsAssumption
  <2>3. /\ pending \in Seq(SUBSET Order) /\ submitting \in Seq(SUBSET Order)
        /\ callbacks \in Seq(Callback) /\ working \in Seq(Callback)
    BY DEF Init
  <2>4. /\ order \in [Order -> SimpleOrder]
        /\ market \in [Side -> SUBSET Order] /\ stops \in [Side -> SUBSET Order]
        /\ key \in [Order -> Price] /\ rank \in [Order -> Nat] /\ clock \in Nat
        /\ open \in [Order -> Quantity] /\ traded \in [Order -> Quantity]
    BY <2>1 DEF Init, Price, Quantity
  <2>5. /\ marketPrice \in Price /\ handling \in BOOLEAN /\ pc \in Controls
        /\ call \in Call /\ m \in Match /\ aons \in SUBSET Order /\ plan \in Plan /\ calls \in Nat
    BY <2>2 DEF Init, Price, MARKET_ORDER_PRICE, Controls
  <2> QED
    BY <2>3, <2>4, <2>5 DEF TypeOK
<1>2. Delivering /\ Facing /\ Answering /\ Inbound
  BY DEF Init, Delivering, Facing, Answering, Inbound, InAddOrder, Matching
<1>3. \A o \in Order : ~InBook(o) /\ ~InQueue(o, pending) /\ ~InQueue(o, submitting)
  BY DEF Init, InBook, InQueue
<1>4. Filed /\ RestingOrdersAreOpen
  BY DEF Init, Filed, RestingOrdersAreOpen
<1>5. Apart
  BY <1>3 DEF Init, Apart
<1> QED
  BY <1>1, <1>2, <1>4, <1>5 DEF IInv

(* Every step of the book and of the application keeps the invariant. *)
LEMMA NextKeepsIInv ==
  ASSUME IInv, [Next]_vars
  PROVE  IInv'
<1>1. CASE MatchStep
  <2>1. ASSUME NEW e \in m.todo, DeferAon(e) \/ MatchRegular(e) \/ DeferMatch(e) \/ TryDeferred(e)
        PROVE  IInv'
    BY <2>1, DeferAonStep, MatchRegularStep, DeferMatchStep, TryDeferredStep
  <2>2. ASSUME NEW d \in plan.todo, Propose(d) \/ Settle(d)
        PROVE  IInv'
    BY <2>2, ProposeStep, SettleStep
  <2> QED
    BY <1>1, <2>1, <2>2, ProposalEndsStep, SettleEndsStep, CloseStep DEF MatchStep
<1>2. CASE AddOrderStep
  BY <1>2, RestStep, CheckDeferredStep, NestedEndsStep, SubmittedStep DEF AddOrderStep
<1>3. CASE PendingStep
  BY <1>3, TakePendingStep, SubmitPendingStep, FinishStep DEF PendingStep
<1>4. CASE Perform
  BY <1>4, PerformStep
<1>5. CASE ListenerThrows
  BY <1>5, ListenerThrowsStep
<1>6. CASE Application
  BY <1>6, AddStep, CancelStep, ReplaceStep, MarketPriceSetStep DEF Application
<1>7. CASE UNCHANGED vars
  BY <1>7 DEF vars, IInv, TypeOK, Delivering, Filed, Facing, Answering, Apart, Inbound,
              RestingOrdersAreOpen, InAddOrder, InBook, InQueue, Matching, Nested, Used, Opposite
<1> QED
  BY <1>1, <1>2, <1>3, <1>4, <1>5, <1>6, <1>7 DEF Next, BookStep

(* The parts of the invariant that speak of containers, as one. *)
LEMMA IInvImpliesOnePlace ==
  ASSUME IInv
  PROVE  OnePlace
<1>1. ASSUME NEW S \in Places, NEW o \in S
      PROVE  \/ \E s \in Side : S = market[s]
             \/ \E s \in Side : S = stops[s]
             \/ \E i \in DOMAIN pending : S = pending[i]
             \/ \E i \in DOMAIN submitting : S = submitting[i]
  BY DEF Places, Side
<1>2. /\ \A s, t \in Side : s # t => market[s] \cap market[t] = {} /\ stops[s] \cap stops[t] = {}
      /\ \A s, t \in Side : market[s] \cap stops[t] = {}
  BY DEF IInv, Filed, Apart
<1>3. ASSUME NEW o \in Order, NEW S \in Places, NEW T \in Places, o \in S, o \in T
      PROVE  S = T
  <2>1. CASE (\E s \in Side : S = market[s]) \/ (\E s \in Side : S = stops[s])
    <3>1. InBook(o)
      BY <1>3, <2>1 DEF InBook
    <3>2. ~InQueue(o, pending) /\ ~InQueue(o, submitting)
      BY <3>1 DEF IInv, Apart
    <3>3. (\E s \in Side : T = market[s]) \/ (\E s \in Side : T = stops[s])
      BY <1>1, <1>3, <3>2 DEF InQueue
    <3> QED
      BY <1>2, <1>3, <2>1, <3>3
  <2>2. CASE \E i \in DOMAIN pending : S = pending[i]
    <3>1. InQueue(o, pending)
      BY <1>3, <2>2 DEF InQueue
    <3>2. ~InBook(o) /\ ~InQueue(o, submitting)
      BY <3>1 DEF IInv, Apart
    <3>3. \E i \in DOMAIN pending : T = pending[i]
      BY <1>1, <1>3, <3>2 DEF InQueue, InBook
    <3> QED
      BY <1>3, <2>2, <3>3 DEF IInv, Apart
  <2>3. CASE \E i \in DOMAIN submitting : S = submitting[i]
    <3>1. InQueue(o, submitting)
      BY <1>3, <2>3 DEF InQueue
    <3>2. ~InBook(o) /\ ~InQueue(o, pending)
      BY <3>1 DEF IInv, Apart
    <3>3. \E i \in DOMAIN submitting : T = submitting[i]
      BY <1>1, <1>3, <3>2 DEF InQueue, InBook
    <3> QED
      BY <1>3, <2>3, <3>3 DEF IInv, Apart
  <2> QED
    BY <1>1, <1>3, <2>1, <2>2, <2>3
<1>4. ASSUME Matching, ~Nested, m.taker \in UNION Places
      PROVE  FALSE
  <2>1. PICK S \in Places : m.taker \in S
    BY <1>4
  <2>2. InBook(m.taker) \/ InQueue(m.taker, pending) \/ InQueue(m.taker, submitting)
    BY <1>1, <2>1 DEF InBook, InQueue
  <2> QED
    BY <1>4, <2>2 DEF IInv, Inbound
<1> QED
  BY <1>3, <1>4 DEF OnePlace

(* The inductive invariant holds whatever the application and its          *)
(* listeners do.                                                           *)
THEOREM Invariance == Spec => []IInv
<1>1. Init => IInv
  BY InitIInv
<1>2. IInv /\ [Next]_vars => IInv'
  BY NextKeepsIInv
<1> QED
  BY <1>1, <1>2, PTL DEF Spec

(* Types are kept: in particular no tracker's quantity goes below 0, so    *)
(* the exceptions of order_tracker.h:90 and :101 are never thrown.          *)
THEOREM TypeCorrect == Spec => []TypeOK
<1>1. IInv => TypeOK
  BY DEF IInv
<1> QED
  BY <1>1, Invariance, PTL

(* The loops of match_order() and the callers of create_trade() never meet *)
(* a filled order in the book, nor one on the wrong side.                  *)
THEOREM RestingOrdersStayOpen == Spec => []RestingOrdersAreOpen
<1>1. IInv => RestingOrdersAreOpen
  BY DEF IInv
<1> QED
  BY <1>1, Invariance, PTL

(* A tracker is in one multimap or batch at a time, although the code      *)
(* copies trackers from one to the other and erases the original later.    *)
THEOREM OrdersHaveOnePlace == Spec => []OnePlace
<1>1. IInv => OnePlace
  BY IInvImpliesOnePlace
<1> QED
  BY <1>1, Invariance, PTL

-----------------------------------------------------------------------------
(* Prices: the invariant *)

(* Replaces change quantities only: 0 is the price that is left as it is.  *)
(* Otherwise an order object has an old price until it is told (section 5  *)
(* of the README), and trades are made at it.                              *)
SizesOnly == NewPrices \subseteq {0}

(* The order is filed under the price that its object shows. *)
Priced(o) == key[o] = order[o].price

(* The orders that a match may still trade with; those that it keeps for   *)
(* later were candidates.                                                  *)
Trying == pc \in {"propose", "settle", "close"}
Kept == m.deferred \cup {g \in {plan.goal} : Trying}

(* The taker is matched at the price of its object, against orders that    *)
(* are filed under theirs; those it keeps for later match.                 *)
MatchPriced ==
  Matching =>
    /\ m.price = order[m.taker].price
    /\ \A e \in m.todo : Priced(e)
    /\ \A e \in Kept : /\ e \in Order /\ Priced(e) /\ order[e].buy = Opposite(m.taker)
                       /\ Matches(order[e].buy, key[e], m.price)

(* find_on_market() would find every resting order. *)
KeysKept ==
  /\ \A s \in Side : \A o \in market[s] : Priced(o)
  /\ \A a \in aons : Priced(a)

(* What the callback of a replace says of the price is no news. *)
NoNews(c) == c.type = "replace" => c.order \in Used /\ c.price = order[c.order].price

(* No callback that is due has a new price. *)
ReplacesPriced ==
  /\ \A k \in DOMAIN working : NoNews(working[k])
  /\ \A k \in DOMAIN callbacks : NoNews(callbacks[k])

(* Two resting orders that match and did not trade. *)
Excused(b, a) == \/ AllOrNone(a) \/ AllOrNone(b)
                 \/ key[a] = MARKET_ORDER_PRICE /\ key[b] = MARKET_ORDER_PRICE

(* The book is not crossed, at any step. *)
NotCrossed ==
  \A b \in market[TRUE], a \in market[FALSE] :
    Matches(TRUE, key[b], key[a]) => Excused(b, a)

(* What a regular taker passed over it could not trade with. *)
PassedOver(x) == \/ AllOrNone(x)
                 \/ order[x].price = MARKET_ORDER_PRICE /\ m.price = MARKET_ORDER_PRICE

(* All that a regular taker has gone past was passed over. *)
TakerWasServed ==
  pc = "match" /\ ~AllOrNone(m.taker) /\ open[m.taker] > 0 =>
    \A x \in market[Opposite(m.taker)] \ m.todo : PassedOver(x)

(* Only match_aon_order() tries deferred orders. *)
OnlyAonTries == Trying => AllOrNone(m.taker)

(* The inductive invariant of prices. *)
PInv == /\ MatchPriced /\ KeysKept /\ ReplacesPriced
        /\ NotCrossed /\ TakerWasServed /\ OnlyAonTries

-----------------------------------------------------------------------------
(* Prices: the steps *)

(* The terms of the orders in the book do not change. *)
Unaltered(o) == /\ order'[o].price = order[o].price /\ order'[o].aon = order[o].aon
                /\ order'[o].buy = order[o].buy

(* A key and terms that stay agree as before. *)
LEMMA PricedStill ==
  ASSUME NEW o, Priced(o), Unaltered(o), key'[o] = key[o]
  PROVE  Priced(o)' /\ (AllOrNone(o)' <=> AllOrNone(o))
BY DEF Priced, Unaltered, AllOrNone

(* Orders leave the book: what rests is as little crossed as before. *)
LEMMA NotCrossedStill ==
  ASSUME IInv, NotCrossed,
         \A s \in Side : market'[s] \subseteq market[s],
         \A o \in Used : Unaltered(o),
         \A s \in Side : \A o \in market'[s] : key'[o] = key[o]
  PROVE  NotCrossed'
<1>1. TRUE \in Side /\ FALSE \in Side
  BY DEF Side
<1> SUFFICES ASSUME NEW b \in market'[TRUE], NEW a \in market'[FALSE],
                    Matches(TRUE, key'[b], key'[a])
             PROVE  Excused(b, a)'
  BY DEF NotCrossed
<1>2. b \in market[TRUE] /\ a \in market[FALSE] /\ key'[b] = key[b] /\ key'[a] = key[a]
  BY <1>1
<1>3. Unaltered(b) /\ Unaltered(a)
  BY <1>1, <1>2 DEF IInv, Filed
<1>4. Excused(b, a)
  BY <1>2 DEF NotCrossed
<1>5. (AllOrNone(b)' <=> AllOrNone(b)) /\ (AllOrNone(a)' <=> AllOrNone(a))
  BY <1>3 DEF AllOrNone, Unaltered
<1> QED
  BY <1>2, <1>4, <1>5 DEF Excused

(* No callback is news that does not change a price. *)
LEMMA NoNewsStill ==
  ASSUME NEW c, NoNews(c), \A o \in Used : o \in Used' /\ Unaltered(o)
  PROVE  NoNews(c)'
BY DEF NoNews, Unaltered

(* A step outside of a match: orders only leave the book. *)
LEMMA OutsidePrices ==
  ASSUME IInv, PInv, ~Matching',
         \A o \in Used : Unaltered(o),
         \A s \in Side : market'[s] \subseteq market[s],
         \A s \in Side : \A o \in market'[s] : key'[o] = key[o],
         aons' \subseteq aons, \A a \in aons' : key'[a] = key[a],
         ReplacesPriced'
  PROVE  PInv'
<1>1. MatchPriced'
  BY DEF MatchPriced
<1>2. \A a \in aons : a \in Used
  BY DEF IInv, Facing
<1>3. \A s \in Side : \A o \in market[s] : o \in Used
  BY DEF IInv, Filed
<1>4. KeysKept'
  <2>1. ASSUME NEW s \in Side, NEW o \in market'[s]
        PROVE  Priced(o)'
    <3>1. Priced(o) /\ Unaltered(o) /\ key'[o] = key[o]
      BY <1>3 DEF PInv, KeysKept
    <3> QED
      BY <3>1, PricedStill
  <2>2. ASSUME NEW a \in aons'
        PROVE  Priced(a)'
    <3>1. Priced(a) /\ Unaltered(a) /\ key'[a] = key[a]
      BY <1>2 DEF PInv, KeysKept
    <3> QED
      BY <3>1, PricedStill
  <2> QED
    BY <2>1, <2>2 DEF KeysKept
<1>5. NotCrossed'
  BY NotCrossedStill DEF PInv
<1>6. TakerWasServed' /\ OnlyAonTries'
  BY DEF TakerWasServed, OnlyAonTries, Trying, Matching
<1> QED
  BY <1>1, <1>4, <1>5, <1>6 DEF PInv

(* A match begins: nobody was passed over yet. *)
LEMMA StartPrices ==
  ASSUME IInv, PInv,
         NEW o \in Order, NEW price, NEW qty, NEW others, NEW s \in Side,
         StartMatch(o, price, qty, others),
         price = order'[o].price, s = Opposite(o)',
         others \subseteq market[s], market'[s] \subseteq others,
         \A p \in Used : Unaltered(p),
         \A t \in Side : market'[t] \subseteq market[t],
         key' = key, aons' \subseteq aons, ReplacesPriced'
  PROVE  PInv'
<1>1. /\ pc' = "match" /\ m'.taker = o /\ m'.price = price /\ m'.todo = others
      /\ m'.deferred = {} /\ Matching' /\ ~Trying'
  BY DEF StartMatch, Matching, Trying
<1>2. \A a \in aons : a \in Used /\ Priced(a)
  BY DEF IInv, Facing, PInv, KeysKept
<1>3. \A t \in Side : \A p \in market[t] : p \in Used /\ Priced(p)
  BY DEF IInv, Filed, PInv, KeysKept
<1>4. \A p : p \in Used /\ Priced(p) => Priced(p)'
  BY PricedStill
<1>5. KeysKept'
  BY <1>2, <1>3, <1>4 DEF KeysKept
<1>6. MatchPriced'
  <2>1. m'.price = order'[m'.taker].price
    BY <1>1
  <2>2. \A e \in m'.todo : Priced(e)'
    BY <1>1, <1>3, <1>4
  <2>3. Kept' = {}
    BY <1>1 DEF Kept
  <2> QED
    BY <2>1, <2>2, <2>3 DEF MatchPriced
<1>7. NotCrossed'
  BY NotCrossedStill DEF PInv
<1>8. TakerWasServed'
  <2>1. Opposite(m.taker)' = s
    BY <1>1 DEF Opposite
  <2>2. market'[s] \ m'.todo = {}
    BY <1>1
  <2> QED
    BY <2>1, <2>2 DEF TakerWasServed
<1>9. OnlyAonTries'
  BY <1>1 DEF OnlyAonTries
<1> QED
  BY <1>5, <1>6, <1>7, <1>8, <1>9 DEF PInv

(* A step of a match. *)
LEMMA MatchStepPrices ==
  ASSUME IInv, PInv, Matching, order' = order, key' = key,
         m'.taker = m.taker, m'.price = m.price, m'.todo \subseteq m.todo,
         \A e \in Kept' : \/ e \in Kept
                          \/ /\ e \in m.todo
                             /\ Matches(order[e].buy, key[e], m.price),
         \A s \in Side : market'[s] \subseteq market[s],
         \A a \in aons' : a \in aons \/ a \in m.todo,
         working' = working,
         \A k \in DOMAIN callbacks' : NoNews(callbacks'[k]),
         TakerWasServed', OnlyAonTries'
  PROVE  PInv'
<1>1. /\ \A o : Unaltered(o) /\ (Priced(o)' <=> Priced(o))
      /\ Used' = Used /\ Opposite(m.taker)' = Opposite(m.taker)
  BY DEF Unaltered, Priced, Used, Opposite
<1>2. \A e \in m.todo : e \in Order /\ Priced(e) /\ order[e].buy = Opposite(m.taker)
  BY DEF IInv, Facing, PInv, MatchPriced, Used
<1>3. \A e \in Kept : /\ e \in Order /\ Priced(e) /\ order[e].buy = Opposite(m.taker)
                      /\ Matches(order[e].buy, key[e], m.price)
  BY DEF PInv, MatchPriced
<1>4. m.price = order[m.taker].price
  BY DEF PInv, MatchPriced
<1>5. MatchPriced'
  <2>1. m'.price = order'[m'.taker].price
    BY <1>4
  <2>2. \A e \in m'.todo : Priced(e)'
    BY <1>1, <1>2
  <2>3. ASSUME NEW e \in Kept'
        PROVE  /\ e \in Order' /\ Priced(e)' /\ order'[e].buy = Opposite(m.taker)'
               /\ Matches(order'[e].buy, key'[e], m'.price)
    <3>1. /\ e \in Order /\ Priced(e) /\ order[e].buy = Opposite(m.taker)
          /\ Matches(order[e].buy, key[e], m.price)
      BY <1>2, <1>3
    <3> QED
      BY <1>1, <3>1 DEF Order
  <2> QED
    BY <2>1, <2>2, <2>3 DEF MatchPriced
<1>6. KeysKept'
  BY <1>1, <1>2 DEF PInv, KeysKept
<1>7. ReplacesPriced'
  BY <1>1 DEF PInv, ReplacesPriced, NoNews
<1>8. NotCrossed'
  BY <1>1, NotCrossedStill DEF PInv
<1> QED
  BY <1>5, <1>6, <1>7, <1>8 DEF PInv

(* What a trade does, as far as prices go. *)
LEMMA TradePrices ==
  ASSUME IInv, PInv, NEW cur \in Order, NEW q, NEW always, MaybeTrade(cur, q, always)
  PROVE  /\ order' = order /\ key' = key /\ working' = working
         /\ \A s \in Side : market'[s] \subseteq market[s]
         /\ \A k \in DOMAIN callbacks' : NoNews(callbacks'[k])
<1>1. order' = order /\ key' = key /\ working' = working
  BY DEF MaybeTrade
<1>2. /\ \A k \in DOMAIN callbacks : NoNews(callbacks[k])
      /\ callbacks \in Seq(Callback) /\ market \in [Side -> SUBSET Order]
  BY DEF PInv, ReplacesPriced, IInv, TypeOK
<1>3. CASE q > 0
  <2>1. /\ market' = IF always \/ open[cur] = q
                     THEN [market EXCEPT ![Opposite(m.taker)] = @ \ {cur}]
                     ELSE market
        /\ callbacks' = Append(callbacks, FillCb(m.taker, cur, q, CrossPrice(cur)))
    BY <1>3 DEF MaybeTrade, CreateTrade
  <2>2. \A s \in Side : market'[s] \subseteq market[s]
    BY <1>2, <2>1
  <2>3. PICK c : c = FillCb(m.taker, cur, q, CrossPrice(cur))
    OBVIOUS
  <2>4. NoNews(c)
    BY <2>3 DEF NoNews, FillCb
  <2>5. \A k \in DOMAIN callbacks' : callbacks'[k] = c \/ (k \in DOMAIN callbacks /\ callbacks'[k] = callbacks[k])
    BY <1>2, <2>1, <2>3
  <2> QED
    BY <1>1, <1>2, <2>2, <2>4, <2>5
<1>4. CASE ~(q > 0)
  <2>1. market' = market /\ callbacks' = callbacks
    BY <1>4 DEF MaybeTrade
  <2> QED
    BY <1>1, <1>2, <2>1
<1> QED
  BY <1>3, <1>4

(* An all-or-none order is passed over. *)
LEMMA DeferAonPrices ==
  ASSUME IInv, PInv, NEW e \in m.todo, DeferAon(e)
  PROVE  PInv'
<1>1. /\ pc = "match" /\ pc' = pc /\ Matching /\ AllOrNone(e)
      /\ m' = [m EXCEPT !.todo = @ \ {e}]
      /\ order' = order /\ key' = key /\ market' = market /\ open' = open
      /\ callbacks' = callbacks /\ working' = working /\ plan' = plan
      /\ aons' \subseteq aons \cup {e}
  BY DEF DeferAon, Candidate, TooBig, Matching, containers, trackers, queues
<1>2. m \in Match
  BY DEF IInv, TypeOK
<1>3. /\ m'.taker = m.taker /\ m'.price = m.price /\ m'.todo = m.todo \ {e}
      /\ m'.deferred = m.deferred
  BY <1>1, <1>2 DEF Match
<1>4. ~Trying /\ ~Trying' /\ Kept' = Kept
  BY <1>1, <1>3 DEF Kept, Trying
<1>5. TakerWasServed'
  <2>1. \A x : (AllOrNone(x)' <=> AllOrNone(x)) /\ (PassedOver(x)' <=> PassedOver(x))
    BY <1>1, <1>3 DEF AllOrNone, PassedOver
  <2>2. Opposite(m.taker)' = Opposite(m.taker) /\ (AllOrNone(m.taker)' <=> AllOrNone(m.taker))
    BY <1>1, <1>3 DEF Opposite, AllOrNone
  <2>3. PassedOver(e)
    BY <1>1 DEF PassedOver
  <2> QED
    BY <1>1, <1>3, <2>1, <2>2, <2>3 DEF PInv, TakerWasServed
<1>6. OnlyAonTries'
  BY <1>4 DEF OnlyAonTries
<1>7. \A k \in DOMAIN callbacks' : NoNews(callbacks'[k])
  BY <1>1 DEF PInv, ReplacesPriced, NoNews, Used
<1> QED
  BY <1>1, <1>3, <1>4, <1>5, <1>6, <1>7, MatchStepPrices

(* A regular taker trades with the order, or there is no price: then both  *)
(* are market orders.                                                      *)
LEMMA MatchRegularPrices ==
  ASSUME IInv, PInv, NEW e \in m.todo, MatchRegular(e)
  PROVE  PInv'
<1> DEFINE q == TradeQty(e, open[e])
           m1 == [m EXCEPT !.left = @ - q]
<1>1. /\ pc = "match" /\ pc' = pc /\ Matching /\ ~AllOrNone(m.taker)
      /\ MaybeTrade(e, q, AllOrNone(e)) /\ m' = [m1 EXCEPT !.todo = @ \ {e}]
      /\ aons' = aons /\ plan' = plan /\ Candidate(e)
  BY DEF MatchRegular, Candidate, Matching
<1>2. /\ e \in Order /\ order[e].buy = Opposite(m.taker) /\ m \in Match
      /\ open \in [Order -> Nat] /\ m.taker \in Order /\ order[e].buy \in Side
      /\ m.taker \in Used /\ market \in [Side -> SUBSET Order]
  BY <1>1, CandidateFacts, ContainerFacts DEF Used
<1>3. m1 \in [taker : Order, price : Price, left : {m.left - q}, todo : SUBSET Order,
              dqty : Nat, deferred : SUBSET Order]
      /\ m1.taker = m.taker /\ m1.price = m.price /\ m1.todo = m.todo /\ m1.deferred = m.deferred
  BY <1>2 DEF Match
<1>4. q = IF CrossPrice(e) = MARKET_ORDER_PRICE THEN 0
          ELSE Least(open[e], Least(open[m.taker], open[e]))
  BY DEF TradeQty
<1> HIDE DEF q, m1
<1>5. /\ m'.taker = m.taker /\ m'.price = m.price /\ m'.todo = m.todo \ {e}
      /\ m'.deferred = m.deferred
  BY <1>1, <1>3
<1>6. /\ order' = order /\ key' = key /\ working' = working
      /\ \A s \in Side : market'[s] \subseteq market[s]
      /\ \A k \in DOMAIN callbacks' : NoNews(callbacks'[k])
  BY <1>1, <1>2, TradePrices
<1>7. ~Trying /\ ~Trying' /\ Kept' = Kept
  BY <1>1, <1>5 DEF Kept, Trying
<1>8. TakerWasServed'
  <2>1. \A x : (AllOrNone(x)' <=> AllOrNone(x)) /\ (PassedOver(x)' <=> PassedOver(x))
    BY <1>5, <1>6 DEF AllOrNone, PassedOver
  <2>2. Opposite(m.taker)' = Opposite(m.taker)
    BY <1>5, <1>6 DEF Opposite
  <2>3. open[m.taker] > 0
    BY <1>1 DEF Candidate
  <2>4. \A x \in market[Opposite(m.taker)] \ m.todo : PassedOver(x)
    BY <1>1, <2>3 DEF PInv, TakerWasServed
  <2>5. ASSUME open'[m.taker] > 0, e \in market'[Opposite(m.taker)]
        PROVE  PassedOver(e)
    <3>1. e \in market[Opposite(m.taker)] /\ e # m.taker
      BY <1>2, <1>6, <2>5 DEF Opposite, Side
    <3>2. open[e] > 0
      BY <1>2, <3>1 DEF IInv, RestingOrdersAreOpen
    <3>3. CASE CrossPrice(e) = MARKET_ORDER_PRICE
      <4>1. order[e].price = MARKET_ORDER_PRICE /\ order[m.taker].price = MARKET_ORDER_PRICE
        BY <3>3 DEF CrossPrice
      <4>2. m.price = order[m.taker].price
        BY <1>1 DEF PInv, MatchPriced
      <4> QED
        BY <4>1, <4>2 DEF PassedOver
    <3>4. CASE CrossPrice(e) # MARKET_ORDER_PRICE
      <4>1. q > 0 /\ (q = open[e] \/ q = open[m.taker])
        BY <1>2, <1>4, <2>3, <3>2, <3>4 DEF Least
      <4>2. /\ open' = [open EXCEPT ![m.taker] = @ - q, ![e] = @ - q]
            /\ market' = IF AllOrNone(e) \/ open[e] = q
                         THEN [market EXCEPT ![Opposite(m.taker)] = @ \ {e}]
                         ELSE market
        BY <1>1, <4>1 DEF MaybeTrade, CreateTrade
      <4>3. open'[m.taker] = open[m.taker] - q
        BY <1>2, <3>1, <4>2
      <4>4. q = open[e]
        BY <1>2, <2>5, <4>1, <4>3
      <4>5. e \notin market'[Opposite(m.taker)]
        BY <1>2, <4>2, <4>4
      <4> QED
        BY <2>5, <4>5
    <3> QED
      BY <3>3, <3>4
  <2>6. ASSUME open'[m.taker] > 0, NEW x \in market'[Opposite(m.taker)] \ (m.todo \ {e})
        PROVE  PassedOver(x)
    BY <1>2, <1>6, <2>4, <2>5, <2>6
  <2> QED
    BY <1>1, <1>5, <2>1, <2>2, <2>6 DEF TakerWasServed
<1>9. OnlyAonTries'
  BY <1>7 DEF OnlyAonTries
<1> QED
  BY <1>1, <1>5, <1>6, <1>7, <1>8, <1>9, MatchStepPrices

(* All steps of the match of an all-or-none taker, which trades with a     *)
(* candidate together with others that were candidates before it.          *)
LEMMA AonStepPrices ==
  ASSUME IInv, PInv, Matching, Matching', AllOrNone(m.taker),
         order' = order, key' = key, working' = working, aons' = aons,
         m'.taker = m.taker, m'.price = m.price, m'.todo \subseteq m.todo,
         \A e \in Kept' : \/ e \in Kept
                          \/ /\ e \in m.todo
                             /\ Matches(order[e].buy, key[e], m.price),
         \A s \in Side : market'[s] \subseteq market[s],
         \A k \in DOMAIN callbacks' : NoNews(callbacks'[k])
  PROVE  PInv'
<1>1. AllOrNone(m.taker)'
  BY DEF AllOrNone
<1>2. TakerWasServed' /\ OnlyAonTries'
  BY <1>1 DEF TakerWasServed, OnlyAonTries
<1> QED
  BY <1>2, MatchStepPrices

(* An order is kept for an all-or-none order. *)
LEMMA DeferMatchPrices ==
  ASSUME IInv, PInv, NEW e \in m.todo, DeferMatch(e)
  PROVE  PInv'
<1> DEFINE m1 == [m EXCEPT !.dqty = @ + open[e]]
           m2 == [m1 EXCEPT !.deferred = @ \cup {e}]
<1>1. /\ pc = "match" /\ pc' = pc /\ Matching /\ Matching' /\ AllOrNone(m.taker)
      /\ Matches(order[e].buy, key[e], m.price)
      /\ order' = order /\ key' = key /\ market' = market
      /\ callbacks' = callbacks /\ working' = working /\ plan' = plan /\ aons' = aons
  BY DEF DeferMatch, Candidate, Matching, containers, queues
<1>2. m' = [m2 EXCEPT !.todo = @ \ {e}]
  BY DEF DeferMatch
<1>3. m \in Match
  BY DEF IInv, TypeOK
<1>4. m1.taker = m.taker /\ m1.price = m.price /\ m1.todo = m.todo /\ m1.deferred = m.deferred
      /\ DOMAIN m1 = DOMAIN m
  BY <1>3 DEF Match
<1> HIDE DEF m1
<1>5. m2.taker = m.taker /\ m2.price = m.price /\ m2.todo = m.todo
      /\ m2.deferred = m.deferred \cup {e} /\ DOMAIN m2 = DOMAIN m
  BY <1>3, <1>4 DEF Match
<1> HIDE DEF m2
<1>6. /\ m'.taker = m.taker /\ m'.price = m.price /\ m'.todo = m.todo \ {e}
      /\ m'.deferred = m.deferred \cup {e}
  BY <1>2, <1>3, <1>5 DEF Match
<1>7. Kept' = Kept \cup {e}
  BY <1>1, <1>6 DEF Kept, Trying
<1>8. \A k \in DOMAIN callbacks' : NoNews(callbacks'[k])
  BY <1>1 DEF PInv, ReplacesPriced
<1> QED
  BY <1>1, <1>6, <1>7, <1>8, AonStepPrices

(* The first order that may complete an all-or-none order is the goal. *)
LEMMA TryDeferredPrices ==
  ASSUME IInv, PInv, NEW e \in m.todo, TryDeferred(e)
  PROVE  PInv'
<1>1. /\ pc = "match" /\ pc' = "propose" /\ Matching /\ Matching' /\ AllOrNone(m.taker)
      /\ Matches(order[e].buy, key[e], m.price)
      /\ m' = [m EXCEPT !.todo = @ \ {e}]
      /\ order' = order /\ key' = key /\ market' = market
      /\ callbacks' = callbacks /\ working' = working /\ aons' = aons
  BY DEF TryDeferred, Candidate, Matching, containers, queues
<1>2. plan'.goal = e
  BY DEF TryDeferred, NoPlan
<1>3. m \in Match
  BY DEF IInv, TypeOK
<1>4. /\ m'.taker = m.taker /\ m'.price = m.price /\ m'.todo = m.todo \ {e}
      /\ m'.deferred = m.deferred
  BY <1>1, <1>3 DEF Match
<1>5. \A g \in Kept' : g \in Kept \/ g = e
  BY <1>2, <1>4 DEF Kept
<1>6. \A k \in DOMAIN callbacks' : NoNews(callbacks'[k])
  BY <1>1 DEF PInv, ReplacesPriced
<1> QED
  BY <1>1, <1>4, <1>5, <1>6, AonStepPrices

(* Proposing trades, giving up, and going on to trade. *)
LEMMA ProposePrices ==
  ASSUME IInv, PInv,
         (\E d \in plan.todo : Propose(d)) \/ ProposalEnds \/ SettleEnds
  PROVE  PInv'
<1>1. /\ Trying /\ Matching /\ Matching'
      /\ order' = order /\ key' = key /\ market' = market
      /\ callbacks' = callbacks /\ working' = working /\ m' = m /\ aons' = aons
  BY DEF Propose, ProposalEnds, SettleEnds, Trying, Matching, containers, queues
<1>2. plan'.goal = plan.goal
  <2>1. CASE \E d \in plan.todo : Propose(d)
    <3>1. PICK d \in plan.todo : Propose(d)
      BY <2>1
    <3> DEFINE p1 == [plan EXCEPT !.found = @ + Proposal(d)]
               p2 == [p1 EXCEPT !.fills[d] = Proposal(d)]
    <3>2. plan' = [p2 EXCEPT !.todo = @ \ {d}]
      BY <3>1 DEF Propose
    <3>3. plan \in Plan
      BY DEF IInv, TypeOK
    <3>4. p1.goal = plan.goal /\ DOMAIN p1 = DOMAIN plan
      BY <3>3 DEF Plan
    <3> HIDE DEF p1
    <3>5. p2.goal = plan.goal /\ DOMAIN p2 = DOMAIN plan
      BY <3>3, <3>4 DEF Plan
    <3> HIDE DEF p2
    <3> QED
      BY <3>2, <3>3, <3>5 DEF Plan
  <2>2. CASE ProposalEnds
    <3>1. plan \in Plan
      BY DEF IInv, TypeOK
    <3>2. plan' = plan \/ \E x : plan' = [plan EXCEPT !.todo = x]
      BY <2>2 DEF ProposalEnds
    <3> QED
      BY <3>1, <3>2 DEF Plan
  <2>3. CASE SettleEnds
    BY <2>3 DEF SettleEnds
  <2> QED
    BY <2>1, <2>2, <2>3
<1>3. AllOrNone(m.taker)
  BY <1>1 DEF PInv, OnlyAonTries
<1>4. Kept' \subseteq Kept
  BY <1>1, <1>2 DEF Kept
<1>5. \A k \in DOMAIN callbacks' : NoNews(callbacks'[k])
  BY <1>1 DEF PInv, ReplacesPriced
<1> QED
  BY <1>1, <1>3, <1>4, <1>5, AonStepPrices

(* A trade with an order that was kept. *)
LEMMA SettlePrices ==
  ASSUME IInv, PInv, NEW d \in plan.todo, Settle(d)
  PROVE  PInv'
<1> DEFINE q == TradeQty(d, plan.fills[d])
           n == IF Dangling(d) THEN 0 ELSE q
           p1 == [plan EXCEPT !.got = @ + q]
<1>1. /\ pc = "settle" /\ Trying /\ Matching /\ Matching'
      /\ MaybeTrade(d, n, FALSE) /\ m' = m /\ aons' = aons
      /\ plan' = [p1 EXCEPT !.todo = @ \ {d}]
  BY DEF Settle, Trying, Matching
<1>2. d \in Order /\ plan \in Plan
  BY DEF IInv, TypeOK, Plan
<1> HIDE DEF q, n
<1>3. p1.goal = plan.goal /\ DOMAIN p1 = DOMAIN plan
  BY <1>2 DEF Plan
<1> HIDE DEF p1
<1>4. plan'.goal = plan.goal
  BY <1>1, <1>2, <1>3 DEF Plan
<1>5. /\ order' = order /\ key' = key /\ working' = working
      /\ \A s \in Side : market'[s] \subseteq market[s]
      /\ \A k \in DOMAIN callbacks' : NoNews(callbacks'[k])
  BY <1>1, <1>2, TradePrices
<1>6. AllOrNone(m.taker)
  BY <1>1 DEF PInv, OnlyAonTries
<1>7. Kept' \subseteq Kept
  BY <1>1, <1>4 DEF Kept
<1> QED
  BY <1>1, <1>5, <1>6, <1>7, AonStepPrices

(* A trade with the goal, or none. *)
LEMMA ClosePrices ==
  ASSUME IInv, PInv, Close(plan.goal)
  PROVE  PInv'
<1> DEFINE e == plan.goal
           q == IF GoalReached(e) THEN TradeQty(e, open[e]) ELSE 0
<1>1. /\ pc = "close" /\ pc' = "match" /\ Trying /\ ~Trying' /\ Matching /\ Matching'
      /\ MaybeTrade(e, q, AllOrNone(e)) /\ aons' = aons
      /\ m' = IF GoalReached(e) THEN [m EXCEPT !.left = @ - plan.got - q] ELSE m
  BY DEF Close, Trying, Matching
<1>2. e \in Order /\ m \in Match
  BY DEF IInv, TypeOK, Plan
<1> HIDE DEF q
<1>3. m'.taker = m.taker /\ m'.price = m.price /\ m'.todo = m.todo /\ m'.deferred = m.deferred
  BY <1>1, <1>2 DEF Match
<1>4. /\ order' = order /\ key' = key /\ working' = working
      /\ \A s \in Side : market'[s] \subseteq market[s]
      /\ \A k \in DOMAIN callbacks' : NoNews(callbacks'[k])
  BY <1>1, <1>2, TradePrices
<1>5. AllOrNone(m.taker)
  BY <1>1 DEF PInv, OnlyAonTries
<1>6. Kept' \subseteq Kept
  BY <1>1, <1>3 DEF Kept
<1> QED
  BY <1>1, <1>3, <1>4, <1>5, <1>6, AonStepPrices

(* The book is not crossed when the rest of an order is filed: the orders  *)
(* of the other side that match it were visited and traded with.           *)
LEMMA RestPrices ==
  ASSUME IInv, PInv, Rest
  PROVE  PInv'
<1>1. PICK o, s : o = m.taker /\ s = ~Opposite(m.taker)
  OBVIOUS
<1>2. /\ pc = "match" /\ pc' = "deferred" /\ Matching /\ ~Nested /\ ~Matching' /\ MatchEnds
      /\ order' = order /\ callbacks' = callbacks /\ working' = working
  BY DEF Rest, MatchEnds, Matching, queues
<1>3. /\ o \in Order /\ o \in Used /\ order[o].buy = s /\ s \in Side /\ (~s) \in Side
      /\ market \in [Side -> SUBSET Order] /\ open[o] \in Nat /\ key \in [Order -> Price]
      /\ m.price \in Price /\ Opposite(o) = ~s
  <2>1. o \in Used /\ o \in Order
    BY <1>1, <1>2 DEF IInv, Facing, Used
  <2>2. order[o].buy \in Side /\ market \in [Side -> SUBSET Order] /\ open[o] \in Nat
    BY <2>1, ContainerFacts
  <2>3. key \in [Order -> Price] /\ m.price \in Price
    BY DEF IInv, TypeOK, Match
  <2>4. s = order[o].buy /\ Opposite(o) = ~s /\ (~s) \in Side
    BY <1>1, <2>2 DEF Opposite, Side
  <2> QED
    BY <2>1, <2>2, <2>3, <2>4
<1>4. \A t \in Side : o \notin market[t]
  BY <1>1, <1>2 DEF IInv, Inbound, InBook
<1>5. /\ \A a \in aons : a \in Order /\ order[a].buy = ~s
      /\ o \notin aons
  <2>1. o = call.order
    BY <1>1, <1>2 DEF Nested
  <2>2. \A a \in aons : a \in Used /\ order[a].buy = ~s
    BY <1>2, <1>3, <2>1 DEF IInv, Facing, InAddOrder
  <2> QED
    BY <1>3, <2>2 DEF Used, Side
<1>6. /\ \A p : Unaltered(p) /\ (AllOrNone(p)' <=> AllOrNone(p))
      /\ Used' = Used
  BY <1>2 DEF Unaltered, AllOrNone, Used
<1>7. MatchPriced' /\ TakerWasServed' /\ OnlyAonTries'
  BY <1>2 DEF MatchPriced, TakerWasServed, OnlyAonTries, Trying
<1>8. ReplacesPriced'
  BY <1>2, <1>6 DEF PInv, ReplacesPriced, NoNews
<1>9. CASE ~Rests(o)
  <2>1. aons' = {} /\ market' = market /\ key' = key
    BY <1>1, <1>9 DEF Rest
  <2> QED
    BY <1>2, <1>6, <1>8, <2>1, OutsidePrices
<1>10. CASE Rests(o)
  <2>1. /\ market' = [market EXCEPT ![s] = @ \cup {o}] /\ key' = [key EXCEPT ![o] = m.price]
        /\ aons' = aons /\ open[o] > 0
    BY <1>1, <1>10 DEF Rest, File, Rests
  <2>2. /\ key'[o] = m.price /\ market'[s] = market[s] \cup {o} /\ market'[~s] = market[~s]
        /\ \A p \in Order : p # o => key'[p] = key[p]
        /\ \A t \in Side : market'[t] \subseteq market[t] \cup {o}
    BY <1>3, <2>1 DEF Side
  <2>3. \A t \in Side : \A x \in market[t] : x \in Order /\ x # o /\ Priced(x)
    BY <1>3, <1>4 DEF PInv, KeysKept
  <2>4. KeysKept'
    <3>1. Priced(o)'
      BY <1>1, <1>2, <2>2 DEF PInv, MatchPriced, Priced
    <3>2. ASSUME NEW x \in Order, x # o, Priced(x)
          PROVE  Priced(x)'
      BY <1>2, <2>2, <3>2 DEF Priced
    <3>3. \A a \in aons' : Priced(a)'
      BY <1>5, <2>1, <3>2 DEF PInv, KeysKept
    <3>4. \A t \in Side : \A x \in market'[t] : Priced(x)'
      BY <2>2, <2>3, <3>1, <3>2
    <3> QED
      BY <3>3, <3>4 DEF KeysKept
  <2>5. ASSUME NEW x \in market[~s]
        PROVE  \/ AllOrNone(x) \/ AllOrNone(o)
               \/ key[x] = MARKET_ORDER_PRICE /\ m.price = MARKET_ORDER_PRICE
               \/ ~Matches(~s, key[x], m.price)
    <3>1. CASE x \notin m.todo
      <4>1. AllOrNone(o) \/ PassedOver(x)
        BY <1>1, <1>2, <1>3, <2>1, <3>1 DEF PInv, TakerWasServed
      <4> QED
        BY <1>3, <2>3, <4>1 DEF PassedOver, Priced
    <3>2. CASE x \in m.todo
      <4>1. PICK e \in m.todo : First(e, m.todo) /\ ~Matches(order[e].buy, key[e], m.price)
        BY <1>1, <1>2, <2>1, <3>2 DEF MatchEnds
      <4>2. e \in Order /\ order[e].buy = ~s /\ x \in Order /\ key[e] \in Price /\ key[x] \in Price
        BY <1>1, <1>2, <1>3, <2>3 DEF IInv, Facing, Used
      <4>3. CASE x = e
        BY <4>1, <4>2, <4>3
      <4>4. CASE x # e
        <5>1. Less(~s, key[e], key[x]) \/ key[e] = key[x]
          BY <3>2, <4>1, <4>2, <4>4 DEF First, Before
        <5>2. ~Matches(~s, key[e], m.price)
          BY <4>1, <4>2
        <5>3. (~s) \in BOOLEAN
          BY <1>3 DEF Side
        <5>4. CASE key[e] = key[x]
          BY <5>2, <5>4
        <5>5. CASE Less(~s, key[e], key[x])
          BY <1>3, <4>2, <5>2, <5>3, <5>5, EasierKeysMatchMore
        <5> QED
          BY <5>1, <5>4, <5>5
      <4> QED
        BY <4>3, <4>4
    <3> QED
      BY <3>1, <3>2
  <2>6. NotCrossed'
    <3> SUFFICES ASSUME NEW b \in market'[TRUE], NEW a \in market'[FALSE],
                        Matches(TRUE, key'[b], key'[a])
                 PROVE  Excused(b, a)'
      BY DEF NotCrossed
    <3>1. CASE b # o /\ a # o
      <4>1. b \in market[TRUE] /\ a \in market[FALSE]
        BY <2>2, <3>1 DEF Side
      <4>2. key'[b] = key[b] /\ key'[a] = key[a]
        BY <2>2, <2>3, <4>1 DEF Side
      <4>3. Excused(b, a)
        BY <4>1, <4>2 DEF PInv, NotCrossed
      <4> QED
        BY <1>6, <4>2, <4>3 DEF Excused
    <3>2. CASE b = o
      <4>1. s = TRUE
        <5>1. o \notin market[TRUE]
          BY <1>4 DEF Side
        <5> QED
          BY <1>3, <2>1, <3>2, <5>1
      <4>2. a \in market[~s] /\ key'[a] = key[a] /\ key[a] \in Price
        BY <1>3, <2>2, <2>3, <4>1
      <4>3. Matches(TRUE, m.price, key[a])
        BY <2>2, <3>2, <4>2
      <4>4. Matches(FALSE, key[a], m.price)
        BY <1>3, <4>2, <4>3 DEF Matches
      <4>5. \/ AllOrNone(a) \/ AllOrNone(o)
            \/ key[a] = MARKET_ORDER_PRICE /\ m.price = MARKET_ORDER_PRICE
        BY <2>5, <4>1, <4>2, <4>4
      <4> QED
        BY <1>6, <2>2, <3>2, <4>2, <4>5 DEF Excused
    <3>3. CASE a = o
      <4>1. s = FALSE
        <5>1. o \notin market[FALSE]
          BY <1>4 DEF Side
        <5> QED
          BY <1>3, <2>1, <3>3, <5>1 DEF Side
      <4>2. b \in market[~s] /\ key'[b] = key[b] /\ key[b] \in Price
        BY <1>3, <2>2, <2>3, <4>1
      <4>3. Matches(TRUE, key[b], m.price)
        BY <2>2, <3>3, <4>2
      <4>4. \/ AllOrNone(b) \/ AllOrNone(o)
            \/ key[b] = MARKET_ORDER_PRICE /\ m.price = MARKET_ORDER_PRICE
        BY <2>5, <4>1, <4>2, <4>3
      <4> QED
        BY <1>6, <2>2, <3>3, <4>2, <4>4 DEF Excused
    <3> QED
      BY <3>1, <3>2, <3>3
  <2> QED
    BY <1>7, <1>8, <2>4, <2>6 DEF PInv
<1> QED
  BY <1>9, <1>10

(* A deferred order is tried again, at the price it is filed under. *)
LEMMA CheckDeferredPrices ==
  ASSUME IInv, PInv, NEW a \in aons, CheckDeferred(a)
  PROVE  PInv'
<1>1. /\ pc = "deferred" /\ StartMatch(a, key[a], open[a], market[Opposite(a)])
      /\ aons' = aons \ {a} /\ order' = order /\ key' = key /\ market' = market
      /\ callbacks' = callbacks /\ working' = working
  BY DEF CheckDeferred, containers, queues
<1>2. a \in Order /\ Opposite(a) \in Side /\ Opposite(a)' = Opposite(a)
  BY <1>1, ContainerFacts DEF IInv, TypeOK, Opposite, Side
<1>3. key[a] = order'[a].price
  BY <1>1 DEF PInv, KeysKept, Priced
<1>4. \A p : Unaltered(p) /\ Used' = Used
  BY <1>1 DEF Unaltered, Used
<1>5. ReplacesPriced'
  BY <1>1, <1>4 DEF PInv, ReplacesPriced, NoNews
<1>6. PICK s \in Side : s = Opposite(a)
  BY <1>2
<1> QED
  BY <1>1, <1>2, <1>3, <1>4, <1>5, <1>6, StartPrices

(* The other steps inside of a call. *)
LEMMA NestedEndsPrices ==
  ASSUME IInv, PInv, NestedEnds
  PROVE  PInv'
<1>1. /\ pc' = "deferred" /\ ~Matching' /\ order' = order /\ key' = key /\ aons' = aons
      /\ market' = IF open[m.taker] = 0
                   THEN [market EXCEPT ![~Opposite(m.taker)] = @ \ {m.taker}]
                   ELSE market
      /\ callbacks' = callbacks /\ working' = working
  BY DEF NestedEnds, Matching, queues
<1>2. \A s \in Side : market'[s] \subseteq market[s]
  BY <1>1, ContainerFacts
<1>3. \A p : Unaltered(p) /\ Used' = Used
  BY <1>1 DEF Unaltered, Used
<1>4. ReplacesPriced'
  BY <1>1, <1>3 DEF PInv, ReplacesPriced, NoNews
<1> QED
  BY <1>1, <1>2, <1>3, <1>4, OutsidePrices

(* add() completes its accept callback. *)
LEMMA SubmittedPrices ==
  ASSUME IInv, PInv, Submitted
  PROVE  PInv'
<1>1. /\ pc' = "pending" /\ ~Matching' /\ order' = order /\ key' = key /\ market' = market
      /\ aons' = {} /\ working' = working
      /\ callbacks' = IF call.kind = "add"
                      THEN Accepted(call.order) \o IocCancel(call.order) ELSE callbacks
  BY DEF Submitted, Reset, Matching, containers
<1>2. \A p : Unaltered(p) /\ Used' = Used
  BY <1>1 DEF Unaltered, Used
<1>3. /\ \A k \in DOMAIN callbacks : NoNews(callbacks[k])
      /\ callbacks \in Seq(Callback) /\ call.order \in Order
  BY DEF PInv, ReplacesPriced, IInv, TypeOK, Call
<1>4. \A k \in DOMAIN callbacks' : NoNews(callbacks'[k])
  <2>1. CASE call.kind = "add"
    <3>1. PICK q : q = Accepted(call.order)
      OBVIOUS
    <3>2. PICK r : r = IocCancel(call.order)
      OBVIOUS
    <3>3. /\ DOMAIN q = DOMAIN callbacks
          /\ \A k \in DOMAIN q : /\ q[k].type = callbacks[k].type
                                 /\ q[k].order = callbacks[k].order
                                 /\ q[k].price = callbacks[k].price
      <4>1. PICK x : x = order[call.order].qty - call.unfilled
        OBVIOUS
      <4>2. q = [callbacks EXCEPT ![call.accept].qty = x]
        BY <3>1, <4>1 DEF Accepted
      <4>3. DOMAIN q = DOMAIN callbacks
        BY <4>2
      <4>4. ASSUME NEW k \in DOMAIN callbacks
            PROVE  /\ q[k].type = callbacks[k].type /\ q[k].order = callbacks[k].order
                   /\ q[k].price = callbacks[k].price
        <5>1. callbacks[k] \in Callback
          BY <1>3
        <5>2. q[k] = callbacks[k] \/ q[k] = [callbacks[k] EXCEPT !.qty = x]
          BY <4>2
        <5> QED
          BY <5>1, <5>2 DEF Callback
      <4> QED
        BY <4>3, <4>4
    <3>4. r \in Seq(Callback) /\ \A k \in DOMAIN r : NoNews(r[k])
      <4>1. PICK c \in Callback : c = Cb("cancel", call.order)
        BY <1>3, PlainCb
      <4>2. NoNews(c)
        BY <4>1 DEF NoNews, Cb
      <4>3. CASE r = <<>>
        BY <4>3
      <4>4. CASE r = <<c>>
        <5>1. r \in Seq(Callback) /\ DOMAIN r = {1} /\ r[1] = c
          BY <4>4
        <5> QED
          BY <4>2, <5>1
      <4> QED
        BY <3>2, <4>1, <4>3, <4>4 DEF IocCancel
    <3>5. \A k \in DOMAIN q : NoNews(q[k])
      BY <1>3, <3>3 DEF NoNews
    <3>6. q \in Seq(Callback)
      BY <2>1, <3>1, AcceptedType
    <3>7. callbacks' = q \o r
      BY <1>1, <2>1, <3>1, <3>2
    <3>8. ASSUME NEW k \in DOMAIN (q \o r)
          PROVE  NoNews((q \o r)[k])
      <4>1. \/ k \in DOMAIN q /\ (q \o r)[k] = q[k]
            \/ k - Len(q) \in DOMAIN r /\ (q \o r)[k] = r[k - Len(q)]
        BY <3>4, <3>6
      <4> QED
        BY <3>4, <3>5, <4>1
    <3> QED
      BY <3>7, <3>8
  <2>2. CASE call.kind # "add"
    BY <1>1, <1>3, <2>2
  <2> QED
    BY <2>1, <2>2
<1>5. ReplacesPriced'
  BY <1>1, <1>2, <1>4 DEF PInv, ReplacesPriced, NoNews
<1> QED
  BY <1>1, <1>2, <1>5, OutsidePrices

(* The batches of triggered stops move. *)
LEMMA TakePendingPrices ==
  ASSUME IInv, PInv, TakePending
  PROVE  PInv'
<1>1. /\ pc' = "pending" /\ ~Matching' /\ order' = order /\ key' = key /\ market' = market
      /\ aons' = aons /\ working' = working /\ callbacks' = callbacks
  BY DEF TakePending, Matching, containers, queues, locals
<1>2. \A p : Unaltered(p) /\ Used' = Used
  BY <1>1 DEF Unaltered, Used
<1>3. ReplacesPriced'
  BY <1>1, <1>2 DEF PInv, ReplacesPriced, NoNews
<1> QED
  BY <1>1, <1>2, <1>3, OutsidePrices

(* A stop that was triggered is matched at the price of the order, not at  *)
(* the stop price it was filed under.                                      *)
LEMMA SubmitPendingPrices ==
  ASSUME IInv, PInv, NEW o \in Order, SubmitPending(o)
  PROVE  PInv'
<1>1. /\ StartMatch(o, order[o].price, open[o], market[Opposite(o)])
      /\ aons' = aons /\ order' = order /\ key' = key /\ market' = market
      /\ callbacks' = callbacks /\ working' = working
  BY DEF SubmitPending, containers, queues
<1>2. Opposite(o) \in Side /\ Opposite(o)' = Opposite(o)
  BY <1>1, ContainerFacts DEF Opposite, Side
<1>3. \A p : Unaltered(p) /\ Used' = Used
  BY <1>1 DEF Unaltered, Used
<1>4. ReplacesPriced'
  BY <1>1, <1>3 DEF PInv, ReplacesPriced, NoNews
<1>5. PICK s \in Side : s = Opposite(o)
  BY <1>2
<1> QED
  BY <1>1, <1>2, <1>3, <1>4, <1>5, StartPrices

(* A call returns: callbacks that are no news are added to those due. *)
LEMMA PushedPrices ==
  ASSUME IInv, PInv, NEW pushed \in Seq(Callback), CallbackNow(pushed),
         \A k \in DOMAIN pushed : NoNews(pushed[k]),
         \A o \in Used : o \in Used' /\ Unaltered(o)
  PROVE  ReplacesPriced' /\ aons' = {} /\ ~Matching'
<1>1. /\ \A k \in DOMAIN callbacks : NoNews(callbacks[k])
      /\ \A k \in DOMAIN working : NoNews(working[k])
      /\ callbacks \in Seq(Callback)
  BY DEF PInv, ReplacesPriced, IInv, TypeOK
<1>2. \A k \in DOMAIN (callbacks \o pushed) : NoNews((callbacks \o pushed)[k])
  <2> SUFFICES ASSUME NEW k \in DOMAIN (callbacks \o pushed)
               PROVE  NoNews((callbacks \o pushed)[k])
    OBVIOUS
  <2>1. \/ k \in DOMAIN callbacks /\ (callbacks \o pushed)[k] = callbacks[k]
        \/ /\ k - Len(callbacks) \in DOMAIN pushed
           /\ (callbacks \o pushed)[k] = pushed[k - Len(callbacks)]
    BY <1>1
  <2> QED
    BY <1>1, <2>1
<1>3. /\ \A k \in DOMAIN callbacks' : NoNews(callbacks'[k])
      /\ \A k \in DOMAIN working' : NoNews(working'[k])
  <2>1. CASE handling
    <3>1. callbacks' = callbacks \o pushed /\ working' = working
      BY <2>1 DEF CallbackNow
    <3> QED
      BY <1>1, <1>2, <3>1
  <2>2. CASE ~handling
    <3>1. working' = callbacks \o pushed /\ callbacks' = <<>>
      BY <2>2 DEF CallbackNow
    <3> QED
      BY <1>2, <3>1
  <2> QED
    BY <2>1, <2>2
<1>4. \A c : NoNews(c) => NoNews(c)'
  BY NoNewsStill
<1>5. ReplacesPriced'
  BY <1>3, <1>4 DEF ReplacesPriced
<1> QED
  BY <1>5 DEF CallbackNow, Reset, Matching

(* A call is over. *)
LEMMA FinishPrices ==
  ASSUME IInv, PInv, Finish
  PROVE  PInv'
<1>1. /\ order' = order /\ key' = key /\ market' = market
      /\ CallbackNow(<<Cb("book_update", 1)>>)
  BY DEF Finish, containers
<1>2. \A p : Unaltered(p) /\ Used' = Used
  BY <1>1 DEF Unaltered, Used
<1>3. PICK c \in Callback : c = Cb("book_update", 1)
  <2>1. 1 \in Order
    BY DEF Order, ConstantsAssumption
  <2> QED
    BY <2>1, PlainCb
<1>4. NoNews(c) /\ <<c>> \in Seq(Callback) /\ \A k \in DOMAIN <<c>> : <<c>>[k] = c
  BY <1>3 DEF NoNews, Cb
<1>5. ReplacesPriced' /\ aons' = {} /\ ~Matching'
  BY <1>1, <1>2, <1>3, <1>4, PushedPrices
<1> QED
  BY <1>1, <1>2, <1>5, OutsidePrices

-----------------------------------------------------------------------------
(* Prices: the calls of the application and the delivery *)

(* A new order changes the terms of no other. *)
LEMMA NewTerms ==
  ASSUME IInv, NEW o \in Order, NEW t, Used = 1..(o - 1),
         order' = [order EXCEPT ![o] = NewOrder(o, t)]
  PROVE  /\ o \notin Used /\ order'[o] = NewOrder(o, t)
         /\ \A p \in Used : p # o /\ p \in Used' /\ Unaltered(p)
<1>1. order \in [Order -> SimpleOrder] /\ Used \subseteq Order
  BY DEF IInv, TypeOK, Used
<1>2. o \in Nat
  BY ConstantsAssumption DEF Order, ConstantsAssumption
<1>3. o \notin Used
  BY <1>2
<1>4. order'[o] = NewOrder(o, t) /\ \A p \in Order : p # o => order'[p] = order[p]
  BY <1>1
<1> QED
  BY <1>1, <1>3, <1>4 DEF Used, Unaltered

(* A new order is matched at its price. *)
LEMMA AddPrices ==
  ASSUME IInv, PInv, NEW o \in Order, NEW t \in Menu, Add(o, t)
  PROVE  PInv'
<1>1. /\ Used = 1..(o - 1) /\ ~Matching /\ aons = {}
      /\ order' = [order EXCEPT ![o] = NewOrder(o, t)]
  BY DEF Add, Ready, Matching, IInv, Facing, InAddOrder
<1>2. /\ o \notin Used /\ order'[o] = NewOrder(o, t)
      /\ \A p \in Used : p # o /\ p \in Used' /\ Unaltered(p)
  BY <1>1, NewTerms
<1>3. t.buy \in Side /\ market \in [Side -> SUBSET Order]
  BY ContainerFacts, ConstantsAssumption DEF ConstantsAssumption, Request, Side
<1>4. ASSUME callbacks' = Append(callbacks, Cb("accept", o)), working' = working
      PROVE  ReplacesPriced'
  <2>1. /\ \A k \in DOMAIN callbacks : NoNews(callbacks[k])
        /\ \A k \in DOMAIN working : NoNews(working[k])
        /\ callbacks \in Seq(Callback)
    BY DEF PInv, ReplacesPriced, IInv, TypeOK
  <2>2. PICK c \in Callback : c = Cb("accept", o)
    BY PlainCb
  <2>3. NoNews(c)
    BY <2>2 DEF NoNews, Cb
  <2>4. \A k \in DOMAIN callbacks' : callbacks'[k] = c \/ (k \in DOMAIN callbacks /\ callbacks'[k] = callbacks[k])
    BY <1>4, <2>1, <2>2
  <2>5. \A x : NoNews(x) => NoNews(x)'
    BY <1>2, NoNewsStill
  <2>6. \A k \in DOMAIN callbacks' : NoNews(callbacks'[k])
    BY <2>1, <2>3, <2>4
  <2> QED
    BY <1>4, <2>1, <2>5, <2>6 DEF ReplacesPriced
<1>5. CASE t.qty = 0
  <2>1. CallbackNow(<<Cb("reject", o)>>) /\ market' = market /\ key' = key
    BY <1>5 DEF Add, containers
  <2>2. PICK c \in Callback : c = Cb("reject", o)
    BY PlainCb
  <2>3. NoNews(c) /\ <<c>> \in Seq(Callback) /\ \A k \in DOMAIN <<c>> : <<c>>[k] = c
    BY <2>2 DEF NoNews, Cb
  <2>4. ReplacesPriced' /\ aons' = {} /\ ~Matching'
    BY <1>2, <2>1, <2>2, <2>3, PushedPrices
  <2> QED
    BY <1>2, <2>1, <2>4, OutsidePrices
<1>6. CASE t.qty # 0 /\ Held(t)
  <2>1. /\ market' = market /\ aons' = aons /\ working' = working
        /\ callbacks' = Append(callbacks, Cb("accept", o))
        /\ key' = [key EXCEPT ![o] = t.stop] /\ pc' = "pending"
    BY <1>6 DEF Add, File
  <2>2. ReplacesPriced' /\ ~Matching'
    BY <1>4, <2>1 DEF Matching
  <2>3. \A s \in Side : \A p \in market[s] : p \in Used /\ p \in Order
    BY DEF IInv, Filed, Used
  <2>4. \A s \in Side : \A p \in market'[s] : key'[p] = key[p]
    BY <1>2, <2>1, <2>3 DEF IInv, TypeOK
  <2> QED
    BY <1>1, <1>2, <2>1, <2>2, <2>4, OutsidePrices
<1>7. CASE t.qty # 0 /\ ~Held(t)
  <2>1. /\ StartMatch(o, t.price, t.qty, market[~t.buy])
        /\ market' = market /\ aons' = aons /\ working' = working /\ key' = key
        /\ callbacks' = Append(callbacks, Cb("accept", o))
    BY <1>7 DEF Add
  <2>2. ReplacesPriced'
    BY <1>4, <2>1
  <2>3. t.price = order'[o].price /\ Opposite(o)' = ~t.buy
    BY <1>2 DEF NewOrder, Opposite
  <2>4. PICK s \in Side : s = ~t.buy
    BY <1>3 DEF Side
  <2> QED
    BY <1>2, <1>3, <2>1, <2>2, <2>3, <2>4, StartPrices
<1> QED
  BY <1>5, <1>6, <1>7

(* A cancelled order leaves the book. *)
LEMMA CancelPrices ==
  ASSUME IInv, PInv, NEW o \in Order, Cancel(o)
  PROVE  PInv'
<1>1. order' = order /\ key' = key
  BY DEF Cancel
<1>2. \A p : Unaltered(p) /\ Used' = Used
  BY <1>1 DEF Unaltered, Used
<1>3. CASE OnMarket(o)
  <2>1. PICK d : d = [Cb("cancel", o) EXCEPT !.qty = open[o]]
    OBVIOUS
  <2>2. PICK c \in Callback, b \in Callback : c = Cb("cancel", o) /\ b = Cb("book_update", 1)
    <3>1. 1 \in Order
      BY DEF Order, ConstantsAssumption
    <3> QED
      BY <3>1, PlainCb
  <2>3. d \in Callback /\ d.type = "cancel" /\ b.type = "book_update"
    <3>1. d = [c EXCEPT !.qty = open[o]] /\ open[o] \in Quantity /\ c.type = "cancel"
      BY <2>1, <2>2 DEF IInv, TypeOK, Cb
    <3> QED
      BY <2>2, <3>1 DEF Cb, Callback
  <2>4. CallbackNow(<<d, b>>) /\ market' = [market EXCEPT ![order[o].buy] = @ \ {o}]
    BY <1>3, <2>1, <2>2 DEF Cancel
  <2>5. <<d, b>> \in Seq(Callback) /\ \A k \in DOMAIN <<d, b>> : <<d, b>>[k] \in {d, b}
    BY <2>2, <2>3
  <2>6. \A k \in DOMAIN <<d, b>> : NoNews(<<d, b>>[k])
    BY <2>3, <2>5 DEF NoNews
  <2>7. ReplacesPriced' /\ aons' = {} /\ ~Matching'
    BY <1>2, <2>4, <2>5, <2>6, PushedPrices
  <2>8. \A s \in Side : market'[s] \subseteq market[s]
    BY <2>4, ContainerFacts
  <2> QED
    BY <1>1, <1>2, <2>7, <2>8, OutsidePrices
<1>4. CASE ~OnMarket(o)
  <2>1. CallbackNow(<<Cb("cancel_reject", o)>>) /\ market' = market
    BY <1>4 DEF Cancel
  <2>2. PICK c \in Callback : c = Cb("cancel_reject", o)
    BY PlainCb
  <2>3. NoNews(c) /\ <<c>> \in Seq(Callback) /\ \A k \in DOMAIN <<c>> : <<c>>[k] = c
    BY <2>2 DEF NoNews, Cb
  <2>4. ReplacesPriced' /\ aons' = {} /\ ~Matching'
    BY <1>2, <2>1, <2>2, <2>3, PushedPrices
  <2> QED
    BY <1>1, <1>2, <2>1, <2>4, OutsidePrices
<1> QED
  BY <1>3, <1>4

(* A replace that leaves the price as it is, is matched at that price, and *)
(* its callback has it.                                                    *)
LEMMA ReplacePrices ==
  ASSUME SizesOnly, IInv, PInv, NEW o \in Order, NEW delta \in Deltas, NEW newPrice \in NewPrices,
         Replace(o, delta, newPrice)
  PROVE  PInv'
<1>1. /\ order' = order /\ key' = key /\ o \in Used /\ ~Matching /\ aons = {}
  BY DEF Replace, CanCall, Ready, Matching, IInv, Facing, InAddOrder
<1>2. \A p : Unaltered(p) /\ Used' = Used
  BY <1>1 DEF Unaltered, Used
<1>3. PICK price : price = order[o].price
  OBVIOUS
<1>4. PICK change \in Int : change = AllowedDelta(o, delta)
  BY DeltaFacts
<1>5. ReplacedPrice(o, newPrice) = price
  BY <1>3 DEF SizesOnly, ReplacedPrice
<1>6. price \in Price /\ order[o].buy \in Side /\ market \in [Side -> SUBSET Order]
  BY <1>3, ContainerFacts DEF IInv, TypeOK, SimpleOrder
<1>7. CASE ~OnMarket(o)
  <2>1. CallbackNow(<<Cb("replace_reject", o)>>) /\ market' = market
    BY <1>7 DEF Replace
  <2>2. PICK c \in Callback : c = Cb("replace_reject", o)
    BY PlainCb
  <2>3. NoNews(c) /\ <<c>> \in Seq(Callback) /\ \A k \in DOMAIN <<c>> : <<c>>[k] = c
    BY <2>2 DEF NoNews, Cb
  <2>4. ReplacesPriced' /\ aons' = {} /\ ~Matching'
    BY <1>2, <2>1, <2>2, <2>3, PushedPrices
  <2> QED
    BY <1>1, <1>2, <2>1, <2>4, OutsidePrices
<1>8. CASE OnMarket(o)
  <2>1. ReplaceFound(o, change, price)
    BY <1>4, <1>5, <1>8 DEF Replace
  <2>2. PICK c \in Callback, d \in Callback : c = ReplaceCb(o, change, price) /\ d = Cb("cancel", o)
    BY <1>6, ReplaceCbType, PlainCb DEF IInv
  <2>3. NoNews(c) /\ NoNews(d)
    BY <1>1, <1>3, <2>2 DEF NoNews, ReplaceCb, Cb
  <2>4. /\ market' = [market EXCEPT ![order[o].buy] = @ \ {o}]
        /\ working' = working /\ aons' = aons
    BY <2>1 DEF ReplaceFound
  <2>5. /\ \A s \in Side : market'[s] \subseteq market[s]
        /\ \A s \in Side : s # order[o].buy => market'[s] = market[s]
    BY <1>6, <2>4
  <2>6. /\ \A k \in DOMAIN callbacks : NoNews(callbacks[k])
        /\ \A k \in DOMAIN working : NoNews(working[k])
        /\ callbacks \in Seq(Callback)
    BY DEF PInv, ReplacesPriced, IInv, TypeOK
  <2>7. ASSUME \A k \in DOMAIN callbacks' : \/ callbacks'[k] \in {c, d}
                                            \/ k \in DOMAIN callbacks /\ callbacks'[k] = callbacks[k]
        PROVE  ReplacesPriced'
    <3>1. \A x : NoNews(x) => NoNews(x)'
      BY <1>2, NoNewsStill
    <3>2. \A k \in DOMAIN callbacks' : NoNews(callbacks'[k])
      BY <2>3, <2>6, <2>7
    <3> QED
      BY <2>4, <2>6, <3>1, <3>2 DEF ReplacesPriced
  <2>8. CASE open[o] + change = 0
    <3>1. callbacks' = callbacks \o <<c, d>> /\ pc' = "pending"
      BY <2>1, <2>2, <2>8 DEF ReplaceFound
    <3>2. \A k \in DOMAIN callbacks' : \/ callbacks'[k] \in {c, d}
                                       \/ k \in DOMAIN callbacks /\ callbacks'[k] = callbacks[k]
      BY <2>6, <3>1
    <3>3. ReplacesPriced' /\ ~Matching'
      BY <2>7, <3>1, <3>2 DEF Matching
    <3> QED
      BY <1>1, <1>2, <2>4, <2>5, <3>3, OutsidePrices
  <2>9. CASE open[o] + change # 0
    <3>1. /\ callbacks' = Append(callbacks, c)
          /\ StartMatch(o, price, open[o] + change, market[Opposite(o)])
      BY <2>1, <2>2, <2>9 DEF ReplaceFound
    <3>2. \A k \in DOMAIN callbacks' : \/ callbacks'[k] \in {c, d}
                                       \/ k \in DOMAIN callbacks /\ callbacks'[k] = callbacks[k]
      BY <2>6, <3>1
    <3>3. ReplacesPriced'
      BY <2>7, <3>2
    <3>4. PICK s \in Side : s = Opposite(o) /\ s # order[o].buy
      BY <1>6 DEF Opposite, Side
    <3>5. Opposite(o)' = s /\ market'[s] = market[s] /\ price = order'[o].price
      BY <1>1, <1>3, <2>5, <3>4 DEF Opposite
    <3> QED
      BY <1>1, <1>2, <2>4, <2>5, <3>1, <3>3, <3>4, <3>5, StartPrices
  <2> QED
    BY <2>8, <2>9
<1> QED
  BY <1>7, <1>8

(* The first market price moves no order of the market. *)
LEMMA MarketPriceSetPrices ==
  ASSUME IInv, PInv, NEW price \in MarketPrices, MarketPriceSet(price)
  PROVE  PInv'
<1>1. /\ pc' = "idle" /\ ~Matching' /\ order' = order /\ key' = key /\ market' = market
      /\ aons' = aons /\ working' = working /\ callbacks' = callbacks
  BY DEF MarketPriceSet, Matching, queues, locals
<1>2. \A p : Unaltered(p) /\ Used' = Used
  BY <1>1 DEF Unaltered, Used
<1>3. ReplacesPriced'
  BY <1>1, <1>2 DEF PInv, ReplacesPriced, NoNews
<1> QED
  BY <1>1, <1>2, <1>3, OutsidePrices

(* A notification changes no price but for a replace that has a new one.   *)
LEMMA NotifiedTerms ==
  ASSUME TypeOK, NEW cb \in Callback, NoNews(cb)
  PROVE  \A p \in Order : /\ Notified(cb)[p].price = order[p].price
                          /\ Notified(cb)[p].aon = order[p].aon
<1> DEFINE o == cb.order
<1>1. order \in [Order -> SimpleOrder] /\ o \in Order
  BY DEF TypeOK, Callback
<1>2. \A p \in Order : order[p] \in SimpleOrder
  BY <1>1
<1>3. ASSUME NEW x, Notified(cb) = [order EXCEPT ![o] = x],
             x.price = order[o].price, x.aon = order[o].aon
      PROVE  \A p \in Order : /\ Notified(cb)[p].price = order[p].price
                              /\ Notified(cb)[p].aon = order[p].aon
  BY <1>1, <1>3
<1>4. CASE cb.type = "accept" /\ order[o].state = "new"
  <2> DEFINE x == [order[o] EXCEPT !.state = "accepted"]
  <2>1. Notified(cb) = [order EXCEPT ![o] = x]
    BY <1>4 DEF Notified
  <2>2. x.price = order[o].price /\ x.aon = order[o].aon
    BY <1>1, <1>2 DEF SimpleOrder
  <2> QED
    BY <1>3, <2>1, <2>2
<1>5. CASE cb.type = "fill"
  <2>1. Notified(cb) = [p \in Order |-> IF p \in {o, cb.matched} THEN Filled(order[p], cb.qty)
                                        ELSE order[p]]
    BY <1>5 DEF Notified
  <2>2. ASSUME NEW p \in Order
        PROVE  /\ Filled(order[p], cb.qty).price = order[p].price
               /\ Filled(order[p], cb.qty).aon = order[p].aon
    <3>1. order[p] \in SimpleOrder
      BY <1>2
    <3> QED
      BY <3>1 DEF Filled, SimpleOrder
  <2> QED
    BY <2>1, <2>2
<1>6. CASE cb.type = "cancel" /\ order[o].state # "complete"
  <2> DEFINE x == [order[o] EXCEPT !.state = "cancelled"]
  <2>1. Notified(cb) = [order EXCEPT ![o] = x]
    BY <1>6 DEF Notified
  <2>2. x.price = order[o].price /\ x.aon = order[o].aon
    BY <1>1, <1>2 DEF SimpleOrder
  <2> QED
    BY <1>3, <2>1, <2>2
<1>7. CASE cb.type = "replace" /\ order[o].state = "accepted"
  <2> DEFINE x == [order[o] EXCEPT !.qty = @ + cb.delta, !.price = cb.price]
  <2>1. Notified(cb) = [order EXCEPT ![o] = x]
    <3>1. Notified(cb) = [order EXCEPT ![o].qty = @ + cb.delta, ![o].price = cb.price]
      BY <1>7 DEF Notified
    <3> QED
      BY <1>1, <1>2, <3>1 DEF SimpleOrder
  <2>2. cb.price = order[o].price
    BY <1>7 DEF NoNews
  <2>3. x.price = order[o].price /\ x.aon = order[o].aon
    BY <1>1, <1>2, <2>2 DEF SimpleOrder
  <2> QED
    BY <1>3, <2>1, <2>3
<1>8. CASE ~(\/ cb.type = "accept" /\ order[o].state = "new"
             \/ cb.type = "fill"
             \/ cb.type = "cancel" /\ order[o].state # "complete"
             \/ cb.type = "replace" /\ order[o].state = "accepted")
  BY <1>8 DEF Notified
<1> QED
  BY <1>4, <1>5, <1>6, <1>7, <1>8

(* The delivery of a callback leaves the book alone; those that are left   *)
(* were there before.                                                      *)
LEMMA PerformedPrices ==
  ASSUME IInv, PInv, Performed,
         \A p \in Used : p \in Used' /\ Unaltered(p)
  PROVE  PInv'
<1>1. /\ pc = "deliver" /\ ~Matching /\ market' = market /\ key' = key /\ aons' = aons
  BY DEF Performed, Matching, containers, locals
<1>2. working \in Seq(Callback) /\ working # <<>> /\ callbacks \in Seq(Callback)
  BY <1>1 DEF IInv, TypeOK, Delivering
<1>3. /\ \A k \in DOMAIN callbacks : NoNews(callbacks[k])
      /\ \A k \in DOMAIN working : NoNews(working[k])
  BY DEF PInv, ReplacesPriced
<1>4. \A x : NoNews(x) => NoNews(x)'
  BY NoNewsStill
<1>5. CASE Tail(working) # <<>>
  <2>1. working' = Tail(working) /\ callbacks' = callbacks /\ pc' = pc
    BY <1>5 DEF Performed
  <2>2. \A k \in DOMAIN working' : k + 1 \in DOMAIN working /\ working'[k] = working[k + 1]
    BY <1>2, <2>1
  <2>3. \A k \in DOMAIN working' : NoNews(working'[k])
    BY <1>3, <2>2
  <2>4. ReplacesPriced'
    BY <1>3, <1>4, <2>1, <2>3 DEF ReplacesPriced
  <2>5. ~Matching'
    BY <1>1, <2>1 DEF Matching
  <2> QED
    BY <1>1, <2>4, <2>5, OutsidePrices
<1>6. CASE Tail(working) = <<>>
  <2>1. working' = callbacks /\ callbacks' = <<>> /\ pc' \in {"idle", "deliver"}
    BY <1>6 DEF Performed
  <2>2. ReplacesPriced'
    BY <1>3, <1>4, <2>1 DEF ReplacesPriced
  <2>3. ~Matching'
    BY <2>1 DEF Matching
  <2> QED
    BY <1>1, <2>2, <2>3, OutsidePrices
<1> QED
  BY <1>5, <1>6

(* A listener is notified, and returns or throws. *)
LEMMA PerformPrices ==
  ASSUME IInv, PInv, Perform \/ ListenerThrows
  PROVE  PInv'
<1>1. Performed /\ pc = "deliver" /\ TypeOK
  BY DEF Perform, ListenerThrows, Performed, IInv
<1>2. working \in Seq(Callback) /\ working # <<>>
  BY <1>1 DEF IInv, TypeOK, Delivering
<1>3. PICK cb \in Callback : cb = Head(working)
  BY <1>2
<1>4. 1 \in DOMAIN working /\ cb = working[1]
  BY <1>2, <1>3
<1>5. NoNews(cb)
  BY <1>4 DEF PInv, ReplacesPriced
<1>6. \A p \in Used : p \in Used' /\ Unaltered(p)
  <2>1. CASE ListenerThrows
    BY <2>1 DEF ListenerThrows, Used, Unaltered
  <2>2. CASE Perform
    <3>1. order' = Notified(cb)
      BY <1>3, <2>2 DEF Perform
    <3>2. \A p \in Order : /\ Notified(cb)[p].price = order[p].price
                           /\ Notified(cb)[p].aon = order[p].aon
      BY <1>1, <1>5, NotifiedTerms
    <3>3. \A p \in Order : /\ Notified(cb)[p].buy = order[p].buy
                           /\ order[p].state # "none" => Notified(cb)[p].state # "none"
      BY <1>1, NotifiedType
    <3> QED
      BY <3>1, <3>2, <3>3 DEF Used, Unaltered
  <2> QED
    BY <2>1, <2>2
<1> QED
  BY <1>1, <1>6, PerformedPrices

-----------------------------------------------------------------------------
(* Prices: the theorems *)

(* An empty book shows no price. *)
LEMMA InitPInv ==
  ASSUME Init
  PROVE  PInv
<1>1. /\ pc = "idle" /\ market = [s \in Side |-> {}] /\ aons = {}
      /\ working = <<>> /\ callbacks = <<>>
  BY DEF Init
<1>2. ~Matching /\ ~Trying
  BY <1>1 DEF Matching, Trying
<1>3. \A s \in Side : market[s] = {}
  BY <1>1
<1>4. MatchPriced /\ TakerWasServed /\ OnlyAonTries
  BY <1>1, <1>2 DEF MatchPriced, TakerWasServed, OnlyAonTries
<1>5. KeysKept /\ NotCrossed
  BY <1>1, <1>3 DEF KeysKept, NotCrossed, Side
<1>6. ReplacesPriced
  BY <1>1 DEF ReplacesPriced
<1> QED
  BY <1>4, <1>5, <1>6 DEF PInv

(* Every step of the book and of the application keeps the prices. *)
LEMMA NextKeepsPInv ==
  ASSUME SizesOnly, IInv, PInv, [Next]_vars
  PROVE  PInv'
<1>1. CASE MatchStep
  <2>1. ASSUME NEW e \in m.todo, DeferAon(e) \/ MatchRegular(e) \/ DeferMatch(e) \/ TryDeferred(e)
        PROVE  PInv'
    BY <2>1, DeferAonPrices, MatchRegularPrices, DeferMatchPrices, TryDeferredPrices
  <2>2. ASSUME NEW d \in plan.todo, Propose(d) \/ Settle(d)
        PROVE  PInv'
    BY <2>2, ProposePrices, SettlePrices
  <2> QED
    BY <1>1, <2>1, <2>2, ProposePrices, ClosePrices DEF MatchStep
<1>2. CASE AddOrderStep
  BY <1>2, RestPrices, CheckDeferredPrices, NestedEndsPrices, SubmittedPrices DEF AddOrderStep
<1>3. CASE PendingStep
  BY <1>3, TakePendingPrices, SubmitPendingPrices, FinishPrices DEF PendingStep
<1>4. CASE Perform \/ ListenerThrows
  BY <1>4, PerformPrices
<1>5. CASE Application
  <2>1. ASSUME NEW o \in Order, NEW t \in Menu, Add(o, t)
        PROVE  PInv'
    BY <2>1, AddPrices
  <2>2. ASSUME NEW o \in Order, Cancel(o)
        PROVE  PInv'
    BY <2>2, CancelPrices
  <2>3. ASSUME NEW o \in Order, NEW delta \in Deltas, NEW price \in NewPrices,
               Replace(o, delta, price)
        PROVE  PInv'
    BY <2>3, ReplacePrices
  <2>4. ASSUME NEW price \in MarketPrices, MarketPriceSet(price)
        PROVE  PInv'
    BY <2>4, MarketPriceSetPrices
  <2> QED
    BY <1>5, <2>1, <2>2, <2>3, <2>4 DEF Application
<1>6. CASE UNCHANGED vars
  BY <1>6 DEF vars, PInv, MatchPriced, KeysKept, ReplacesPriced, NotCrossed, TakerWasServed,
              OnlyAonTries, Matching, Trying, Kept, Priced, Opposite, NoNews, Used, Excused,
              PassedOver, AllOrNone, Order
<1> QED
  BY <1>1, <1>2, <1>3, <1>4, <1>5, <1>6 DEF Next, BookStep

(* For every menu, with listeners that call the book and that throw: as    *)
(* long as replaces change sizes only, the book and the order objects are  *)
(* of one mind about prices.                                               *)
THEOREM PricesAreKept ==
  ASSUME SizesOnly PROVE Spec => []PInv
<1>1. Init => PInv
  BY InitPInv
<1>2. IInv /\ PInv /\ [Next]_vars => PInv'
  BY NextKeepsPInv
<1> QED
  BY <1>1, <1>2, Invariance, PTL DEF Spec

(* The book is not crossed between two calls, nor during one: what match   *)
(* and rest are all-or-none orders, or market orders that found no price.  *)
THEOREM BookStaysUncrossed ==
  ASSUME SizesOnly PROVE Spec => []BookIsNotCrossed
<1>1. PInv => BookIsNotCrossed
  BY DEF PInv, NotCrossed, Excused, BookIsNotCrossed
<1> QED
  BY <1>1, PricesAreKept, PTL

(* The price of a trade suits both orders that make it. *)
LEMMA CrossPriceSuits ==
  ASSUME IInv, PInv, Matching, NEW cur \in Order, Priced(cur),
         order[cur].buy = Opposite(m.taker), Matches(order[cur].buy, key[cur], m.price),
         CrossPrice(cur) # MARKET_ORDER_PRICE
  PROVE  /\ Acceptable(order[m.taker].buy, m.price, CrossPrice(cur))
         /\ Acceptable(order[cur].buy, key[cur], CrossPrice(cur))
<1>1. /\ m.taker \in Order /\ m.price = order[m.taker].price /\ key[cur] = order[cur].price
  BY DEF IInv, Facing, Used, PInv, MatchPriced, Priced
<1>2. order[m.taker] \in SimpleOrder /\ order[cur] \in SimpleOrder
  BY <1>1 DEF IInv, TypeOK
<1>3. PICK p, k, b : p = m.price /\ k = key[cur] /\ b = order[cur].buy
  OBVIOUS
<1>4. p \in Nat /\ k \in Nat /\ b \in BOOLEAN /\ order[m.taker].buy = ~b
  BY <1>1, <1>2, <1>3 DEF SimpleOrder, Price, Side, Opposite
<1>5. CrossPrice(cur) = IF k # 0 THEN k ELSE IF p # 0 THEN p ELSE marketPrice
  BY <1>1, <1>3 DEF CrossPrice, MARKET_ORDER_PRICE
<1>6. Matches(b, k, p)
  BY <1>3
<1>7. CASE k # 0
  <2>1. CrossPrice(cur) = k
    BY <1>5, <1>7
  <2>2. Acceptable(b, k, k)
    BY <1>4 DEF Acceptable
  <2>3. CASE b
    <3>1. k = p \/ p < k
      BY <1>6, <1>7, <2>3 DEF Matches, MARKET_ORDER_PRICE
    <3>2. k >= p
      BY <1>4, <3>1
    <3> QED
      BY <1>3, <1>4, <2>1, <2>2, <2>3, <3>2 DEF Acceptable
  <2>4. CASE ~b
    <3>1. k = p \/ k < p \/ p = MARKET_ORDER_PRICE
      BY <1>6, <2>4 DEF Matches
    <3>2. k <= p \/ p = MARKET_ORDER_PRICE
      BY <1>4, <3>1
    <3> QED
      BY <1>3, <1>4, <2>1, <2>2, <2>4, <3>2 DEF Acceptable
  <2> QED
    BY <1>4, <2>3, <2>4
<1>8. CASE k = 0 /\ p # 0
  <2>1. CrossPrice(cur) = p
    BY <1>5, <1>8
  <2>2. Acceptable(~b, p, p) /\ Acceptable(b, k, p)
    BY <1>4, <1>8 DEF Acceptable, MARKET_ORDER_PRICE
  <2> QED
    BY <1>3, <1>4, <2>1, <2>2
<1>9. CASE k = 0 /\ p = 0
  BY <1>3, <1>9 DEF Acceptable, MARKET_ORDER_PRICE
<1> QED
  BY <1>7, <1>8, <1>9

(* The resting order of a trade: a candidate of the running match, or one  *)
(* that an all-or-none order kept for later.                               *)
Partner(cur) ==
  /\ cur \in Order /\ Priced(cur) /\ order[cur].buy = Opposite(m.taker)
  /\ Matches(order[cur].buy, key[cur], m.price)
  /\ AllOrNone(m.taker) \/ (cur \in m.todo /\ Candidate(cur))

(* What a trade changes, and what it announces. *)
LEMMA TradedBy ==
  ASSUME IInv, NEW cur \in Order, NEW q, NEW always, MaybeTrade(cur, q, always),
         traded' # traded
  PROVE  /\ q > 0 /\ CreateTrade(cur, q, always)
         /\ LastFill = FillCb(m.taker, cur, q, CrossPrice(cur))
<1>1. q > 0
  BY DEF MaybeTrade
<1>2. CreateTrade(cur, q, always)
  BY <1>1 DEF MaybeTrade
<1>3. PICK c : c = FillCb(m.taker, cur, q, CrossPrice(cur))
  OBVIOUS
<1>4. callbacks' = Append(callbacks, c) /\ callbacks \in Seq(Callback)
  BY <1>2, <1>3 DEF CreateTrade, IInv, TypeOK
<1>5. callbacks'[Len(callbacks')] = c
  BY <1>4
<1> QED
  BY <1>1, <1>2, <1>3, <1>5 DEF LastFill

(* create_trade() trades q with cur, and announces it. *)
TradesWith(cur, q) ==
  /\ Partner(cur) /\ CrossPrice(cur) # MARKET_ORDER_PRICE
  /\ \E always : CreateTrade(cur, q, always)
  /\ LastFill = FillCb(m.taker, cur, q, CrossPrice(cur))

(* Only the three callers of create_trade() trade, each with a partner at  *)
(* a price.                                                                *)
LEMMA TradingSteps ==
  ASSUME IInv, PInv, [Next]_vars, traded' # traded
  PROVE  Matching /\ \E cur, q : TradesWith(cur, q)
<1>1. ASSUME NEW e \in m.todo, MatchRegular(e)
      PROVE  Matching /\ \E cur, q : TradesWith(cur, q)
  <2> DEFINE q == TradeQty(e, open[e])
  <2>1. Candidate(e) /\ MaybeTrade(e, q, AllOrNone(e))
    BY <1>1 DEF MatchRegular
  <2>2. Matching /\ e \in Order /\ order[e].buy = Opposite(m.taker)
    BY <2>1, CandidateFacts
  <2>3. Partner(e)
    BY <2>1, <2>2 DEF Partner, Candidate, PInv, MatchPriced
  <2>4. CrossPrice(e) = MARKET_ORDER_PRICE => q = 0
    BY DEF TradeQty
  <2> HIDE DEF q
  <2>5. /\ q > 0 /\ CreateTrade(e, q, AllOrNone(e))
        /\ LastFill = FillCb(m.taker, e, q, CrossPrice(e))
    BY <2>1, <2>2, TradedBy
  <2> QED
    BY <2>2, <2>3, <2>4, <2>5 DEF TradesWith
<1>2. ASSUME NEW d \in plan.todo, Settle(d)
      PROVE  Matching /\ \E cur, q : TradesWith(cur, q)
  <2> DEFINE q == IF Dangling(d) THEN 0 ELSE TradeQty(d, plan.fills[d])
  <2>1. pc = "settle" /\ Trying /\ Matching /\ MaybeTrade(d, q, FALSE)
    BY <1>2 DEF Settle, Trying, Matching
  <2>2. d \in Kept
    BY <2>1 DEF IInv, Facing, Kept
  <2>3. d \in Order /\ Partner(d)
    BY <2>1, <2>2 DEF Partner, PInv, MatchPriced, OnlyAonTries
  <2>4. CrossPrice(d) = MARKET_ORDER_PRICE => q = 0
    BY DEF TradeQty
  <2> HIDE DEF q
  <2>5. /\ q > 0 /\ CreateTrade(d, q, FALSE)
        /\ LastFill = FillCb(m.taker, d, q, CrossPrice(d))
    BY <2>1, <2>3, TradedBy
  <2>6. \E always : CreateTrade(d, q, always)
    <3>1. PICK never : never = FALSE
      OBVIOUS
    <3> QED
      BY <2>5, <3>1
  <2> QED
    BY <2>1, <2>3, <2>4, <2>5, <2>6 DEF TradesWith
<1>3. ASSUME Close(plan.goal)
      PROVE  Matching /\ \E cur, q : TradesWith(cur, q)
  <2> DEFINE g == plan.goal
             q == IF GoalReached(g) THEN TradeQty(g, open[g]) ELSE 0
  <2>1. pc = "close" /\ Trying /\ Matching /\ MaybeTrade(g, q, AllOrNone(g))
    BY <1>3 DEF Close, Trying, Matching
  <2>2. g \in Kept
    BY <2>1 DEF Kept
  <2>3. g \in Order /\ Partner(g)
    BY <2>1, <2>2 DEF Partner, PInv, MatchPriced, OnlyAonTries
  <2>4. CrossPrice(g) = MARKET_ORDER_PRICE => q = 0
    BY DEF TradeQty
  <2> HIDE DEF q
  <2>5. /\ q > 0 /\ CreateTrade(g, q, AllOrNone(g))
        /\ LastFill = FillCb(m.taker, g, q, CrossPrice(g))
    BY <2>1, <2>3, TradedBy
  <2>6. \E always : CreateTrade(g, q, always)
    BY <2>5
  <2> HIDE DEF g
  <2> QED
    BY <2>1, <2>3, <2>4, <2>5, <2>6 DEF TradesWith
<1>4. ASSUME NEW e \in m.todo, DeferAon(e) \/ DeferMatch(e) \/ TryDeferred(e)
      PROVE  FALSE
  BY <1>4 DEF DeferAon, DeferMatch, TryDeferred, trackers
<1>5. ASSUME (\E d \in plan.todo : Propose(d)) \/ ProposalEnds \/ SettleEnds
      PROVE  FALSE
  BY <1>5 DEF Propose, ProposalEnds, SettleEnds, trackers
<1>6. CASE MatchStep
  BY <1>1, <1>2, <1>3, <1>4, <1>5, <1>6 DEF MatchStep
<1>7. ~AddOrderStep
  BY DEF AddOrderStep, Rest, CheckDeferred, NestedEnds, Submitted, trackers
<1>8. ~PendingStep
  BY DEF PendingStep, TakePending, SubmitPending, Finish, trackers
<1>9. ~(Perform \/ ListenerThrows)
  BY DEF Perform, ListenerThrows, Performed, trackers
<1>10. ~Application
  <2>1. ASSUME NEW o \in Order, NEW t \in Menu, Add(o, t)
        PROVE  FALSE
    BY <2>1 DEF Add
  <2>2. ASSUME NEW o \in Order, Cancel(o)
        PROVE  FALSE
    BY <2>2 DEF Cancel, trackers
  <2>3. ASSUME NEW o \in Order, NEW delta \in Deltas, NEW price \in NewPrices,
               Replace(o, delta, price)
        PROVE  FALSE
    BY <2>3 DEF Replace
  <2>4. ASSUME NEW price \in MarketPrices, MarketPriceSet(price)
        PROVE  FALSE
    BY <2>4 DEF MarketPriceSet, trackers
  <2> QED
    BY <2>1, <2>2, <2>3, <2>4 DEF Application
<1>11. vars' # vars
  BY DEF vars
<1> QED
  BY <1>6, <1>7, <1>8, <1>9, <1>10, <1>11 DEF Next, BookStep

(* README.md:39: every trade is at a price, and at the limit of either     *)
(* order or better.                                                        *)
THEOREM TradesAreWithinLimits ==
  ASSUME SizesOnly PROVE Spec => TradesWithinLimits
<1> DEFINE Within == traded' # traded =>
                       LET f == LastFill
                       IN  /\ f.price # MARKET_ORDER_PRICE
                           /\ Acceptable(order[f.order].buy, m.price, f.price)
                           /\ Acceptable(order[f.matched].buy, key[f.matched], f.price)
<1>1. ASSUME IInv, PInv, [Next]_vars
      PROVE  Within
  <2> SUFFICES ASSUME traded' # traded
               PROVE  /\ LastFill.price # MARKET_ORDER_PRICE
                      /\ Acceptable(order[LastFill.order].buy, m.price, LastFill.price)
                      /\ Acceptable(order[LastFill.matched].buy, key[LastFill.matched],
                                    LastFill.price)
    OBVIOUS
  <2>1. PICK cur, q : TradesWith(cur, q)
    BY <1>1, TradingSteps
  <2>2. /\ LastFill.order = m.taker /\ LastFill.matched = cur
        /\ LastFill.price = CrossPrice(cur)
    BY <2>1 DEF FillCb, TradesWith
  <2>3. Matching
    BY <1>1, TradingSteps
  <2>4. /\ Acceptable(order[m.taker].buy, m.price, CrossPrice(cur))
        /\ Acceptable(order[cur].buy, key[cur], CrossPrice(cur))
    BY <1>1, <2>1, <2>3, CrossPriceSuits DEF Partner, TradesWith
  <2> QED
    BY <2>1, <2>2, <2>4 DEF TradesWith
<1>2. IInv /\ PInv /\ [Next]_vars => [Within]_vars
  BY <1>1
<1> QED
  BY <1>2, Invariance, PricesAreKept, PTL DEF Spec, TradesWithinLimits

(* The application submits no all-or-none orders, or keeps their condition *)
(* from the book.                                                          *)
NoAllOrNone == \A t \in Menu : ~(PassConditions /\ t.aon)

(* No order that the book has is all-or-none. *)
AllRegular == \A o \in Order : ~AllOrNone(o)

(* No other order gets the condition. *)
LEMMA OrdersStayRegular ==
  ASSUME NoAllOrNone, IInv, PInv, AllRegular, [Next]_vars
  PROVE  AllRegular'
<1>1. CASE order' = order
  BY <1>1 DEF AllRegular, AllOrNone, Order
<1>2. CASE Perform
  <2>1. pc = "deliver" /\ order' = Notified(Head(working)) /\ TypeOK
    BY <1>2 DEF Perform, Performed, IInv
  <2>2. working \in Seq(Callback) /\ working # <<>>
    BY <2>1 DEF IInv, TypeOK, Delivering
  <2>3. PICK cb \in Callback : cb = Head(working)
    BY <2>2
  <2>4. NoNews(cb)
    BY <2>2, <2>3 DEF PInv, ReplacesPriced
  <2>5. \A p \in Order : Notified(cb)[p].aon = order[p].aon
    BY <2>1, <2>4, NotifiedTerms
  <2> QED
    BY <2>1, <2>3, <2>5 DEF AllRegular, AllOrNone, Order
<1>3. ASSUME NEW o \in Order, NEW t \in Menu, Add(o, t)
      PROVE  AllRegular'
  <2>1. order' = [order EXCEPT ![o] = NewOrder(o, t)] /\ order \in [Order -> SimpleOrder]
    BY <1>3 DEF Add, IInv, TypeOK
  <2>2. order'[o].aon = t.aon /\ \A p \in Order : p # o => order'[p] = order[p]
    BY <2>1 DEF NewOrder
  <2>3. ~(PassConditions /\ t.aon)
    BY DEF NoAllOrNone
  <2> QED
    BY <2>2, <2>3 DEF AllRegular, AllOrNone, Order
<1>4. CASE MatchStep
  <2>1. ASSUME NEW e \in m.todo, DeferAon(e) \/ DeferMatch(e) \/ TryDeferred(e)
        PROVE  order' = order
    BY <2>1 DEF DeferAon, DeferMatch, TryDeferred
  <2>2. ASSUME NEW e \in m.todo, MatchRegular(e)
        PROVE  order' = order
    BY <2>2 DEF MatchRegular, MaybeTrade
  <2>3. ASSUME NEW d \in plan.todo, Propose(d) \/ Settle(d)
        PROVE  order' = order
    BY <2>3 DEF Propose, Settle, MaybeTrade
  <2>4. ASSUME ProposalEnds \/ SettleEnds \/ Close(plan.goal)
        PROVE  order' = order
    BY <2>4 DEF ProposalEnds, SettleEnds, Close, MaybeTrade
  <2> QED
    BY <1>1, <1>4, <2>1, <2>2, <2>3, <2>4 DEF MatchStep
<1>5. CASE AddOrderStep
  BY <1>1, <1>5 DEF AddOrderStep, Rest, CheckDeferred, NestedEnds, Submitted
<1>6. CASE PendingStep
  BY <1>1, <1>6 DEF PendingStep, TakePending, SubmitPending, Finish
<1>7. CASE ListenerThrows
  BY <1>1, <1>7 DEF ListenerThrows
<1>8. CASE Application
  <2>1. ASSUME NEW o \in Order, Cancel(o)
        PROVE  order' = order
    BY <2>1 DEF Cancel
  <2>2. ASSUME NEW o \in Order, NEW delta \in Deltas, NEW price \in NewPrices,
               Replace(o, delta, price)
        PROVE  order' = order
    BY <2>2 DEF Replace
  <2>3. ASSUME NEW price \in MarketPrices, MarketPriceSet(price)
        PROVE  order' = order
    BY <2>3 DEF MarketPriceSet
  <2> QED
    BY <1>1, <1>3, <1>8, <2>1, <2>2, <2>3 DEF Application
<1>9. CASE UNCHANGED vars
  BY <1>1, <1>9 DEF vars
<1> QED
  BY <1>2, <1>4, <1>5, <1>6, <1>7, <1>8, <1>9 DEF Next, BookStep

(* What is left before a trading order in its queue was passed over for    *)
(* want of a price.                                                        *)
LEMMA FirstTrades ==
  ASSUME IInv, PInv, AllRegular, Matching,
         NEW cur \in Order, Partner(cur), NEW q, NEW always, CreateTrade(cur, q, always),
         NEW e \in market'[order[cur].buy], Before(e, cur)
  PROVE  order[e].price = 0 /\ order[m.taker].price = 0
<1>1. /\ m.taker \in Order /\ m.price = order[m.taker].price /\ ~AllOrNone(m.taker)
  BY DEF IInv, Facing, Used, PInv, MatchPriced, AllRegular
<1>2. cur \in m.todo /\ First(cur, m.todo) /\ pc = "match" /\ open[m.taker] > 0
  BY <1>1 DEF Partner, Candidate
<1>3. PICK s \in Side : s = order[cur].buy /\ s = Opposite(m.taker)
  <2>1. order[cur].buy \in Side
    BY DEF IInv, TypeOK, SimpleOrder
  <2> QED
    BY <2>1 DEF Partner
<1>4. e \in market[s] /\ e \in Order /\ ~AllOrNone(e) /\ order[e].buy = s
  <2>1. market \in [Side -> SUBSET Order]
    BY DEF IInv, TypeOK
  <2>2. market'[s] \subseteq market[s]
    BY <2>1 DEF CreateTrade
  <2> QED
    BY <1>3, <2>1, <2>2 DEF AllRegular, IInv, Filed
<1>5. e \notin m.todo
  <2> SUFFICES ASSUME e \in m.todo
               PROVE  FALSE
    OBVIOUS
  <2>1. key[e] \in Nat /\ key[cur] \in Nat /\ rank[e] \in Nat /\ rank[cur] \in Nat /\ s \in BOOLEAN
    BY <1>3, <1>4 DEF IInv, TypeOK, Price, Side
  <2>2. ~Less(s, key[cur], key[cur]) /\ (Less(s, key[e], key[cur]) => ~Less(s, key[cur], key[e]))
    BY <2>1, LessIsStrictTotalOrder DEF Price
  <2>3. e # cur
    <3>1. e = cur => Less(s, key[cur], key[cur]) \/ rank[cur] < rank[cur]
      BY <1>3 DEF Before
    <3>2. ~(rank[cur] < rank[cur])
      BY <2>1
    <3> QED
      BY <2>2, <3>1, <3>2
  <2>4. Before(cur, e)
    BY <1>2, <2>3 DEF First
  <2>5. \/ Less(s, key[cur], key[e])
        \/ key[cur] = key[e] /\ rank[cur] < rank[e]
    BY <1>3, <2>4 DEF Before
  <2>6. \/ Less(s, key[e], key[cur])
        \/ key[e] = key[cur] /\ rank[e] < rank[cur]
    BY <1>3, <1>4 DEF Before
  <2>7. key[cur] # key[e]
    BY <2>1, <2>2, <2>5, <2>6
  <2> QED
    BY <2>2, <2>5, <2>6, <2>7
<1>6. PassedOver(e)
  BY <1>1, <1>2, <1>3, <1>4, <1>5 DEF PInv, TakerWasServed
<1> QED
  BY <1>1, <1>4, <1>6 DEF PassedOver, MARKET_ORDER_PRICE

(* Price-time priority, as long as no all-or-none order is submitted: a    *)
(* trade is made with the first order of the queue, but for market orders  *)
(* that found no price.                                                    *)
THEOREM TradesAreInPriority ==
  ASSUME SizesOnly, NoAllOrNone PROVE Spec => PriceTimePriority
<1> DEFINE InTurn == traded' # traded =>
                       LET f == LastFill
                       IN  \A e \in market'[order[f.matched].buy] :
                             Before(e, f.matched) =>
                               \/ AllOrNone(e) \/ AllOrNone(f.matched)
                               \/ order[e].price = 0 /\ order[f.order].price = 0
<1>1. Init => AllRegular
  BY DEF Init, AllRegular, AllOrNone, NoOrder
<1>2. IInv /\ PInv /\ AllRegular /\ [Next]_vars => AllRegular'
  BY OrdersStayRegular
<1>3. ASSUME IInv, PInv, AllRegular, [Next]_vars
      PROVE  InTurn
  <2> SUFFICES ASSUME traded' # traded,
                      NEW e \in market'[order[LastFill.matched].buy],
                      Before(e, LastFill.matched)
               PROVE  order[e].price = 0 /\ order[LastFill.order].price = 0
    OBVIOUS
  <2>1. PICK cur, q : TradesWith(cur, q)
    BY <1>3, TradingSteps
  <2>2. PICK always : CreateTrade(cur, q, always)
    BY <2>1 DEF TradesWith
  <2>3. LastFill.order = m.taker /\ LastFill.matched = cur
    BY <2>1 DEF FillCb, TradesWith
  <2>4. Matching
    BY <1>3, TradingSteps
  <2>5. e \in market'[order[cur].buy] /\ Before(e, cur)
    BY <2>3
  <2> QED
    BY <1>3, <2>1, <2>2, <2>3, <2>4, <2>5, FirstTrades DEF TradesWith, Partner
<1>4. IInv /\ PInv /\ AllRegular /\ [Next]_vars => [InTurn]_vars
  BY <1>3
<1> QED
  BY <1>1, <1>2, <1>4, Invariance, PricesAreKept, PTL DEF Spec, PriceTimePriority

-----------------------------------------------------------------------------
(* The limits of the all-or-none orders *)

(* The book is given no all-or-none market order: two market orders that   *)
(* meet without a market price make no trade, and the quantities that      *)
(* match_order() counts on are then not traded.                            *)
AonAreLimits == \A t \in Menu : PassConditions /\ t.aon => t.price # MARKET_ORDER_PRICE

(* The order object of an all-or-none order shows a limit. *)
Limited == \A o \in Order : AllOrNone(o) => order[o].price # MARKET_ORDER_PRICE

(* A callback does not take an order's limit away. *)
KeepsLimit(c) ==
  c.type = "replace" => c.order \in Used /\ (AllOrNone(c.order) => c.price # MARKET_ORDER_PRICE)

(* No callback that is due does. *)
LimitsToCome ==
  /\ \A k \in DOMAIN working : KeepsLimit(working[k])
  /\ \A k \in DOMAIN callbacks : KeepsLimit(callbacks[k])

(* The inductive invariant of the limits. *)
LInv == Limited /\ LimitsToCome

(* A callback says no more of a limit than one that was due already. *)
SaysTheSame(c, q) ==
  \E j \in DOMAIN q : c.type = q[j].type /\ c.order = q[j].order /\ c.price = q[j].price

(* A callback that a step may leave behind. *)
Harmless(c) == KeepsLimit(c) \/ SaysTheSame(c, working) \/ SaysTheSame(c, callbacks)

(* The step leaves the conditions of the submitted orders alone. *)
ConditionsStay == \A o \in Used : o \in Used' /\ (AllOrNone(o)' => AllOrNone(o))

(* The callbacks that are due after a step with harmless callbacks. *)
LEMMA LimitsToComeStill ==
  ASSUME LInv, ConditionsStay,
         \A k \in DOMAIN working' : Harmless(working'[k]),
         \A k \in DOMAIN callbacks' : Harmless(callbacks'[k])
  PROVE  LimitsToCome'
<1>1. ASSUME NEW c, Harmless(c)
      PROVE  KeepsLimit(c)
  BY <1>1 DEF Harmless, SaysTheSame, LInv, LimitsToCome, KeepsLimit
<1>2. ASSUME NEW c, KeepsLimit(c)
      PROVE  KeepsLimit(c)'
  BY <1>2 DEF KeepsLimit, ConditionsStay
<1>3. PICK w, c : w = working' /\ c = callbacks'
  OBVIOUS
<1>4. /\ \A k \in DOMAIN w : KeepsLimit(w[k])'
      /\ \A k \in DOMAIN c : KeepsLimit(c[k])'
  BY <1>1, <1>2, <1>3
<1> QED
  BY <1>3, <1>4 DEF LimitsToCome, KeepsLimit

(* A callback that is due is harmless. *)
LEMMA DueIsHarmless ==
  ASSUME LInv
  PROVE  /\ \A k \in DOMAIN working : Harmless(working[k])
         /\ \A k \in DOMAIN callbacks : Harmless(callbacks[k])
BY DEF LInv, LimitsToCome, Harmless

(* So is one that is not of a replace. *)
LEMMA PlainIsHarmless ==
  ASSUME NEW c, c.type # "replace"
  PROVE  Harmless(c)
BY DEF Harmless, KeepsLimit

(* Two sequences of harmless callbacks make one. *)
LEMMA JoinedAreHarmless ==
  ASSUME NEW q \in Seq(Callback), NEW r \in Seq(Callback),
         \A k \in DOMAIN q : Harmless(q[k]), \A k \in DOMAIN r : Harmless(r[k])
  PROVE  \A k \in DOMAIN (q \o r) : Harmless((q \o r)[k])
<1> SUFFICES ASSUME NEW k \in DOMAIN (q \o r)
             PROVE  Harmless((q \o r)[k])
  OBVIOUS
<1>1. \/ k \in DOMAIN q /\ (q \o r)[k] = q[k]
      \/ k - Len(q) \in DOMAIN r /\ (q \o r)[k] = r[k - Len(q)]
  OBVIOUS
<1> QED
  BY <1>1

(* A step that changes no order object and leaves harmless callbacks. *)
LEMMA SameOrdersLimits ==
  ASSUME LInv, order' = order,
         \A k \in DOMAIN working' : Harmless(working'[k]),
         \A k \in DOMAIN callbacks' : Harmless(callbacks'[k])
  PROVE  LInv'
<1>1. ConditionsStay
  BY DEF ConditionsStay, AllOrNone, Used
<1>2. Limited'
  BY DEF LInv, Limited, AllOrNone, Order
<1> QED
  BY <1>1, <1>2, LimitsToComeStill DEF LInv

(* A step that leaves the callbacks alone as well. *)
LEMMA QuietLimits ==
  ASSUME LInv, order' = order, working' = working, callbacks' = callbacks
  PROVE  LInv'
BY DueIsHarmless, SameOrdersLimits

(* The callback of a trade says nothing of a limit. *)
LEMMA TradeLimits ==
  ASSUME IInv, LInv, NEW cur, NEW q, NEW always, MaybeTrade(cur, q, always)
  PROVE  LInv'
<1>1. order' = order /\ working' = working
  BY DEF MaybeTrade
<1>2. PICK c : c = FillCb(m.taker, cur, q, CrossPrice(cur))
  OBVIOUS
<1>3. callbacks' = callbacks \/ callbacks' = Append(callbacks, c)
  BY <1>2 DEF MaybeTrade, CreateTrade
<1>4. callbacks \in Seq(Callback) /\ c.type # "replace"
  BY <1>2 DEF FillCb, IInv, TypeOK
<1>5. \A k \in DOMAIN callbacks' :
        callbacks'[k] = c \/ (k \in DOMAIN callbacks /\ callbacks'[k] = callbacks[k])
  <2>1. CASE callbacks' = Append(callbacks, c)
    BY <1>4, <2>1
  <2> QED
    BY <1>3, <2>1
<1>6. \A k \in DOMAIN callbacks' : Harmless(callbacks'[k])
  BY <1>4, <1>5, DueIsHarmless, PlainIsHarmless
<1> QED
  BY <1>1, <1>6, DueIsHarmless, SameOrdersLimits

(* The steps of a match. *)
LEMMA MatchLimits ==
  ASSUME IInv, LInv, MatchStep
  PROVE  LInv'
<1>1. ASSUME NEW e \in m.todo, DeferAon(e) \/ DeferMatch(e) \/ TryDeferred(e)
      PROVE  LInv'
  BY <1>1, QuietLimits DEF DeferAon, DeferMatch, TryDeferred, queues
<1>2. ASSUME NEW e \in m.todo, MatchRegular(e)
      PROVE  LInv'
  BY <1>2, TradeLimits DEF MatchRegular
<1>3. ASSUME NEW d \in plan.todo, Propose(d)
      PROVE  LInv'
  BY <1>3, QuietLimits DEF Propose, queues
<1>4. ASSUME NEW d \in plan.todo, Settle(d)
      PROVE  LInv'
  <2>1. PICK q : q = IF Dangling(d) THEN 0 ELSE TradeQty(d, plan.fills[d])
    OBVIOUS
  <2>2. PICK never : never = FALSE
    OBVIOUS
  <2>3. MaybeTrade(d, q, never)
    BY <1>4, <2>1, <2>2 DEF Settle
  <2> QED
    BY <2>3, TradeLimits
<1>5. ASSUME ProposalEnds \/ SettleEnds
      PROVE  LInv'
  BY <1>5, QuietLimits DEF ProposalEnds, SettleEnds, queues
<1>6. ASSUME Close(plan.goal)
      PROVE  LInv'
  <2>1. PICK g : g = plan.goal
    OBVIOUS
  <2>2. PICK q : q = IF GoalReached(g) THEN TradeQty(g, open[g]) ELSE 0
    OBVIOUS
  <2>3. PICK always : always = AllOrNone(g)
    OBVIOUS
  <2>4. MaybeTrade(g, q, always)
    BY <1>6, <2>1, <2>2, <2>3 DEF Close
  <2> QED
    BY <2>4, TradeLimits
<1> QED
  BY <1>1, <1>2, <1>3, <1>4, <1>5, <1>6 DEF MatchStep

(* add() writes a quantity into its accept callback. *)
LEMMA AcceptedHarmless ==
  ASSUME IInv, LInv
  PROVE  \A k \in DOMAIN Accepted(call.order) : Harmless(Accepted(call.order)[k])
<1>1. PICK q, x : q = Accepted(call.order) /\ x = order[call.order].qty - call.unfilled
  OBVIOUS
<1>2. q = [callbacks EXCEPT ![call.accept].qty = x]
  BY <1>1 DEF Accepted
<1>3. DOMAIN q = DOMAIN callbacks
  BY <1>2
<1>4. ASSUME NEW k \in DOMAIN q
      PROVE  Harmless(q[k])
  <2>1. callbacks[k] \in Callback
    BY <1>3 DEF IInv, TypeOK
  <2>2. q[k] = callbacks[k] \/ q[k] = [callbacks[k] EXCEPT !.qty = x]
    BY <1>2, <1>3
  <2>3. /\ q[k].type = callbacks[k].type /\ q[k].order = callbacks[k].order
        /\ q[k].price = callbacks[k].price
    BY <2>1, <2>2 DEF Callback
  <2> QED
    BY <1>3, <2>3 DEF Harmless, SaysTheSame
<1> QED
  BY <1>1, <1>4

(* The inbound order was submitted. *)
LEMMA SubmittedLimits ==
  ASSUME IInv, LInv, Submitted
  PROVE  LInv'
<1>1. /\ order' = order /\ working' = working
      /\ callbacks' = IF call.kind = "add"
                      THEN Accepted(call.order) \o IocCancel(call.order) ELSE callbacks
  BY DEF Submitted
<1>2. \A k \in DOMAIN callbacks' : Harmless(callbacks'[k])
  <2>1. CASE call.kind = "add"
    <3>1. PICK q, r : q = Accepted(call.order) /\ r = IocCancel(call.order)
      OBVIOUS
    <3>2. q \in Seq(Callback) /\ \A k \in DOMAIN q : Harmless(q[k])
      BY <2>1, <3>1, AcceptedType, AcceptedHarmless
    <3>3. PICK c \in Callback : c = Cb("cancel", call.order)
      BY PlainCb DEF IInv, TypeOK, Call
    <3>4. r = <<>> \/ r = <<c>>
      BY <3>1, <3>3 DEF IocCancel
    <3>5. r \in Seq(Callback) /\ \A k \in DOMAIN r : r[k] = c
      <4>1. CASE r = <<>>
        BY <4>1
      <4>2. CASE r = <<c>>
        BY <4>2
      <4> QED
        BY <3>4, <4>1, <4>2
    <3>6. \A k \in DOMAIN r : Harmless(r[k])
      BY <3>3, <3>5, PlainIsHarmless DEF Cb
    <3>7. \A k \in DOMAIN (q \o r) : Harmless((q \o r)[k])
      BY <3>2, <3>5, <3>6, JoinedAreHarmless
    <3> QED
      BY <1>1, <2>1, <3>1, <3>7
  <2>2. CASE call.kind # "add"
    BY <1>1, <2>2, DueIsHarmless
  <2> QED
    BY <2>1, <2>2
<1> QED
  BY <1>1, <1>2, DueIsHarmless, SameOrdersLimits

(* The other steps of add_order(), and those before the end of a call. *)
LEMMA AddOrderLimits ==
  ASSUME IInv, LInv, AddOrderStep \/ TakePending \/ (\E o \in Order : SubmitPending(o))
  PROVE  LInv'
<1>1. ASSUME Rest \/ (\E a \in aons : CheckDeferred(a)) \/ NestedEnds \/ TakePending
             \/ (\E o \in Order : SubmitPending(o))
      PROVE  LInv'
  BY <1>1, QuietLimits DEF Rest, CheckDeferred, NestedEnds, TakePending, SubmitPending, queues
<1> QED
  BY <1>1, SubmittedLimits DEF AddOrderStep

(* callback_now() leaves what is due and what was pushed. *)
LEMMA PushedHarmless ==
  ASSUME IInv, LInv, NEW pushed \in Seq(Callback), CallbackNow(pushed),
         \A k \in DOMAIN pushed : Harmless(pushed[k])
  PROVE  /\ \A k \in DOMAIN working' : Harmless(working'[k])
         /\ \A k \in DOMAIN callbacks' : Harmless(callbacks'[k])
<1>1. callbacks \in Seq(Callback)
  BY DEF IInv, TypeOK
<1>2. \A k \in DOMAIN (callbacks \o pushed) : Harmless((callbacks \o pushed)[k])
  BY <1>1, DueIsHarmless, JoinedAreHarmless
<1>3. CASE handling
  <2>1. callbacks' = callbacks \o pushed /\ working' = working
    BY <1>3 DEF CallbackNow
  <2> QED
    BY <1>2, <2>1, DueIsHarmless
<1>4. CASE ~handling
  <2>1. working' = callbacks \o pushed /\ callbacks' = <<>>
    BY <1>4 DEF CallbackNow
  <2> QED
    BY <1>2, <2>1
<1> QED
  BY <1>3, <1>4

(* One plain callback is pushed. *)
LEMMA PushedOne ==
  ASSUME IInv, LInv, NEW c \in Callback, c.type # "replace", CallbackNow(<<c>>)
  PROVE  /\ \A k \in DOMAIN working' : Harmless(working'[k])
         /\ \A k \in DOMAIN callbacks' : Harmless(callbacks'[k])
<1>1. <<c>> \in Seq(Callback) /\ \A k \in DOMAIN <<c>> : <<c>>[k] = c
  OBVIOUS
<1>2. \A k \in DOMAIN <<c>> : Harmless(<<c>>[k])
  BY <1>1, PlainIsHarmless
<1> QED
  BY <1>1, <1>2, PushedHarmless

(* A call is over. *)
LEMMA FinishLimits ==
  ASSUME IInv, LInv, Finish
  PROVE  LInv'
<1>1. PICK c \in Callback : c = Cb("book_update", 1)
  <2>1. 1 \in Order
    BY DEF Order, ConstantsAssumption
  <2> QED
    BY <2>1, PlainCb
<1>2. order' = order /\ CallbackNow(<<c>>) /\ c.type # "replace"
  BY <1>1 DEF Finish, Cb
<1> QED
  BY <1>2, PushedOne, SameOrdersLimits

(* A cancel. *)
LEMMA CancelLimits ==
  ASSUME IInv, LInv, NEW o \in Order, Cancel(o)
  PROVE  LInv'
<1>1. order' = order
  BY DEF Cancel
<1>2. CASE OnMarket(o)
  <2>1. PICK c \in Callback, b \in Callback : c = Cb("cancel", o) /\ b = Cb("book_update", 1)
    <3>1. 1 \in Order
      BY DEF Order, ConstantsAssumption
    <3> QED
      BY <3>1, PlainCb
  <2>2. PICK d : d = [c EXCEPT !.qty = open[o]]
    OBVIOUS
  <2>3. d \in Callback /\ d.type # "replace" /\ b.type # "replace"
    <3>1. open[o] \in Quantity /\ c.type = "cancel" /\ b.type = "book_update"
      BY <2>1 DEF IInv, TypeOK, Cb
    <3> QED
      BY <2>1, <2>2, <3>1 DEF Callback
  <2>4. CallbackNow(<<d, b>>)
    BY <1>2, <2>1, <2>2 DEF Cancel
  <2>5. <<d, b>> \in Seq(Callback) /\ \A k \in DOMAIN <<d, b>> : <<d, b>>[k] \in {d, b}
    BY <2>1, <2>3
  <2>6. \A k \in DOMAIN <<d, b>> : Harmless(<<d, b>>[k])
    BY <2>3, <2>5, PlainIsHarmless
  <2> QED
    BY <1>1, <2>4, <2>5, <2>6, PushedHarmless, SameOrdersLimits
<1>3. CASE ~OnMarket(o)
  <2>1. PICK c \in Callback : c = Cb("cancel_reject", o)
    BY PlainCb
  <2>2. CallbackNow(<<c>>) /\ c.type # "replace"
    BY <1>3, <2>1 DEF Cancel, Cb
  <2> QED
    BY <1>1, <2>2, PushedOne, SameOrdersLimits
<1> QED
  BY <1>2, <1>3

(* The price that an all-or-none order is replaced to is a limit, too. *)
LEMMA ReplaceLimits ==
  ASSUME IInv, LInv, NEW o \in Order, NEW delta \in Deltas, NEW newPrice \in NewPrices,
         Replace(o, delta, newPrice)
  PROVE  LInv'
<1>1. order' = order /\ o \in Used
  BY DEF Replace
<1>2. CASE ~OnMarket(o)
  <2>1. PICK c \in Callback : c = Cb("replace_reject", o)
    BY PlainCb
  <2>2. CallbackNow(<<c>>) /\ c.type # "replace"
    BY <1>2, <2>1 DEF Replace, Cb
  <2> QED
    BY <1>1, <2>2, PushedOne, SameOrdersLimits
<1>3. CASE OnMarket(o)
  <2>1. PICK change \in Int : change = AllowedDelta(o, delta)
    BY DeltaFacts
  <2>2. order[o].price \in Price /\ newPrice \in Price
    BY ConstantsAssumption DEF IInv, TypeOK, SimpleOrder, ConstantsAssumption
  <2>3. PICK price \in Price : price = ReplacedPrice(o, newPrice)
    BY <2>2 DEF ReplacedPrice
  <2>4. AllOrNone(o) => price # MARKET_ORDER_PRICE
    BY <2>3 DEF ReplacedPrice, LInv, Limited, MARKET_ORDER_PRICE
  <2>5. ReplaceFound(o, change, price)
    BY <1>3, <2>1, <2>3 DEF Replace
  <2>6. PICK c \in Callback, d \in Callback : c = ReplaceCb(o, change, price) /\ d = Cb("cancel", o)
    BY ReplaceCbType, PlainCb DEF IInv
  <2>7. Harmless(c)
    BY <1>1, <2>4, <2>6 DEF Harmless, KeepsLimit, ReplaceCb
  <2>8. Harmless(d)
    BY <2>6, PlainIsHarmless DEF Cb
  <2>9. working' = working /\ (callbacks' = callbacks \o <<c, d>> \/ callbacks' = Append(callbacks, c))
    BY <2>5, <2>6 DEF ReplaceFound
  <2>10. callbacks \in Seq(Callback)
    BY DEF IInv, TypeOK
  <2>11. \A k \in DOMAIN callbacks' :
           callbacks'[k] \in {c, d} \/ (k \in DOMAIN callbacks /\ callbacks'[k] = callbacks[k])
    <3>1. CASE callbacks' = callbacks \o <<c, d>>
      BY <2>10, <3>1
    <3>2. CASE callbacks' = Append(callbacks, c)
      BY <2>10, <3>2
    <3> QED
      BY <2>9, <3>1, <3>2
  <2>12. \A k \in DOMAIN callbacks' : Harmless(callbacks'[k])
    BY <2>7, <2>8, <2>11, DueIsHarmless
  <2> QED
    BY <1>1, <2>9, <2>12, DueIsHarmless, SameOrdersLimits
<1> QED
  BY <1>2, <1>3

(* A new all-or-none order has a limit. *)
LEMMA AddLimits ==
  ASSUME AonAreLimits, IInv, LInv, NEW o \in Order, NEW t \in Menu, Add(o, t)
  PROVE  LInv'
<1>1. Used = 1..(o - 1) /\ order' = [order EXCEPT ![o] = NewOrder(o, t)]
  BY DEF Add
<1>2. /\ o \notin Used /\ order'[o] = NewOrder(o, t)
      /\ \A p \in Used : p # o /\ p \in Used' /\ Unaltered(p)
  BY <1>1, NewTerms
<1>3. ConditionsStay
  BY <1>2 DEF ConditionsStay, Unaltered, AllOrNone
<1>4. Limited'
  <2> SUFFICES ASSUME NEW p \in Order, AllOrNone(p)'
               PROVE  order'[p].price # MARKET_ORDER_PRICE
    BY DEF Limited, Order
  <2>1. CASE p = o
    <3>1. order'[o].aon = t.aon /\ order'[o].price = t.price
      BY <1>2 DEF NewOrder
    <3> QED
      BY <2>1, <3>1 DEF AonAreLimits, AllOrNone
  <2>2. CASE p # o
    <3>1. order'[p] = order[p]
      BY <1>1, <2>2 DEF IInv, TypeOK
    <3> QED
      BY <3>1 DEF AllOrNone, LInv, Limited
  <2> QED
    BY <2>1, <2>2
<1>5. CASE t.qty = 0
  <2>1. PICK c \in Callback : c = Cb("reject", o)
    BY PlainCb
  <2>2. CallbackNow(<<c>>) /\ c.type # "replace"
    BY <1>5, <2>1 DEF Add, Cb
  <2> QED
    BY <1>3, <1>4, <2>2, PushedOne, LimitsToComeStill DEF LInv
<1>6. CASE t.qty # 0
  <2>1. PICK c \in Callback : c = Cb("accept", o)
    BY PlainCb
  <2>2. callbacks' = Append(callbacks, c) /\ working' = working /\ c.type # "replace"
    BY <1>6, <2>1 DEF Add, Cb
  <2>3. callbacks \in Seq(Callback)
    BY DEF IInv, TypeOK
  <2>4. \A k \in DOMAIN callbacks' :
          callbacks'[k] = c \/ (k \in DOMAIN callbacks /\ callbacks'[k] = callbacks[k])
    BY <2>2, <2>3
  <2>5. \A k \in DOMAIN callbacks' : Harmless(callbacks'[k])
    BY <2>2, <2>4, DueIsHarmless, PlainIsHarmless
  <2> QED
    BY <1>3, <1>4, <2>2, <2>5, DueIsHarmless, LimitsToComeStill DEF LInv
<1> QED
  BY <1>5, <1>6

(* A notification changes no condition, and leaves the limits. *)
LEMMA NotifiedLimits ==
  ASSUME TypeOK, Limited, NEW cb \in Callback, KeepsLimit(cb)
  PROVE  \A p \in Order : /\ Notified(cb)[p].aon = order[p].aon
                          /\ AllOrNone(p) => Notified(cb)[p].price # MARKET_ORDER_PRICE
<1> DEFINE o == cb.order
<1>1. order \in [Order -> SimpleOrder] /\ o \in Order
  BY DEF TypeOK, Callback
<1>2. \A p \in Order : order[p] \in SimpleOrder
  BY <1>1
<1>3. ASSUME NEW x, Notified(cb) = [order EXCEPT ![o] = x], x.aon = order[o].aon,
             x.price = order[o].price \/ (AllOrNone(o) => x.price # MARKET_ORDER_PRICE)
      PROVE  \A p \in Order : /\ Notified(cb)[p].aon = order[p].aon
                              /\ AllOrNone(p) => Notified(cb)[p].price # MARKET_ORDER_PRICE
  BY <1>1, <1>3 DEF Limited
<1>4. CASE cb.type = "accept" /\ order[o].state = "new"
  <2> DEFINE x == [order[o] EXCEPT !.state = "accepted"]
  <2>1. Notified(cb) = [order EXCEPT ![o] = x]
    BY <1>4 DEF Notified
  <2>2. x.price = order[o].price /\ x.aon = order[o].aon
    BY <1>1, <1>2 DEF SimpleOrder
  <2> QED
    BY <1>3, <2>1, <2>2
<1>5. CASE cb.type = "fill"
  <2>1. Notified(cb) = [p \in Order |-> IF p \in {o, cb.matched} THEN Filled(order[p], cb.qty)
                                        ELSE order[p]]
    BY <1>5 DEF Notified
  <2>2. ASSUME NEW p \in Order
        PROVE  /\ Filled(order[p], cb.qty).price = order[p].price
               /\ Filled(order[p], cb.qty).aon = order[p].aon
    <3>1. order[p] \in SimpleOrder
      BY <1>2
    <3> QED
      BY <3>1 DEF Filled, SimpleOrder
  <2> QED
    BY <2>1, <2>2 DEF Limited
<1>6. CASE cb.type = "cancel" /\ order[o].state # "complete"
  <2> DEFINE x == [order[o] EXCEPT !.state = "cancelled"]
  <2>1. Notified(cb) = [order EXCEPT ![o] = x]
    BY <1>6 DEF Notified
  <2>2. x.price = order[o].price /\ x.aon = order[o].aon
    BY <1>1, <1>2 DEF SimpleOrder
  <2> QED
    BY <1>3, <2>1, <2>2
<1>7. CASE cb.type = "replace" /\ order[o].state = "accepted"
  <2> DEFINE x == [order[o] EXCEPT !.qty = @ + cb.delta, !.price = cb.price]
  <2>1. Notified(cb) = [order EXCEPT ![o] = x]
    <3>1. Notified(cb) = [order EXCEPT ![o].qty = @ + cb.delta, ![o].price = cb.price]
      BY <1>7 DEF Notified
    <3> QED
      BY <1>1, <1>2, <3>1 DEF SimpleOrder
  <2>2. AllOrNone(o) => cb.price # MARKET_ORDER_PRICE
    BY <1>7 DEF KeepsLimit
  <2>3. x.price = cb.price /\ x.aon = order[o].aon
    BY <1>1, <1>2 DEF SimpleOrder
  <2> QED
    BY <1>3, <2>1, <2>2, <2>3
<1>8. CASE ~(\/ cb.type = "accept" /\ order[o].state = "new"
             \/ cb.type = "fill"
             \/ cb.type = "cancel" /\ order[o].state # "complete"
             \/ cb.type = "replace" /\ order[o].state = "accepted")
  BY <1>8 DEF Notified, Limited
<1> QED
  BY <1>4, <1>5, <1>6, <1>7, <1>8

(* What a performed callback says of the orders. *)
LEMMA PerformTerms ==
  ASSUME IInv, LInv, Perform \/ ListenerThrows
  PROVE  /\ Used \subseteq Used' /\ Used \subseteq Order
         /\ \A p \in Order : order'[p].aon = order[p].aon /\ order'[p].buy = order[p].buy
         /\ Limited'
<1>1. Performed /\ pc = "deliver" /\ TypeOK /\ Limited
  BY DEF Perform, ListenerThrows, Performed, IInv, LInv
<1>2. CASE ListenerThrows
  BY <1>1, <1>2 DEF ListenerThrows, Used, Limited, AllOrNone, Order
<1>3. CASE Perform
  <2>1. working \in Seq(Callback) /\ working # <<>>
    BY <1>1 DEF IInv, TypeOK, Delivering
  <2>2. PICK cb \in Callback : cb = Head(working)
    BY <2>1
  <2>3. KeepsLimit(cb)
    BY <2>1, <2>2 DEF LInv, LimitsToCome
  <2>4. order' = Notified(cb)
    BY <1>3, <2>2 DEF Perform
  <2>5. \A p \in Order : /\ Notified(cb)[p].aon = order[p].aon
                         /\ AllOrNone(p) => Notified(cb)[p].price # MARKET_ORDER_PRICE
    BY <1>1, <2>3, NotifiedLimits
  <2>6. \A p \in Order : /\ Notified(cb)[p].buy = order[p].buy
                         /\ order[p].state # "none" => Notified(cb)[p].state # "none"
    BY <1>1, NotifiedType
  <2>7. Limited'
    BY <2>4, <2>5 DEF Limited, AllOrNone, Order
  <2> QED
    BY <2>4, <2>5, <2>6, <2>7 DEF Used
<1> QED
  BY <1>2, <1>3

(* A listener is notified, and returns or throws. *)
LEMMA PerformLimits ==
  ASSUME IInv, LInv, Perform \/ ListenerThrows
  PROVE  LInv'
<1>1. Performed /\ pc = "deliver"
  BY DEF Perform, ListenerThrows, Performed
<1>2. working \in Seq(Callback) /\ working # <<>>
  BY <1>1 DEF IInv, TypeOK, Delivering
<1>3. ConditionsStay /\ Limited'
  BY PerformTerms DEF ConditionsStay, AllOrNone
<1>4. CASE Tail(working) # <<>>
  <2>1. working' = Tail(working) /\ callbacks' = callbacks
    BY <1>1, <1>4 DEF Performed
  <2>2. \A k \in DOMAIN working' : k + 1 \in DOMAIN working /\ working'[k] = working[k + 1]
    BY <1>2, <2>1
  <2>3. \A k \in DOMAIN working' : Harmless(working'[k])
    BY <2>2, DueIsHarmless
  <2> QED
    BY <1>3, <2>1, <2>3, DueIsHarmless, LimitsToComeStill DEF LInv
<1>5. CASE Tail(working) = <<>>
  <2>1. working' = callbacks /\ callbacks' = <<>>
    BY <1>1, <1>5 DEF Performed
  <2> QED
    BY <1>3, <2>1, DueIsHarmless, LimitsToComeStill DEF LInv
<1> QED
  BY <1>4, <1>5

(* The application starts without orders, and so without limits.           *)
LEMMA InitLInv ==
  ASSUME Init PROVE LInv
BY DEF Init, LInv, Limited, LimitsToCome, AllOrNone, NoOrder

(* Every step keeps the limits.                                            *)
LEMMA NextKeepsLInv ==
  ASSUME AonAreLimits, IInv, LInv, [Next]_vars
  PROVE  LInv'
<1>1. ASSUME NEW o \in Order, NEW t \in Menu, Add(o, t)
      PROVE  LInv'
  BY <1>1, AddLimits
<1>2. ASSUME NEW o \in Order, Cancel(o)
      PROVE  LInv'
  BY <1>2, CancelLimits
<1>3. ASSUME NEW o \in Order, NEW delta \in Deltas, NEW price \in NewPrices,
             Replace(o, delta, price)
      PROVE  LInv'
  BY <1>3, ReplaceLimits
<1>4. ASSUME NEW price \in MarketPrices, MarketPriceSet(price)
      PROVE  LInv'
  BY <1>4, QuietLimits DEF MarketPriceSet, queues
<1>5. CASE UNCHANGED vars
  BY <1>5, QuietLimits DEF vars
<1>6. CASE BookStep
  BY <1>6, MatchLimits, AddOrderLimits, FinishLimits, PerformLimits DEF BookStep, PendingStep
<1> QED
  BY <1>1, <1>2, <1>3, <1>4, <1>5, <1>6 DEF Next, Application

(* Every all-or-none order has a limit, and will keep it. *)
LEMMA LimitsStay ==
  ASSUME AonAreLimits PROVE Spec => []LInv
<1>1. Init => LInv
  BY InitLInv
<1>2. IInv /\ LInv /\ [Next]_vars => LInv'
  BY NextKeepsLInv
<1> QED
  BY <1>1, <1>2, Invariance, PTL DEF Spec

-----------------------------------------------------------------------------
(* The inductive invariant of the quantities *)

(* What match_order() has left is what the tracker of its order has open,  *)
(* but for what the running attempt has got.                               *)
Level ==
  /\ pc = "match" => m.left = open[m.taker]
  /\ Trying => open[m.taker] = m.left - plan.got

(* The orders that are still to come rest in the book. *)
TodoStands ==
  Matching => /\ m.todo \subseteq market[Opposite(m.taker)]
              /\ m.todo \cap m.deferred = {}

(* The attempt is made for one order, which is not too big, and is to get  *)
(* what match_aon_order() asked for.                                       *)
GoalStands ==
  Trying => /\ AllOrNone(m.taker) /\ plan.goal \in Used
            /\ plan.goal \notin m.todo /\ plan.goal \notin m.deferred
            /\ ~TooBig(plan.goal)
            /\ plan.max = MostFromDeferred(plan.goal)
            /\ plan.min = LeastFromDeferred(plan.goal)
            /\ plan.fills \in [Order -> Nat]

(* The deferred orders rest in the book for as long as they may be used:   *)
(* an attempt that trades with one of them fills the taker.                *)
DeferredStand ==
  /\ pc = "match" /\ open[m.taker] > 0 => m.deferred \subseteq market[Opposite(m.taker)]
  /\ pc = "propose" => m.deferred \subseteq market[Opposite(m.taker)]
  /\ pc = "settle" => plan.todo \subseteq market[Opposite(m.taker)]

(* A proposal takes no more than is open, and all or nothing of an order   *)
(* that wants it.                                                          *)
FillFits(d) == /\ plan.fills[d] <= open[d]
               /\ AllOrNone(d) => plan.fills[d] = 0 \/ plan.fills[d] = open[d]

(* What was proposed so far adds up. *)
Proposing ==
  pc = "propose" => /\ plan.got = 0 /\ plan.found >= 0 /\ plan.found <= plan.max
                    /\ plan.found = Sum(plan.fills, m.deferred)
                    /\ \A d \in m.deferred : FillFits(d)
                    /\ \A d \in plan.todo : plan.fills[d] = 0

(* What is still to be traded makes up what was found. *)
Settling ==
  pc = "settle" => /\ EnoughFound
                   /\ plan.found = plan.got + Sum(plan.fills, plan.todo)
                   /\ \A d \in plan.todo : FillFits(d)

(* The attempt got all that it found, or did not begin to trade. *)
Closing ==
  pc = "close" => IF EnoughFound THEN plan.got = plan.found
                  ELSE /\ plan.got = 0 /\ plan.found >= 0 /\ plan.found <= plan.max
                       /\ m.deferred \subseteq market[Opposite(m.taker)]

(* The order has not been traded, or has been filled. *)
Even(o) == traded[o] = 0 \/ open[o] = 0

(* All-or-none orders are even, but for the one that is trading with the   *)
(* deferred orders and will trade with the goal.                           *)
MidTrade(o) == pc \in {"settle", "close"} /\ EnoughFound /\ o = m.taker

Evened == \A o \in Order : AllOrNone(o) => Even(o) \/ MidTrade(o)

(* An order that was not submitted was not traded. *)
Untraded == \A o \in Order : o \notin Used => traded[o] = 0

(* The inductive invariant of the quantities. *)
WInv == /\ Level /\ TodoStands /\ GoalStands /\ DeferredStand
        /\ Proposing /\ Settling /\ Closing /\ Evened /\ Untraded
        /\ pc # "undefined"

-----------------------------------------------------------------------------
(* Quantities: steps outside of a match *)

(* After the step every all-or-none order is even. *)
AllEven == \A o \in Order : AllOrNone(o) => Even(o)

(* A step that does not end in a match. *)
LEMMA OutsideWhole ==
  ASSUME ~Matching', AllEven', Untraded'
  PROVE  WInv'
<1>1. pc' \notin {"match", "propose", "settle", "close", "undefined"}
  BY DEF Matching
<1>2. Level' /\ TodoStands' /\ GoalStands' /\ DeferredStand' /\ Proposing' /\ Settling' /\ Closing'
  BY <1>1 DEF Level, TodoStands, GoalStands, DeferredStand, Proposing, Settling, Closing, Trying,
              Matching
<1>3. Evened'
  BY DEF AllEven, Evened, Order
<1> QED
  BY <1>1, <1>2, <1>3 DEF WInv

(* A step that begins a match with all that is open. *)
LEMMA StartWhole ==
  ASSUME NEW o \in Order, NEW price, NEW qty, NEW others,
         StartMatch(o, price, qty, others), open'[o] = qty,
         NEW s, s = Opposite(o)', others \subseteq market'[s],
         AllEven', Untraded'
  PROVE  WInv'
<1>1. /\ pc' = "match" /\ m'.taker = o /\ m'.left = qty /\ m'.todo = others
      /\ m'.deferred = {} /\ ~Trying'
  BY DEF StartMatch, Trying
<1>2. Level' /\ GoalStands' /\ Proposing' /\ Settling' /\ Closing'
  BY <1>1 DEF Level, GoalStands, Proposing, Settling, Closing
<1>3. Opposite(m.taker)' = s
  BY <1>1 DEF Opposite
<1>4. TodoStands' /\ DeferredStand'
  BY <1>1, <1>3 DEF TodoStands, DeferredStand
<1>5. Evened'
  BY DEF AllEven, Evened, Order
<1> QED
  BY <1>1, <1>2, <1>4, <1>5 DEF WInv

(* Where no attempt is trading, all are even. *)
LEMMA EvenOutside ==
  ASSUME WInv, pc \notin {"settle", "close"}
  PROVE  AllEven
BY DEF WInv, Evened, MidTrade, AllEven

(* A step that changes no tracker and no condition. *)
LEMMA SameTrackers ==
  ASSUME WInv, pc \notin {"settle", "close"}, open' = open, traded' = traded,
         \A p \in Order : order'[p].aon = order[p].aon, Used \subseteq Used'
  PROVE  AllEven' /\ Untraded'
<1>1. AllEven
  BY EvenOutside
<1>2. AllEven'
  BY <1>1 DEF AllEven, AllOrNone, Even, Order
<1>3. Untraded'
  BY DEF WInv, Untraded, Order
<1> QED
  BY <1>2, <1>3

(* The end of a match, of a submission, of a call. *)
LEMMA EndsWhole ==
  ASSUME IInv, WInv, Rest \/ NestedEnds \/ Submitted \/ TakePending \/ Finish
  PROVE  WInv'
<1>1. /\ order' = order /\ open' = open /\ traded' = traded /\ pc \notin {"settle", "close"}
      /\ pc' \in {"deferred", "pending", "deliver"}
  BY DEF Rest, NestedEnds, Submitted, TakePending, Finish, CallbackNow, MatchEnds, containers,
         trackers
<1>2. Used' = Used
  BY <1>1 DEF Used
<1> QED
  BY <1>1, <1>2, SameTrackers, OutsideWhole DEF Matching

(* A deferred all-or-none order, or a triggered stop, is matched. *)
LEMMA StartsWhole ==
  ASSUME IInv, WInv, NEW o \in Order,
         SubmitPending(o) \/ (o \in aons /\ CheckDeferred(o))
  PROVE  WInv'
<1>1. /\ order' = order /\ open' = open /\ traded' = traded /\ market' = market
      /\ pc \notin {"settle", "close"}
  BY DEF SubmitPending, CheckDeferred, containers, trackers
<1>2. PICK price : StartMatch(o, price, open[o], market[Opposite(o)])
  BY DEF SubmitPending, CheckDeferred
<1>3. Used' = Used /\ Opposite(o)' = Opposite(o)
  BY <1>1 DEF Used, Opposite
<1>4. AllEven' /\ Untraded'
  BY <1>1, <1>3, SameTrackers
<1>5. PICK s, qty, others : s = Opposite(o) /\ qty = open[o] /\ others = market[s]
  OBVIOUS
<1> QED
  BY <1>1, <1>2, <1>3, <1>4, <1>5, StartWhole

(* A new order has not been traded. *)
LEMMA AddWhole ==
  ASSUME IInv, WInv, NEW o \in Order, NEW t \in Menu, Add(o, t)
  PROVE  WInv'
<1>1. /\ Used = 1..(o - 1) /\ pc \notin {"settle", "close"} /\ traded' = traded
      /\ order' = [order EXCEPT ![o] = NewOrder(o, t)] /\ open' = [open EXCEPT ![o] = t.qty]
  BY DEF Add, Ready
<1>2. /\ o \notin Used /\ order'[o] = NewOrder(o, t)
      /\ \A p \in Used : p # o /\ p \in Used' /\ Unaltered(p)
  BY <1>1, NewTerms
<1>3. /\ order \in [Order -> SimpleOrder] /\ open \in [Order -> Nat]
      /\ t.buy \in Side /\ market \in [Side -> SUBSET Order] /\ traded[o] = 0
  BY <1>2, ContainerFacts, ConstantsAssumption DEF ConstantsAssumption, Request, Side, WInv, Untraded
<1>4. \A p \in Order : p # o => order'[p] = order[p] /\ open'[p] = open[p]
  BY <1>1, <1>3
<1>5. AllEven'
  <2> SUFFICES ASSUME NEW p \in Order, AllOrNone(p)'
               PROVE  Even(p)'
    BY DEF AllEven, Order
  <2>1. AllEven
    BY <1>1, EvenOutside
  <2>2. CASE p = o
    BY <1>1, <1>3, <2>2 DEF Even
  <2>3. CASE p # o
    BY <1>1, <1>4, <2>1, <2>3 DEF AllEven, AllOrNone, Even
  <2> QED
    BY <2>2, <2>3
<1>6. Untraded'
  <2> SUFFICES ASSUME NEW p \in Order, p \notin Used'
               PROVE  traded'[p] = 0
    BY DEF Untraded, Order
  <2>1. p \notin Used
    BY <1>2
  <2> QED
    BY <1>1, <2>1 DEF WInv, Untraded
<1>7. CASE t.qty = 0 \/ Held(t)
  <2>1. pc' \in {"deliver", "pending"}
    BY <1>7 DEF Add, CallbackNow
  <2> QED
    BY <1>5, <1>6, <2>1, OutsideWhole DEF Matching
<1>8. CASE t.qty # 0 /\ ~Held(t)
  <2>1. StartMatch(o, t.price, t.qty, market[~t.buy]) /\ market' = market
    BY <1>8 DEF Add
  <2>2. open'[o] = t.qty /\ Opposite(o)' = ~t.buy
    BY <1>1, <1>2, <1>3 DEF NewOrder, Opposite
  <2>3. PICK price, qty, s, others :
          price = t.price /\ qty = t.qty /\ s = ~t.buy /\ others = market[s]
    <3>1. PICK s : s = ~t.buy
      OBVIOUS
    <3> QED
      BY <3>1
  <2> QED
    BY <1>5, <1>6, <2>1, <2>2, <2>3, StartWhole
<1> QED
  BY <1>7, <1>8

(* An order that is replaced rests in the book, with something open: if it *)
(* is all-or-none, nothing of it was traded.                               *)
LEMMA ReplaceWhole ==
  ASSUME IInv, WInv, NEW o \in Order, NEW delta \in Deltas, NEW newPrice \in NewPrices,
         Replace(o, delta, newPrice)
  PROVE  WInv'
<1>1. /\ order' = order /\ traded' = traded /\ ~Matching /\ pc \notin {"settle", "close"}
  BY DEF Replace, CanCall, Ready, Matching
<1>2. Used' = Used /\ Opposite(o)' = Opposite(o)
  BY <1>1 DEF Used, Opposite
<1>3. CASE ~OnMarket(o)
  <2>1. open' = open /\ pc' = "deliver"
    BY <1>3 DEF Replace, CallbackNow
  <2> QED
    BY <1>1, <1>2, <2>1, SameTrackers, OutsideWhole DEF Matching
<1>4. CASE OnMarket(o)
  <2>1. PICK change : change = AllowedDelta(o, delta)
    OBVIOUS
  <2>2. PICK price : price = ReplacedPrice(o, newPrice)
    OBVIOUS
  <2>3. ReplaceFound(o, change, price)
    BY <1>4, <2>1, <2>2 DEF Replace
  <2>4. /\ order[o].buy \in Side /\ market \in [Side -> SUBSET Order] /\ open \in [Order -> Nat]
        /\ open[o] > 0
    BY <1>1, <1>4, ContainerFacts DEF OnMarket
  <2>5. open' = [open EXCEPT ![o] = @ + change] /\ market' = [market EXCEPT ![order[o].buy] = @ \ {o}]
    BY <2>3 DEF ReplaceFound
  <2>6. AllEven
    BY <1>1, EvenOutside
  <2>7. AllEven'
    <3> SUFFICES ASSUME NEW p \in Order, AllOrNone(p)'
                 PROVE  Even(p)'
      BY DEF AllEven, Order
    <3>1. Even(p)
      BY <1>1, <2>6 DEF AllEven, AllOrNone
    <3>2. p = o => traded[p] = 0
      BY <2>4, <3>1 DEF Even
    <3>3. p # o => open'[p] = open[p]
      BY <2>4, <2>5
    <3> QED
      BY <1>1, <3>1, <3>2, <3>3 DEF Even
  <2>8. Untraded'
    BY <1>1, <1>2 DEF WInv, Untraded, Order
  <2>9. CASE open[o] + change = 0
    <3>1. pc' = "pending"
      BY <2>3, <2>9 DEF ReplaceFound
    <3> QED
      BY <2>7, <2>8, <3>1, OutsideWhole DEF Matching
  <2>10. CASE open[o] + change # 0
    <3>1. PICK qty : qty = open[o] + change
      OBVIOUS
    <3>2. PICK s \in Side : s = Opposite(o) /\ s # order[o].buy
      BY <2>4 DEF Opposite, Side
    <3>3. PICK others : others = market[s]
      OBVIOUS
    <3>4. StartMatch(o, price, qty, others) /\ open'[o] = qty /\ market'[s] = others
      BY <2>3, <2>4, <2>5, <2>10, <3>1, <3>2, <3>3 DEF ReplaceFound
    <3> QED
      BY <1>2, <2>7, <2>8, <3>2, <3>4, StartWhole
  <2> QED
    BY <2>9, <2>10
<1> QED
  BY <1>3, <1>4

-----------------------------------------------------------------------------
(* Quantities: trades *)

(* What a trade of q changes. *)
LEMMA OneTrade ==
  ASSUME IInv, Matching, NEW cur \in Order, order[cur].buy = Opposite(m.taker),
         NEW q \in Nat, NEW always, MaybeTrade(cur, q, always)
  PROVE  /\ order' = order /\ m.taker \in Order /\ m.taker # cur /\ m.taker \in Used
         /\ open'[m.taker] = open[m.taker] - q /\ open'[cur] = open[cur] - q
         /\ \A o \in Order : o # m.taker /\ o # cur => open'[o] = open[o] /\ traded'[o] = traded[o]
         /\ q = 0 => open' = open /\ traded' = traded
         /\ \A s \in Side : \A o \in market[s] : o # cur => o \in market'[s]
<1>1. /\ order' = order /\ m.taker \in Order /\ m.taker \in Used
      /\ m.taker # cur /\ Opposite(m.taker) \in Side
      /\ open \in [Order -> Nat] /\ traded \in [Order -> Nat] /\ market \in [Side -> SUBSET Order]
  BY DEF IInv, TypeOK, Match, Quantity, Opposite, SimpleOrder, Side, Facing, MaybeTrade
<1>2. CASE q > 0
  <2>1. CreateTrade(cur, q, always)
    BY <1>2 DEF MaybeTrade
  <2>2. /\ open' = [open EXCEPT ![m.taker] = @ - q, ![cur] = @ - q]
        /\ traded' = [traded EXCEPT ![m.taker] = @ + q, ![cur] = @ + q]
    BY <2>1 DEF CreateTrade
  <2>3. market' = market \/ market' = [market EXCEPT ![Opposite(m.taker)] = @ \ {cur}]
    BY <2>1 DEF CreateTrade
  <2>4. \A s \in Side : \A o \in market[s] : o # cur => o \in market'[s]
    BY <1>1, <2>3
  <2>5. /\ open'[m.taker] = open[m.taker] - q /\ open'[cur] = open[cur] - q
        /\ \A o \in Order : o # m.taker /\ o # cur => open'[o] = open[o] /\ traded'[o] = traded[o]
    BY <1>1, <2>2
  <2> QED
    BY <1>1, <1>2, <2>4, <2>5
<1>3. CASE q = 0
  <2>1. UNCHANGED <<open, traded, market>>
    BY <1>3 DEF MaybeTrade
  <2> QED
    BY <1>1, <1>3, <2>1
<1> QED
  BY <1>2, <1>3

(* All-or-none orders other than the taker stay even when the resting one  *)
(* is traded as a whole.                                                   *)
LEMMA TradeEvens ==
  ASSUME IInv, WInv, Matching, NEW cur \in Order, order[cur].buy = Opposite(m.taker), cur \in Used,
         NEW q \in Nat, NEW always, MaybeTrade(cur, q, always),
         AllOrNone(cur) => q = 0 \/ q = open[cur]
  PROVE  /\ Untraded'
         /\ \A o \in Order : AllOrNone(o)' /\ o # m.taker => Even(o)'
<1>1. /\ order' = order /\ m.taker # cur /\ m.taker \in Used
      /\ open'[cur] = open[cur] - q
      /\ \A o \in Order : o # m.taker /\ o # cur => open'[o] = open[o] /\ traded'[o] = traded[o]
      /\ q = 0 => open' = open /\ traded' = traded
  BY OneTrade
<1>2. Untraded'
  <2> SUFFICES ASSUME NEW o \in Order, o \notin Used'
               PROVE  traded'[o] = 0
    BY DEF Untraded, Order
  <2>1. o \notin Used
    BY <1>1 DEF Used
  <2>2. traded[o] = 0 /\ o # m.taker /\ o # cur
    BY <1>1, <2>1 DEF WInv, Untraded
  <2> QED
    BY <1>1, <2>2
<1>3. ASSUME NEW o \in Order, AllOrNone(o)', o # m.taker
      PROVE  Even(o)'
  <2>1. AllOrNone(o)
    BY <1>1, <1>3 DEF AllOrNone
  <2>2. Even(o)
    BY <1>3, <2>1 DEF WInv, Evened, MidTrade
  <2>3. CASE o # cur
    BY <1>1, <1>3, <2>2, <2>3 DEF Even
  <2>4. CASE o = cur
    <3>1. open[cur] \in Nat
      BY ContainerFacts
    <3>2. q = 0 \/ open'[cur] = 0
      BY <1>1, <2>1, <2>4, <3>1
    <3> QED
      BY <1>1, <2>2, <2>4, <3>2 DEF Even
  <2> QED
    BY <2>3, <2>4
<1> QED
  BY <1>2, <1>3

(* An all-or-none order makes a price. *)
LEMMA AonMakesPrice ==
  ASSUME IInv, LInv, NEW cur \in Order, AllOrNone(m.taker) \/ AllOrNone(cur)
  PROVE  CrossPrice(cur) # MARKET_ORDER_PRICE
<1>1. m.taker \in Order
  BY DEF IInv, TypeOK, Match
<1> QED
  BY <1>1 DEF LInv, Limited, CrossPrice

(* What create_trade() trades when there is a price. *)
LEMMA QtyTraded ==
  ASSUME IInv, NEW cur \in Order, NEW max \in Nat
  PROVE  /\ TradeQty(cur, max) \in Nat
         /\ TradeQty(cur, max) <= open[cur] /\ TradeQty(cur, max) <= open[m.taker]
         /\ CrossPrice(cur) # MARKET_ORDER_PRICE /\ max <= open[cur] =>
              TradeQty(cur, max) = Least(max, open[m.taker])
<1>1. m.taker \in Order /\ open[cur] \in Nat /\ open[m.taker] \in Nat
  BY DEF IInv, TypeOK, Match, Quantity
<1>2. PICK x, y : x = open[cur] /\ y = open[m.taker]
  OBVIOUS
<1> QED
  BY <1>1, <1>2 DEF TradeQty, Least

(* A match goes on or begins again after an attempt. *)
LEMMA GoesOnWhole ==
  ASSUME pc' = "match", m'.left = open'[m'.taker],
         NEW s, s = Opposite(m.taker)', m'.todo \subseteq market'[s],
         m'.todo \cap m'.deferred = {},
         open'[m'.taker] > 0 => m'.deferred \subseteq market'[s],
         AllEven', Untraded'
  PROVE  WInv'
<1>1. ~Trying'
  BY DEF Trying
<1>2. Level' /\ GoalStands' /\ Proposing' /\ Settling' /\ Closing'
  BY <1>1 DEF Level, GoalStands, Proposing, Settling, Closing
<1>3. TodoStands' /\ DeferredStand'
  BY DEF TodoStands, DeferredStand
<1>4. Evened'
  BY DEF AllEven, Evened, Order
<1> QED
  BY <1>2, <1>3, <1>4 DEF WInv

(* A match in which an all-or-none order is deferred. *)
LEMMA DeferWhole ==
  ASSUME IInv, WInv, NEW e \in m.todo, DeferAon(e) \/ DeferMatch(e)
  PROVE  WInv'
<1>1. /\ Candidate(e) /\ pc' = pc
      /\ order' = order /\ open' = open /\ traded' = traded /\ market' = market
  BY DEF DeferAon, DeferMatch, containers, trackers
<1>2. /\ pc = "match" /\ Matching /\ m \in Match /\ open[m.taker] > 0
      /\ e \in Order /\ open[e] \in Nat /\ m.dqty \in Nat
  BY <1>1, CandidateFacts DEF Candidate
<1>3. /\ m'.taker = m.taker /\ m'.left = m.left /\ m'.todo = m.todo \ {e}
      /\ m'.deferred = m.deferred \/ m'.deferred = m.deferred \cup {e}
  <2>1. CASE DeferAon(e)
    BY <1>2, <2>1 DEF DeferAon, Match
  <2>2. CASE DeferMatch(e)
    <3>1. m' = [m EXCEPT !.dqty = @ + open[e], !.deferred = @ \cup {e}, !.todo = @ \ {e}]
      BY <2>2 DEF DeferMatch
    <3> QED
      BY <1>2, <3>1 DEF Match
  <2> QED
    BY <2>1, <2>2
<1>4. PICK s : s = Opposite(m.taker)
  OBVIOUS
<1>5. Opposite(m.taker)' = s /\ Used' = Used
  BY <1>1, <1>3, <1>4 DEF Opposite, Used
<1>6. /\ m.left = open[m.taker] /\ m.todo \subseteq market[s] /\ m.todo \cap m.deferred = {}
      /\ m.deferred \subseteq market[s]
  BY <1>2, <1>4 DEF WInv, Level, TodoStands, DeferredStand
<1>7. AllEven' /\ Untraded'
  BY <1>1, <1>2, <1>5, SameTrackers
<1> QED
  BY <1>1, <1>2, <1>3, <1>5, <1>6, <1>7, GoesOnWhole

(* A regular order trades with an all-or-none order only as a whole: one   *)
(* that wants more than is left was deferred.                              *)
LEMMA MatchRegularWhole ==
  ASSUME IInv, LInv, WInv, NEW e \in m.todo, MatchRegular(e)
  PROVE  WInv'
<1>1. PICK q : q = TradeQty(e, open[e])
  OBVIOUS
<1>2. PICK always : always = AllOrNone(e)
  OBVIOUS
<1>3. /\ Candidate(e) /\ ~AllOrNone(m.taker) /\ ~TooBig(e) /\ pc' = pc
      /\ MaybeTrade(e, q, always)
      /\ m' = [m EXCEPT !.left = @ - q, !.todo = @ \ {e}]
  BY <1>1, <1>2 DEF MatchRegular
<1>4. /\ pc = "match" /\ Matching /\ m \in Match /\ open[m.taker] > 0
      /\ e \in Order /\ e \in Used /\ open[e] \in Nat /\ order[e].buy = Opposite(m.taker)
      /\ m.left \in Int
  BY <1>3, CandidateFacts DEF Candidate
<1>5. q \in Nat
  BY <1>1, <1>4, QtyTraded
<1>6. /\ m.left = open[m.taker]
      /\ m.todo \subseteq market[Opposite(m.taker)] /\ m.todo \cap m.deferred = {}
      /\ m.deferred \subseteq market[Opposite(m.taker)]
  BY <1>4 DEF WInv, Level, TodoStands, DeferredStand
<1>7. AllOrNone(e) => q = open[e]
  <2> SUFFICES ASSUME AllOrNone(e)
               PROVE  q = open[e]
    OBVIOUS
  <2>1. open[e] <= open[m.taker]
    BY <1>3, <1>4, <1>6 DEF TooBig
  <2>2. CrossPrice(e) # MARKET_ORDER_PRICE
    BY <1>4, AonMakesPrice
  <2>3. q = Least(open[e], open[m.taker])
    BY <1>1, <1>4, <2>2, QtyTraded
  <2>4. PICK x, y : x = open[e] /\ y = open[m.taker]
    OBVIOUS
  <2>5. x \in Nat /\ y \in Nat
    BY <1>4, <2>4, ContainerFacts DEF Match
  <2> QED
    BY <2>1, <2>3, <2>4, <2>5 DEF Least
<1>8. /\ order' = order /\ m.taker # e /\ m.taker \in Order
      /\ open'[m.taker] = open[m.taker] - q
      /\ \A s \in Side : \A o \in market[s] : o # e => o \in market'[s]
  BY <1>3, <1>4, <1>5, OneTrade
<1>9. /\ Untraded' /\ \A o \in Order : AllOrNone(o)' /\ o # m.taker => Even(o)'
  BY <1>3, <1>4, <1>5, <1>7, TradeEvens
<1>10. AllEven'
  BY <1>3, <1>8, <1>9 DEF AllEven, AllOrNone, Order
<1>11. /\ m'.taker = m.taker /\ m'.left = m.left - q /\ m'.todo = m.todo \ {e}
       /\ m'.deferred = m.deferred
  BY <1>3, <1>4, <1>5 DEF Match
<1>12. PICK s \in Side : s = Opposite(m.taker)
  BY <1>8, ContainerFacts DEF Opposite, Side
<1>13. Opposite(m.taker)' = s
  BY <1>8, <1>11, <1>12 DEF Opposite
<1>14. m'.todo \subseteq market'[s] /\ m'.deferred \subseteq market'[s]
  BY <1>6, <1>8, <1>11, <1>12
<1>15. m'.left = open'[m'.taker] /\ m'.todo \cap m'.deferred = {}
  BY <1>6, <1>8, <1>11
<1> QED
  BY <1>3, <1>4, <1>9, <1>10, <1>13, <1>14, <1>15, GoesOnWhole

-----------------------------------------------------------------------------
(* Quantities: the attempts of match_aon_order() *)

(* Quantities of orders can be summed. *)
LEMMA OrdersAreFinite ==
  IsFiniteSet(Order)
<1>1. 1 \in Int /\ MaxOrders \in Int
  BY DEF ConstantsAssumption
<1> QED
  BY <1>1, FS_Interval DEF Order

(* The sum of proposals of which there are none yet. *)
LEMMA NothingProposed ==
  ASSUME NEW f \in [Order -> Int], NEW T \in SUBSET Order, \A o \in T : f[o] = 0
  PROVE  Sum(f, T) = 0
<1> DEFINE e == [o \in T |-> 0]
<1>1. IsFiniteSet(T)
  BY OrdersAreFinite, FS_Subset
<1>2. e \in [T -> Int] /\ \A o \in T : f[o] = e[o]
  OBVIOUS
<1>3. Sum(e, T) = 0
  BY <1>1, SumOfZeros
<1> HIDE DEF e
<1>4. Sum(f, T) = Sum(e, T)
  BY <1>1, <1>2, OrdersAreFinite, SumOfSame
<1> QED
  BY <1>3, <1>4

(* What holds during an attempt. *)
LEMMA TryFacts ==
  ASSUME IInv, WInv, Trying
  PROVE  /\ Matching /\ m \in Match /\ plan \in Plan /\ plan.fills \in [Order -> Nat]
         /\ m.taker \in Order /\ m.taker \in Used /\ AllOrNone(m.taker)
         /\ open[m.taker] \in Nat /\ m.left \in Int
         /\ plan.goal \in Order /\ plan.goal \in Used /\ order[plan.goal].buy = Opposite(m.taker)
         /\ plan.goal # m.taker /\ open[plan.goal] \in Nat
         /\ plan.goal \notin m.todo /\ plan.goal \notin m.deferred
         /\ plan.max \in Int /\ plan.min \in Int /\ plan.found \in Int /\ plan.got \in Int
         /\ plan.todo \subseteq m.deferred /\ m.deferred \in SUBSET Order
         /\ \A d \in m.deferred : d \in Used /\ order[d].buy = Opposite(m.taker)
         /\ m.todo \subseteq market[Opposite(m.taker)] /\ m.todo \cap m.deferred = {}
         /\ Opposite(m.taker) \in Side
         /\ open[m.taker] = m.left - plan.got
         /\ ~TooBig(plan.goal)
         /\ plan.max = MostFromDeferred(plan.goal) /\ plan.min = LeastFromDeferred(plan.goal)
<1>1. Matching /\ m \in Match /\ plan \in Plan /\ pc \in {"propose", "settle", "close"}
  BY DEF Trying, Matching, IInv, TypeOK
<1>2. /\ m.taker \in Order /\ m.left \in Int /\ plan.goal \in Order /\ m.deferred \in SUBSET Order
      /\ plan.max \in Int /\ plan.min \in Int /\ plan.found \in Int /\ plan.got \in Int
  BY <1>1 DEF Match, Plan
<1>3. /\ m.taker \in Used /\ \A d \in m.deferred : d \in Used /\ order[d].buy = Opposite(m.taker)
      /\ order[plan.goal].buy = Opposite(m.taker) /\ plan.todo \subseteq m.deferred
  BY <1>1 DEF IInv, Facing
<1>4. /\ m.todo \subseteq market[Opposite(m.taker)] /\ m.todo \cap m.deferred = {}
      /\ open[m.taker] = m.left - plan.got
  BY <1>1 DEF WInv, TodoStands, Level
<1>5. open[m.taker] \in Nat /\ open[plan.goal] \in Nat
  BY <1>2, ContainerFacts
<1>6. order[m.taker].buy \in Side
  BY <1>2, ContainerFacts
<1>7. Opposite(m.taker) \in Side /\ plan.goal # m.taker
  BY <1>3, <1>6 DEF Opposite, Side
<1> QED
  BY <1>1, <1>2, <1>3, <1>4, <1>5, <1>7 DEF WInv, GoalStands

(* The attempt begins: the maximum is not negative. *)
LEMMA TryDeferredWhole ==
  ASSUME IInv, WInv, NEW e \in m.todo, TryDeferred(e)
  PROVE  WInv'
<1>1. PICK most, least : most = MostFromDeferred(e) /\ least = LeastFromDeferred(e)
  OBVIOUS
<1>2. /\ Candidate(e) /\ AllOrNone(m.taker) /\ ~TooBig(e) /\ pc' = "propose"
      /\ plan' = [NoPlan EXCEPT !.goal = e, !.max = most, !.min = least, !.todo = m.deferred]
      /\ m' = [m EXCEPT !.todo = @ \ {e}]
      /\ order' = order /\ open' = open /\ traded' = traded /\ market' = market
  BY <1>1 DEF TryDeferred, containers, trackers
<1>3. /\ pc = "match" /\ Matching /\ m \in Match /\ open[m.taker] > 0 /\ m.taker \in Used
      /\ e \in Order /\ e \in Used /\ open[e] \in Nat /\ m.left \in Int
      /\ m.deferred \in SUBSET Order
  BY <1>2, CandidateFacts DEF Candidate
<1>4. /\ plan'.goal = e /\ plan'.max = most /\ plan'.min = least /\ plan'.todo = m.deferred
      /\ plan'.found = 0 /\ plan'.got = 0 /\ plan'.fills = [o \in Order |-> 0]
  BY <1>2 DEF NoPlan
<1>5. m'.taker = m.taker /\ m'.left = m.left /\ m'.todo = m.todo \ {e} /\ m'.deferred = m.deferred
  BY <1>2, <1>3 DEF Match
<1>6. PICK s : s = Opposite(m.taker)
  OBVIOUS
<1>7. Opposite(m.taker)' = s /\ Used' = Used
  BY <1>2, <1>5, <1>6 DEF Opposite, Used
<1>8. /\ m.left = open[m.taker] /\ m.todo \subseteq market[s] /\ m.todo \cap m.deferred = {}
      /\ m.deferred \subseteq market[s]
  BY <1>3, <1>6 DEF WInv, Level, TodoStands, DeferredStand
<1>9. Level' /\ TodoStands' /\ DeferredStand' /\ Settling' /\ Closing'
  <2>1. open'[m'.taker] = m'.left - plan'.got
    BY <1>2, <1>3, <1>4, <1>5, <1>8
  <2>2. Level'
    BY <1>2, <2>1 DEF Level
  <2> QED
    BY <1>2, <1>5, <1>7, <1>8, <2>2 DEF TodoStands, DeferredStand, Settling, Closing
<1>10. plan'.fills \in [Order -> Nat] /\ plan'.fills \in [Order -> Int]
       /\ \A o \in Order : plan'.fills[o] = 0
  BY <1>4
<1>11. GoalStands'
  <2>1. (AllOrNone(m.taker) /\ ~TooBig(e))'
    BY <1>2, <1>5 DEF AllOrNone, TooBig
  <2>2. MostFromDeferred(e)' = most /\ LeastFromDeferred(e)' = least
    BY <1>1, <1>2, <1>5 DEF MostFromDeferred, LeastFromDeferred, AllOrNone
  <2>3. e \notin m'.todo /\ e \notin m'.deferred
    BY <1>5, <1>8
  <2> QED
    BY <1>3, <1>4, <1>7, <1>10, <2>1, <2>2, <2>3 DEF GoalStands, TooBig, AllOrNone,
         MostFromDeferred, LeastFromDeferred, Order
<1>12. most >= 0
  <2>1. AllOrNone(e) => open[e] <= m.left
    BY <1>2, <1>3 DEF TooBig
  <2>2. m.left > 0
    BY <1>3, <1>8
  <2>3. CASE AllOrNone(e)
    <3>1. most = m.left - open[e]
      BY <1>1, <2>3 DEF MostFromDeferred
    <3>2. open[e] <= m.left
      BY <2>1, <2>3
    <3> QED
      BY <1>3, <3>1, <3>2
  <2>4. CASE ~AllOrNone(e)
    <3>1. most = m.left
      BY <1>1, <2>4 DEF MostFromDeferred
    <3> QED
      BY <1>3, <2>2, <3>1
  <2> QED
    BY <2>3, <2>4
<1>13. Proposing'
  <2>1. PICK f : f = plan'.fills
    OBVIOUS
  <2>2. f \in [Order -> Int] /\ \A o \in m.deferred : f[o] = 0
    BY <1>3, <1>10, <2>1
  <2>3. Sum(f, m.deferred) = 0
    BY <1>3, <2>2, NothingProposed
  <2>4. \A d \in m.deferred : f[d] <= open[d]
    BY <1>3, <2>2, ContainerFacts
  <2>5. \A d \in m'.deferred : FillFits(d)'
    BY <1>2, <1>5, <2>1, <2>2, <2>4 DEF FillFits
  <2> QED
    BY <1>4, <1>5, <1>12, <2>1, <2>2, <2>3, <2>5 DEF Proposing
<1>14. AllEven' /\ Untraded'
  BY <1>2, <1>3, <1>7, SameTrackers
<1>15. Evened'
  BY <1>14 DEF AllEven, Evened, Order
<1> QED
  BY <1>2, <1>9, <1>11, <1>13, <1>14, <1>15 DEF WInv

(* A step of an attempt that leaves the match and the orders alone and     *)
(* does not say another goal.                                              *)
LEMMA GoalKept ==
  ASSUME IInv, WInv, Trying, order' = order, m' = m, open'[plan.goal] = open[plan.goal],
         plan'.goal = plan.goal, plan'.max = plan.max, plan'.min = plan.min,
         plan'.fills \in [Order -> Nat]
  PROVE  GoalStands'
<1>1. PICK g : g = plan.goal
  OBVIOUS
<1>2. /\ AllOrNone(m.taker) /\ g \notin m.todo /\ g \notin m.deferred /\ ~TooBig(g)
      /\ plan.max = MostFromDeferred(g) /\ plan.min = LeastFromDeferred(g)
      /\ g \in Used /\ Used' = Used
  BY <1>1 DEF WInv, GoalStands, Used
<1>3. AllOrNone(m.taker)' /\ ~TooBig(g)'
  BY <1>1, <1>2 DEF AllOrNone, TooBig
<1>4. MostFromDeferred(g)' = MostFromDeferred(g) /\ LeastFromDeferred(g)' = LeastFromDeferred(g)
  BY <1>1 DEF MostFromDeferred, LeastFromDeferred, AllOrNone
<1>5. plan'.goal = g
  BY <1>1
<1> QED
  BY <1>2, <1>3, <1>4, <1>5 DEF GoalStands, TooBig, MostFromDeferred, LeastFromDeferred, AllOrNone,
                                Order

(* What is proposed of a deferred order keeps the sum below the maximum.   *)
LEMMA ProposalFits ==
  ASSUME IInv, NEW d \in Order, plan.found \in Int, plan.max \in Int, plan.found < plan.max
  PROVE  /\ Proposal(d) \in Nat /\ Proposal(d) <= open[d]
         /\ AllOrNone(d) => Proposal(d) = 0 \/ Proposal(d) = open[d]
         /\ plan.found + Proposal(d) <= plan.max
<1>1. PICK x : x = open[d]
  OBVIOUS
<1>2. x \in Nat
  BY <1>1, ContainerFacts
<1>3. CASE plan.found + x <= plan.max
  BY <1>1, <1>2, <1>3 DEF Proposal
<1>4. CASE plan.found + x > plan.max /\ AllOrNone(d)
  <2>1. Proposal(d) = 0
    BY <1>1, <1>2, <1>4 DEF Proposal
  <2> QED
    BY <1>1, <1>2, <2>1
<1>5. CASE plan.found + x > plan.max /\ ~AllOrNone(d)
  <2>1. Proposal(d) = plan.max - plan.found
    BY <1>1, <1>2, <1>5 DEF Proposal
  <2>2. plan.max - plan.found \in Nat /\ plan.max - plan.found <= x
    BY <1>2, <1>5
  <2> QED
    BY <1>1, <1>5, <2>1, <2>2
<1> QED
  BY <1>2, <1>3, <1>4, <1>5

(* A deferred order is proposed: it rests in the book. *)
LEMMA ProposeWhole ==
  ASSUME IInv, WInv, NEW d \in plan.todo, Propose(d)
  PROVE  WInv'
<1>1. PICK p : p = Proposal(d)
  OBVIOUS
<1>2. /\ pc = "propose" /\ plan.found < plan.max
      /\ pc' = IF Dangling(d) THEN "undefined" ELSE pc
      /\ plan' = [plan EXCEPT !.found = @ + p, !.fills[d] = p, !.todo = @ \ {d}]
      /\ m' = m /\ order' = order /\ open' = open /\ traded' = traded /\ market' = market
  BY <1>1 DEF Propose, containers, trackers
<1>3. Trying
  BY <1>2 DEF Trying
<1>4. PICK f : f = plan.fills
  OBVIOUS
<1>5. /\ plan \in Plan /\ f \in [Order -> Nat] /\ plan.todo \subseteq m.deferred
      /\ m.deferred \in SUBSET Order /\ plan.found \in Int /\ plan.max \in Int /\ plan.got \in Int
      /\ m.left \in Int /\ open[m.taker] = m.left - plan.got
      /\ m.todo \subseteq market[Opposite(m.taker)] /\ m.todo \cap m.deferred = {}
  BY <1>3, <1>4, TryFacts
<1>6. d \in Order /\ d \in m.deferred
  BY <1>5
<1>7. /\ m.deferred \subseteq market[Opposite(m.taker)]
      /\ plan.got = 0 /\ plan.found >= 0 /\ plan.found = Sum(f, m.deferred)
      /\ \A x \in m.deferred : FillFits(x)
      /\ \A x \in plan.todo : f[x] = 0
  BY <1>2, <1>4 DEF WInv, DeferredStand, Proposing
<1>8. pc' = "propose"
  BY <1>2, <1>6, <1>7 DEF Dangling
<1>9. /\ p \in Nat /\ p <= open[d] /\ (AllOrNone(d) => p = 0 \/ p = open[d])
      /\ plan.found + p <= plan.max
  BY <1>1, <1>2, <1>5, <1>6, ProposalFits
<1>10. PICK h : h = [f EXCEPT ![d] = p]
  OBVIOUS
<1>11. /\ h \in [Order -> Nat] /\ h[d] = p /\ \A x \in Order : x # d => h[x] = f[x]
  BY <1>5, <1>6, <1>9, <1>10
<1>12. /\ plan'.goal = plan.goal /\ plan'.max = plan.max /\ plan'.min = plan.min
       /\ plan'.found = plan.found + p /\ plan'.got = plan.got /\ plan'.fills = h
       /\ plan'.todo = plan.todo \ {d}
  BY <1>2, <1>4, <1>5, <1>10 DEF Plan
<1>13. Opposite(m.taker)' = Opposite(m.taker) /\ Used' = Used
  BY <1>2 DEF Opposite, Used
<1>14. Level' /\ TodoStands' /\ DeferredStand' /\ Settling' /\ Closing'
  <2>1. open'[m'.taker] = m'.left - plan'.got
    BY <1>2, <1>5, <1>12
  <2>2. Level'
    BY <1>8, <2>1 DEF Level
  <2> QED
    BY <1>2, <1>5, <1>7, <1>8, <1>13, <2>2 DEF TodoStands, DeferredStand, Settling, Closing
<1>15. GoalStands'
  BY <1>2, <1>3, <1>11, <1>12, GoalKept
<1>16. Proposing'
  <2>1. Sum(h, m.deferred) = Sum(f, m.deferred) - f[d] + h[d]
    <3>1. f \in [Order -> Int] /\ h \in [Order -> Int]
      BY <1>5, <1>11
    <3>2. \A y \in m.deferred \ {d} : h[y] = f[y]
      BY <1>5, <1>11
    <3> QED
      BY <1>5, <1>6, <3>1, <3>2, OrdersAreFinite, SumAfterChange
  <2>2. f[d] = 0 /\ h[d] = p
    BY <1>7, <1>11
  <2>3. Sum(h, m.deferred) = plan.found + p
    BY <1>5, <1>7, <1>9, <2>1, <2>2
  <2>4. ASSUME NEW x \in m.deferred
        PROVE  FillFits(x)'
    <3>1. x \in Order
      BY <1>5
    <3>2. CASE x = d
      BY <1>2, <1>9, <1>11, <1>12, <3>2 DEF FillFits, AllOrNone
    <3>3. CASE x # d
      <4>1. FillFits(x) /\ h[x] = f[x]
        BY <1>7, <1>11, <3>1, <3>3
      <4> QED
        BY <1>2, <1>4, <1>12, <4>1 DEF FillFits, AllOrNone
    <3> QED
      BY <3>2, <3>3
  <2>5. \A x \in plan'.todo : h[x] = 0
    BY <1>5, <1>7, <1>11, <1>12
  <2>6. plan'.found >= 0 /\ plan'.found <= plan'.max
    BY <1>5, <1>7, <1>9, <1>12
  <2> QED
    BY <1>2, <1>7, <1>12, <2>3, <2>4, <2>5, <2>6 DEF Proposing
<1>17. AllEven' /\ Untraded'
  BY <1>2, <1>13, SameTrackers
<1>18. Evened'
  BY <1>17 DEF AllEven, Evened, Order
<1> QED
  BY <1>8, <1>14, <1>15, <1>16, <1>17, <1>18 DEF WInv

(* The proposals are judged. *)
LEMMA ProposalEndsWhole ==
  ASSUME IInv, WInv, ProposalEnds
  PROVE  WInv'
<1>1. /\ pc = "propose" /\ pc' = IF EnoughFound THEN "settle" ELSE "close"
      /\ plan' = [plan EXCEPT !.todo = m.deferred]
      /\ m' = m /\ order' = order /\ open' = open /\ traded' = traded /\ market' = market
  BY DEF ProposalEnds, containers, trackers
<1>2. Trying
  BY <1>1 DEF Trying
<1>3. /\ plan \in Plan /\ plan.fills \in [Order -> Nat] /\ m.deferred \in SUBSET Order
      /\ plan.got \in Int /\ plan.found \in Int
      /\ m.left \in Int /\ open[m.taker] = m.left - plan.got
      /\ m.todo \subseteq market[Opposite(m.taker)] /\ m.todo \cap m.deferred = {}
  BY <1>2, TryFacts
<1>4. /\ m.deferred \subseteq market[Opposite(m.taker)]
      /\ plan.got = 0 /\ plan.found >= 0 /\ plan.found <= plan.max
      /\ plan.found = Sum(plan.fills, m.deferred)
      /\ \A x \in m.deferred : FillFits(x)
  BY <1>1 DEF WInv, DeferredStand, Proposing
<1>5. /\ plan'.goal = plan.goal /\ plan'.max = plan.max /\ plan'.min = plan.min
      /\ plan'.found = plan.found /\ plan'.got = plan.got /\ plan'.fills = plan.fills
      /\ plan'.todo = m.deferred
  BY <1>1, <1>3 DEF Plan
<1>6. Opposite(m.taker)' = Opposite(m.taker) /\ Used' = Used /\ (EnoughFound' <=> EnoughFound)
  BY <1>1, <1>5 DEF Opposite, Used, EnoughFound
<1>7. pc' \in {"settle", "close"} /\ (pc' = "settle" <=> EnoughFound)
  BY <1>1
<1>8. Level' /\ TodoStands' /\ DeferredStand' /\ Proposing' /\ Closing'
  <2>1. Level'
    BY <1>1, <1>3, <1>5, <1>7 DEF Level
  <2>2. Closing'
    BY <1>1, <1>4, <1>5, <1>6, <1>7 DEF Closing
  <2> QED
    BY <1>1, <1>3, <1>4, <1>5, <1>6, <1>7, <2>1, <2>2 DEF TodoStands, DeferredStand, Proposing
<1>9. GoalStands'
  BY <1>1, <1>2, <1>3, <1>5, GoalKept
<1>10. Settling'
  <2>1. \A x \in plan'.todo : FillFits(x)'
    BY <1>1, <1>4, <1>5 DEF FillFits, AllOrNone
  <2>2. plan'.found = plan'.got + Sum(plan'.fills, plan'.todo)
    BY <1>3, <1>4, <1>5
  <2> QED
    BY <1>6, <1>7, <2>1, <2>2 DEF Settling
<1>11. AllEven' /\ Untraded'
  BY <1>1, <1>6, SameTrackers
<1>12. Evened'
  BY <1>11 DEF AllEven, Evened, Order
<1> QED
  BY <1>7, <1>8, <1>9, <1>10, <1>11, <1>12 DEF WInv

(* An attempt is to get no more than match_order() has left. *)
LEMMA MostIsLeft ==
  ASSUME IInv, WInv, Trying
  PROVE  plan.max <= m.left
<1>1. PICK g, x : g = plan.goal /\ x = open[g]
  OBVIOUS
<1>2. x \in Nat /\ m.left \in Int /\ plan.max = MostFromDeferred(g)
  BY <1>1, TryFacts
<1>3. CASE AllOrNone(g)
  <2>1. plan.max = m.left - x
    BY <1>1, <1>2, <1>3 DEF MostFromDeferred
  <2> QED
    BY <1>2, <2>1
<1>4. CASE ~AllOrNone(g)
  <2>1. plan.max = m.left
    BY <1>2, <1>4 DEF MostFromDeferred
  <2> QED
    BY <1>2, <2>1
<1> QED
  BY <1>3, <1>4

(* What is to be traded with one order is no more than with all of them.   *)
LEMMA RestOfSum ==
  ASSUME NEW f \in [Order -> Nat], NEW T \in SUBSET Order, NEW d \in T
  PROVE  /\ Sum(f, T) = f[d] + Sum(f, T \ {d})
         /\ Sum(f, T \ {d}) \in Nat /\ f[d] \in Nat
<1>1. f \in [Order -> Int] /\ T \ {d} \in SUBSET T /\ d \in Order
  OBVIOUS
<1>2. Sum(f, T) = f[d] + Sum(f, T \ {d})
  BY <1>1, OrdersAreFinite, SumWithout
<1>3. Sum(f, T \ {d}) \in Nat
  BY <1>1, OrdersAreFinite, SumBound
<1> QED
  BY <1>1, <1>2, <1>3

(* The taker has enough open for what was proposed. *)
LEMMA SettledQty ==
  ASSUME IInv, LInv, WInv, pc = "settle", NEW d \in plan.todo
  PROVE  /\ TradeQty(d, plan.fills[d]) = plan.fills[d]
         /\ plan.fills[d] \in Nat /\ plan.fills[d] <= open[d]
<1>1. Trying
  BY DEF Trying
<1>2. PICK f : f = plan.fills
  OBVIOUS
<1>3. /\ f \in [Order -> Nat] /\ plan.todo \subseteq m.deferred
      /\ m.deferred \in SUBSET Order /\ plan.found \in Int /\ plan.max \in Int /\ plan.got \in Int
      /\ m.left \in Int /\ open[m.taker] = m.left - plan.got /\ open[m.taker] \in Nat
      /\ AllOrNone(m.taker)
  BY <1>1, <1>2, TryFacts
<1>4. d \in Order /\ plan.todo \in SUBSET Order
  BY <1>3
<1>5. /\ plan.found <= plan.max /\ plan.found = plan.got + Sum(f, plan.todo)
      /\ f[d] <= open[d]
  BY <1>2 DEF WInv, Settling, EnoughFound, FillFits
<1>6. /\ Sum(f, plan.todo) = f[d] + Sum(f, plan.todo \ {d})
      /\ Sum(f, plan.todo \ {d}) \in Nat /\ f[d] \in Nat
  BY <1>3, <1>4, RestOfSum
<1>7. plan.max <= m.left
  BY <1>1, MostIsLeft
<1>8. PICK a, r, y : a = f[d] /\ r = Sum(f, plan.todo \ {d}) /\ y = open[m.taker]
  OBVIOUS
<1>9. a <= y /\ a \in Nat /\ y \in Nat
  BY <1>3, <1>5, <1>6, <1>7, <1>8
<1>10. TradeQty(d, a) = Least(a, y)
  BY <1>3, <1>4, <1>5, <1>8, <1>9, AonMakesPrice, QtyTraded
<1> QED
  BY <1>2, <1>5, <1>8, <1>9, <1>10 DEF Least

(* A deferred order gives what was proposed. *)
LEMMA SettleWhole ==
  ASSUME IInv, LInv, WInv, NEW d \in plan.todo, Settle(d)
  PROVE  WInv'
<1>1. PICK f, q : f = plan.fills /\ q = f[d]
  OBVIOUS
<1>2. pc = "settle" /\ Trying
  BY DEF Settle, Trying
<1>3. TradeQty(d, plan.fills[d]) = q /\ q \in Nat /\ q <= open[d]
  BY <1>1, <1>2, SettledQty
<1>4. /\ EnoughFound /\ plan.todo \subseteq market[Opposite(m.taker)]
      /\ plan.found = plan.got + Sum(f, plan.todo)
      /\ \A x \in plan.todo : FillFits(x)
  BY <1>1, <1>2 DEF WInv, DeferredStand, Settling
<1>5. PICK never : never = FALSE
  OBVIOUS
<1>6. ~Dangling(d)
  BY <1>4 DEF Dangling
<1>7. /\ MaybeTrade(d, q, never) /\ pc' = "settle" /\ m' = m
      /\ plan' = [plan EXCEPT !.got = @ + q, !.todo = @ \ {d}]
  BY <1>2, <1>3, <1>5, <1>6 DEF Settle
<1>8. /\ Matching /\ plan \in Plan /\ f \in [Order -> Nat] /\ plan.todo \subseteq m.deferred
      /\ m.deferred \in SUBSET Order /\ plan.found \in Int /\ plan.got \in Int
      /\ m.left \in Int /\ open[m.taker] = m.left - plan.got
      /\ \A x \in m.deferred : x \in Used /\ order[x].buy = Opposite(m.taker)
      /\ plan.goal \in Order /\ plan.goal # m.taker /\ plan.goal \notin m.deferred
      /\ m.todo \subseteq market[Opposite(m.taker)] /\ m.todo \cap m.deferred = {}
      /\ Opposite(m.taker) \in Side /\ m.taker \in Order /\ open[m.taker] \in Nat
  BY <1>1, <1>2, TryFacts
<1>9. d \in Order /\ d \in m.deferred /\ d \in Used /\ order[d].buy = Opposite(m.taker)
  BY <1>8
<1>10. AllOrNone(d) => q = 0 \/ q = open[d]
  BY <1>1, <1>4 DEF FillFits
<1>11. /\ order' = order /\ m.taker # d /\ open'[m.taker] = open[m.taker] - q
       /\ \A o \in Order : o # m.taker /\ o # d => open'[o] = open[o]
       /\ \A s \in Side : \A o \in market[s] : o # d => o \in market'[s]
  BY <1>3, <1>7, <1>8, <1>9, OneTrade
<1>12. /\ Untraded' /\ \A o \in Order : AllOrNone(o)' /\ o # m.taker => Even(o)'
  BY <1>3, <1>7, <1>8, <1>9, <1>10, TradeEvens
<1>13. /\ plan'.goal = plan.goal /\ plan'.max = plan.max /\ plan'.min = plan.min
       /\ plan'.found = plan.found /\ plan'.got = plan.got + q /\ plan'.fills = f
       /\ plan'.todo = plan.todo \ {d}
  BY <1>1, <1>7, <1>8 DEF Plan
<1>14. PICK s \in Side : s = Opposite(m.taker)
  BY <1>8
<1>15. Opposite(m.taker)' = s /\ (EnoughFound' <=> EnoughFound)
  BY <1>7, <1>11, <1>13, <1>14 DEF Opposite, EnoughFound
<1>16. m.todo \subseteq market'[s] /\ plan'.todo \subseteq market'[s]
  BY <1>4, <1>8, <1>9, <1>11, <1>13, <1>14
<1>17. Level' /\ TodoStands' /\ DeferredStand' /\ Proposing' /\ Closing'
  <2>1. open'[m'.taker] = m'.left - plan'.got
    BY <1>3, <1>7, <1>8, <1>11, <1>13
  <2>2. Level'
    BY <1>7, <2>1 DEF Level
  <2> QED
    BY <1>7, <1>8, <1>15, <1>16, <2>2 DEF TodoStands, DeferredStand, Proposing, Closing
<1>18. GoalStands'
  <2>1. open'[plan.goal] = open[plan.goal] /\ plan'.fills \in [Order -> Nat]
    BY <1>8, <1>9, <1>11, <1>13
  <2> QED
    BY <1>2, <1>7, <1>11, <1>13, <2>1, GoalKept
<1>19. Settling'
  <2>1. plan.todo \in SUBSET Order
    BY <1>8
  <2>2. Sum(f, plan.todo) = f[d] + Sum(f, plan.todo \ {d}) /\ Sum(f, plan.todo \ {d}) \in Nat
    BY <1>8, <2>1, RestOfSum
  <2>3. plan'.found = plan'.got + Sum(plan'.fills, plan'.todo)
    BY <1>1, <1>3, <1>4, <1>8, <1>13, <2>2
  <2>4. ASSUME NEW x \in plan'.todo
        PROVE  FillFits(x)'
    <3>1. x \in plan.todo /\ x # d /\ x \in Order
      BY <1>13, <2>1
    <3>2. x # m.taker
      <4>1. order[x].buy = Opposite(m.taker)
        BY <1>8, <3>1
      <4>2. order[m.taker].buy \in Side
        BY <1>8, ContainerFacts
      <4> QED
        BY <4>1, <4>2 DEF Opposite, Side
    <3>3. open'[x] = open[x] /\ FillFits(x)
      BY <1>4, <1>11, <3>1, <3>2
    <3> QED
      BY <1>1, <1>11, <1>13, <3>3 DEF FillFits, AllOrNone
  <2> QED
    BY <1>4, <1>15, <2>3, <2>4 DEF Settling
<1>20. Evened'
  <2> SUFFICES ASSUME NEW o \in Order, AllOrNone(o)'
               PROVE  Even(o)' \/ MidTrade(o)'
    BY DEF Evened, Order
  <2>1. CASE o = m.taker
    BY <1>4, <1>7, <1>15, <2>1 DEF MidTrade
  <2>2. CASE o # m.taker
    BY <1>12, <2>2
  <2> QED
    BY <2>1, <2>2
<1> QED
  BY <1>7, <1>12, <1>17, <1>18, <1>19, <1>20 DEF WInv

(* All that was found was traded. *)
LEMMA SettleEndsWhole ==
  ASSUME IInv, WInv, SettleEnds
  PROVE  WInv'
<1>1. /\ pc = "settle" /\ pc' = "close" /\ (plan.todo = {} \/ plan.got >= plan.found)
      /\ m' = m /\ plan' = plan /\ order' = order /\ open' = open /\ traded' = traded
      /\ market' = market
  BY DEF SettleEnds, containers, trackers
<1>2. Trying
  BY <1>1 DEF Trying
<1>3. PICK f, t : f = plan.fills /\ t = plan.todo
  OBVIOUS
<1>4. /\ f \in [Order -> Nat] /\ t \in SUBSET Order
      /\ plan.found \in Int /\ plan.got \in Int /\ m.left \in Int
      /\ open[m.taker] = m.left - plan.got
      /\ m.todo \subseteq market[Opposite(m.taker)] /\ m.todo \cap m.deferred = {}
  BY <1>2, <1>3, TryFacts
<1>5. EnoughFound /\ plan.found = plan.got + Sum(f, t)
  BY <1>1, <1>3 DEF WInv, Settling
<1>6. Sum(f, t) \in Nat
  BY <1>4, OrdersAreFinite, SumBound
<1>7. t = {} => Sum(f, t) = 0
  BY SumOfNone
<1>8. plan.got = plan.found
  BY <1>1, <1>3, <1>4, <1>5, <1>6, <1>7
<1>9. Opposite(m.taker)' = Opposite(m.taker) /\ Used' = Used /\ EnoughFound'
  BY <1>1, <1>5 DEF Opposite, Used, EnoughFound
<1>10. Level' /\ TodoStands' /\ DeferredStand' /\ Proposing' /\ Settling' /\ Closing'
  <2>1. Level'
    BY <1>1, <1>4 DEF Level
  <2> QED
    BY <1>1, <1>4, <1>8, <1>9, <2>1 DEF TodoStands, DeferredStand, Proposing, Settling, Closing
<1>11. GoalStands'
  BY <1>1, <1>2, <1>3, <1>4, GoalKept
<1>12. Untraded'
  BY <1>1, <1>9 DEF WInv, Untraded, Order
<1>13. Evened'
  <2> SUFFICES ASSUME NEW o \in Order, AllOrNone(o)'
               PROVE  Even(o)' \/ MidTrade(o)'
    BY DEF Evened, Order
  <2>1. Even(o) \/ MidTrade(o)
    BY <1>1 DEF WInv, Evened, AllOrNone
  <2> QED
    BY <1>1, <1>9, <2>1 DEF Even, MidTrade
<1> QED
  BY <1>1, <1>10, <1>11, <1>12, <1>13 DEF WInv

(* An attempt that found enough reaches its goal, and fills the taker; one *)
(* that did not find enough does not.                                      *)
LEMMA GoalOfAttempt ==
  ASSUME IInv, WInv, pc = "close"
  PROVE  /\ EnoughFound => /\ GoalReached(plan.goal)
                           /\ open[m.taker] <= open[plan.goal]
                           /\ AllOrNone(plan.goal) => open[m.taker] = open[plan.goal]
         /\ ~EnoughFound => ~GoalReached(plan.goal)
<1>1. Trying
  BY DEF Trying
<1>2. PICK g, x, y : g = plan.goal /\ x = open[g] /\ y = open[m.taker]
  OBVIOUS
<1>3. PICK left, most, least, found, got :
        left = m.left /\ most = plan.max /\ least = plan.min /\ found = plan.found /\ got = plan.got
  OBVIOUS
<1>4. /\ x \in Nat /\ y \in Nat /\ left \in Int /\ most \in Int /\ least \in Int /\ found \in Int
      /\ got \in Int /\ y = left - got
      /\ most = MostFromDeferred(g) /\ least = LeastFromDeferred(g)
  BY <1>1, <1>2, <1>3, TryFacts
<1>5. /\ EnoughFound <=> found >= least /\ found <= most
      /\ IF EnoughFound THEN got = found ELSE got = 0 /\ found >= 0 /\ found <= most
  BY <1>3 DEF WInv, Closing, EnoughFound
<1>6. least = IF left > x THEN left - x ELSE 0
  BY <1>2, <1>3, <1>4 DEF LeastFromDeferred
<1>7. CASE AllOrNone(g)
  <2>1. most = left - x /\ x <= left
    <3>1. ~(x > left)
      BY <1>1, <1>2, <1>3, <1>7, TryFacts DEF TooBig
    <3>2. most = left - x
      BY <1>2, <1>3, <1>4, <1>7 DEF MostFromDeferred
    <3> QED
      BY <1>4, <3>1, <3>2
  <2>2. least = most
    BY <1>4, <1>6, <2>1
  <2>3. GoalReached(g) <=> got = most
    BY <1>3, <1>7 DEF GoalReached
  <2>4. EnoughFound => got = most /\ y = x
    BY <1>4, <1>5, <2>1, <2>2
  <2>5. ~EnoughFound => got # most
    BY <1>4, <1>5, <2>2
  <2> QED
    BY <1>2, <1>4, <2>3, <2>4, <2>5
<1>8. CASE ~AllOrNone(g)
  <2>1. most = left
    BY <1>3, <1>4, <1>8 DEF MostFromDeferred
  <2>2. GoalReached(g) <=> left <= x + got
    BY <1>2, <1>3, <1>8 DEF GoalReached
  <2>3. EnoughFound => left <= x + got /\ y <= x
    BY <1>4, <1>5, <1>6
  <2>4. ~EnoughFound => ~(left <= x + got)
    BY <1>4, <1>5, <1>6, <2>1
  <2> QED
    BY <1>2, <1>8, <2>2, <2>3, <2>4
<1> QED
  BY <1>7, <1>8

(* The attempt ends: the taker is filled, or nothing was traded. *)
LEMMA CloseWhole ==
  ASSUME IInv, LInv, WInv, Close(plan.goal)
  PROVE  WInv'
<1>1. pc = "close" /\ Trying
  BY DEF Close, Trying
<1>2. PICK g, x, y, got : g = plan.goal /\ x = open[g] /\ y = open[m.taker] /\ got = plan.got
  OBVIOUS
<1>3. PICK q : q = IF GoalReached(g) THEN TradeQty(g, x) ELSE 0
  OBVIOUS
<1>4. PICK always : always = AllOrNone(g)
  OBVIOUS
<1>5. /\ MaybeTrade(g, q, always) /\ pc' = "match"
      /\ m' = IF GoalReached(g) THEN [m EXCEPT !.left = @ - got - q] ELSE m
  BY <1>2, <1>3, <1>4 DEF Close
<1>6. /\ Matching /\ m \in Match /\ g \in Order /\ order[g].buy = Opposite(m.taker)
      /\ x \in Nat /\ y \in Nat /\ m.left \in Int /\ got \in Int /\ y = m.left - got
      /\ g \notin m.todo /\ g \notin m.deferred /\ AllOrNone(m.taker)
      /\ m.todo \subseteq market[Opposite(m.taker)] /\ m.todo \cap m.deferred = {}
      /\ Opposite(m.taker) \in Side /\ m.taker \in Order
  BY <1>1, <1>2, TryFacts
<1>7. /\ EnoughFound => GoalReached(g) /\ y <= x /\ (AllOrNone(g) => y = x)
      /\ ~EnoughFound => ~GoalReached(g)
  BY <1>1, <1>2, GoalOfAttempt
<1>8. q \in Nat /\ (EnoughFound => q = y) /\ (~EnoughFound => q = 0)
  <2>1. CASE EnoughFound
    <3>1. CrossPrice(g) # MARKET_ORDER_PRICE
      BY <1>6, AonMakesPrice
    <3>2. x <= open[g]
      BY <1>2, <1>6
    <3>3. TradeQty(g, x) = Least(x, y)
      BY <1>2, <1>6, <3>1, <3>2, QtyTraded
    <3>4. Least(x, y) = y
      BY <1>6, <1>7, <2>1 DEF Least
    <3> QED
      BY <1>3, <1>6, <1>7, <2>1, <3>3, <3>4
  <2>2. CASE ~EnoughFound
    BY <1>3, <1>7, <2>2
  <2> QED
    BY <2>1, <2>2
<1>9. AllOrNone(g) => q = 0 \/ q = open[g]
  BY <1>2, <1>7, <1>8
<1>10. g \in Used
  BY <1>1, <1>2, TryFacts
<1>11. /\ order' = order /\ m.taker # g /\ open'[m.taker] = y - q
       /\ \A s \in Side : \A o \in market[s] : o # g => o \in market'[s]
  BY <1>2, <1>5, <1>6, <1>8, OneTrade
<1>12. /\ Untraded' /\ \A o \in Order : AllOrNone(o)' /\ o # m.taker => Even(o)'
  BY <1>5, <1>6, <1>8, <1>9, <1>10, TradeEvens
<1>13. m'.taker = m.taker /\ m'.todo = m.todo /\ m'.deferred = m.deferred
  BY <1>5, <1>6, <1>8 DEF Match
<1>14. PICK s \in Side : s = Opposite(m.taker)
  BY <1>6
<1>15. Opposite(m.taker)' = s
  BY <1>11, <1>13, <1>14 DEF Opposite
<1>16. m'.todo \subseteq market'[s] /\ m'.todo \cap m'.deferred = {}
  BY <1>6, <1>11, <1>13, <1>14
<1>17. CASE EnoughFound
  <2>1. open'[m'.taker] = 0
    BY <1>6, <1>7, <1>8, <1>11, <1>13, <1>17
  <2>2. m'.left = m.left - got - q
    BY <1>5, <1>6, <1>7, <1>8, <1>17 DEF Match
  <2>3. m'.left = 0
    BY <1>6, <1>8, <1>17, <2>2
  <2>4. AllEven'
    <3> SUFFICES ASSUME NEW o \in Order, AllOrNone(o)'
                 PROVE  Even(o)'
      BY DEF AllEven, Order
    <3>1. o = m.taker => open'[o] = 0
      BY <1>13, <2>1
    <3> QED
      BY <1>12, <3>1 DEF Even
  <2> QED
    BY <1>5, <1>12, <1>14, <1>15, <1>16, <2>1, <2>3, <2>4, GoesOnWhole
<1>18. CASE ~EnoughFound
  <2>1. /\ got = 0 /\ m.deferred \subseteq market[s]
    BY <1>1, <1>2, <1>14, <1>18 DEF WInv, Closing
  <2>2. m' = m /\ q = 0
    BY <1>5, <1>7, <1>8, <1>18
  <2>3. open' = open /\ traded' = traded
    BY <1>5, <1>6, <1>8, <2>2, OneTrade
  <2>4. m'.left = open'[m'.taker]
    <3>1. m'.left = y
      BY <1>6, <2>1, <2>2
    <3> QED
      BY <1>2, <1>13, <2>3, <3>1
  <2>5. m'.deferred \subseteq market'[s]
    BY <1>2, <1>6, <1>11, <2>1, <2>2
  <2>6. AllEven'
    <3> SUFFICES ASSUME NEW o \in Order, AllOrNone(o)'
                 PROVE  Even(o)'
      BY DEF AllEven, Order
    <3>1. AllOrNone(o)
      BY <1>11 DEF AllOrNone
    <3>2. Even(o)
      BY <1>18, <3>1 DEF WInv, Evened, MidTrade
    <3> QED
      BY <2>3, <3>2 DEF Even
  <2> QED
    BY <1>5, <1>12, <1>14, <1>15, <1>16, <2>4, <2>5, <2>6, GoesOnWhole
<1> QED
  BY <1>17, <1>18

-----------------------------------------------------------------------------
(* Quantities: the theorems *)

(* A regular order takes a resting all-or-none order as a whole, or not at *)
(* all, and so does an all-or-none order that closes its attempt with one: *)
(* no such order is erased with something left of it.                      *)
LEMMA RegularTakesWhole ==
  ASSUME IInv, WInv, NEW e \in m.todo, MatchRegular(e), AllOrNone(e)
  PROVE  TradeQty(e, open[e]) \in {0, open[e]}
<1>1. pc = "match" /\ open[e] <= m.left
  <2>1. ~(open[e] > m.left)
    BY DEF MatchRegular, TooBig
  <2>2. pc = "match" /\ e \in Order
    BY DEF MatchRegular, Candidate, IInv, TypeOK, Match
  <2>3. open[e] \in Nat /\ m.left \in Int
    BY <2>2 DEF IInv, TypeOK, Match, Quantity
  <2> QED
    BY <2>1, <2>2, <2>3
<1>2. m.left = open[m.taker]
  BY <1>1 DEF WInv, Level
<1>3. open[e] \in Nat /\ open[m.taker] \in Nat
  BY DEF IInv, TypeOK, Match, Quantity
<1>4. PICK x, y : x = open[e] /\ y = open[m.taker]
  OBVIOUS
<1> QED
  BY <1>1, <1>2, <1>3, <1>4 DEF TradeQty, Least

LEMMA GoalTakenWhole ==
  ASSUME IInv, WInv, pc = "close", AllOrNone(plan.goal), GoalReached(plan.goal)
  PROVE  TradeQty(plan.goal, open[plan.goal]) \in {0, open[plan.goal]}
<1>1. PICK e, x, y : e \in Order /\ e = plan.goal /\ x = open[e] /\ y = open[m.taker]
  BY DEF IInv, TypeOK, Plan
<1>2. x \in Nat /\ y \in Nat /\ m.left \in Int
  BY <1>1 DEF IInv, TypeOK, Match, Quantity
<1>3. y = m.left - plan.got /\ plan.max = m.left - x
  BY <1>1 DEF WInv, Level, GoalStands, Trying, MostFromDeferred
<1>4. plan.got = plan.max
  BY DEF GoalReached
<1>5. x = y
  BY <1>2, <1>3, <1>4
<1> QED
  BY <1>1, <1>2, <1>5 DEF TradeQty, Least

(* Nothing is traded at first. *)
LEMMA InitWhole ==
  ASSUME Init
  PROVE  WInv
<1>1. pc = "idle" /\ traded = [o \in Order |-> 0]
  BY DEF Init
<1>2. ~Trying /\ ~Matching
  BY <1>1 DEF Trying, Matching
<1>3. Level /\ TodoStands /\ GoalStands /\ DeferredStand /\ Proposing /\ Settling /\ Closing
  BY <1>1, <1>2 DEF Level, TodoStands, GoalStands, DeferredStand, Proposing, Settling, Closing
<1>4. Evened /\ Untraded
  BY <1>1 DEF Evened, Untraded, Even
<1> QED
  BY <1>1, <1>3, <1>4 DEF WInv

(* Every step of the book and of the application keeps the invariant. *)
LEMMA NextKeepsWInv ==
  ASSUME IInv, LInv, WInv, [Next]_vars
  PROVE  WInv'
<1>1. CASE MatchStep
  <2>1. ASSUME NEW e \in m.todo, DeferAon(e) \/ MatchRegular(e) \/ DeferMatch(e) \/ TryDeferred(e)
        PROVE  WInv'
    BY <2>1, DeferWhole, MatchRegularWhole, TryDeferredWhole
  <2>2. ASSUME NEW d \in plan.todo, Propose(d) \/ Settle(d)
        PROVE  WInv'
    BY <2>2, ProposeWhole, SettleWhole
  <2> QED
    BY <1>1, <2>1, <2>2, ProposalEndsWhole, SettleEndsWhole, CloseWhole DEF MatchStep
<1>2. CASE AddOrderStep
  <2>1. ASSUME NEW a \in aons, CheckDeferred(a)
        PROVE  WInv'
    <3>1. a \in Order
      BY DEF IInv, TypeOK
    <3> QED
      BY <2>1, <3>1, StartsWhole
  <2> QED
    BY <1>2, <2>1, EndsWhole DEF AddOrderStep
<1>3. CASE PendingStep
  BY <1>3, EndsWhole, StartsWhole DEF PendingStep
<1>4. CASE Perform \/ ListenerThrows
  <2>1. /\ open' = open /\ traded' = traded /\ pc = "deliver" /\ pc' \in {"idle", "deliver"}
    BY <1>4 DEF Perform, ListenerThrows, Performed, trackers
  <2>2. Used \subseteq Used' /\ \A p \in Order : order'[p].aon = order[p].aon
    BY <1>4, PerformTerms
  <2> QED
    BY <2>1, <2>2, SameTrackers, OutsideWhole DEF Matching
<1>5. CASE Application
  <2>1. ASSUME NEW o \in Order, NEW t \in Menu, Add(o, t)
        PROVE  WInv'
    BY <2>1, AddWhole
  <2>2. ASSUME (\E o \in Order : Cancel(o)) \/ (\E price \in MarketPrices : MarketPriceSet(price))
        PROVE  WInv'
    <3>1. /\ order' = order /\ open' = open /\ traded' = traded /\ pc \notin {"settle", "close"}
          /\ pc' \in {"deliver", "idle"}
      BY <2>2 DEF Cancel, CanCall, Ready, CallbackNow, MarketPriceSet, trackers
    <3>2. Used' = Used
      BY <3>1 DEF Used
    <3> QED
      BY <3>1, <3>2, SameTrackers, OutsideWhole DEF Matching
  <2>3. ASSUME NEW o \in Order, NEW delta \in Deltas, NEW price \in NewPrices,
               Replace(o, delta, price)
        PROVE  WInv'
    BY <2>3, ReplaceWhole
  <2> QED
    BY <1>5, <2>1, <2>2, <2>3 DEF Application
<1>6. CASE UNCHANGED vars
  BY <1>6 DEF vars, WInv, Level, TodoStands, GoalStands, DeferredStand, Proposing, Settling,
              Closing, Evened, Untraded, Even, MidTrade, EnoughFound, FillFits, TooBig,
              MostFromDeferred, LeastFromDeferred, AllOrNone, Matching, Trying, Opposite, Used,
              Order
<1> QED
  BY <1>1, <1>2, <1>3, <1>4, <1>5, <1>6 DEF Next, BookStep

(* The quantities of a match, as long as all-or-none orders have limits. *)
LEMMA QuantitiesStay ==
  ASSUME AonAreLimits PROVE Spec => []WInv
<1>1. Init => WInv
  BY InitWhole
<1>2. IInv /\ LInv /\ WInv /\ [Next]_vars => WInv'
  BY NextKeepsWInv
<1> QED
  BY <1>1, <1>2, Invariance, LimitsStay, PTL DEF Spec

(* README.md:42: between two calls an all-or-none order has been filled or *)
(* has not been traded, whatever is replaced, and whatever listeners do.   *)
THEOREM AonAreWhole ==
  ASSUME AonAreLimits PROVE Spec => []AllOrNothing
<1>1. WInv => AllOrNothing
  BY DEF WInv, Evened, MidTrade, Even, AllOrNothing, Idle
<1> QED
  BY <1>1, QuantitiesStay, PTL

(* No order that match_aon_order() has deferred is erased before it is     *)
(* used: an attempt that trades with one fills the taker, and is the last. *)
THEOREM NoIteratorDangles ==
  ASSUME AonAreLimits PROVE Spec => []NoDanglingIterator
<1>1. WInv => NoDanglingIterator
  BY DEF WInv, NoDanglingIterator
<1> QED
  BY <1>1, QuantitiesStay, PTL
===============================================================================
