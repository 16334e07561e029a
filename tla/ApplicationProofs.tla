-------------------------- MODULE ApplicationProofs --------------------------
(***************************************************************************)
(* What the application is told is what the book does: for every menu of   *)
(* orders, every number of orders and calls, with listeners that call the  *)
(* book in the middle of a delivery.  Listeners that throw are excepted:   *)
(* the order object then never learns what its listener was told.          *)
(***************************************************************************)
EXTENDS OrderBookProofs

-----------------------------------------------------------------------------
(* What callbacks do to one order object *)

(* The callback c is for the object o. *)
Concerns(c, o) ==
  \/ c.type \in {"accept", "reject", "cancel", "replace"} /\ o = c.order
  \/ c.type = "fill" /\ o \in {c.order, c.matched}

(* The object x is in the state in which the callback has to find it, no   *)
(* more of it is filled than its quantity, with the flag set when it is    *)
(* all, nor is its quantity reduced to less than was filled, or its limit  *)
(* taken away.                                                             *)
Timely(x, c, o) ==
  Concerns(c, o) =>
    /\ x.state = IF c.type \in {"accept", "reject"} THEN "new" ELSE "accepted"
    /\ c.type = "fill" => /\ x.filled + c.qty <= x.qty
                          /\ o \in c.done <=> x.filled + c.qty = x.qty
    /\ c.type = "replace" => /\ x.filled <= x.qty + c.delta
                             /\ c.price = MARKET_ORDER_PRICE => x.price = MARKET_ORDER_PRICE

(* The object after a callback that is timely. *)
Told(x, c, o) ==
  IF ~Concerns(c, o) THEN x
  ELSE CASE c.type = "accept" -> [x EXCEPT !.state = "accepted"]
         [] c.type = "reject" -> x
         [] c.type = "fill" -> Filled(x, c.qty)
         [] c.type = "cancel" -> [x EXCEPT !.state = "cancelled"]
         [] OTHER -> [x EXCEPT !.qty = @ + c.delta, !.price = c.price]

(* The callbacks q are timely, and take the object from x to y. *)
Leads(o, q, x, y) ==
  \E h \in [0..Len(q) -> SimpleOrder] :
    /\ h[0] = x /\ h[Len(q)] = y
    /\ \A k \in 1..Len(q) :
         Timely(h[k - 1], q[k], o) /\ h[k] = Told(h[k - 1], q[k], o)

(* A callback that does not concern an object leaves it alone. *)
LEMMA ToldNothing ==
  ASSUME NEW x, NEW c, NEW o, ~Concerns(c, o)
  PROVE  Told(x, c, o) = x /\ Timely(x, c, o)
BY DEF Told, Timely

(* Neither does one that rejects its order. *)
LEMMA ToldReject ==
  ASSUME NEW x, NEW c, c.type = "reject", NEW o
  PROVE  Told(x, c, o) = x
BY DEF Told

(* An object that is accepted. *)
LEMMA ToldAccept ==
  ASSUME NEW x \in SimpleOrder, NEW c \in Callback, c.type = "accept", NEW o, o = c.order
  PROVE  /\ Told(x, c, o) \in SimpleOrder /\ Told(x, c, o).state = "accepted"
         /\ Told(x, c, o) = [x EXCEPT !.state = "accepted"]
         /\ Told(x, c, o).qty = x.qty /\ Told(x, c, o).filled = x.filled
         /\ Told(x, c, o).price = x.price
         /\ Told(x, c, o).aon = x.aon /\ Told(x, c, o).ioc = x.ioc
<1> DEFINE y == [x EXCEPT !.state = "accepted"]
<1>1. Concerns(c, o)
  BY DEF Concerns
<1>2. Told(x, c, o) = y
  BY <1>1 DEF Told
<1>3. /\ y \in SimpleOrder /\ y.state = "accepted" /\ y.qty = x.qty /\ y.filled = x.filled
      /\ y.price = x.price /\ y.aon = x.aon /\ y.ioc = x.ioc
  BY DEF SimpleOrder, States
<1> HIDE DEF y
<1>4. y = [x EXCEPT !.state = "accepted"]
  BY DEF y
<1> QED
  BY <1>2, <1>3, <1>4

(* An object that is filled. *)
LEMMA ToldFill ==
  ASSUME NEW x \in SimpleOrder, NEW c \in Callback, c.type = "fill",
         NEW o, o \in {c.order, c.matched}
  PROVE  /\ Told(x, c, o) \in SimpleOrder /\ Told(x, c, o) = Filled(x, c.qty)
         /\ Told(x, c, o).state = IF x.filled + c.qty >= x.qty THEN "complete" ELSE x.state
         /\ Told(x, c, o).qty = x.qty /\ Told(x, c, o).filled = x.filled + c.qty
         /\ Told(x, c, o).price = x.price
         /\ Told(x, c, o).aon = x.aon /\ Told(x, c, o).ioc = x.ioc
<1> DEFINE y == [x EXCEPT !.filled = @ + c.qty]
           s == IF x.filled + c.qty >= x.qty THEN "complete" ELSE x.state
           z == [y EXCEPT !.state = IF x.filled + c.qty >= x.qty THEN "complete" ELSE @]
<1>1. Concerns(c, o) /\ c.qty \in Nat
  BY DEF Concerns, Callback, Quantity
<1>2. Told(x, c, o) = Filled(x, c.qty)
  BY <1>1 DEF Told
<1>3. Filled(x, c.qty) = z
  BY DEF Filled
<1>4. /\ y \in SimpleOrder /\ y.state = x.state /\ y.qty = x.qty /\ y.filled = x.filled + c.qty
      /\ y.price = x.price /\ y.aon = x.aon /\ y.ioc = x.ioc
  BY <1>1 DEF SimpleOrder, Quantity
<1> HIDE DEF y
<1>5. s \in States
  BY DEF SimpleOrder, States
<1>6. z = [y EXCEPT !.state = s]
  BY <1>4
<1> HIDE DEF s, z
<1>7. /\ z \in SimpleOrder /\ z.state = s /\ z.qty = x.qty /\ z.filled = x.filled + c.qty
      /\ z.price = x.price /\ z.aon = x.aon /\ z.ioc = x.ioc
  BY <1>4, <1>5, <1>6 DEF SimpleOrder
<1> QED
  BY <1>2, <1>3, <1>7 DEF s

(* An object that is cancelled. *)
LEMMA ToldCancel ==
  ASSUME NEW x \in SimpleOrder, NEW c \in Callback, c.type = "cancel", NEW o, o = c.order
  PROVE  /\ Told(x, c, o) \in SimpleOrder /\ Told(x, c, o).state = "cancelled"
         /\ Told(x, c, o) = [x EXCEPT !.state = "cancelled"]
         /\ Told(x, c, o).qty = x.qty /\ Told(x, c, o).filled = x.filled
         /\ Told(x, c, o).price = x.price
         /\ Told(x, c, o).aon = x.aon /\ Told(x, c, o).ioc = x.ioc
<1> DEFINE y == [x EXCEPT !.state = "cancelled"]
<1>1. Concerns(c, o)
  BY DEF Concerns
<1>2. Told(x, c, o) = y
  BY <1>1 DEF Told
<1>3. /\ y \in SimpleOrder /\ y.state = "cancelled" /\ y.qty = x.qty /\ y.filled = x.filled
      /\ y.price = x.price /\ y.aon = x.aon /\ y.ioc = x.ioc
  BY DEF SimpleOrder, States
<1> HIDE DEF y
<1>4. y = [x EXCEPT !.state = "cancelled"]
  BY DEF y
<1> QED
  BY <1>2, <1>3, <1>4

(* An object that is replaced. *)
LEMMA ToldReplace ==
  ASSUME NEW x \in SimpleOrder, NEW c \in Callback, c.type = "replace", NEW o, o = c.order
  PROVE  /\ Told(x, c, o) \in SimpleOrder /\ Told(x, c, o).state = x.state
         /\ Told(x, c, o).qty = x.qty + c.delta /\ Told(x, c, o).filled = x.filled
         /\ Told(x, c, o).price = c.price
         /\ Told(x, c, o).aon = x.aon /\ Told(x, c, o).ioc = x.ioc
<1> DEFINE y == [x EXCEPT !.qty = @ + c.delta]
           z == [y EXCEPT !.price = c.price]
<1>1. Concerns(c, o) /\ c.delta \in Int /\ c.price \in Price
  BY DEF Concerns, Callback
<1>2. Told(x, c, o) = [x EXCEPT !.qty = @ + c.delta, !.price = c.price]
  BY <1>1 DEF Told
<1>3. /\ y \in SimpleOrder /\ y.state = x.state /\ y.qty = x.qty + c.delta
      /\ y.filled = x.filled /\ y.aon = x.aon /\ y.ioc = x.ioc
  BY <1>1 DEF SimpleOrder
<1>4. [x EXCEPT !.qty = @ + c.delta, !.price = c.price] = z
  OBVIOUS
<1> HIDE DEF y
<1>5. /\ z \in SimpleOrder /\ z.state = x.state /\ z.qty = x.qty + c.delta
      /\ z.filled = x.filled /\ z.price = c.price /\ z.aon = x.aon /\ z.ioc = x.ioc
  BY <1>1, <1>3 DEF SimpleOrder
<1> HIDE DEF z
<1> QED
  BY <1>2, <1>4, <1>5

(* Whatever an object is told, it stays one of the same conditions. *)
LEMMA ToldType ==
  ASSUME NEW x \in SimpleOrder, NEW c \in Callback, NEW o
  PROVE  /\ Told(x, c, o) \in SimpleOrder
         /\ Told(x, c, o).aon = x.aon /\ Told(x, c, o).ioc = x.ioc
         /\ ~(c.type = "replace" /\ Concerns(c, o)) => Told(x, c, o).price = x.price
         /\ Told(x, c, o).filled # x.filled => c.type = "fill" /\ Concerns(c, o)
<1>1. CASE ~Concerns(c, o)
  BY <1>1, ToldNothing
<1>2. CASE Concerns(c, o) /\ c.type = "accept"
  BY <1>2, ToldAccept DEF Concerns
<1>3. CASE Concerns(c, o) /\ c.type = "fill"
  BY <1>3, ToldFill DEF Concerns
<1>4. CASE Concerns(c, o) /\ c.type = "cancel"
  BY <1>4, ToldCancel DEF Concerns
<1>5. CASE Concerns(c, o) /\ c.type = "replace"
  BY <1>5, ToldReplace DEF Concerns
<1>6. CASE Concerns(c, o) /\ c.type = "reject"
  BY <1>6, ToldReject
<1> QED
  BY <1>1, <1>2, <1>3, <1>4, <1>5, <1>6 DEF Concerns

-----------------------------------------------------------------------------
(* What a sequence of callbacks does to one order object *)

(* No callback, no change. *)
LEMMA LeadsNowhere ==
  ASSUME NEW o, NEW x, NEW y, Leads(o, <<>>, x, y)
  PROVE  x = y
BY DEF Leads

(* Nor is there one if none of the callbacks is for the object. *)
LEMMA LeadsAround ==
  ASSUME NEW o, NEW q \in Seq(Callback), NEW x \in SimpleOrder,
         \A k \in DOMAIN q : ~Concerns(q[k], o)
  PROVE  Leads(o, q, x, x)
<1> DEFINE n == Len(q)
           h == [k \in 0..n |-> x]
<1>1. n \in Nat /\ DOMAIN q = 1..n
  OBVIOUS
<1>2. h \in [0..n -> SimpleOrder] /\ h[0] = x /\ h[n] = x
  BY <1>1
<1>3. ASSUME NEW k \in 1..n
      PROVE  Timely(h[k - 1], q[k], o) /\ h[k] = Told(h[k - 1], q[k], o)
  <2>1. k - 1 \in 0..n /\ k \in 0..n
    BY <1>1
  <2>2. h[k - 1] = x /\ h[k] = x
    BY <2>1
  <2>3. Told(x, q[k], o) = x /\ Timely(x, q[k], o)
    BY <1>1, ToldNothing
  <2> HIDE DEF h
  <2> QED
    BY <2>2, <2>3
<1> HIDE DEF h
<1> QED
  BY <1>1, <1>2, <1>3 DEF Leads

(* One more callback. *)
LEMMA LeadsOn ==
  ASSUME NEW o, NEW q \in Seq(Callback), NEW x, NEW y, NEW c \in Callback,
         Leads(o, q, x, y), Timely(y, c, o)
  PROVE  Leads(o, Append(q, c), x, Told(y, c, o))
<1> DEFINE n == Len(q)
           r == Append(q, c)
           z == Told(y, c, o)
<1>1. PICK h \in [0..n -> SimpleOrder] :
        /\ h[0] = x /\ h[n] = y
        /\ \A k \in 1..n : Timely(h[k - 1], q[k], o) /\ h[k] = Told(h[k - 1], q[k], o)
  BY DEF Leads
<1>2. n \in Nat /\ Len(r) = n + 1 /\ r[n + 1] = c /\ \A k \in 1..n : r[k] = q[k]
  OBVIOUS
<1>3. y \in SimpleOrder
  BY <1>1, <1>2
<1>4. z \in SimpleOrder
  BY <1>3, ToldType
<1> DEFINE g == [k \in 0..(n + 1) |-> IF k = n + 1 THEN z ELSE h[k]]
<1> HIDE DEF r, n, z
<1>5. g \in [0..(n + 1) -> SimpleOrder] /\ g[0] = x /\ g[n + 1] = z
  BY <1>1, <1>2, <1>4
<1>6. ASSUME NEW k \in 1..(n + 1)
      PROVE  Timely(g[k - 1], r[k], o) /\ g[k] = Told(g[k - 1], r[k], o)
  <2>1. CASE k = n + 1
    <3>1. g[k] = z /\ g[k - 1] = y /\ r[k] = c
      BY <1>1, <1>2, <2>1
    <3> HIDE DEF g
    <3> QED
      BY <3>1 DEF z
  <2>2. CASE k # n + 1
    <3>1. k \in 1..n /\ g[k] = h[k] /\ g[k - 1] = h[k - 1] /\ r[k] = q[k]
      BY <1>1, <1>2, <2>2
    <3> HIDE DEF g
    <3> QED
      BY <1>1, <3>1
  <2> QED
    BY <2>1, <2>2
<1> HIDE DEF g
<1>7. Leads(o, r, x, z)
  BY <1>2, <1>5, <1>6 DEF Leads
<1> QED
  BY <1>7 DEF r, z

(* One callback less. *)
LEMMA LeadsFrom ==
  ASSUME NEW o, NEW q \in Seq(Callback), q # <<>>, NEW x, NEW y, Leads(o, q, x, y)
  PROVE  /\ x \in SimpleOrder /\ Timely(x, Head(q), o)
         /\ Leads(o, Tail(q), Told(x, Head(q), o), y)
<1> DEFINE n == Len(q)
           r == Tail(q)
<1>1. PICK h \in [0..n -> SimpleOrder] :
        /\ h[0] = x /\ h[n] = y
        /\ \A k \in 1..n : Timely(h[k - 1], q[k], o) /\ h[k] = Told(h[k - 1], q[k], o)
  BY DEF Leads
<1>2. n \in Nat /\ n >= 1 /\ Len(r) = n - 1 /\ Head(q) = q[1]
      /\ \A k \in 1..(n - 1) : r[k] = q[k + 1]
  OBVIOUS
<1> DEFINE g == [k \in 0..(n - 1) |-> h[k + 1]]
<1> HIDE DEF r, n
<1>3. g \in [0..(n - 1) -> SimpleOrder] /\ g[0] = h[1] /\ g[n - 1] = y
  BY <1>1, <1>2
<1>4. x \in SimpleOrder /\ Timely(x, Head(q), o) /\ h[1] = Told(x, Head(q), o)
  <2>1. 1 \in 1..n /\ 1 - 1 = 0 /\ 0 \in 0..n
    BY <1>2
  <2>2. Timely(h[0], q[1], o) /\ h[1] = Told(h[0], q[1], o)
    BY <1>1, <2>1
  <2> QED
    BY <1>1, <1>2, <2>1, <2>2
<1>5. ASSUME NEW k \in 1..(n - 1)
      PROVE  Timely(g[k - 1], r[k], o) /\ g[k] = Told(g[k - 1], r[k], o)
  <2>1. k + 1 \in 1..n /\ g[k] = h[k + 1] /\ g[k - 1] = h[k] /\ (k + 1) - 1 = k
    BY <1>2
  <2>2. Timely(h[(k + 1) - 1], q[k + 1], o) /\ h[k + 1] = Told(h[(k + 1) - 1], q[k + 1], o)
    BY <1>1, <2>1
  <2> HIDE DEF g
  <2> QED
    BY <1>2, <2>1, <2>2
<1> HIDE DEF g
<1>6. Leads(o, r, h[1], y)
  BY <1>2, <1>3, <1>5 DEF Leads
<1> QED
  BY <1>4, <1>6 DEF r

(* What an accept callback says of quantities is for the listener only. *)
Alike(c, d) == c = d \/ (c.type = "accept" /\ d.type = "accept" /\ c.order = d.order)

LEMMA LeadsAlike ==
  ASSUME NEW o, NEW q \in Seq(Callback), NEW r \in Seq(Callback), Len(r) = Len(q),
         \A k \in 1..Len(q) : Alike(q[k], r[k]),
         NEW x, NEW y, Leads(o, q, x, y)
  PROVE  Leads(o, r, x, y)
<1>1. PICK h \in [0..Len(q) -> SimpleOrder] :
        /\ h[0] = x /\ h[Len(q)] = y
        /\ \A k \in 1..Len(q) : Timely(h[k - 1], q[k], o) /\ h[k] = Told(h[k - 1], q[k], o)
  BY DEF Leads
<1>2. ASSUME NEW k \in 1..Len(q)
      PROVE  Timely(h[k - 1], r[k], o) /\ h[k] = Told(h[k - 1], r[k], o)
  <2>1. CASE q[k] = r[k]
    BY <1>1, <2>1
  <2>2. CASE q[k].type = "accept" /\ r[k].type = "accept" /\ q[k].order = r[k].order
    <3>1. Concerns(q[k], o) <=> Concerns(r[k], o)
      BY <2>2 DEF Concerns
    <3>2. Timely(h[k - 1], q[k], o) <=> Timely(h[k - 1], r[k], o)
      BY <2>2, <3>1 DEF Timely
    <3>3. Told(h[k - 1], q[k], o) = Told(h[k - 1], r[k], o)
      BY <2>2, <3>1 DEF Told
    <3> QED
      BY <1>1, <3>2, <3>3
  <2> QED
    BY <2>1, <2>2 DEF Alike
<1> QED
  BY <1>1, <1>2 DEF Leads

-----------------------------------------------------------------------------
(* The inductive invariant *)

(* All callbacks that are still to be delivered, in order. *)
Due == working \o callbacks

(* Where the book keeps an order: in a multimap of resting orders, with    *)
(* the stops, as the inbound order of a match, or, when it is immediate-or *)
(* cancel, in the copy of the tracker that add() cancels.                  *)
Resting(o) == \E s \in Side : o \in market[s]
Waits(o) == (\E s \in Side : o \in stops[s]) \/ InQueue(o, pending) \/ InQueue(o, submitting)
Taken(o) == Matching /\ ~Nested /\ o = m.taker
Leftover(o) == pc = "deferred" /\ call.kind = "add" /\ o = call.order /\ ImmediateOrCancel(o)
Carried(o) == Resting(o) \/ Waits(o) \/ Taken(o) \/ Leftover(o)

(* The menu is without all-or-none market orders, and without stop orders  *)
(* that are immediate-or-cancel: the engine drops no order without a       *)
(* callback.                                                               *)
NothingDropped ==
  /\ AonAreLimits
  /\ \A t \in Menu : PassConditions /\ t.stop # 0 => ~t.ioc

(* The object y agrees with the book about the order o. *)
Stands(o, y) ==
  /\ y.filled = traded[o]
  /\ Carried(o) /\ open[o] > 0 => y.state = "accepted"
  /\ y.state = "accepted" => open[o] > 0 /\ y.qty - y.filled = open[o]
  /\ Waits(o) => y.price = order[o].price
  /\ Resting(o) => y.price = key[o]
  /\ Taken(o) => y.price = m.price
  /\ NothingDropped /\ y.state = "accepted" => Carried(o)

(* The callbacks that are due make of the object one that agrees. *)
Informed(o) == \E y \in SimpleOrder : Leads(o, Due, order[o], y) /\ Stands(o, y)

Announced == \A o \in Order : Informed(o)

(* Callbacks are for orders that were submitted; an order that is replaced *)
(* is not waiting as a stop.                                               *)
Fits(c) ==
  /\ \A o \in Order : Concerns(c, o) => o \in Used
  /\ c.type = "replace" => ~Waits(c.order)

Fitting == \A k \in DOMAIN Due : Fits(Due[k])

(* Nothing happened yet to an order that was not submitted. *)
Untouched == \A o \in Order : o \notin Used => order[o].filled = 0 /\ traded[o] = 0

(* Between calls, and while callbacks are delivered, no stop is on its way.*)
Handed ==
  /\ ~handling => working = <<>>
  /\ pc = "idle" => ~handling /\ callbacks = <<>>
  /\ pc \in {"idle", "deliver"} => pending = <<>> /\ submitting = <<>>

(* The accept callback is where add() looks for it. *)
AcceptNoted ==
  InAddOrder /\ call.kind = "add" =>
    call.accept \in DOMAIN callbacks /\ callbacks[call.accept].type = "accept"

(* The orders that a match may still trade with rest, on their side. *)
Visited == m.todo \cup {g \in {plan.goal} : Trying}

Standing ==
  /\ Matching =>
       /\ Visited \subseteq market[Opposite(m.taker)]
       /\ Visited \cap m.deferred = {}
       /\ aons \cap (Visited \cup m.deferred) = {}
       /\ Trying => plan.goal \notin m.todo
       /\ Nested => m.taker \in market[~Opposite(m.taker)] /\ m.taker \notin aons
  /\ InAddOrder => aons \subseteq market[Opposite(call.order)]

(* An immediate-or-cancel order is not kept, nor does it let others try.   *)
IocDone ==
  InAddOrder /\ ~(Matching /\ ~Nested) /\ ImmediateOrCancel(call.order) =>
    /\ pc = "deferred" /\ aons = {} /\ call.unfilled = open[call.order]
    /\ call.order \in Used /\ ~Waits(call.order)

NoneDropped ==
  /\ \A o \in Order : Resting(o) => ~ImmediateOrCancel(o)
  /\ NothingDropped =>
       /\ \A o \in Order : Waits(o) => ~ImmediateOrCancel(o)
       /\ InAddOrder /\ call.kind # "add" => ~ImmediateOrCancel(call.order)

AInv == /\ Announced /\ Fitting /\ Untouched /\ Handed /\ AcceptNoted
        /\ Standing /\ IocDone /\ NoneDropped

(* What is taken from the book on the way: that the engine erases no       *)
(* all-or-none order with something left of it.                            *)
Whole == AonAreLimits => LInv /\ WInv

-----------------------------------------------------------------------------
(* Steps and what is due *)

(* What is due is a sequence of callbacks. *)
LEMMA DueType ==
  ASSUME IInv
  PROVE  /\ Due \in Seq(Callback)
         /\ working \in Seq(Callback) /\ callbacks \in Seq(Callback)
BY DEF IInv, TypeOK, Due

(* Where the orders are. *)
LEMMA CarriedFacts ==
  ASSUME IInv, NEW o \in Order
  PROVE  /\ Resting(o) => o \in Used /\ o \in market[order[o].buy] /\ ~Waits(o)
         /\ Waits(o) => o \in Used
         /\ Taken(o) => o \in Used /\ ~Resting(o) /\ ~Waits(o)
         /\ Resting(o) /\ ~Matching => open[o] > 0
         /\ order[o] \in SimpleOrder /\ order[o].buy \in Side
         /\ open[o] \in Nat /\ traded[o] \in Nat
<1>1. /\ order[o] \in SimpleOrder /\ order[o].buy \in Side
      /\ open[o] \in Nat /\ traded[o] \in Nat
  BY DEF IInv, TypeOK, SimpleOrder, Quantity
<1>2. Resting(o) => o \in Used /\ o \in market[order[o].buy] /\ InBook(o)
  BY DEF IInv, Filed, Resting, InBook
<1>3. Resting(o) => ~Waits(o)
  BY <1>2 DEF IInv, Apart, Resting, Waits, InBook
<1>4. Waits(o) => o \in Used
  BY ContainerFacts DEF Waits, InBook
<1>5. Taken(o) => o \in Used
  BY DEF IInv, Facing, Taken
<1>6. Taken(o) => ~InBook(o) /\ ~InQueue(o, pending) /\ ~InQueue(o, submitting)
  BY DEF IInv, Inbound, Taken
<1>7. Taken(o) => ~Resting(o) /\ ~Waits(o)
  BY <1>6 DEF Resting, Waits, InBook
<1>8. Resting(o) /\ ~Matching => open[o] > 0
  BY DEF IInv, RestingOrdersAreOpen, Resting
<1> QED
  BY <1>1, <1>2, <1>3, <1>4, <1>5, <1>7, <1>8

(* What agreed still agrees when the order is where it was. *)
LEMMA StandsStill ==
  ASSUME NEW o, NEW y, Stands(o, y),
         traded'[o] = traded[o], open'[o] = open[o], order'[o].price = order[o].price,
         key'[o] = key[o],
         Resting(o)' <=> Resting(o), Waits(o)' <=> Waits(o),
         Taken(o)' <=> Taken(o), Taken(o)' => m'.price = m.price,
         Leftover(o)' <=> Leftover(o)
  PROVE  Stands(o, y)'
<1>1. Carried(o)' <=> Carried(o)
  BY DEF Carried
<1> QED
  BY <1>1 DEF Stands

(* No callback is pushed. *)
LEMMA InformedStill ==
  ASSUME NEW o, Informed(o), Due' = Due, order'[o] = order[o],
         \A y \in SimpleOrder : Stands(o, y) => Stands(o, y)'
  PROVE  Informed(o)'
BY DEF Informed

(* A callback is pushed that is timely after those that are due. *)
LEMMA InformedOn ==
  ASSUME NEW o, Informed(o), Due \in Seq(Callback), order'[o] = order[o],
         NEW c \in Callback, Due' = Append(Due, c),
         \A y \in SimpleOrder : Stands(o, y) => Timely(y, c, o) /\ Stands(o, Told(y, c, o))'
  PROVE  Informed(o)'
<1>1. PICK y \in SimpleOrder : Leads(o, Due, order[o], y) /\ Stands(o, y)
  BY DEF Informed
<1>2. Timely(y, c, o) /\ Stands(o, Told(y, c, o))'
  BY <1>1
<1>3. Told(y, c, o) \in SimpleOrder
  BY <1>1, ToldType
<1>4. Leads(o, Due', order'[o], Told(y, c, o))
  BY <1>1, <1>2, LeadsOn
<1> QED
  BY <1>2, <1>3, <1>4 DEF Informed

(* Two callbacks are pushed. *)
LEMMA InformedTwice ==
  ASSUME NEW o, Informed(o), Due \in Seq(Callback), order'[o] = order[o],
         NEW c \in Callback, NEW d \in Callback, Due' = Append(Append(Due, c), d),
         \A y \in SimpleOrder : Stands(o, y) =>
           /\ Timely(y, c, o) /\ Timely(Told(y, c, o), d, o)
           /\ Stands(o, Told(Told(y, c, o), d, o))'
  PROVE  Informed(o)'
<1>1. PICK y \in SimpleOrder : Leads(o, Due, order[o], y) /\ Stands(o, y)
  BY DEF Informed
<1> DEFINE z == Told(y, c, o)
<1>2. Timely(y, c, o) /\ Timely(z, d, o) /\ Stands(o, Told(z, d, o))'
  BY <1>1
<1>3. z \in SimpleOrder
  BY <1>1, ToldType
<1>4. Leads(o, Append(Due, c), order[o], z)
  BY <1>1, <1>2, LeadsOn
<1> HIDE DEF z
<1>5. Told(z, d, o) \in SimpleOrder
  BY <1>3, ToldType
<1>6. Append(Due, c) \in Seq(Callback)
  OBVIOUS
<1>7. Leads(o, Append(Append(Due, c), d), order[o], Told(z, d, o))
  BY <1>2, <1>4, <1>6, LeadsOn
<1> QED
  BY <1>2, <1>5, <1>7 DEF Informed

(* The callbacks keep fitting while no submitted order becomes a stop. *)
LEMMA FitsStill ==
  ASSUME NEW c \in Callback, Fits(c), Used \subseteq Used',
         \A o \in Used : Waits(o)' => Waits(o)
  PROVE  Fits(c)'
<1>1. \A o \in Order : Concerns(c, o) => o \in Used'
  BY DEF Fits
<1>2. ASSUME c.type = "replace"
      PROVE  ~Waits(c.order)'
  <2>1. c.order \in Used
    BY <1>2 DEF Fits, Concerns, Callback
  <2> QED
    BY <1>2, <2>1 DEF Fits
<1> QED
  BY <1>1, <1>2 DEF Fits

(* No callback is pushed: those that are due still fit. *)
LEMMA FittingStill ==
  ASSUME Fitting, Due \in Seq(Callback), Due' = Due, Used \subseteq Used',
         \A o \in Used : Waits(o)' => Waits(o)
  PROVE  Fitting'
<1>1. \A k \in DOMAIN Due : Due[k] \in Callback /\ Fits(Due[k])
  BY DEF Fitting
<1>2. ASSUME NEW k \in DOMAIN Due
      PROVE  Fits(Due[k])'
  <2>1. PICK c \in Callback : c = Due[k] /\ Fits(c)
    BY <1>1
  <2>2. Fits(c)'
    BY <2>1, FitsStill
  <2> QED
    BY <2>1, <2>2
<1> QED
  BY <1>2 DEF Fitting

(* One callback is pushed. *)
LEMMA FittingOn ==
  ASSUME Fitting, Due \in Seq(Callback), NEW c \in Callback, Due' = Append(Due, c),
         Fits(c)', Used \subseteq Used', \A o \in Used : Waits(o)' => Waits(o)
  PROVE  Fitting'
<1>1. \A k \in DOMAIN Due : Due[k] \in Callback /\ Fits(Due[k])
  BY DEF Fitting
<1>2. /\ Len(Due) \in Nat /\ DOMAIN Due = 1..Len(Due)
      /\ DOMAIN Due' = 1..(Len(Due) + 1)
      /\ Due'[Len(Due) + 1] = c
      /\ \A k \in 1..Len(Due) : Due'[k] = Due[k]
  OBVIOUS
<1>3. ASSUME NEW k \in DOMAIN Due'
      PROVE  Fits(Due[k])'
  <2>1. CASE k \in DOMAIN Due
    <3>1. PICK d \in Callback : d = Due[k] /\ Fits(d)
      BY <1>1, <2>1
    <3>2. Fits(d)' /\ Due'[k] = d
      BY <1>2, <2>1, <3>1, FitsStill
    <3> QED
      BY <3>2
  <2>2. CASE k \notin DOMAIN Due
    <3>1. Due'[k] = c
      BY <1>2, <2>2
    <3> QED
      BY <3>1
  <2> QED
    BY <2>1, <2>2
<1> QED
  BY <1>3 DEF Fitting

(* Two callbacks are pushed. *)
LEMMA FittingTwice ==
  ASSUME Fitting, Due \in Seq(Callback), NEW c \in Callback, NEW d \in Callback,
         Due' = Append(Append(Due, c), d),
         Fits(c)', Fits(d)', Used \subseteq Used', \A o \in Used : Waits(o)' => Waits(o)
  PROVE  Fitting'
<1>1. \A k \in DOMAIN Due : Due[k] \in Callback /\ Fits(Due[k])
  BY DEF Fitting
<1>2. /\ Len(Due) \in Nat /\ DOMAIN Due = 1..Len(Due)
      /\ DOMAIN Due' = 1..(Len(Due) + 2)
      /\ Due'[Len(Due) + 1] = c /\ Due'[Len(Due) + 2] = d
      /\ \A k \in 1..Len(Due) : Due'[k] = Due[k]
  OBVIOUS
<1>3. ASSUME NEW k \in DOMAIN Due'
      PROVE  Fits(Due[k])'
  <2>1. CASE k \in DOMAIN Due
    <3>1. PICK e \in Callback : e = Due[k] /\ Fits(e)
      BY <1>1, <2>1
    <3>2. Fits(e)' /\ Due'[k] = e
      BY <1>2, <2>1, <3>1, FitsStill
    <3> QED
      BY <3>2
  <2>2. CASE k \notin DOMAIN Due
    <3>1. Due'[k] = c \/ Due'[k] = d
      BY <1>2, <2>2
    <3> QED
      BY <3>1
  <2> QED
    BY <2>1, <2>2
<1> QED
  BY <1>3 DEF Fitting

(* callback_now() adds to what is due, and starts the delivery. *)
LEMMA DueAfterCallbackNow ==
  ASSUME IInv, Handed, NEW pushed \in Seq(Callback), pushed # <<>>, CallbackNow(pushed),
         pending = <<>>, submitting = <<>>, UNCHANGED <<pending, submitting>>
  PROVE  /\ Due' = Due \o pushed /\ Handed' /\ pc' = "deliver"
         /\ ~Matching' /\ ~InAddOrder' /\ aons' = {}
<1>1. callbacks \in Seq(Callback) /\ working \in Seq(Callback) /\ handling \in BOOLEAN
  BY DEF IInv, TypeOK
<1>2. pc' = "deliver" /\ ~Matching' /\ ~InAddOrder' /\ aons' = {}
  BY DEF CallbackNow, Reset, Matching, InAddOrder
<1>3. CASE handling
  <2>1. callbacks' = callbacks \o pushed /\ working' = working /\ handling' = handling
    BY <1>3 DEF CallbackNow
  <2>2. working \o (callbacks \o pushed) = (working \o callbacks) \o pushed
    BY <1>1
  <2> QED
    BY <1>2, <1>3, <2>1, <2>2 DEF Due, Handed
<1>4. CASE ~handling
  <2>1. working' = callbacks \o pushed /\ callbacks' = <<>> /\ handling' = TRUE
    BY <1>4 DEF CallbackNow
  <2>2. working = <<>>
    BY <1>4 DEF Handed
  <2>3. Due = callbacks /\ Due' = callbacks \o pushed
    BY <1>1, <2>1, <2>2 DEF Due
  <2> QED
    BY <1>2, <2>1, <2>3 DEF Handed
<1> QED
  BY <1>1, <1>3, <1>4

-----------------------------------------------------------------------------
(* match_order() *)

(* Only add() and replace() have an order that they work on. *)
MatchFrame ==
  /\ Matching /\ Matching' /\ call' = call
  /\ m'.taker = m.taker /\ m'.price = m.price
  /\ UNCHANGED <<order, key, rank, submitting, working, handling>>

(* What a match keeps of the invariant, whether it trades or not. *)
LEMMA MatchFrameKeeps ==
  ASSUME AInv, MatchFrame,
         \A o \in Order : Resting(o)' => Resting(o),
         \A o \in Order : Waits(o)' => Waits(o)
  PROVE  /\ IocDone' /\ NoneDropped' /\ Handed'
         /\ \A o : (Taken(o)' <=> Taken(o)) /\ ~Leftover(o) /\ ~Leftover(o)'
<1>1. /\ InAddOrder /\ InAddOrder' /\ (Nested' <=> Nested) /\ pc # "deferred"
      /\ pc' # "deferred" /\ pc' # "idle" /\ pc' # "deliver"
  BY DEF MatchFrame, InAddOrder, Nested, Matching
<1>2. order' = order /\ call' = call
  BY DEF MatchFrame
<1>3. /\ \A o : (Taken(o)' <=> Taken(o)) /\ ~Leftover(o) /\ ~Leftover(o)'
  BY <1>1 DEF MatchFrame, Taken, Leftover
<1>4. IocDone'
  BY <1>1, <1>2 DEF AInv, IocDone, ImmediateOrCancel, MatchFrame
<1>5. NoneDropped'
  BY <1>1, <1>2 DEF AInv, NoneDropped, ImmediateOrCancel, AllOrNone
<1>6. Handed'
  BY <1>1 DEF AInv, Handed, MatchFrame
<1> QED
  BY <1>3, <1>4, <1>5, <1>6

(* A step of a match that makes no trade. *)
LEMMA QuietStepKeepsAInv ==
  ASSUME IInv, AInv, MatchFrame,
         UNCHANGED <<market, stops, open, traded, pending, callbacks>>, Standing'
  PROVE  AInv'
<1>1. Due' = Due /\ order' = order
  BY DEF Due, MatchFrame
<1>2. \A o : (Resting(o)' <=> Resting(o)) /\ (Waits(o)' <=> Waits(o))
  BY DEF Resting, Waits, InQueue, MatchFrame
<1>3. /\ IocDone' /\ NoneDropped' /\ Handed'
      /\ \A o : (Taken(o)' <=> Taken(o)) /\ ~Leftover(o) /\ ~Leftover(o)'
  BY <1>2, MatchFrameKeeps
<1>4. ASSUME NEW o \in Order
      PROVE  Informed(o)'
  <2>1. Informed(o)
    BY DEF AInv, Announced
  <2>2. ASSUME NEW y \in SimpleOrder, Stands(o, y)
        PROVE  Stands(o, y)'
    <3>1. key' = key /\ m'.price = m.price
      BY DEF MatchFrame
    <3> QED
      BY <1>1, <1>2, <1>3, <2>2, <3>1, StandsStill
  <2> QED
    BY <1>1, <2>1, <2>2, InformedStill
<1>5. Announced'
  BY <1>4 DEF Announced
<1>6. Used' = Used
  BY <1>1 DEF Used
<1>7. Fitting' /\ Untouched'
  BY <1>1, <1>2, <1>6, DueType, FittingStill DEF AInv, Untouched
<1>8. AcceptNoted'
  BY DEF AInv, AcceptNoted, MatchFrame, InAddOrder
<1> QED
  BY <1>3, <1>5, <1>7, <1>8 DEF AInv

(* Stops that are triggered still wait. *)
LEMMA TriggeredStopsWait ==
  ASSUME TypeOK, NEW price \in Price, SetMarketPrice(price), submitting' = submitting
  PROVE  \A o \in Order : Waits(o)' <=> Waits(o)
<1> DEFINE side == StopSide(price)
           batch == IF PriceMoves(price) THEN Triggered(side, price) ELSE {}
<1>1. side \in Side /\ batch \subseteq stops[side]
  BY DEF Triggered, Side, StopSide
<1>2. /\ stops' = [stops EXCEPT ![side] = @ \ batch]
      /\ pending' = IF batch = {} THEN pending ELSE Append(pending, batch)
  BY DEF SetMarketPrice
<1>3. stops \in [Side -> SUBSET Order] /\ pending \in Seq(SUBSET Order)
  BY DEF TypeOK
<1> HIDE DEF side, batch
<1>4. batch \in SUBSET Order
  BY <1>1, <1>3
<1>5. /\ stops'[side] = stops[side] \ batch
      /\ \A s \in Side : s # side => stops'[s] = stops[s]
  BY <1>1, <1>2, <1>3
<1>6. \A o \in Order : InQueue(o, pending') <=> InQueue(o, pending) \/ o \in batch
  <2>1. CASE batch = {}
    BY <1>2, <2>1
  <2>2. CASE batch # {}
    <3>1. pending' = Append(pending, batch)
      BY <1>2, <2>2
    <3>2. /\ Len(pending) \in Nat /\ DOMAIN pending = 1..Len(pending)
          /\ DOMAIN pending' = 1..(Len(pending) + 1)
          /\ pending'[Len(pending) + 1] = batch
          /\ \A i \in 1..Len(pending) : pending'[i] = pending[i]
      BY <1>3, <1>4, <3>1
    <3>3. \A i \in DOMAIN pending' : i \in DOMAIN pending \/ i = Len(pending) + 1
      BY <3>2
    <3>4. Len(pending) + 1 \in DOMAIN pending' /\ \A i \in DOMAIN pending : i \in DOMAIN pending'
      BY <3>2
    <3> QED
      BY <3>2, <3>3, <3>4 DEF InQueue
  <2> QED
    BY <2>1, <2>2
<1>7. \A o \in Order : (\E s \in Side : o \in stops[s]) <=> (\E s \in Side : o \in stops'[s]) \/ o \in batch
  BY <1>1, <1>5
<1>8. \A o : InQueue(o, submitting') <=> InQueue(o, submitting)
  OBVIOUS
<1> QED
  BY <1>6, <1>7, <1>8 DEF Waits

(* What a trade does to the two orders, and to the others. *)
LEMMA TradeMoves ==
  ASSUME IInv, Matching,
         NEW cur \in Order, order[cur].buy = Opposite(m.taker),
         NEW q \in Int, q > 0, NEW always \in BOOLEAN, MaybeTrade(cur, q, always)
  PROVE  /\ m.taker \in Order /\ m.taker # cur
         /\ open'[cur] = open[cur] - q /\ open'[m.taker] = open[m.taker] - q
         /\ traded'[cur] = traded[cur] + q /\ traded'[m.taker] = traded[m.taker] + q
         /\ \A o \in Order \ {cur, m.taker} : open'[o] = open[o] /\ traded'[o] = traded[o]
         /\ \A o \in Order : Waits(o)' <=> Waits(o)
         /\ \A o \in Order : Resting(o)' => Resting(o)
         /\ \A o \in Order : o # cur => (Resting(o)' <=> Resting(o))
         /\ Resting(cur) /\ ~always /\ open[cur] # q => Resting(cur)'
         /\ CrossPrice(cur) \in Price
         /\ callbacks' = Append(callbacks, FillCb(m.taker, cur, q, CrossPrice(cur)))
<1>1. /\ open' = [open EXCEPT ![m.taker] = @ - q, ![cur] = @ - q]
      /\ traded' = [traded EXCEPT ![m.taker] = @ + q, ![cur] = @ + q]
      /\ market' = IF always \/ open[cur] = q
                   THEN [market EXCEPT ![Opposite(m.taker)] = @ \ {cur}]
                   ELSE market
      /\ SetMarketPrice(CrossPrice(cur))
      /\ callbacks' = Append(callbacks, FillCb(m.taker, cur, q, CrossPrice(cur)))
      /\ submitting' = submitting
  BY DEF MaybeTrade, CreateTrade
<1>2. /\ TypeOK /\ m.taker \in Order /\ Opposite(m.taker) \in Side
      /\ open \in [Order -> Nat] /\ traded \in [Order -> Nat]
      /\ market \in [Side -> SUBSET Order]
      /\ order[m.taker].buy # order[cur].buy
  BY DEF IInv, TypeOK, Match, Quantity, Opposite, SimpleOrder, Side
<1>3. m.taker # cur
  BY <1>2
<1>4. /\ open'[cur] = open[cur] - q /\ open'[m.taker] = open[m.taker] - q
      /\ \A o \in Order \ {cur, m.taker} : open'[o] = open[o]
  BY <1>1, <1>2, <1>3
<1>5. /\ traded'[cur] = traded[cur] + q /\ traded'[m.taker] = traded[m.taker] + q
      /\ \A o \in Order \ {cur, m.taker} : traded'[o] = traded[o]
  BY <1>1, <1>2, <1>3
<1>6. CrossPrice(cur) \in Price
  BY <1>2, CrossPriceType
<1>7. \A o \in Order : Waits(o)' <=> Waits(o)
  BY <1>1, <1>2, <1>6, TriggeredStopsWait
<1>8. \A s \in Side : market'[s] \subseteq market[s] /\ market[s] \ {cur} \subseteq market'[s]
  BY <1>1, <1>2
<1>9. ~always /\ open[cur] # q => market' = market
  BY <1>1
<1>10. \A o \in Order : Resting(o)' => Resting(o)
  BY <1>8 DEF Resting
<1>11. \A o \in Order : o # cur => (Resting(o)' <=> Resting(o))
  BY <1>8 DEF Resting
<1>12. Resting(cur) /\ ~always /\ open[cur] # q => Resting(cur)'
  BY <1>9 DEF Resting
<1> QED
  BY <1>1, <1>2, <1>3, <1>4, <1>5, <1>6, <1>7, <1>10, <1>11, <1>12

(* The object of an order that trades: it is accepted, and after the fill  *)
(* it agrees with the book again.                                          *)
LEMMA StandsAfterFill ==
  ASSUME NEW o \in Order, NEW y \in SimpleOrder, Stands(o, y),
         NEW c \in Callback, c.type = "fill", o \in {c.order, c.matched},
         NEW q \in Nat, c.qty = q, q > 0, open[o] \in Nat, q <= open[o], traded[o] \in Nat,
         o \in c.done <=> open[o] = q,
         open'[o] = open[o] - q, traded'[o] = traded[o] + q,
         Carried(o), Carried(o)' => Carried(o), Carried(o) /\ open[o] # q /\ NothingDropped => Carried(o)',
         order' = order, key' = key, m'.price = m.price,
         Waits(o)' => Waits(o), Resting(o)' => Resting(o), Taken(o)' => Taken(o)
  PROVE  Timely(y, c, o) /\ Stands(o, Told(y, c, o))'
<1> DEFINE z == Told(y, c, o)
<1>1. open[o] > 0
  OBVIOUS
<1>2. /\ y.state = "accepted" /\ y.filled = traded[o] /\ y.qty - y.filled = open[o]
      /\ Waits(o) => y.price = order[o].price
      /\ Resting(o) => y.price = key[o]
      /\ Taken(o) => y.price = m.price
  BY <1>1 DEF Stands
<1>3. Timely(y, c, o)
  <2>1. y.qty \in Int /\ y.filled \in Int
    BY DEF SimpleOrder, Quantity
  <2>2. y.filled + c.qty <= y.qty
    BY <1>2, <2>1
  <2>3. o \in c.done <=> y.filled + c.qty = y.qty
    BY <1>2, <2>1
  <2> QED
    BY <1>2, <2>2, <2>3 DEF Timely
<1>4. /\ z.state = IF y.filled + q >= y.qty THEN "complete" ELSE y.state
      /\ z.qty = y.qty /\ z.filled = y.filled + q /\ z.price = y.price
  BY ToldFill
<1>5. y.qty \in Int /\ y.filled \in Int
  BY DEF SimpleOrder, Quantity
<1> HIDE DEF z
<1>6. open[o] = q <=> y.filled + q >= y.qty
  BY <1>2, <1>5
<1>7. z.state = IF open[o] = q THEN "complete" ELSE "accepted"
  BY <1>2, <1>4, <1>6
<1>8. z.filled = traded'[o]
  BY <1>2, <1>4
<1>9. open'[o] > 0 <=> open[o] # q
  OBVIOUS
<1>10. open'[o] > 0 => z.state = "accepted"
  BY <1>7, <1>9
<1>11. z.state = "accepted" => open'[o] > 0
  BY <1>7, <1>9
<1>12. z.qty - z.filled = open'[o]
  BY <1>2, <1>4, <1>5
<1>13. NothingDropped' /\ z.state = "accepted" => Carried(o)'
  BY <1>7 DEF NothingDropped
<1>14. /\ Waits(o)' => z.price = order'[o].price
       /\ Resting(o)' => z.price = key'[o]
       /\ Taken(o)' => z.price = m'.price
  BY <1>2, <1>4
<1>15. Stands(o, z)'
  BY <1>8, <1>10, <1>11, <1>12, <1>13, <1>14 DEF Stands
<1> QED
  BY <1>3, <1>15 DEF z

(* A trade of a match. *)
LEMMA TradeStepKeepsAInv ==
  ASSUME IInv, AInv, MatchFrame,
         NEW cur \in Order, order[cur].buy = Opposite(m.taker),
         NEW q \in Int, q <= open[cur], q <= open[m.taker],
         NEW always \in BOOLEAN, NothingDropped /\ always => q \in {0, open[cur]},
         MaybeTrade(cur, q, always),
         q > 0 => cur \in market[Opposite(m.taker)],
         Standing'
  PROVE  AInv'
<1>1. CASE q <= 0
  <2>1. UNCHANGED <<market, stops, open, traded, pending, callbacks>>
    BY <1>1 DEF MaybeTrade
  <2> QED
    BY <2>1, QuietStepKeepsAInv
<1>2. CASE q > 0
  <2>0. PICK o \in Order, c \in Callback :
          o = m.taker /\ c = FillCb(o, cur, q, CrossPrice(cur))
    <3>1. q \in Quantity /\ m.taker \in Order /\ CrossPrice(cur) \in Price
      BY <1>2, TradeMoves DEF MatchFrame, Quantity
    <3>2. FillCb(m.taker, cur, q, CrossPrice(cur)) \in Callback
      BY <3>1, FillCbType
    <3> QED
      BY <3>1, <3>2
  <2>1. /\ Matching /\ o \in Order /\ o # cur
        /\ open'[cur] = open[cur] - q /\ open'[o] = open[o] - q
        /\ traded'[cur] = traded[cur] + q /\ traded'[o] = traded[o] + q
        /\ \A p \in Order \ {cur, o} : open'[p] = open[p] /\ traded'[p] = traded[p]
        /\ \A p \in Order : Waits(p)' <=> Waits(p)
        /\ \A p \in Order : Resting(p)' => Resting(p)
        /\ \A p \in Order : p # cur => (Resting(p)' <=> Resting(p))
        /\ Resting(cur) /\ ~always /\ open[cur] # q => Resting(cur)'
        /\ CrossPrice(cur) \in Price
        /\ callbacks' = Append(callbacks, c)
    BY <1>2, <2>0, TradeMoves DEF MatchFrame
  <2>2. /\ c.type = "fill" /\ c.order = o /\ c.matched = cur /\ c.qty = q
        /\ (o \in c.done <=> open[o] = q) /\ (cur \in c.done <=> open[cur] = q)
    BY <2>0 DEF FillCb
  <2>3. c \in Callback
    OBVIOUS
  <2>4. /\ order' = order /\ key' = key /\ m'.price = m.price /\ m'.taker = o
        /\ call' = call /\ working' = working
    BY <2>0 DEF MatchFrame
  <2>5. /\ IocDone' /\ NoneDropped' /\ Handed'
        /\ \A p : (Taken(p)' <=> Taken(p)) /\ ~Leftover(p) /\ ~Leftover(p)'
    BY <2>1, MatchFrameKeeps
  <2>6. Due' = Append(Due, c) /\ Due \in Seq(Callback)
    BY <2>1, <2>3, <2>4, DueType DEF Due
  <2>7. Resting(cur) /\ cur \in Used /\ o \in Used
    BY <1>2, <2>0, <2>1 DEF Resting, IInv, Facing, Filed, Opposite, Side
  <2>8. Resting(o) \/ Taken(o)
    <3>1. CASE Nested
      <4>1. o \in market[~Opposite(o)] /\ (~Opposite(o)) \in Side
        BY <2>0, <2>1, <3>1 DEF AInv, Standing, Side
      <4> QED
        BY <4>1 DEF Resting
    <3>2. CASE ~Nested
      BY <2>0, <2>1, <3>2 DEF Taken
    <3> QED
      BY <3>1, <3>2
  <2>9. /\ open[o] \in Nat /\ traded[o] \in Nat /\ open[cur] \in Nat /\ traded[cur] \in Nat
    BY <2>1, CarriedFacts
  <2>10. ASSUME NEW y \in SimpleOrder, Stands(o, y)
         PROVE  Timely(y, c, o) /\ Stands(o, Told(y, c, o))'
    <3>1. Carried(o) /\ Carried(o)'
      BY <2>1, <2>5, <2>8 DEF Carried
    <3>2. q \in Nat /\ o \in {c.order, c.matched}
      BY <1>2, <2>2
    <3> QED
      BY <1>2, <2>0, <2>1, <2>2, <2>3, <2>4, <2>5, <2>9, <2>10, <3>1, <3>2, StandsAfterFill
  <2>11. ASSUME NEW y \in SimpleOrder, Stands(cur, y)
         PROVE  Timely(y, c, cur) /\ Stands(cur, Told(y, c, cur))'
    <3>1. Carried(cur)
      BY <2>7 DEF Carried
    <3>2. Carried(cur)' => Carried(cur)
      BY <3>1
    <3>3. Carried(cur) /\ open[cur] # q /\ NothingDropped => Carried(cur)'
      <4>1. NothingDropped /\ always => q = open[cur]
        BY <1>2
      <4> QED
        BY <2>1, <2>7, <4>1 DEF Carried
    <3>4. q \in Nat /\ cur \in {c.order, c.matched}
      BY <1>2, <2>2
    <3> QED
      BY <1>2, <2>1, <2>2, <2>3, <2>4, <2>5, <2>9, <2>11, <3>1, <3>2, <3>3, <3>4, StandsAfterFill
  <2>12. ASSUME NEW p \in Order, p # o, p # cur, NEW y \in SimpleOrder, Stands(p, y)
         PROVE  Timely(y, c, p) /\ Stands(p, Told(y, c, p))'
    <3>1. ~Concerns(c, p)
      BY <2>2, <2>12 DEF Concerns
    <3>2. Stands(p, y)'
      BY <2>1, <2>4, <2>5, <2>12, StandsStill
    <3> QED
      BY <3>1, <3>2, ToldNothing
  <2>13. ASSUME NEW p \in Order
         PROVE  Informed(p)'
    <3>1. Informed(p) /\ order'[p] = order[p]
      BY <2>4 DEF AInv, Announced
    <3>2. \A y \in SimpleOrder : Stands(p, y) => Timely(y, c, p) /\ Stands(p, Told(y, c, p))'
      BY <2>10, <2>11, <2>12
    <3> QED
      BY <2>3, <2>6, <3>1, <3>2, InformedOn
  <2>14. Used' = Used
    BY <2>4 DEF Used
  <2>15. Fits(c)'
    BY <2>2, <2>7, <2>14 DEF Fits, Concerns
  <2>16. Fitting'
    <3>1. \A p \in Used : Waits(p)' => Waits(p)
      BY <2>1 DEF Used
    <3> QED
      BY <2>3, <2>6, <2>14, <2>15, <3>1, FittingOn DEF AInv
  <2>17. Untouched'
    BY <2>1, <2>4, <2>7, <2>14 DEF AInv, Untouched
  <2>18. AcceptNoted'
    <3>1. \A k \in DOMAIN callbacks : k \in DOMAIN callbacks' /\ callbacks'[k] = callbacks[k]
      BY <2>1, <2>3, DueType
    <3>2. InAddOrder
      BY <2>1 DEF InAddOrder
    <3> QED
      BY <2>4, <3>1, <3>2 DEF AInv, AcceptNoted
  <2>19. Announced'
    BY <2>13 DEF Announced
  <2> QED
    BY <2>5, <2>16, <2>17, <2>18, <2>19 DEF AInv
<1> QED
  BY <1>1, <1>2

(* What is traded away is not visited again; the rest still rests. *)
LEMMA StandingStill ==
  ASSUME IInv, AInv, MatchFrame, aons' = aons,
         NEW R, R \subseteq Visited \cup m.deferred,
         \A s \in Side : market[s] \ R \subseteq market'[s],
         Visited' \subseteq Visited \ R,
         m'.deferred \subseteq m.deferred \cup Visited,
         Visited' \cap m'.deferred = {},
         Trying' => plan'.goal \notin m'.todo
  PROVE  Standing'
<1>1. /\ Matching /\ Matching' /\ InAddOrder /\ (Nested' <=> Nested)
      /\ order' = order /\ call' = call /\ m'.taker = m.taker
  BY DEF MatchFrame, InAddOrder, Nested
<1>2. /\ Visited \subseteq market[Opposite(m.taker)]
      /\ aons \cap (Visited \cup m.deferred) = {}
      /\ Nested => m.taker \in market[~Opposite(m.taker)] /\ m.taker \notin aons
      /\ aons \subseteq market[Opposite(call.order)]
  BY <1>1 DEF AInv, Standing
<1>3. /\ m.taker \in Order /\ call.order \in Order
      /\ \A p \in Order : Opposite(p) \in Side /\ (~Opposite(p)) \in Side
  BY DEF IInv, TypeOK, Match, Call, Opposite, SimpleOrder, Side
<1>4. \A p : Opposite(p)' = Opposite(p)
  BY <1>1 DEF Opposite
<1>5. Visited' \subseteq market'[Opposite(m.taker)]
  BY <1>2, <1>3
<1>6. aons \subseteq market'[Opposite(call.order)] /\ aons \cap (Visited' \cup m'.deferred) = {}
  BY <1>2, <1>3
<1>7. Nested => m.taker \in market'[~Opposite(m.taker)]
  <2>1. \A e \in R : e \in Order /\ order[e].buy = Opposite(m.taker)
    <3>1. \A e \in m.deferred : e \in Order /\ order[e].buy = Opposite(m.taker)
      BY <1>1 DEF IInv, Facing, Used
    <3>2. \A e \in Visited : e \in Order /\ order[e].buy = Opposite(m.taker)
      BY <1>2, <1>3 DEF IInv, Filed, Used
    <3> QED
      BY <3>1, <3>2
  <2>2. order[m.taker].buy # Opposite(m.taker)
    BY <1>3 DEF IInv, TypeOK, Opposite, SimpleOrder, Side
  <2>3. m.taker \notin R
    BY <2>1, <2>2
  <2> QED
    BY <1>2, <1>3, <2>3
<1> QED
  BY <1>1, <1>2, <1>4, <1>5, <1>6, <1>7 DEF Standing

(* An all-or-none order is passed over: nobody is told anything.           *)
LEMMA DeferAonAgrees ==
  ASSUME IInv, AInv, NEW e \in m.todo, DeferAon(e)
  PROVE  AInv'
<1>1. /\ pc = "match" /\ pc' = pc /\ Matching /\ Matching' /\ call' = call /\ plan' = plan
      /\ aons' = IF Nested THEN aons ELSE aons \cup {e}
      /\ m' = [m EXCEPT !.todo = @ \ {e}]
      /\ UNCHANGED <<order, market, stops, key, rank, open, traded, pending, submitting,
                     callbacks, working, handling>>
  BY DEF DeferAon, Candidate, Matching, containers, trackers, triggered, queues
<1>2. m \in Match
  BY DEF IInv, TypeOK
<1>3. /\ m'.taker = m.taker /\ m'.price = m.price /\ m'.todo = m.todo \ {e}
      /\ m'.deferred = m.deferred
  BY <1>1, <1>2 DEF Match
<1>4. MatchFrame
  BY <1>1, <1>3 DEF MatchFrame
<1>5. Visited = m.todo /\ Visited' = m.todo \ {e} /\ ~Trying /\ ~Trying'
  BY <1>1, <1>3 DEF Visited, Trying
<1>6. /\ InAddOrder /\ InAddOrder' /\ (Nested' <=> Nested)
  BY <1>1, <1>3 DEF InAddOrder, Nested
<1>7. /\ m.todo \subseteq market[Opposite(m.taker)] /\ m.todo \cap m.deferred = {}
      /\ aons \cap (m.todo \cup m.deferred) = {}
      /\ Nested => m.taker \in market[~Opposite(m.taker)] /\ m.taker \notin aons
      /\ aons \subseteq market[Opposite(call.order)]
  BY <1>1, <1>5, <1>6 DEF AInv, Standing
<1>8. \A p : Opposite(p)' = Opposite(p)
  BY <1>1 DEF Opposite
<1>9. aons' \subseteq market[Opposite(call.order)] /\ aons' \cap (Visited' \cup m'.deferred) = {}
  BY <1>1, <1>3, <1>5, <1>7 DEF Nested
<1>10. Nested => m.taker \notin aons'
  BY <1>1, <1>7
<1>11. Standing'
  BY <1>1, <1>3, <1>5, <1>6, <1>7, <1>8, <1>9, <1>10 DEF Standing
<1> QED
  BY <1>1, <1>4, <1>11, QuietStepKeepsAInv

(* A trade with the first order of the other side. *)
LEMMA MatchRegularAgrees ==
  ASSUME IInv, AInv, Whole, NEW e \in m.todo, MatchRegular(e)
  PROVE  AInv'
<1> DEFINE r == TradeQty(e, open[e])
           m1 == [m EXCEPT !.left = @ - r]
<1>1. /\ Candidate(e) /\ MaybeTrade(e, r, AllOrNone(e))
      /\ pc = "match" /\ pc' = pc /\ call' = call /\ aons' = aons /\ plan' = plan
  BY DEF MatchRegular, Candidate
<1>2. m' = [m1 EXCEPT !.todo = @ \ {e}]
  BY DEF MatchRegular
<1>3. /\ Matching /\ Matching' /\ m \in Match /\ m.left \in Int /\ e \in Order
      /\ order[e].buy = Opposite(m.taker) /\ open[e] \in Nat
  BY <1>1, CandidateFacts DEF Matching
<1>4. r \in Int /\ r <= open[e] /\ r <= open[m.taker]
  BY <1>3, TradeQtyBound DEF IInv
<1>5. PICK q \in Int, always \in BOOLEAN : q = r /\ always = AllOrNone(e)
  BY <1>3, <1>4 DEF AllOrNone, ConstantsAssumption, IInv, TypeOK, SimpleOrder
<1> HIDE DEF r
<1>6. /\ m1 \in Match /\ m1.taker = m.taker /\ m1.price = m.price /\ m1.todo = m.todo
      /\ m1.deferred = m.deferred
  BY <1>3, <1>4 DEF Match
<1> HIDE DEF m1
<1>7. /\ m'.taker = m.taker /\ m'.price = m.price /\ m'.todo = m.todo \ {e}
      /\ m'.deferred = m.deferred
  BY <1>2, <1>6 DEF Match
<1>8. MaybeTrade(e, q, always) /\ q <= open[e] /\ q <= open[m.taker]
  BY <1>1, <1>4, <1>5
<1>9. MatchFrame
  BY <1>1, <1>3, <1>7, <1>8 DEF MatchFrame, MaybeTrade
<1>10. Visited = m.todo /\ Visited' = m.todo \ {e} /\ ~Trying'
  BY <1>1, <1>7 DEF Visited, Trying
<1>11. m.todo \subseteq market[Opposite(m.taker)] /\ m.todo \cap m.deferred = {}
  BY <1>3, <1>10 DEF AInv, Standing
<1>12. \A s \in Side : market[s] \ {e} \subseteq market'[s]
  BY <1>8 DEF MaybeTrade, CreateTrade, IInv, TypeOK
<1>13. Standing'
  <2>1. PICK R : R = {e}
    OBVIOUS
  <2>2. \A s \in Side : market[s] \ R \subseteq market'[s]
    BY <1>12, <2>1
  <2>3. Visited' \subseteq Visited \ R /\ R \subseteq Visited \cup m.deferred
    BY <1>10, <2>1
  <2>4. /\ m'.deferred \subseteq m.deferred \cup Visited
        /\ Visited' \cap m'.deferred = {}
    BY <1>7, <1>10, <1>11
  <2> QED
    BY <1>1, <1>9, <1>10, <2>2, <2>3, <2>4, StandingStill
<1>14. NothingDropped /\ always => q \in {0, open[e]}
  BY <1>5, RegularTakesWhole DEF Whole, NothingDropped, r
<1> QED
  BY <1>3, <1>5, <1>8, <1>9, <1>11, <1>13, <1>14, TradeStepKeepsAInv

(* An order is remembered an order for an all-or-none order.                         *)
LEMMA DeferMatchAgrees ==
  ASSUME IInv, AInv, NEW e \in m.todo, DeferMatch(e)
  PROVE  AInv'
<1> DEFINE m1 == [m EXCEPT !.dqty = @ + open[e]]
           m2 == [m1 EXCEPT !.deferred = @ \cup {e}]
<1>1. /\ Candidate(e)
      /\ pc = "match" /\ pc' = pc /\ call' = call /\ aons' = aons /\ plan' = plan
      /\ UNCHANGED <<order, market, stops, key, rank, open, traded, pending, submitting,
                     callbacks, working, handling>>
  BY DEF DeferMatch, Candidate, containers, trackers, triggered, queues
<1>2. m' = [m2 EXCEPT !.todo = @ \ {e}]
  BY DEF DeferMatch
<1>3. Matching /\ Matching' /\ m \in Match /\ open[e] \in Nat /\ m.dqty \in Nat /\ e \in Order
  BY <1>1, CandidateFacts DEF Matching
<1>4. /\ m1 \in Match /\ m1.taker = m.taker /\ m1.price = m.price /\ m1.todo = m.todo
      /\ m1.deferred = m.deferred
  BY <1>3 DEF Match
<1> HIDE DEF m1
<1>5. /\ m2 \in Match /\ m2.taker = m.taker /\ m2.price = m.price /\ m2.todo = m.todo
      /\ m2.deferred = m.deferred \cup {e}
  BY <1>3, <1>4 DEF Match
<1> HIDE DEF m2
<1>6. /\ m'.taker = m.taker /\ m'.price = m.price /\ m'.todo = m.todo \ {e}
      /\ m'.deferred = m.deferred \cup {e}
  BY <1>2, <1>5 DEF Match
<1>7. MatchFrame
  BY <1>1, <1>3, <1>6 DEF MatchFrame
<1>8. Visited = m.todo /\ Visited' = m.todo \ {e} /\ ~Trying'
  BY <1>1, <1>6 DEF Visited, Trying
<1>9. m.todo \cap m.deferred = {}
  BY <1>3, <1>8 DEF AInv, Standing
<1>10. Standing'
  <2>1. PICK R : R = {}
    OBVIOUS
  <2>2. \A s \in Side : market[s] \ R \subseteq market'[s]
    BY <1>1
  <2>3. Visited' \subseteq Visited \ R /\ R \subseteq Visited \cup m.deferred
    BY <1>8, <2>1
  <2> QED
    BY <1>1, <1>6, <1>7, <1>8, <1>9, <2>2, <2>3, StandingStill
<1> QED
  BY <1>1, <1>7, <1>10, QuietStepKeepsAInv

(* An attempt to trade with the remembered orders starts. *)
LEMMA TryDeferredAgrees ==
  ASSUME IInv, AInv, NEW e \in m.todo, TryDeferred(e)
  PROVE  AInv'
<1> DEFINE p1 == [NoPlan EXCEPT !.goal = e]
           p2 == [p1 EXCEPT !.max = MostFromDeferred(e)]
           p3 == [p2 EXCEPT !.min = LeastFromDeferred(e)]
<1>1. /\ pc = "match" /\ pc' = "propose" /\ call' = call /\ aons' = aons
      /\ m' = [m EXCEPT !.todo = @ \ {e}]
      /\ UNCHANGED <<order, market, stops, key, rank, open, traded, pending, submitting,
                     callbacks, working, handling>>
  BY DEF TryDeferred, Candidate, containers, trackers, triggered, queues
<1>2. plan' = [p3 EXCEPT !.todo = m.deferred]
  BY DEF TryDeferred
<1>3. Matching /\ Matching' /\ m \in Match
  BY <1>1 DEF Matching, IInv, TypeOK
<1>4. p1.goal = e /\ p2.goal = e /\ p3.goal = e /\ plan'.goal = e
  BY <1>2 DEF NoPlan
<1>5. /\ m'.taker = m.taker /\ m'.price = m.price /\ m'.todo = m.todo \ {e}
      /\ m'.deferred = m.deferred
  BY <1>1, <1>3 DEF Match
<1>6. MatchFrame
  BY <1>1, <1>3, <1>5 DEF MatchFrame
<1> HIDE DEF p1, p2, p3
<1>7. Visited = m.todo /\ Visited' = m.todo /\ Trying' /\ plan'.goal \notin m'.todo
  BY <1>1, <1>4, <1>5 DEF Visited, Trying
<1>8. m.todo \cap m.deferred = {}
  BY <1>3, <1>7 DEF AInv, Standing
<1>9. Standing'
  <2>1. PICK R : R = {}
    OBVIOUS
  <2>2. \A s \in Side : market[s] \ R \subseteq market'[s]
    BY <1>1
  <2>3. Visited' \subseteq Visited \ R /\ R \subseteq Visited \cup m.deferred
    BY <1>7, <2>1
  <2> QED
    BY <1>1, <1>5, <1>6, <1>7, <1>8, <2>2, <2>3, StandingStill
<1> QED
  BY <1>1, <1>6, <1>9, QuietStepKeepsAInv

(* While an attempt goes on, nothing else happens. *)
LEMMA TryingStandsStill ==
  ASSUME IInv, AInv, Trying, pc' \in {"propose", "settle", "close", "undefined"},
         m' = m, call' = call, aons' = aons, plan'.goal = plan.goal,
         UNCHANGED <<order, key, rank, submitting, working, handling>>,
         NEW R, R \subseteq m.deferred,
         \A s \in Side : market[s] \ R \subseteq market'[s]
  PROVE  MatchFrame /\ Standing'
<1>1. MatchFrame
  BY DEF MatchFrame, Trying, Matching
<1>2. Visited' \subseteq Visited /\ (Trying' => plan'.goal \notin m'.todo)
  BY <1>1 DEF Visited, Trying, MatchFrame, AInv, Standing
<1>3. Visited \cap m.deferred = {}
  BY <1>1 DEF AInv, Standing, MatchFrame
<1>4. /\ R \subseteq Visited \cup m.deferred /\ Visited' \subseteq Visited \ R
      /\ m'.deferred \subseteq m.deferred \cup Visited /\ Visited' \cap m'.deferred = {}
  BY <1>2, <1>3
<1>5. Standing'
  BY <1>1, <1>2, <1>4, StandingStill
<1> QED
  BY <1>1, <1>5

(* An order is proposed. *)
LEMMA ProposeAgrees ==
  ASSUME IInv, AInv, NEW d \in plan.todo, Propose(d)
  PROVE  AInv'
<1> DEFINE p1 == [plan EXCEPT !.found = @ + Proposal(d)]
           p2 == [p1 EXCEPT !.fills[d] = Proposal(d)]
<1>1. /\ pc = "propose" /\ pc' \in {"propose", "undefined"}
      /\ call' = call /\ aons' = aons /\ m' = m
      /\ UNCHANGED <<order, market, stops, key, rank, open, traded, pending, submitting,
                     callbacks, working, handling>>
  BY DEF Propose, containers, trackers, triggered, queues
<1>2. plan' = [p2 EXCEPT !.todo = @ \ {d}]
  BY DEF Propose
<1>3. plan \in Plan
  BY DEF IInv, TypeOK
<1>4. DOMAIN p1 = DOMAIN plan /\ p1.goal = plan.goal
  BY <1>3 DEF Plan
<1> HIDE DEF p1
<1>5. DOMAIN p2 = DOMAIN plan /\ p2.goal = plan.goal
  BY <1>3, <1>4 DEF Plan
<1> HIDE DEF p2
<1>6. plan'.goal = plan.goal
  BY <1>2, <1>3, <1>5 DEF Plan
<1>7. PICK R : R = {}
  OBVIOUS
<1>8. Trying /\ R \subseteq m.deferred /\ \A s \in Side : market[s] \ R \subseteq market'[s]
  BY <1>1, <1>7 DEF Trying
<1>9. MatchFrame /\ Standing'
  BY <1>1, <1>6, <1>8, TryingStandsStill
<1> QED
  BY <1>1, <1>9, QuietStepKeepsAInv

(* The proposal is complete. *)
LEMMA ProposalEndsAgrees ==
  ASSUME IInv, AInv, ProposalEnds
  PROVE  AInv'
<1>1. /\ pc = "propose" /\ pc' \in {"settle", "close"}
      /\ call' = call /\ aons' = aons /\ m' = m
      /\ plan' = [plan EXCEPT !.todo = m.deferred]
      /\ UNCHANGED <<order, market, stops, key, rank, open, traded, pending, submitting,
                     callbacks, working, handling>>
  BY DEF ProposalEnds, containers, trackers, triggered, queues
<1>2. plan \in Plan
  BY DEF IInv, TypeOK
<1>3. plan'.goal = plan.goal
  BY <1>1, <1>2 DEF Plan
<1>4. PICK R : R = {}
  OBVIOUS
<1>5. Trying /\ R \subseteq m.deferred /\ \A s \in Side : market[s] \ R \subseteq market'[s]
  BY <1>1, <1>4 DEF Trying
<1>6. MatchFrame /\ Standing'
  BY <1>1, <1>3, <1>5, TryingStandsStill
<1> QED
  BY <1>1, <1>6, QuietStepKeepsAInv

(* A remembered order is traded with. *)
LEMMA SettleAgrees ==
  ASSUME IInv, AInv, NEW d \in plan.todo, Settle(d)
  PROVE  AInv'
<1> DEFINE q == TradeQty(d, plan.fills[d])
           p1 == [plan EXCEPT !.got = @ + q]
<1>1. /\ pc = "settle" /\ pc' \in {"settle", "undefined"}
      /\ call' = call /\ aons' = aons /\ m' = m
      /\ MaybeTrade(d, IF Dangling(d) THEN 0 ELSE q, FALSE)
  BY DEF Settle
<1>2. plan' = [p1 EXCEPT !.todo = @ \ {d}]
  BY DEF Settle
<1>3. /\ Matching /\ plan \in Plan /\ m \in Match /\ d \in Order /\ d \in m.deferred
      /\ order[d].buy = Opposite(m.taker)
      /\ plan.fills[d] \in Int /\ m.taker \in Order
      /\ open[d] \in Nat /\ open[m.taker] \in Nat
  BY <1>1 DEF IInv, TypeOK, Facing, Matching, Plan, Match, Quantity
<1>4. q \in Int /\ q <= open[d] /\ q <= open[m.taker]
  BY <1>3, TradeQtyBound DEF IInv
<1> HIDE DEF q
<1>5. p1 \in Plan /\ p1.goal = plan.goal
  BY <1>3, <1>4 DEF Plan
<1> HIDE DEF p1
<1>6. plan'.goal = plan.goal
  BY <1>2, <1>5 DEF Plan
<1>7. PICK done \in Int, always \in BOOLEAN :
        done = (IF Dangling(d) THEN 0 ELSE q) /\ always = FALSE
  <2>1. (IF Dangling(d) THEN 0 ELSE q) \in Int
    BY <1>4
  <2> QED
    BY <2>1
<1>8. done <= open[d] /\ done <= open[m.taker]
  BY <1>3, <1>4, <1>7
<1>9. MaybeTrade(d, done, always)
  BY <1>1, <1>7
<1>10. done > 0 => d \in market[Opposite(m.taker)]
  BY <1>7 DEF Dangling
<1>11. PICK R : R = {d}
  OBVIOUS
<1>12. /\ Trying /\ R \subseteq m.deferred
       /\ \A s \in Side : market[s] \ R \subseteq market'[s]
       /\ UNCHANGED <<order, key, rank, submitting, working, handling>>
  <2>1. \A s \in Side : market[s] \ {d} \subseteq market'[s]
    BY <1>9 DEF MaybeTrade, CreateTrade, IInv, TypeOK
  <2>2. UNCHANGED <<order, key, rank, submitting, working, handling>>
    BY <1>9 DEF MaybeTrade
  <2> QED
    BY <1>1, <1>3, <1>11, <2>1, <2>2 DEF Trying
<1>13. MatchFrame /\ Standing'
  BY <1>1, <1>6, <1>12, TryingStandsStill
<1> QED
  BY <1>3, <1>7, <1>8, <1>9, <1>10, <1>13, TradeStepKeepsAInv

(* The remembered orders have given what they had to. *)
LEMMA SettleEndsAgrees ==
  ASSUME IInv, AInv, SettleEnds
  PROVE  AInv'
<1>1. /\ pc = "settle" /\ pc' = "close"
      /\ call' = call /\ aons' = aons /\ m' = m /\ plan' = plan
      /\ UNCHANGED <<order, market, stops, key, rank, open, traded, pending, submitting,
                     callbacks, working, handling>>
  BY DEF SettleEnds, containers, trackers, triggered, queues
<1>2. PICK R : R = {}
  OBVIOUS
<1>3. Trying /\ R \subseteq m.deferred /\ \A s \in Side : market[s] \ R \subseteq market'[s]
  BY <1>1, <1>2 DEF Trying
<1>4. MatchFrame /\ Standing'
  BY <1>1, <1>3, TryingStandsStill
<1> QED
  BY <1>1, <1>4, QuietStepKeepsAInv

(* The order that the attempt was made for is traded with, or not. *)
LEMMA CloseAgrees ==
  ASSUME IInv, AInv, Whole, Close(plan.goal)
  PROVE  AInv'
<1> DEFINE e == plan.goal
           r == IF GoalReached(e) THEN TradeQty(e, open[e]) ELSE 0
<1>1. /\ pc = "close" /\ pc' = "match"
      /\ call' = call /\ aons' = aons
      /\ MaybeTrade(e, r, AllOrNone(e))
      /\ m' = IF GoalReached(e) THEN [m EXCEPT !.left = @ - plan.got - r] ELSE m
  BY DEF Close
<1>2. /\ Matching /\ Matching' /\ Trying /\ ~Trying' /\ m \in Match /\ e \in Order
      /\ order[e].buy = Opposite(m.taker)
      /\ open[e] \in Nat /\ m.taker \in Order /\ open[m.taker] \in Nat
      /\ m.left \in Int /\ plan.got \in Int
  BY <1>1 DEF IInv, TypeOK, Facing, Matching, Trying, Plan, Match, Quantity
<1>3. r \in Int /\ r <= open[e] /\ r <= open[m.taker]
  BY <1>2, TradeQtyBound DEF IInv
<1>4. PICK q \in Int, always \in BOOLEAN : q = r /\ always = AllOrNone(e)
  BY <1>2, <1>3 DEF AllOrNone, ConstantsAssumption, IInv, TypeOK, SimpleOrder
<1> HIDE DEF r
<1>5. PICK cur \in Order : cur = e
  BY <1>2
<1> HIDE DEF e
<1>6. /\ m'.taker = m.taker /\ m'.price = m.price /\ m'.todo = m.todo
      /\ m'.deferred = m.deferred
  <2>1. CASE GoalReached(e)
    BY <1>1, <1>2, <2>1 DEF Match
  <2>2. CASE ~GoalReached(e)
    BY <1>1, <2>2
  <2> QED
    BY <2>1, <2>2
<1>7. /\ MaybeTrade(cur, q, always) /\ q <= open[cur] /\ q <= open[m.taker]
      /\ order[cur].buy = Opposite(m.taker) /\ (always => AllOrNone(cur))
  BY <1>1, <1>2, <1>3, <1>4, <1>5
<1>8. MatchFrame
  BY <1>1, <1>2, <1>6, <1>7 DEF MatchFrame, MaybeTrade
<1>9. Visited = m.todo \cup {cur} /\ Visited' = m.todo /\ cur \notin m.todo
  BY <1>2, <1>5, <1>6 DEF Visited, AInv, Standing, e
<1>10. Visited \subseteq market[Opposite(m.taker)] /\ Visited \cap m.deferred = {}
  BY <1>2 DEF AInv, Standing
<1>11. \A s \in Side : market[s] \ {cur} \subseteq market'[s]
  BY <1>7 DEF MaybeTrade, CreateTrade, IInv, TypeOK
<1>12. Standing'
  <2>1. PICK R : R = {cur}
    OBVIOUS
  <2>2. \A s \in Side : market[s] \ R \subseteq market'[s]
    BY <1>11, <2>1
  <2>3. Visited' \subseteq Visited \ R /\ R \subseteq Visited \cup m.deferred
    BY <1>9, <2>1
  <2>4. /\ m'.deferred \subseteq m.deferred \cup Visited
        /\ Visited' \cap m'.deferred = {}
    BY <1>6, <1>9, <1>10
  <2>5. (Trying' => plan'.goal \notin m'.todo) /\ aons' = aons
    BY <1>1, <1>2
  <2> QED
    BY ONLY IInv, AInv, <1>8, <2>2, <2>3, <2>4, <2>5, StandingStill
<1>13. NothingDropped /\ always => q \in {0, open[cur]}
  <2>1. CASE GoalReached(cur)
    BY <1>1, <1>4, <1>5, <2>1, GoalTakenWhole DEF Whole, NothingDropped, r, e
  <2>2. CASE ~GoalReached(cur)
    BY <1>4, <1>5, <2>2 DEF r, e
  <2> QED
    BY <2>1, <2>2
<1> QED
  BY <1>7, <1>8, <1>9, <1>10, <1>12, <1>13, TradeStepKeepsAInv

-----------------------------------------------------------------------------
(* add_order() *)

(* A step that pushes no callback and in which every object that agreed    *)
(* still agrees.                                                           *)
LEMMA SilentStep ==
  ASSUME IInv, AInv, Due' = Due, order' = order, traded' = traded,
         \A o \in Order : Waits(o)' => Waits(o),
         \A o \in Order : \A y \in SimpleOrder : Stands(o, y) => Stands(o, y)'
  PROVE  Announced' /\ Fitting' /\ Untouched'
<1>1. Used' = Used /\ Used \subseteq Order
  BY DEF Used
<1>2. ASSUME NEW o \in Order
      PROVE  Informed(o)'
  <2>1. Informed(o) /\ order'[o] = order[o]
    BY DEF AInv, Announced
  <2> QED
    BY <2>1, InformedStill
<1>3. Announced'
  BY <1>2 DEF Announced
<1>4. Fitting'
  BY <1>1, DueType, FittingStill DEF AInv
<1>5. Untouched'
  BY <1>1 DEF AInv, Untouched
<1> QED
  BY <1>3, <1>4, <1>5

(* The inbound order was matched: what is left of it rests or is dropped.  *)
LEMMA RestAgrees ==
  ASSUME IInv, AInv, Rest
  PROVE  AInv'
<1>1. PICK o, s : o = m.taker /\ s = ~Opposite(m.taker)
  OBVIOUS
<1>2. /\ pc = "match" /\ Matching /\ ~Nested /\ pc' = "deferred"
      /\ call' = [call EXCEPT !.unfilled = open[o]]
      /\ UNCHANGED <<order, stops, open, traded, pending, submitting, callbacks, working, handling, m>>
      /\ \/ /\ Rests(o)
            /\ market' = [market EXCEPT ![s] = @ \cup {o}]
            /\ key' = [key EXCEPT ![o] = m.price]
            /\ aons' = aons
         \/ /\ ~Rests(o) /\ aons' = {} /\ UNCHANGED <<market, key>>
  BY <1>1 DEF Rest, MatchEnds, Matching, File, trackers, triggered, queues
<1>3. /\ o \in Order /\ s \in Side /\ m.price \in Price
      /\ open[o] \in Nat /\ call.order = o /\ key \in [Order -> Price]
      /\ market \in [Side -> SUBSET Order]
  BY <1>1, <1>2, ContainerFacts DEF IInv, TypeOK, Facing, Match, Nested, Opposite, Side, Used
<1>4. /\ call'.order = o /\ call'.kind = call.kind /\ call'.accept = call.accept
      /\ call'.unfilled = open[o]
  BY <1>2, <1>3 DEF IInv, TypeOK, Call
<1>5. /\ InAddOrder /\ InAddOrder' /\ ~Matching' /\ Due' = Due
      /\ \A p : (Taken(p) <=> p = o) /\ ~Taken(p)' /\ ~Leftover(p)
      /\ \A p : Leftover(p)' <=> call.kind = "add" /\ p = o /\ ImmediateOrCancel(o)
  BY <1>1, <1>2, <1>3, <1>4 DEF InAddOrder, Matching, Due, Taken, Leftover, ImmediateOrCancel
<1>6. ~Resting(o) /\ ~Waits(o)
  BY <1>3, <1>5, CarriedFacts
<1>7. \A p : Waits(p)' <=> Waits(p)
  BY <1>2 DEF Waits, InQueue
<1>8. /\ \A p \in Order : p # o => (Resting(p)' <=> Resting(p)) /\ key'[p] = key[p]
      /\ Rests(o) => Resting(o)' /\ key'[o] = m.price /\ aons' = aons
      /\ ~Rests(o) => ~Resting(o)' /\ aons' = {}
      /\ \A t \in Side : market[t] \subseteq market'[t]
  <2>1. CASE /\ Rests(o)
             /\ market' = [market EXCEPT ![s] = @ \cup {o}]
             /\ key' = [key EXCEPT ![o] = m.price]
             /\ aons' = aons
    <3>1. o \in market'[s] /\ key'[o] = m.price
      BY <1>3, <2>1
    <3>2. \A t \in Side : market[t] \subseteq market'[t] /\ market'[t] \subseteq market[t] \cup {o}
      BY <1>3, <2>1
    <3>3. \A p \in Order : p # o => key'[p] = key[p]
      BY <1>3, <2>1
    <3>4. \A p \in Order : p # o => (Resting(p)' <=> Resting(p))
      BY <3>2 DEF Resting
    <3> QED
      BY <1>3, <2>1, <3>1, <3>2, <3>3, <3>4 DEF Resting
  <2>2. CASE ~Rests(o) /\ aons' = {} /\ UNCHANGED <<market, key>>
    BY <1>6, <2>2 DEF Resting
  <2> QED
    BY <1>2, <2>1, <2>2
<1>9. ASSUME NEW p \in Order, NEW y \in SimpleOrder, Stands(p, y)
      PROVE  Stands(p, y)'
  <2>1. CASE p # o
    <3>1. order'[p].price = order[p].price /\ open'[p] = open[p] /\ traded'[p] = traded[p]
      BY <1>2
    <3> QED
      BY <1>5, <1>7, <1>8, <1>9, <2>1, <3>1, StandsStill
  <2>2. CASE p = o
    <3>1. /\ y.filled = traded[o] /\ (open[o] > 0 => y.state = "accepted")
          /\ (y.state = "accepted" => open[o] > 0 /\ y.qty - y.filled = open[o])
          /\ y.price = m.price
      BY <1>5, <1>9, <2>2 DEF Stands, Carried
    <3>2. ~Waits(o)' /\ ~Taken(o)'
      BY <1>5, <1>6, <1>7
    <3>3. Resting(o)' => y.price = key'[o]
      BY <1>8, <3>1
    <3>4. NothingDropped' /\ y.state = "accepted" => Carried(o)'
      <4>1. CASE Rests(o)
        BY <1>8, <4>1 DEF Carried
      <4>2. CASE ~Rests(o) /\ NothingDropped /\ y.state = "accepted"
        <5>1. ImmediateOrCancel(o)
          BY <3>1, <4>2 DEF Rests
        <5>2. call.kind = "add"
          BY <1>3, <1>5, <4>2, <5>1 DEF AInv, NoneDropped
        <5>3. Leftover(o)'
          BY <1>5, <5>1, <5>2
        <5> QED
          BY <5>3 DEF Carried
      <4> QED
        BY <4>1, <4>2 DEF NothingDropped
    <3>5. open'[o] = open[o] /\ traded'[o] = traded[o]
      BY <1>2
    <3>6. Stands(o, y)'
      BY <3>1, <3>2, <3>3, <3>4, <3>5 DEF Stands
    <3> QED
      BY <2>2, <3>6
  <2> QED
    BY <2>1, <2>2
<1>10. Announced' /\ Fitting' /\ Untouched'
  BY <1>2, <1>5, <1>7, <1>9, SilentStep
<1>11. Handed'
  BY <1>2 DEF AInv, Handed
<1>12. AcceptNoted'
  BY <1>2, <1>4, <1>5 DEF AInv, AcceptNoted
<1>13. Standing'
  <2>1. aons \subseteq market[Opposite(o)] /\ Opposite(o)' = Opposite(o) /\ Opposite(o) \in Side
    BY <1>2, <1>3, <1>5, ContainerFacts DEF AInv, Standing, Opposite, Side
  <2>2. aons' \subseteq market'[Opposite(o)]
    BY <1>8, <2>1
  <2> QED
    BY <1>4, <1>5, <2>1, <2>2 DEF Standing
<1>14. ImmediateOrCancel(o)' <=> ImmediateOrCancel(o)
  BY <1>2 DEF ImmediateOrCancel
<1>15. IocDone'
  <2>1. ImmediateOrCancel(o) => ~Rests(o)
    BY DEF Rests
  <2>2. o \in Used'
    BY <1>2, <1>3, <1>5, CarriedFacts DEF Used
  <2> QED
    BY <1>2, <1>4, <1>6, <1>7, <1>8, <1>14, <2>1, <2>2 DEF IocDone
<1>16. NoneDropped'
  <2>1. \A p \in Order : /\ ImmediateOrCancel(p)' <=> ImmediateOrCancel(p)
    BY <1>2 DEF ImmediateOrCancel
  <2>2. \A p \in Order : Resting(p)' => ~ImmediateOrCancel(p)
    BY <1>8 DEF AInv, NoneDropped, Rests
  <2>3. NothingDropped' <=> NothingDropped
    BY DEF NothingDropped
  <2>4. NothingDropped =>
          /\ \A p \in Order : Waits(p) => ~ImmediateOrCancel(p)
          /\ call.kind # "add" => ~ImmediateOrCancel(o)
    BY <1>3, <1>5 DEF AInv, NoneDropped
  <2>5. call'.kind # "add" => call.kind # "add"
    BY <1>4
  <2> QED
    BY <1>3, <1>4, <1>7, <2>1, <2>2, <2>3, <2>4, <2>5 DEF NoneDropped
<1> QED
  BY <1>10, <1>11, <1>12, <1>13, <1>15, <1>16 DEF AInv

(* Nothing of NoneDropped is about a step that moves no order. *)
LEMMA NoneDroppedStill ==
  ASSUME NoneDropped, order' = order, InAddOrder' => InAddOrder /\ call' = call,
         \A o \in Order : Resting(o)' => Resting(o),
         \A o \in Order : Waits(o)' => Waits(o)
  PROVE  NoneDropped'
<1>1. \A p : ImmediateOrCancel(p)' <=> ImmediateOrCancel(p)
  BY DEF ImmediateOrCancel
<1>2. NothingDropped' <=> NothingDropped
  BY DEF NothingDropped
<1>3. \A o \in Order : Resting(o)' => ~ImmediateOrCancel(o)'
  BY <1>1 DEF NoneDropped
<1>4. ASSUME NothingDropped
      PROVE  /\ \A o \in Order : Waits(o)' => ~ImmediateOrCancel(o)'
             /\ InAddOrder' /\ call'.kind # "add" => ~ImmediateOrCancel(call.order)'
  <2>1. \A o \in Order : Waits(o)' => ~ImmediateOrCancel(o)'
    BY <1>1, <1>4 DEF NoneDropped
  <2>2. ASSUME InAddOrder', call'.kind # "add"
        PROVE  ~ImmediateOrCancel(call.order)'
    <3>1. call' = call /\ ~ImmediateOrCancel(call.order)
      BY <1>4, <2>2 DEF NoneDropped
    <3> QED
      BY <3>1 DEF ImmediateOrCancel
  <2> QED
    BY <2>1, <2>2
<1> QED
  BY <1>2, <1>3, <1>4 DEF NoneDropped

(* A deferred all-or-none order is matched where it rests: the inbound     *)
(* order is in the book, so it is not immediate-or-cancel.                 *)
LEMMA CheckDeferredAgrees ==
  ASSUME IInv, AInv, NEW a \in aons, CheckDeferred(a)
  PROVE  AInv'
<1>1. /\ pc = "deferred" /\ InAddOrder /\ ~Matching /\ Matching' /\ InAddOrder'
      /\ pc' = "match" /\ aons' = aons \ {a} /\ call' = call
      /\ m' = [taker |-> a, price |-> key[a], left |-> open[a], todo |-> market[Opposite(a)],
               dqty |-> 0, deferred |-> {}]
      /\ UNCHANGED <<order, market, stops, key, open, traded, pending, submitting,
                     callbacks, working, handling>>
  BY DEF CheckDeferred, StartMatch, InAddOrder, Matching, containers, trackers, triggered, queues
<1>2. /\ a \in Order /\ order[a].buy = Opposite(call.order) /\ call.order \in Order
      /\ Opposite(a) \in Side /\ aons \subseteq market[Opposite(call.order)]
  BY <1>1 DEF IInv, TypeOK, Facing, Call, Opposite, Side, AInv, Standing
<1>3. a # call.order /\ Opposite(call.order) = ~Opposite(a)
  BY <1>2, ContainerFacts DEF Opposite, Side
<1>4. /\ m'.taker = a /\ m'.todo = market[Opposite(a)] /\ m'.deferred = {}
      /\ Nested' /\ Due' = Due
  BY <1>1, <1>3 DEF Nested, Due
<1>5. ~ImmediateOrCancel(call.order)
  BY <1>1 DEF AInv, IocDone
<1>6. \A p : ~Taken(p) /\ ~Taken(p)' /\ ~Leftover(p) /\ ~Leftover(p)'
  BY <1>1, <1>4, <1>5 DEF Taken, Leftover
<1>7. \A p : (Waits(p)' <=> Waits(p)) /\ (Resting(p)' <=> Resting(p))
  BY <1>1 DEF Waits, InQueue, Resting
<1>8. ASSUME NEW p \in Order, NEW y \in SimpleOrder, Stands(p, y)
      PROVE  Stands(p, y)'
  BY <1>1, <1>6, <1>7, <1>8, StandsStill
<1>9. Announced' /\ Fitting' /\ Untouched'
  BY <1>1, <1>4, <1>7, <1>8, SilentStep
<1>10. Handed'
  BY <1>1 DEF AInv, Handed
<1>11. AcceptNoted'
  BY <1>1 DEF AInv, AcceptNoted
<1>12. Standing'
  <2>1. ~Trying' /\ Visited' = market[Opposite(a)]
    BY <1>1, <1>4 DEF Visited, Trying
  <2>2. aons \cap market[Opposite(a)] = {}
    <3>1. \A p \in aons : p \in market[~Opposite(a)]
      BY <1>2, <1>3
    <3>2. \A t \in Side : \A p \in market[t] : order[p].buy = t
      BY DEF IInv, Filed
    <3>3. (~Opposite(a)) \in Side /\ ~Opposite(a) # Opposite(a)
      BY <1>2 DEF Side
    <3> QED
      BY <1>2, <3>1, <3>2, <3>3
  <2>3. \A p : Opposite(p)' = Opposite(p)
    BY <1>1 DEF Opposite
  <2>4. /\ Visited' \subseteq market'[Opposite(a)] /\ Visited' \cap m'.deferred = {}
        /\ aons' \cap (Visited' \cup m'.deferred) = {}
        /\ a \in market'[~Opposite(a)] /\ a \notin aons'
        /\ aons' \subseteq market'[Opposite(call.order)]
    BY <1>1, <1>2, <1>3, <1>4, <2>1, <2>2
  <2> QED
    BY <1>1, <1>4, <2>1, <2>3, <2>4 DEF Standing
<1>13. IocDone'
  BY <1>1, <1>5 DEF IocDone, ImmediateOrCancel
<1>14. NoneDropped'
  BY <1>1, <1>7, NoneDroppedStill DEF AInv
<1> QED
  BY <1>9, <1>10, <1>11, <1>12, <1>13, <1>14 DEF AInv

(* A deferred order that was filled leaves the book. *)
LEMMA NestedEndsAgrees ==
  ASSUME IInv, AInv, NestedEnds
  PROVE  AInv'
<1>1. PICK o, s : o = m.taker /\ s = ~Opposite(m.taker)
  OBVIOUS
<1>2. /\ pc = "match" /\ Matching /\ Nested /\ pc' = "deferred" /\ InAddOrder /\ InAddOrder'
      /\ ~Matching'
      /\ market' = IF open[o] = 0 THEN [market EXCEPT ![s] = @ \ {o}] ELSE market
      /\ UNCHANGED <<order, stops, key, open, traded, pending, submitting, callbacks, working,
                     handling, call, m, aons>>
  BY <1>1 DEF NestedEnds, MatchEnds, Matching, InAddOrder, trackers, triggered, queues
<1>3. /\ o \in Order /\ s \in Side /\ order[o].buy = s
      /\ market \in [Side -> SUBSET Order]
      /\ call.order \in Order /\ Opposite(call.order) \in Side
  BY <1>1, ContainerFacts DEF IInv, TypeOK, Match, Call, Opposite, Side
<1>4. ~ImmediateOrCancel(call.order)
  BY <1>2 DEF AInv, IocDone
<1>5. Due' = Due /\ \A p : ~Taken(p) /\ ~Taken(p)' /\ ~Leftover(p) /\ ~Leftover(p)'
  BY <1>2, <1>4 DEF Taken, Leftover, Due, ImmediateOrCancel
<1>6. \A p : Waits(p)' <=> Waits(p)
  BY <1>2 DEF Waits, InQueue
<1>7. /\ \A t \in Side : market'[t] \subseteq market[t] /\ market[t] \ {o} \subseteq market'[t]
      /\ open[o] # 0 => market' = market
  BY <1>2, <1>3
<1>8. /\ \A p \in Order : Resting(p)' => Resting(p)
      /\ \A p \in Order : p # o => (Resting(p)' <=> Resting(p))
      /\ open[o] # 0 => (Resting(o)' <=> Resting(o))
  BY <1>7 DEF Resting
<1>9. ASSUME NEW p \in Order, NEW y \in SimpleOrder, Stands(p, y)
      PROVE  Stands(p, y)'
  <2>1. CASE p # o \/ open[o] # 0
    <3>1. Resting(p)' <=> Resting(p)
      BY <1>8, <2>1
    <3>2. order'[p].price = order[p].price /\ open'[p] = open[p] /\ traded'[p] = traded[p]
          /\ key'[p] = key[p] /\ m'.price = m.price
      BY <1>2
    <3> QED
      BY <1>5, <1>6, <1>9, <3>1, <3>2, StandsStill
  <2>2. CASE p = o /\ open[o] = 0
    <3>1. y.state # "accepted"
      BY <1>9, <2>2 DEF Stands
    <3>2. ~(open'[p] > 0) /\ ~Taken(p)'
      BY <1>2, <1>5, <2>2
    <3>3. /\ y.filled = traded'[p]
          /\ Resting(p)' => y.price = key'[p]
          /\ Waits(p)' => y.price = order'[p].price
      BY <1>2, <1>6, <1>8, <1>9 DEF Stands
    <3> QED
      BY <3>1, <3>2, <3>3 DEF Stands
  <2> QED
    BY <2>1, <2>2
<1>10. Announced' /\ Fitting' /\ Untouched'
  BY <1>2, <1>5, <1>6, <1>9, SilentStep
<1>11. Handed'
  BY <1>2 DEF AInv, Handed
<1>12. AcceptNoted'
  BY <1>2 DEF AInv, AcceptNoted
<1>13. Standing'
  <2>1. aons \subseteq market[Opposite(call.order)] /\ o \notin aons
    BY <1>1, <1>2 DEF AInv, Standing
  <2>2. aons' \subseteq market'[Opposite(call.order)]
    BY <1>2, <1>3, <1>7, <2>1
  <2>3. Opposite(call.order)' = Opposite(call.order)
    BY <1>2 DEF Opposite
  <2> QED
    BY <1>2, <2>2, <2>3 DEF Standing
<1>14. IocDone'
  BY <1>2, <1>4 DEF IocDone, ImmediateOrCancel
<1>15. NoneDropped'
  BY <1>2, <1>6, <1>8, NoneDroppedStill DEF AInv
<1> QED
  BY <1>10, <1>11, <1>12, <1>13, <1>14, <1>15 DEF AInv

(* add() writes what was filled into its accept callback. *)
LEMMA AcceptedFacts ==
  ASSUME IInv, AInv, pc = "deferred", call.kind = "add"
  PROVE  /\ Accepted(call.order) \in Seq(Callback)
         /\ Len(Accepted(call.order)) = Len(callbacks)
         /\ \A i \in 1..Len(callbacks) : Alike(callbacks[i], Accepted(call.order)[i])
<1> DEFINE k == call.accept
           qty == order[call.order].qty - call.unfilled
           c == [callbacks[k] EXCEPT !.qty = qty]
<1>1. /\ InAddOrder /\ callbacks \in Seq(Callback)
      /\ k \in DOMAIN callbacks /\ callbacks[k].type = "accept"
  BY DEF IInv, TypeOK, AInv, AcceptNoted, InAddOrder
<1>2. call.order \in Order /\ call.unfilled \in Nat /\ order[call.order].qty \in Int
  BY DEF IInv, TypeOK, Call, SimpleOrder
<1>3. qty \in Nat
  BY <1>1, <1>2 DEF IInv, Answering
<1>4. callbacks[k] \in Callback
  BY <1>1
<1> HIDE DEF qty
<1>5. c \in Callback /\ c.type = "accept" /\ c.order = callbacks[k].order
  BY <1>1, <1>3, <1>4 DEF Callback, Quantity
<1>6. PICK a : a = Accepted(call.order)
  OBVIOUS
<1>7. a = [callbacks EXCEPT ![k] = c]
  BY <1>6 DEF Accepted, qty
<1> HIDE DEF c, k
<1>8. a \in Seq(Callback)
  BY <1>1, <1>5, <1>7, ExceptSeq
<1>9. DOMAIN callbacks = 1..Len(callbacks) /\ Len(callbacks) \in Nat
  BY <1>1
<1>10. DOMAIN a = 1..Len(a) /\ Len(a) \in Nat
  BY <1>8
<1>11. DOMAIN a = DOMAIN callbacks
  BY <1>7
<1>12. 1..Len(a) = 1..Len(callbacks)
  BY <1>9, <1>10, <1>11
<1>13. Len(a) = Len(callbacks)
  <2>1. \A n, l \in Nat : 1..l = 1..n => l = n
    <3> TAKE n \in Nat, l \in Nat
    <3> HAVE 1..l = 1..n
    <3>1. n >= 1 => n \in 1..l
      OBVIOUS
    <3>2. l >= 1 => l \in 1..n
      OBVIOUS
    <3> QED
      BY ONLY <3>1, <3>2, n \in Nat, l \in Nat
  <2>2. Len(a) \in Nat /\ Len(callbacks) \in Nat
    BY <1>9, <1>10
  <2> QED
    BY ONLY <1>12, <2>1, <2>2
<1>14. \A i \in 1..Len(callbacks) : a[i] = IF i = k THEN c ELSE callbacks[i]
  BY <1>7, <1>9
<1>15. \A i \in 1..Len(callbacks) : Alike(callbacks[i], a[i])
  BY <1>1, <1>5, <1>14 DEF Alike
<1> QED
  BY <1>6, <1>8, <1>13, <1>15

(* Sequences that are alike stay alike behind the same sequence. *)
LEMMA AlikeBehind ==
  ASSUME NEW w \in Seq(Callback), NEW q \in Seq(Callback), NEW r \in Seq(Callback),
         Len(r) = Len(q), \A i \in 1..Len(q) : Alike(q[i], r[i])
  PROVE  /\ w \o r \in Seq(Callback) /\ w \o q \in Seq(Callback)
         /\ Len(w \o r) = Len(w \o q)
         /\ \A i \in 1..Len(w \o q) : Alike((w \o q)[i], (w \o r)[i])
<1>1. /\ w \o r \in Seq(Callback) /\ w \o q \in Seq(Callback)
      /\ Len(w) \in Nat /\ Len(q) \in Nat
      /\ Len(w \o r) = Len(w) + Len(q) /\ Len(w \o q) = Len(w) + Len(q)
  OBVIOUS
<1>2. ASSUME NEW i \in 1..(Len(w) + Len(q))
      PROVE  Alike((w \o q)[i], (w \o r)[i])
  <2>1. CASE i <= Len(w)
    <3>1. (w \o q)[i] = w[i] /\ (w \o r)[i] = w[i]
      BY <1>1, <2>1
    <3> QED
      BY <3>1 DEF Alike
  <2>2. CASE i > Len(w)
    <3>1. PICK j \in 1..Len(q) : i = j + Len(w)
      <4>1. i - Len(w) \in 1..Len(q) /\ i = (i - Len(w)) + Len(w)
        BY <1>1, <2>2
      <4> QED
        BY <4>1
    <3>2. (w \o q)[i] = q[j] /\ (w \o r)[i] = r[j]
      BY <1>1, <2>2, <3>1
    <3> QED
      BY <3>2
  <2> QED
    BY <1>1, <2>1, <2>2
<1> QED
  BY <1>1, <1>2

(* What fits depends on what is alike only. *)
LEMMA FitsAlike ==
  ASSUME NEW c, NEW d, Alike(c, d), Fits(c)
  PROVE  Fits(d)
<1>1. CASE c = d
  BY <1>1
<1>2. CASE c.type = "accept" /\ d.type = "accept" /\ c.order = d.order
  <2>1. \A o \in Order : Concerns(d, o) => Concerns(c, o)
    BY <1>2 DEF Concerns
  <2> QED
    BY <1>2, <2>1 DEF Fits
<1> QED
  BY <1>1, <1>2 DEF Alike

(* add() completes its accept callback, and cancels what is left of an     *)
(* immediate-or-cancel order: that order is in no container.               *)
LEMMA SubmittedAgrees ==
  ASSUME IInv, AInv, Submitted
  PROVE  AInv'
<1>1. PICK o : o = call.order
  OBVIOUS
<1>2. /\ pc = "deferred" /\ pc' = "pending" /\ InAddOrder /\ ~Matching /\ ~Matching'
      /\ ~InAddOrder' /\ aons = {} /\ aons' = {}
      /\ callbacks' = IF call.kind = "add" THEN Accepted(o) \o IocCancel(o) ELSE callbacks
      /\ UNCHANGED <<order, market, stops, key, open, traded, pending, submitting, working, handling>>
  BY <1>1 DEF Submitted, Reset, Matching, InAddOrder, containers, trackers, triggered
<1>3. /\ o \in Order /\ call.unfilled \in Nat /\ open[o] \in Nat
      /\ callbacks \in Seq(Callback) /\ working \in Seq(Callback) /\ Due \in Seq(Callback)
  BY <1>1, DueType, ContainerFacts DEF IInv, TypeOK, Call
<1>4. PICK c \in Callback : c = Cb("cancel", o)
  <2>1. "cancel" \in CallbackTypes
    BY DEF CallbackTypes
  <2> QED
    BY <1>3, <2>1, CbType
<1>5. c.type = "cancel" /\ c.order = o
  BY <1>4 DEF Cb
<1>6. PICK a \in Seq(Callback) :
        /\ a = IF call.kind = "add" THEN Accepted(o) ELSE callbacks
        /\ Len(a) = Len(callbacks)
        /\ \A i \in 1..Len(callbacks) : Alike(callbacks[i], a[i])
  <2>1. CASE call.kind = "add"
    BY <1>1, <1>2, <2>1, AcceptedFacts
  <2>2. CASE call.kind # "add"
    BY <1>3, <2>2 DEF Alike
  <2> QED
    BY <2>1, <2>2
<1>7. PICK r, cancels :
        r = working \o a /\ cancels = (call.kind = "add" /\ ImmediateOrCancel(o) /\ call.unfilled > 0)
  OBVIOUS
<1>8. /\ r \in Seq(Callback) /\ Len(r) = Len(Due)
      /\ \A i \in 1..Len(Due) : Alike(Due[i], r[i])
  BY <1>3, <1>6, <1>7, AlikeBehind DEF Due
<1>9. Due' = IF cancels THEN Append(r, c) ELSE r
  <2>1. CASE cancels
    <3>1. callbacks' = a \o <<c>> /\ working' = working
      BY <1>2, <1>4, <1>6, <1>7, <2>1 DEF IocCancel
    <3>2. working \o (a \o <<c>>) = Append(working \o a, c)
      BY <1>3, <1>6
    <3> QED
      BY <1>7, <2>1, <3>1, <3>2 DEF Due
  <2>2. CASE ~cancels
    <3>1. callbacks' = a /\ working' = working
      <4>1. CASE call.kind = "add"
        <5>1. IocCancel(o) = <<>>
          BY <1>7, <2>2, <4>1 DEF IocCancel
        <5>2. a \o <<>> = a
          BY <1>6
        <5> QED
          BY <1>2, <1>6, <4>1, <5>1, <5>2
      <4>2. CASE call.kind # "add"
        BY <1>2, <1>6, <4>2
      <4> QED
        BY <4>1, <4>2
    <3> QED
      BY <1>7, <2>2, <3>1 DEF Due
  <2> QED
    BY <2>1, <2>2
<1>10. \A p : /\ (Waits(p)' <=> Waits(p)) /\ (Resting(p)' <=> Resting(p))
              /\ ~Taken(p) /\ ~Taken(p)' /\ ~Leftover(p)'
              /\ Leftover(p) <=> p = o /\ call.kind = "add" /\ ImmediateOrCancel(o)
  BY <1>1, <1>2 DEF Waits, InQueue, Resting, Taken, Leftover
<1>11. ImmediateOrCancel(o) => call.unfilled = open[o] /\ ~Waits(o) /\ ~Resting(o)
  BY <1>1, <1>2, <1>3 DEF AInv, IocDone, NoneDropped
<1>12. ASSUME NEW p \in Order, NEW y \in SimpleOrder, Stands(p, y), ~(cancels /\ p = o)
       PROVE  Stands(p, y)'
  <2>1. CASE ~Leftover(p)
    BY <1>2, <1>10, <1>12, <2>1, StandsStill
  <2>2. CASE Leftover(p)
    <3>1. p = o /\ open[o] = 0
      <4>1. p = o /\ call.kind = "add" /\ ImmediateOrCancel(o)
        BY <1>10, <2>2
      <4>2. ~(call.unfilled > 0) /\ call.unfilled = open[o]
        BY <1>7, <1>11, <1>12, <4>1
      <4> QED
        BY <1>3, <4>1, <4>2
    <3>2. y.state # "accepted" /\ y.filled = traded'[p]
      BY <1>2, <1>12, <3>1 DEF Stands
    <3>3. ~(open'[p] > 0) /\ ~Taken(p)' /\ ~Waits(p)' /\ ~Resting(p)'
      BY <1>2, <1>10, <1>11, <2>2, <3>1
    <3> QED
      BY <3>2, <3>3 DEF Stands
  <2> QED
    BY <2>1, <2>2
<1>13. ASSUME NEW y \in SimpleOrder, Stands(o, y), cancels
       PROVE  Timely(y, c, o) /\ Stands(o, Told(y, c, o))'
  <2>1. Carried(o) /\ open[o] > 0 /\ ImmediateOrCancel(o)
    BY <1>3, <1>7, <1>10, <1>11, <1>13 DEF Carried
  <2>2. y.state = "accepted" /\ y.filled = traded[o]
    BY <1>13, <2>1 DEF Stands
  <2>3. PICK z \in SimpleOrder : z = Told(y, c, o) /\ z.state = "cancelled" /\ z.filled = y.filled
    BY <1>5, ToldCancel
  <2>4. ~Carried(o)' /\ ~Waits(o)' /\ ~Resting(o)' /\ ~Taken(o)' /\ z.filled = traded'[o]
    BY <1>2, <1>10, <1>11, <2>1, <2>2, <2>3 DEF Carried
  <2>5. Stands(o, z)'
    BY <2>3, <2>4 DEF Stands
  <2> QED
    BY <1>5, <2>2, <2>3, <2>5 DEF Timely
<1>14. ASSUME NEW p \in Order
       PROVE  Informed(p)'
  <2>1. PICK y \in SimpleOrder : Leads(p, Due, order[p], y) /\ Stands(p, y)
    BY DEF AInv, Announced, Informed
  <2>2. Leads(p, r, order[p], y)
    BY <1>3, <1>8, <2>1, LeadsAlike
  <2>3. CASE ~cancels
    BY <1>2, <1>9, <1>12, <2>1, <2>2, <2>3 DEF Informed
  <2>4. CASE cancels
    <3>1. Timely(y, c, p) /\ Stands(p, Told(y, c, p))'
      <4>1. CASE p = o
        BY <1>13, <2>1, <2>4, <4>1
      <4>2. CASE p # o
        <5>1. ~Concerns(c, p)
          BY <1>5, <4>2 DEF Concerns
        <5>2. Stands(p, y)'
          BY <1>12, <2>1, <4>2
        <5> QED
          BY <5>1, <5>2, ToldNothing
      <4> QED
        BY <4>1, <4>2
    <3>2. PICK z \in SimpleOrder : z = Told(y, c, p)
      BY ToldType
    <3>3. Leads(p, Append(r, c), order[p], z)
      BY <1>8, <2>2, <3>1, <3>2, LeadsOn
    <3> QED
      BY <1>2, <1>9, <2>4, <3>1, <3>2, <3>3 DEF Informed
  <2> QED
    BY <2>3, <2>4
<1>15. Announced'
  BY <1>14 DEF Announced
<1>16. Used' = Used /\ Used \subseteq Order
  BY <1>2 DEF Used
<1>17. \A i \in 1..Len(r) : r[i] \in Callback /\ Fits(r[i])
  <2>1. \A i \in 1..Len(Due) : Fits(Due[i])
    BY <1>3 DEF AInv, Fitting
  <2> QED
    BY <1>8, <2>1, FitsAlike
<1>18. \A d \in Callback : Fits(d) => Fits(d)'
  BY <1>10, <1>16, FitsStill
<1>19. ASSUME cancels
       PROVE  Fits(c)
  <2>1. o \in Used
    BY <1>1, <1>2, <1>7, <1>19 DEF AInv, IocDone
  <2> QED
    BY <1>5, <2>1 DEF Fits, Concerns
<1>20. Fitting'
  <2>1. DOMAIN r = 1..Len(r) /\ Len(r) \in Nat
    BY <1>8
  <2>2. ASSUME NEW i \in DOMAIN Due'
        PROVE  Due'[i] \in Callback /\ Fits(Due'[i])
    <3>1. CASE ~cancels
      BY <1>9, <1>17, <2>1, <3>1
    <3>2. CASE cancels
      <4>1. i \in 1..(Len(r) + 1) /\ Due'[i] = IF i = Len(r) + 1 THEN c ELSE r[i]
        BY <1>8, <1>9, <3>2
      <4> QED
        BY <1>17, <1>19, <2>1, <3>2, <4>1
    <3> QED
      BY <3>1, <3>2
  <2>3. ASSUME NEW i \in DOMAIN Due'
        PROVE  Fits(Due[i])'
    <3>1. PICK d \in Callback : d = Due'[i] /\ Fits(d)
      BY <2>2
    <3>2. Fits(d)'
      BY <1>18, <3>1
    <3> QED
      BY <3>1, <3>2
  <2> QED
    BY <2>3 DEF Fitting
<1>21. Untouched'
  BY <1>2, <1>16 DEF AInv, Untouched
<1>22. Handed'
  BY <1>2 DEF AInv, Handed
<1>23. AcceptNoted' /\ Standing' /\ IocDone'
  BY <1>2 DEF AcceptNoted, Standing, IocDone
<1>24. NoneDropped'
  BY <1>2, <1>10, NoneDroppedStill DEF AInv
<1> QED
  BY <1>15, <1>20, <1>21, <1>22, <1>23, <1>24 DEF AInv

-----------------------------------------------------------------------------
(* The loop over pendingOrders_, and the end of a call *)

(* What is moved between the lists still waits. *)
LEMMA TakePendingAgrees ==
  ASSUME IInv, AInv, TakePending
  PROVE  AInv'
<1>1. /\ pc = "pending" /\ pc' = pc /\ submitting = <<>>
      /\ submitting' = pending /\ pending' = <<>>
      /\ UNCHANGED <<order, market, stops, key, open, traded, callbacks, working, handling,
                     call, m, aons, plan>>
  BY DEF TakePending, containers, trackers, queues, locals
<1>2. ~InAddOrder /\ ~InAddOrder' /\ ~Matching /\ ~Matching' /\ Due' = Due
  BY <1>1 DEF InAddOrder, Matching, Due
<1>3. \A o : (Waits(o)' <=> Waits(o)) /\ (Resting(o)' <=> Resting(o))
  BY <1>1 DEF Waits, InQueue, Resting
<1>4. \A o : ~Taken(o) /\ ~Taken(o)' /\ ~Leftover(o) /\ ~Leftover(o)'
  BY <1>1, <1>2 DEF Taken, Leftover
<1>5. ASSUME NEW o \in Order, NEW y \in SimpleOrder, Stands(o, y)
      PROVE  Stands(o, y)'
  BY <1>1, <1>3, <1>4, <1>5, StandsStill
<1>6. Announced' /\ Fitting' /\ Untouched'
  BY <1>1, <1>2, <1>3, <1>5, SilentStep
<1>7. Handed'
  BY <1>1 DEF AInv, Handed
<1>8. AcceptNoted' /\ Standing' /\ IocDone'
  BY <1>2 DEF AcceptNoted, Standing, IocDone
<1>9. NoneDropped'
  BY <1>1, <1>2, <1>3, NoneDroppedStill DEF AInv
<1> QED
  BY <1>6, <1>7, <1>8, <1>9 DEF AInv

(* A triggered stop order is matched at the price of its order object.     *)
LEMMA SubmitPendingAgrees ==
  ASSUME IInv, AInv, NEW o \in Order, SubmitPending(o)
  PROVE  AInv'
<1> DEFINE c1 == [NoCall EXCEPT !.kind = "pending"]
<1>1. /\ pc = "pending" /\ pc' = "match" /\ submitting # <<>> /\ o \in Head(submitting)
      /\ submitting' = IF Head(submitting) = {o} THEN Tail(submitting)
                       ELSE [submitting EXCEPT ![1] = @ \ {o}]
      /\ m' = [taker |-> o, price |-> order[o].price, left |-> open[o],
               todo |-> market[Opposite(o)], dqty |-> 0, deferred |-> {}]
      /\ UNCHANGED <<order, market, stops, key, open, traded, pending, callbacks,
                     working, handling, aons, plan>>
  BY DEF SubmitPending, StartMatch, First, containers, trackers, queues
<1>2. call' = [c1 EXCEPT !.order = o]
  BY DEF SubmitPending
<1>3. DOMAIN c1 = DOMAIN NoCall /\ c1.kind = "pending"
  BY DEF NoCall
<1> HIDE DEF c1
<1>4. call'.order = o /\ call'.kind = "pending"
  BY <1>2, <1>3 DEF NoCall
<1>5. /\ ~InAddOrder /\ ~Matching /\ InAddOrder' /\ Matching' /\ ~Nested'
      /\ m'.taker = o /\ m'.price = order[o].price /\ m'.todo = market[Opposite(o)]
      /\ m'.deferred = {} /\ aons' = {} /\ Due' = Due
  BY <1>1, <1>4 DEF InAddOrder, Matching, Nested, Due, IInv, Facing
<1>6. /\ submitting \in Seq(SUBSET Order) /\ Len(submitting) \in Nat /\ Len(submitting) > 0
      /\ DOMAIN submitting = 1..Len(submitting) /\ Head(submitting) = submitting[1]
  BY <1>1 DEF IInv, TypeOK
<1>7. Waits(o) /\ ~Waits(o)'
  <2>1. InQueue(o, submitting)
    <3>1. 1 \in DOMAIN submitting /\ o \in submitting[1]
      BY <1>1, <1>6
    <3> QED
      BY <3>1 DEF InQueue
  <2>2. IInv'
    BY SubmitPendingStep
  <2>3. ~InBook(o)' /\ ~InQueue(o, pending') /\ ~InQueue(o, submitting')
    BY <1>5, <2>2 DEF IInv, Inbound
  <2> QED
    BY <2>1, <2>3 DEF Waits, InBook
<1>8. \A p \in Order \ {o} : InQueue(p, submitting') <=> InQueue(p, submitting)
  <2>1. CASE Head(submitting) = {o}
    <3>1. /\ DOMAIN submitting' = 1..(Len(submitting) - 1)
          /\ \A i \in 1..(Len(submitting) - 1) : submitting'[i] = submitting[i + 1]
      BY <1>1, <1>6, <2>1
    <3>2. ASSUME NEW p \in Order \ {o}, InQueue(p, submitting')
          PROVE  InQueue(p, submitting)
      <4>1. PICK i \in 1..(Len(submitting) - 1) : p \in submitting[i + 1]
        BY <3>1, <3>2 DEF InQueue
      <4>2. i + 1 \in DOMAIN submitting
        BY <1>6
      <4> QED
        BY <4>1, <4>2 DEF InQueue
    <3>3. ASSUME NEW p \in Order \ {o}, InQueue(p, submitting)
          PROVE  InQueue(p, submitting')
      <4>1. PICK i \in DOMAIN submitting : p \in submitting[i]
        BY <3>3 DEF InQueue
      <4>2. i # 1
        BY <1>6, <2>1, <4>1
      <4>3. i - 1 \in 1..(Len(submitting) - 1) /\ (i - 1) + 1 = i
        BY <1>6, <4>2
      <4>4. p \in submitting'[i - 1]
        BY <3>1, <4>1, <4>3
      <4> QED
        BY <3>1, <4>3, <4>4 DEF InQueue
    <3> QED
      BY <3>2, <3>3
  <2>2. CASE Head(submitting) # {o}
    <3>1. /\ DOMAIN submitting' = DOMAIN submitting
          /\ \A i \in DOMAIN submitting : submitting'[i] = IF i = 1 THEN submitting[1] \ {o} ELSE submitting[i]
      BY <1>1, <1>6, <2>2
    <3> QED
      BY <3>1 DEF InQueue
  <2> QED
    BY <2>1, <2>2
<1>9. /\ \A p \in Order \ {o} : Waits(p)' <=> Waits(p)
      /\ \A p \in Order : Resting(p)' <=> Resting(p)
      /\ \A p : ~Taken(p) /\ ~Leftover(p) /\ ~Leftover(p)' /\ (Taken(p)' <=> p = o)
  BY <1>1, <1>5, <1>8 DEF Waits, InQueue, Resting, Taken, Leftover
<1>10. ASSUME NEW p \in Order, NEW y \in SimpleOrder, Stands(p, y)
       PROVE  Stands(p, y)'
  <2>1. CASE p # o
    <3>1. ~Taken(p)'
      BY <1>9, <2>1
    <3> QED
      BY <1>1, <1>9, <1>10, <2>1, <3>1, StandsStill
  <2>2. CASE p = o
    <3>1. Carried(o) /\ Carried(o)' /\ ~Resting(o)'
      BY <1>7, <1>9, CarriedFacts DEF Carried
    <3>2. y.price = m'.price
      BY <1>5, <1>7, <1>10, <2>2 DEF Stands
    <3>3. open'[o] = open[o] /\ traded'[o] = traded[o]
      BY <1>1
    <3>4. Stands(o, y)'
      BY <1>7, <1>10, <2>2, <3>1, <3>2, <3>3 DEF Stands
    <3> QED
      BY <2>2, <3>4
  <2> QED
    BY <2>1, <2>2
<1>11. \A p \in Order : Waits(p)' => Waits(p)
  BY <1>7, <1>9
<1>12. Announced' /\ Fitting' /\ Untouched'
  BY <1>1, <1>5, <1>10, <1>11, SilentStep
<1>13. Handed'
  BY <1>1 DEF AInv, Handed
<1>14. AcceptNoted' /\ IocDone'
  BY <1>4, <1>5 DEF AcceptNoted, IocDone
<1>15. Standing'
  <2>1. Visited' = market[Opposite(o)] /\ ~Trying'
    BY <1>1, <1>5 DEF Visited, Trying
  <2>2. Opposite(o)' = Opposite(o)
    BY <1>1 DEF Opposite
  <2> QED
    BY <1>1, <1>4, <1>5, <2>1, <2>2 DEF Standing
<1>16. NoneDropped'
  <2>1. \A p : ImmediateOrCancel(p)' <=> ImmediateOrCancel(p)
    BY <1>1 DEF ImmediateOrCancel
  <2>2. NothingDropped' <=> NothingDropped
    BY DEF NothingDropped
  <2>3. NothingDropped => ~ImmediateOrCancel(o)'
    BY <1>7, <2>1 DEF AInv, NoneDropped
  <2>4. ImmediateOrCancel(call.order)' <=> ImmediateOrCancel(o)'
    BY <1>4 DEF ImmediateOrCancel
  <2> QED
    BY <1>9, <1>11, <2>1, <2>2, <2>3, <2>4 DEF AInv, NoneDropped
<1> QED
  BY <1>12, <1>13, <1>14, <1>15, <1>16 DEF AInv

(* A callback that is not for an order starts, or joins, the delivery.     *)
LEMMA IdleCallback ==
  ASSUME IInv, AInv, ~InAddOrder, NEW c \in Callback, \A o \in Order : ~Concerns(c, o),
         c.type # "replace", CallbackNow(<<c>>), pending = <<>>, submitting = <<>>,
         UNCHANGED <<order, market, stops, key, open, traded, pending, submitting>>
  PROVE  AInv'
<1>1. Due \in Seq(Callback) /\ <<c>> \in Seq(Callback) /\ <<c>> # <<>>
  BY DueType
<1>2. /\ Due' = Append(Due, c) /\ Handed' /\ pc' = "deliver" /\ ~Matching' /\ ~InAddOrder'
  <2>1. Due' = Due \o <<c>> /\ Handed' /\ pc' = "deliver" /\ ~Matching' /\ ~InAddOrder'
    BY <1>1, DueAfterCallbackNow DEF AInv
  <2> QED
    BY <1>1, <2>1
<1>3. \A o : (Waits(o)' <=> Waits(o)) /\ (Resting(o)' <=> Resting(o))
  BY DEF Waits, InQueue, Resting
<1>4. \A o : ~Taken(o) /\ ~Taken(o)' /\ ~Leftover(o) /\ ~Leftover(o)'
  BY <1>2 DEF Taken, Leftover, InAddOrder
<1>5. ASSUME NEW o \in Order
      PROVE  Informed(o)'
  <2>1. ASSUME NEW y \in SimpleOrder, Stands(o, y)
        PROVE  Timely(y, c, o) /\ Stands(o, Told(y, c, o))'
    <3>1. Stands(o, y)'
      BY <1>3, <1>4, <2>1, StandsStill
    <3> QED
      BY <3>1, ToldNothing
  <2>2. Informed(o) /\ order'[o] = order[o]
    BY DEF AInv, Announced
  <2> QED
    BY <1>1, <1>2, <2>1, <2>2, InformedOn
<1>6. Announced'
  BY <1>5 DEF Announced
<1>7. Used' = Used
  BY DEF Used
<1>8. Fitting'
  <2>1. Fits(c)'
    BY DEF Fits
  <2> QED
    BY <1>1, <1>2, <1>3, <1>7, <2>1, FittingOn DEF AInv
<1>9. Untouched'
  BY <1>7 DEF AInv, Untouched
<1>10. AcceptNoted' /\ Standing' /\ IocDone'
  BY <1>2 DEF AcceptNoted, Standing, IocDone
<1>11. NoneDropped'
  BY <1>2, <1>3, NoneDroppedStill DEF AInv
<1> QED
  BY <1>2, <1>6, <1>8, <1>9, <1>10, <1>11 DEF AInv

(* The update of the book is for no order. *)
LEMMA FinishAgrees ==
  ASSUME IInv, AInv, Finish
  PROVE  AInv'
<1>1. /\ pc = "pending" /\ ~InAddOrder /\ pending = <<>> /\ submitting = <<>>
      /\ CallbackNow(<<Cb("book_update", 1)>>)
      /\ UNCHANGED <<order, market, stops, key, open, traded, pending, submitting>>
  BY DEF Finish, InAddOrder, Matching, containers, trackers, triggered
<1>2. 1 \in Order
  BY ConstantsAssumption DEF Order, ConstantsAssumption
<1>3. PICK c \in Callback : c = Cb("book_update", 1)
  BY <1>2, PlainCb
<1>4. c.type = "book_update"
  BY <1>3 DEF Cb
<1>5. \A o \in Order : ~Concerns(c, o)
  BY <1>4 DEF Concerns
<1> QED
  BY <1>1, <1>3, <1>4, <1>5, IdleCallback

-----------------------------------------------------------------------------
(* The calls of the application *)

(* A new object hears of nothing that was due before. *)
LEMMA NewOrderInformed ==
  ASSUME IInv, AInv, NEW o \in Order, o \notin Used,
         NEW x \in SimpleOrder, order'[o] = x,
         NEW c \in Callback, Due' = Append(Due, c),
         Timely(x, c, o), Stands(o, Told(x, c, o))'
  PROVE  Informed(o)'
<1>1. Due \in Seq(Callback)
  BY DueType
<1>2. \A k \in DOMAIN Due : ~Concerns(Due[k], o)
  BY DEF AInv, Fitting, Fits
<1>3. Leads(o, Due, x, x)
  BY <1>1, <1>2, LeadsAround
<1>4. PICK z \in SimpleOrder : z = Told(x, c, o)
  BY ToldType
<1>5. Leads(o, Append(Due, c), x, z)
  BY <1>1, <1>3, <1>4, LeadsOn
<1> QED
  BY <1>4, <1>5 DEF Informed

(* What add() does whatever it answers: the other orders stay as they are. *)
LEMMA AddFrame ==
  ASSUME IInv, AInv, NEW o \in Order, NEW t \in Menu, Add(o, t),
         NEW c \in Callback, \A p \in Order : Concerns(c, p) => p = o, c.type # "replace",
         Due' = Append(Due, c),
         \A p \in Order \ {o} : /\ Waits(p)' <=> Waits(p)
                                /\ Resting(p)' <=> Resting(p)
                                /\ key'[p] = key[p] /\ ~Taken(p)' /\ ~Leftover(p)',
         NEW x \in SimpleOrder, order'[o] = x, Timely(x, c, o), Stands(o, Told(x, c, o))'
  PROVE  Announced' /\ Fitting' /\ Untouched'
<1>1. /\ ~Matching /\ ~InAddOrder /\ Used = 1..(o - 1)
      /\ order' = [order EXCEPT ![o] = NewOrder(o, t)] /\ open' = [open EXCEPT ![o] = t.qty]
      /\ traded' = traded
  BY DEF Add, Ready, Matching, InAddOrder
<1>2. o \in Nat /\ o \notin Used
  BY <1>1, ConstantsAssumption DEF Order, ConstantsAssumption
<1>3. /\ \A p \in Order \ {o} : order'[p] = order[p] /\ open'[p] = open[p]
      /\ order'[o] = NewOrder(o, t)
  BY <1>1 DEF IInv, TypeOK
<1>4. Used' = Used \cup {o}
  <2>1. order'[o].state = "new"
    BY <1>3 DEF NewOrder
  <2> QED
    BY <1>3, <2>1 DEF Used
<1>5. Due \in Seq(Callback)
  BY DueType
<1>6. ASSUME NEW p \in Order, p # o
      PROVE  Informed(p)'
  <2>1. ASSUME NEW y \in SimpleOrder, Stands(p, y)
        PROVE  Timely(y, c, p) /\ Stands(p, Told(y, c, p))'
    <3>1. ~Taken(p) /\ ~Leftover(p)
      BY <1>1 DEF Taken, Leftover, InAddOrder
    <3>2. order'[p].price = order[p].price /\ open'[p] = open[p] /\ traded'[p] = traded[p]
      BY <1>1, <1>3, <1>6
    <3>3. /\ Waits(p)' <=> Waits(p)
          /\ Resting(p)' <=> Resting(p)
          /\ key'[p] = key[p] /\ ~Taken(p)' /\ ~Leftover(p)'
      BY <1>6
    <3>4. Stands(p, y)'
      BY <2>1, <3>1, <3>2, <3>3, StandsStill
    <3>5. ~Concerns(c, p)
      BY <1>6
    <3> QED
      BY <3>4, <3>5, ToldNothing
  <2>2. Informed(p) /\ order'[p] = order[p]
    BY <1>3, <1>6 DEF AInv, Announced
  <2> QED
    BY <1>5, <2>1, <2>2, InformedOn
<1>7. Informed(o)'
  BY <1>2, NewOrderInformed
<1>8. Announced'
  BY <1>6, <1>7 DEF Announced
<1>9. Fitting'
  <2>1. Fits(c)'
    BY <1>4 DEF Fits
  <2>2. \A p \in Used : Waits(p)' => Waits(p)
    BY <1>2 DEF Used
  <2> QED
    BY <1>4, <1>5, <2>1, <2>2, FittingOn DEF AInv
<1>10. Untouched'
  BY <1>1, <1>3, <1>4 DEF AInv, Untouched
<1> QED
  BY <1>8, <1>9, <1>10

(* An order is rejected, is held as a stop, or starts to be matched.       *)
LEMMA AddAgrees ==
  ASSUME IInv, AInv, NEW o \in Order, NEW t \in Menu, Add(o, t)
  PROVE  AInv'
<1>1. /\ pc \in {"idle", "deliver"} /\ ~Matching /\ ~InAddOrder /\ aons = {}
      /\ Used = 1..(o - 1) /\ pending = <<>> /\ submitting = <<>>
      /\ order' = [order EXCEPT ![o] = NewOrder(o, t)]
      /\ open' = [open EXCEPT ![o] = t.qty]
      /\ UNCHANGED <<pending, submitting, traded>>
  BY DEF Add, Ready, Matching, InAddOrder, triggered, AInv, Handed, IInv, Facing
<1>2. /\ t.buy \in Side /\ t.price \in Price /\ t.qty \in Nat /\ t.stop \in Price
      /\ t.aon \in BOOLEAN /\ t.ioc \in BOOLEAN
  BY ConstantsAssumption DEF ConstantsAssumption, Request, Quantity
<1>3. o \in Nat /\ o \notin Used
  BY <1>1, ConstantsAssumption DEF Order, ConstantsAssumption
<1>4. PICK x \in SimpleOrder :
        /\ order'[o] = x /\ x.state = "new" /\ x.filled = 0
        /\ x.buy = t.buy /\ x.qty = t.qty /\ x.price = t.price /\ x.aon = t.aon /\ x.ioc = t.ioc
  <2>1. NewOrder(o, t) \in SimpleOrder
    BY <1>2 DEF NewOrder, SimpleOrder, States, Quantity
  <2>2. order'[o] = NewOrder(o, t)
    BY <1>1 DEF IInv, TypeOK
  <2> QED
    BY <2>1, <2>2 DEF NewOrder
<1>5. /\ \A p \in Order \ {o} : order'[p] = order[p] /\ open'[p] = open[p]
      /\ open'[o] = t.qty /\ traded'[o] = 0
  BY <1>1, <1>3 DEF IInv, TypeOK, AInv, Untouched
<1>6. ~Resting(o) /\ ~Waits(o)
  BY <1>3, CarriedFacts
<1>7. \A p \in Order \ {o} : ImmediateOrCancel(p)' <=> ImmediateOrCancel(p)
  BY <1>5 DEF ImmediateOrCancel
<1>8. /\ ImmediateOrCancel(o)' <=> PassConditions /\ t.ioc
      /\ AllOrNone(o)' <=> PassConditions /\ t.aon
  BY <1>4 DEF ImmediateOrCancel, AllOrNone
<1>9. NothingDropped' <=> NothingDropped
  BY DEF NothingDropped
<1>10. CASE t.qty = 0
  <2>1. CallbackNow(<<Cb("reject", o)>>) /\ UNCHANGED <<market, stops, key, rank, clock>>
    BY <1>10 DEF Add, containers
  <2>2. PICK c \in Callback : c = Cb("reject", o)
    BY PlainCb
  <2>3. c.type = "reject" /\ c.order = o /\ \A p \in Order : Concerns(c, p) => p = o
    BY <2>2 DEF Cb, Concerns
  <2>4. <<c>> \in Seq(Callback) /\ <<c>> # <<>> /\ Due \in Seq(Callback)
    BY DueType
  <2>5. Due' = Append(Due, c) /\ Handed' /\ pc' = "deliver" /\ ~Matching' /\ ~InAddOrder'
    <3>1. Due' = Due \o <<c>> /\ Handed' /\ pc' = "deliver" /\ ~Matching' /\ ~InAddOrder'
      BY <1>1, <2>1, <2>2, <2>4, DueAfterCallbackNow DEF AInv
    <3> QED
      BY <2>4, <3>1
  <2>6. \A p : (Waits(p)' <=> Waits(p)) /\ (Resting(p)' <=> Resting(p)) /\ key'[p] = key[p]
    BY <1>1, <2>1 DEF Waits, InQueue, Resting
  <2>7. \A p : ~Taken(p)' /\ ~Leftover(p)'
    BY <2>5 DEF Taken, Leftover, InAddOrder
  <2>8. Timely(x, c, o) /\ Told(x, c, o) = x
    BY <1>4, <2>3, ToldReject DEF Timely
  <2>9. Stands(o, x)'
    <3>1. ~Waits(o)' /\ ~Resting(o)' /\ ~Taken(o)' /\ ~Carried(o)'
      BY <1>6, <2>6, <2>7 DEF Carried
    <3> QED
      BY <1>4, <1>5, <3>1 DEF Stands
  <2>10. Announced' /\ Fitting' /\ Untouched'
    BY <1>4, <2>3, <2>5, <2>6, <2>7, <2>8, <2>9, AddFrame
  <2>11. AcceptNoted' /\ Standing' /\ IocDone'
    BY <2>5 DEF AcceptNoted, Standing, IocDone
  <2>12. NoneDropped'
    <3>1. ~Waits(o)' /\ ~Resting(o)'
      BY <1>6, <2>6
    <3> QED
      BY <1>7, <1>9, <2>5, <2>6, <3>1 DEF AInv, NoneDropped
  <2> QED
    BY <2>5, <2>10, <2>11, <2>12 DEF AInv
<1>11. CASE t.qty # 0
  <2>1. /\ callbacks' = Append(callbacks, Cb("accept", o))
        /\ UNCHANGED <<market, working, handling, aons, plan>>
    BY <1>11 DEF Add
  <2>2. PICK c \in Callback : c = Cb("accept", o)
    BY PlainCb
  <2>3. c.type = "accept" /\ c.order = o /\ \A p \in Order : Concerns(c, p) => p = o
    BY <2>2 DEF Cb, Concerns
  <2>4. /\ Due' = Append(Due, c) /\ Due \in Seq(Callback) /\ callbacks \in Seq(Callback)
    BY <2>1, <2>2, DueType DEF Due
  <2>5. \A p : Resting(p)' <=> Resting(p)
    BY <2>1 DEF Resting
  <2>6. Timely(x, c, o)
    BY <1>4, <2>3 DEF Timely
  <2>7. PICK y \in SimpleOrder :
          /\ y = Told(x, c, o) /\ y.state = "accepted" /\ y.qty = t.qty /\ y.filled = 0
          /\ y.price = t.price
    BY <1>4, <2>3, ToldAccept
  <2>8. open'[o] > 0 /\ y.qty - y.filled = open'[o] /\ y.filled = traded'[o]
    BY <1>2, <1>5, <1>11, <2>7
  <2>9. CASE Held(t)
    <3>1. /\ stops' = [stops EXCEPT ![t.buy] = @ \cup {o}]
          /\ key' = [key EXCEPT ![o] = t.stop]
          /\ pc' = "pending"
      BY <1>11, <2>9 DEF Add, File
    <3>2. ~Matching' /\ ~InAddOrder'
      BY <3>1 DEF InAddOrder, Matching
    <3>3. /\ \A p \in Order \ {o} : Waits(p)' <=> Waits(p)
          /\ Waits(o)'
      <4>1. /\ o \in stops'[t.buy]
            /\ \A s \in Side, p \in Order \ {o} : p \in stops'[s] <=> p \in stops[s]
        BY <1>2, <3>1 DEF IInv, TypeOK
      <4> QED
        BY <1>1, <1>2, <4>1 DEF Waits, InQueue
    <3>4. \A p \in Order \ {o} : key'[p] = key[p]
      BY <3>1 DEF IInv, TypeOK
    <3>5. \A p : ~Taken(p)' /\ ~Leftover(p)'
      BY <3>2 DEF Taken, Leftover, InAddOrder
    <3>6. Stands(o, y)'
      BY <1>4, <1>6, <2>5, <2>7, <2>8, <3>3, <3>5 DEF Stands, Carried
    <3>7. Announced' /\ Fitting' /\ Untouched'
      BY <1>4, <2>3, <2>4, <2>5, <2>6, <2>7, <3>3, <3>4, <3>5, <3>6, AddFrame
    <3>8. AcceptNoted' /\ Standing' /\ IocDone'
      BY <3>2 DEF AcceptNoted, Standing, IocDone
    <3>9. Handed'
      BY <2>1, <3>1 DEF AInv, Handed
    <3>10. NoneDropped'
      <4>1. NothingDropped => ~ImmediateOrCancel(o)'
        BY <1>8, <2>9 DEF NothingDropped, Held
      <4>2. ~Resting(o)'
        BY <1>6, <2>5
      <4> QED
        BY <1>7, <1>9, <2>5, <3>2, <3>3, <4>1, <4>2 DEF AInv, NoneDropped
    <3> QED
      BY <3>7, <3>8, <3>9, <3>10 DEF AInv
  <2>10. CASE ~Held(t)
    <3>1. /\ pc' = "match"
          /\ m' = [taker |-> o, price |-> t.price, left |-> t.qty, todo |-> market[~t.buy],
                   dqty |-> 0, deferred |-> {}]
          /\ call' = [kind |-> "add", order |-> o, accept |-> Len(callbacks) + 1, unfilled |-> 0]
          /\ UNCHANGED <<stops, key>>
      BY <1>11, <2>10 DEF Add, StartMatch
    <3>2. /\ Matching' /\ InAddOrder' /\ ~Nested' /\ call'.order = o /\ call'.kind = "add"
          /\ call'.accept = Len(callbacks) + 1
          /\ m'.taker = o /\ m'.price = t.price /\ m'.todo = market[~t.buy] /\ m'.deferred = {}
      BY <3>1 DEF InAddOrder, Matching, Nested
    <3>3. \A p : /\ Waits(p)' <=> Waits(p)
                 /\ Taken(p)' <=> p = o
                 /\ ~Leftover(p)'
      BY <1>1, <3>1, <3>2 DEF Taken, Leftover, Waits, InQueue
    <3>4. Stands(o, y)'
      BY <1>6, <2>5, <2>7, <2>8, <3>2, <3>3 DEF Stands, Carried
    <3>5. Announced' /\ Fitting' /\ Untouched'
      <4>1. \A p \in Order \ {o} : key'[p] = key[p] /\ ~Taken(p)'
        BY <3>1, <3>3
      <4> QED
        BY <1>4, <2>3, <2>4, <2>5, <2>6, <2>7, <3>3, <3>4, <4>1, AddFrame
    <3>6. AcceptNoted'
      <4>1. /\ Len(callbacks) + 1 \in DOMAIN callbacks'
            /\ callbacks'[Len(callbacks) + 1] = c
        BY <2>1, <2>2, <2>4
      <4> QED
        BY <2>3, <3>2, <4>1 DEF AcceptNoted
    <3>7. Standing'
      <4>1. Visited' = market[~t.buy] /\ ~Trying' /\ Opposite(o)' = ~t.buy /\ aons' = {}
        BY <1>1, <1>4, <2>1, <3>1, <3>2 DEF Visited, Trying, Opposite
      <4> QED
        BY <2>1, <3>2, <4>1 DEF Standing
    <3>8. Handed'
      BY <2>1, <3>1 DEF AInv, Handed
    <3>9. IocDone'
      BY <3>2 DEF IocDone
    <3>10. NoneDropped'
      <4>1. ~Resting(o)' /\ ~Waits(o)'
        BY <1>6, <2>5, <3>3
      <4> QED
        BY <1>7, <1>9, <2>5, <3>2, <3>3, <4>1 DEF AInv, NoneDropped
    <3> QED
      BY <3>5, <3>6, <3>7, <3>8, <3>9, <3>10 DEF AInv
  <2> QED
    BY <2>9, <2>10
<1> QED
  BY <1>2, <1>10, <1>11

(* Where a call finds an order: open, accepted and in no other container.  *)
LEMMA FoundFacts ==
  ASSUME IInv, AInv, CanCall, NEW o \in Order, OnMarket(o)
  PROVE  /\ ~InAddOrder /\ ~Matching /\ pending = <<>> /\ submitting = <<>> /\ aons = {}
         /\ Resting(o) /\ ~Waits(o) /\ o \in Used /\ open[o] > 0 /\ open[o] \in Nat
         /\ order[o].buy \in Side /\ ~ImmediateOrCancel(o)
         /\ \A y \in SimpleOrder : Stands(o, y) =>
              /\ y.state = "accepted" /\ y.filled = traded[o] /\ y.qty - y.filled = open[o]
         /\ \A p : ~Taken(p) /\ ~Leftover(p)
<1>1. /\ ~InAddOrder /\ ~Matching /\ pending = <<>> /\ submitting = <<>> /\ aons = {}
  BY DEF CanCall, Ready, Matching, InAddOrder, AInv, Handed, IInv, Facing
<1>2. o \in market[order[o].buy] /\ order[o].buy \in Side
  BY ContainerFacts DEF OnMarket
<1>3. Resting(o)
  BY <1>2 DEF Resting
<1>4. ~Waits(o) /\ o \in Used /\ open[o] > 0 /\ open[o] \in Nat
  BY <1>1, <1>3, CarriedFacts
<1>5. ~ImmediateOrCancel(o)
  BY <1>3 DEF AInv, NoneDropped
<1>6. \A y \in SimpleOrder : Stands(o, y) =>
        /\ y.state = "accepted" /\ y.filled = traded[o] /\ y.qty - y.filled = open[o]
  BY <1>3, <1>4 DEF Stands, Carried
<1>7. \A p : ~Taken(p) /\ ~Leftover(p)
  BY <1>1 DEF Taken, Leftover, InAddOrder
<1> QED
  BY <1>1, <1>2, <1>3, <1>4, <1>5, <1>6, <1>7

(* The order leaves the book, and its object is told so; or it is not      *)
(* found, and the object is not told.                                      *)
LEMMA CancelAgrees ==
  ASSUME IInv, AInv, NEW o \in Order, Cancel(o)
  PROVE  AInv'
<1>1. /\ CanCall /\ o \in Used
      /\ UNCHANGED <<order, stops, key, open, traded, pending, submitting>>
  BY DEF Cancel, trackers, triggered
<1>2. CASE OnMarket(o)
  <2>1. /\ market' = [market EXCEPT ![order[o].buy] = @ \ {o}]
        /\ CallbackNow(<<[Cb("cancel", o) EXCEPT !.qty = open[o]], Cb("book_update", 1)>>)
    BY <1>2 DEF Cancel
  <2>2. /\ ~InAddOrder /\ ~Matching /\ pending = <<>> /\ submitting = <<>>
        /\ ~Waits(o) /\ open[o] \in Nat /\ order[o].buy \in Side
        /\ \A y \in SimpleOrder : Stands(o, y) => y.state = "accepted" /\ y.filled = traded[o]
        /\ \A p : ~Taken(p) /\ ~Leftover(p)
    BY <1>1, <1>2, FoundFacts
  <2>3. PICK c \in Callback, d \in Callback :
          /\ c = [Cb("cancel", o) EXCEPT !.qty = open[o]] /\ d = Cb("book_update", 1)
          /\ c.type = "cancel" /\ c.order = o /\ d.type = "book_update"
    <3>1. PICK b \in Callback, d \in Callback :
            b = Cb("cancel", o) /\ d = Cb("book_update", 1)
      BY PlainCb
    <3>2. b.type = "cancel" /\ b.order = o /\ d.type = "book_update"
      BY <3>1 DEF Cb
    <3>3. PICK c : c = [b EXCEPT !.qty = open[o]]
      OBVIOUS
    <3>4. c \in Callback /\ c.type = "cancel" /\ c.order = o
      BY <2>2, <3>2, <3>3 DEF Callback, Quantity
    <3> QED
      BY <3>1, <3>2, <3>3, <3>4
  <2>4. <<c, d>> \in Seq(Callback) /\ <<c, d>> # <<>> /\ Due \in Seq(Callback)
    BY DueType
  <2>5. /\ Due' = Append(Append(Due, c), d) /\ Handed' /\ pc' = "deliver" /\ ~Matching'
        /\ ~InAddOrder'
    <3>1. Due' = Due \o <<c, d>> /\ Handed' /\ pc' = "deliver" /\ ~Matching' /\ ~InAddOrder'
      BY <1>1, <2>1, <2>2, <2>3, <2>4, DueAfterCallbackNow DEF AInv
    <3>2. Due \o <<c, d>> = Append(Append(Due, c), d)
      BY <2>4
    <3> QED
      BY <3>1, <3>2
  <2>6. \A p : Waits(p)' <=> Waits(p)
    BY <1>1 DEF Waits, InQueue
  <2>7. /\ \A p \in Order : p # o => (Resting(p)' <=> Resting(p))
        /\ ~Resting(o)'
        /\ \A p \in Order : Resting(p)' => Resting(p)
    <3>1. \A s \in Side : o \in market[s] => s = order[o].buy
      BY DEF IInv, Filed
    <3>2. market \in [Side -> SUBSET Order]
      BY ContainerFacts
    <3>3. \A s \in Side : market'[s] = market[s] \ {o}
      BY <2>1, <2>2, <3>1, <3>2
    <3> QED
      BY <3>3 DEF Resting
  <2>8. \A p : ~Taken(p)' /\ ~Leftover(p)'
    BY <2>5 DEF Taken, Leftover, InAddOrder
  <2>9. ASSUME NEW p \in Order, NEW y \in SimpleOrder, Stands(p, y)
        PROVE  /\ Timely(y, c, p) /\ Timely(Told(y, c, p), d, p)
               /\ Stands(p, Told(Told(y, c, p), d, p))'
    <3>1. \A z : Timely(z, d, p) /\ Told(z, d, p) = z
      BY <2>3, ToldNothing DEF Concerns
    <3>2. CASE p = o
      <4>1. y.state = "accepted" /\ y.filled = traded[o]
        BY <2>2, <2>9, <3>2
      <4>2. PICK z \in SimpleOrder : z = Told(y, c, o) /\ z.state = "cancelled" /\ z.filled = y.filled
        <5>1. c.type = "cancel" /\ c.order = o
          BY <2>3
        <5> QED
          BY ONLY <5>1, c \in Callback, y \in SimpleOrder, ToldCancel
      <4>3. ~Carried(o)' /\ ~Waits(o)' /\ ~Resting(o)' /\ ~Taken(o)' /\ z.filled = traded'[o]
        BY <1>1, <2>2, <2>6, <2>7, <2>8, <4>1, <4>2 DEF Carried
      <4>4. Stands(o, z)'
        BY <4>2, <4>3 DEF Stands
      <4>5. Timely(y, c, o)
        BY <2>3, <4>1 DEF Timely
      <4> QED
        BY <3>1, <3>2, <4>2, <4>4, <4>5
    <3>3. CASE p # o
      <4>1. Told(y, c, p) = y /\ Timely(y, c, p)
        BY <2>3, <3>3, ToldNothing DEF Concerns
      <4>2. Stands(p, y)'
        BY <1>1, <2>2, <2>6, <2>7, <2>8, <2>9, <3>3, StandsStill
      <4> QED
        BY <3>1, <4>1, <4>2
    <3> QED
      BY <3>2, <3>3
  <2>10. ASSUME NEW p \in Order
         PROVE  Informed(p)'
    <3>1. Informed(p) /\ order'[p] = order[p]
      BY <1>1 DEF AInv, Announced
    <3> QED
      BY <2>4, <2>5, <2>9, <3>1, InformedTwice
  <2>11. Announced'
    BY <2>10 DEF Announced
  <2>12. Used' = Used /\ Used \subseteq Order
    BY <1>1 DEF Used
  <2>13. Fitting'
    <3>1. Fits(c)' /\ Fits(d)'
      BY <1>1, <2>3, <2>12 DEF Fits, Concerns
    <3> QED
      BY <2>4, <2>5, <2>6, <2>12, <3>1, FittingTwice DEF AInv
  <2>14. Untouched'
    BY <1>1, <2>12 DEF AInv, Untouched
  <2>15. AcceptNoted' /\ Standing' /\ IocDone'
    BY <2>5 DEF AcceptNoted, Standing, IocDone
  <2>16. NoneDropped'
    BY <1>1, <2>5, <2>6, <2>7, NoneDroppedStill DEF AInv
  <2> QED
    BY <2>5, <2>11, <2>13, <2>14, <2>15, <2>16 DEF AInv
<1>3. CASE ~OnMarket(o)
  <2>1. CallbackNow(<<Cb("cancel_reject", o)>>) /\ market' = market
    BY <1>3 DEF Cancel
  <2>2. ~InAddOrder /\ pending = <<>> /\ submitting = <<>>
    BY <1>1 DEF CanCall, Ready, Matching, InAddOrder, AInv, Handed
  <2>3. PICK c \in Callback : c = Cb("cancel_reject", o)
    BY PlainCb
  <2>4. c.type = "cancel_reject" /\ \A p \in Order : ~Concerns(c, p)
    BY <2>3 DEF Cb, Concerns
  <2> QED
    BY <1>1, <2>1, <2>2, <2>3, <2>4, IdleCallback
<1> QED
  BY <1>2, <1>3

(* The object of a replaced order takes the price and the change that the  *)
(* book took; an order that nothing is left of is cancelled.               *)
LEMMA ReplaceFoundAgrees ==
  ASSUME IInv, AInv, CanCall, NEW o \in Order, OnMarket(o),
         NEW delta \in Int, open[o] + delta \in Nat, NEW price \in Price,
         price = MARKET_ORDER_PRICE => order[o].price = MARKET_ORDER_PRICE,
         ReplaceFound(o, delta, price),
         UNCHANGED <<order, stops, key, traded, pending, submitting>>
  PROVE  AInv'
<1>1. /\ ~InAddOrder /\ ~Matching /\ pending = <<>> /\ submitting = <<>> /\ aons = {}
      /\ ~Waits(o) /\ o \in Used /\ open[o] \in Nat /\ order[o].buy \in Side
      /\ ~ImmediateOrCancel(o)
      /\ \A y \in SimpleOrder : Stands(o, y) =>
           /\ y.state = "accepted" /\ y.filled = traded[o] /\ y.qty - y.filled = open[o]
      /\ \A p : ~Taken(p) /\ ~Leftover(p)
  BY FoundFacts
<1>2. /\ open' = [open EXCEPT ![o] = @ + delta]
      /\ market' = [market EXCEPT ![order[o].buy] = @ \ {o}]
      /\ UNCHANGED <<working, handling, aons>>
  BY DEF ReplaceFound
<1>3. /\ open'[o] = open[o] + delta /\ \A p \in Order : p # o => open'[p] = open[p]
      /\ \A s \in Side : s # order[o].buy => market'[s] = market[s]
      /\ \A s \in Side : market'[s] \subseteq market[s] /\ market[s] \ {o} \subseteq market'[s]
      /\ o \notin market'[order[o].buy]
  BY <1>1, <1>2, ContainerFacts
<1>4. PICK c \in Callback, d \in Callback : c = ReplaceCb(o, delta, price) /\ d = Cb("cancel", o)
  BY ReplaceCbType, PlainCb DEF IInv
<1>5. /\ c.type = "replace" /\ c.order = o /\ c.delta = delta /\ c.price = price
      /\ d.type = "cancel" /\ d.order = o
  BY <1>4 DEF ReplaceCb, Cb
<1>6. /\ \A p : Waits(p)' <=> Waits(p)
      /\ \A p \in Order : p # o => (Resting(p)' <=> Resting(p))
      /\ ~Resting(o)'
      /\ \A p \in Order : Resting(p)' => Resting(p)
  <2>1. \A p : Waits(p)' <=> Waits(p)
    BY DEF Waits, InQueue
  <2>2. \A s \in Side : o \in market[s] => s = order[o].buy
    BY DEF IInv, Filed
  <2> QED
    BY <1>3, <2>1, <2>2 DEF Resting
<1>7. /\ Due \in Seq(Callback) /\ callbacks \in Seq(Callback) /\ working \in Seq(Callback)
      /\ Used' = Used /\ Used \subseteq Order
  BY DueType DEF Used
<1>8. Fits(c)' /\ Fits(d)'
  BY <1>1, <1>5, <1>6, <1>7 DEF Fits, Concerns
<1>9. Untouched'
  BY <1>7 DEF AInv, Untouched
<1>10. ASSUME NEW y \in SimpleOrder, Stands(o, y)
       PROVE  /\ Timely(y, c, o)
              /\ \E z \in SimpleOrder :
                   /\ z = Told(y, c, o) /\ z.state = "accepted" /\ z.filled = traded'[o]
                   /\ z.qty - z.filled = open'[o] /\ z.price = price
  <2>1. /\ y.state = "accepted" /\ y.filled = traded[o] /\ y.qty - y.filled = open[o]
        /\ y.qty \in Int /\ y.filled \in Int
    BY <1>1, <1>10 DEF SimpleOrder, Quantity
  <2>2. PICK z \in SimpleOrder :
          /\ z = Told(y, c, o) /\ z.state = y.state /\ z.filled = y.filled
          /\ z.qty = y.qty + delta /\ z.price = price
    <3>1. c.type = "replace" /\ o = c.order
      BY <1>5
    <3>2. c.delta = delta /\ c.price = price
      BY <1>5
    <3>3. /\ Told(y, c, o) \in SimpleOrder /\ Told(y, c, o).state = y.state
          /\ Told(y, c, o).qty = y.qty + c.delta /\ Told(y, c, o).filled = y.filled
          /\ Told(y, c, o).price = c.price
      BY ONLY <3>1, c \in Callback, y \in SimpleOrder, ToldReplace
    <3> QED
      BY ONLY <3>2, <3>3
  <2>3. z.qty - z.filled = open'[o]
    BY <1>1, <1>3, <2>1, <2>2
  <2>4. y.filled <= y.qty + c.delta
    BY <1>1, <1>5, <2>1
  <2>5. y.price = order[o].price
    <3>1. Resting(o) /\ key[o] = order[o].price
      BY FoundFacts DEF OnMarket
    <3> QED
      BY <1>10, <3>1 DEF Stands
  <2>6. c.price = MARKET_ORDER_PRICE => y.price = MARKET_ORDER_PRICE
    BY <1>5, <2>5
  <2> QED
    BY <1>5, <2>1, <2>2, <2>3, <2>4, <2>6 DEF Timely
<1>11. \A p \in Order : p # o => ~Concerns(c, p) /\ ~Concerns(d, p)
  BY <1>5 DEF Concerns
<1>12. \A p \in Order : Informed(p) /\ order'[p] = order[p]
  BY DEF AInv, Announced
<1>13. ASSUME NEW p \in Order, p # o, NEW y \in SimpleOrder, Stands(p, y),
              ~Taken(p)', ~Leftover(p)'
       PROVE  Stands(p, y)'
  <2>1. open'[p] = open[p] /\ traded'[p] = traded[p] /\ key'[p] = key[p]
        /\ order'[p].price = order[p].price /\ (Resting(p)' <=> Resting(p))
    BY <1>3, <1>6, <1>13
  <2>2. (Waits(p)' <=> Waits(p)) /\ ~Taken(p) /\ ~Leftover(p)
    BY <1>1, <1>6
  <2> QED
    BY <1>13, <2>1, <2>2, StandsStill
<1>14. CASE open[o] + delta = 0
  <2>1. /\ callbacks' = callbacks \o <<ReplaceCb(o, delta, price), Cb("cancel", o)>>
        /\ pc' = "pending" /\ UNCHANGED <<call, m>>
    BY <1>14 DEF ReplaceFound
  <2>2. ~Matching' /\ ~InAddOrder' /\ \A p : ~Taken(p)' /\ ~Leftover(p)'
    BY <2>1 DEF Matching, InAddOrder, Taken, Leftover
  <2>3. Due' = Append(Append(Due, c), d)
    <3>1. callbacks' = callbacks \o <<c, d>> /\ working' = working
      BY <1>2, <1>4, <2>1
    <3>2. PICK r : r = <<c, d>>
      OBVIOUS
    <3>3. r \in Seq(Callback)
      BY <3>2
    <3>4. working \o (callbacks \o r) = Due \o r
      BY ONLY <1>7, <3>3 DEF Due
    <3>5. Due \o <<c, d>> = Append(Append(Due, c), d)
      BY ONLY <1>7, c \in Callback, d \in Callback
    <3>6. Due' = working' \o callbacks'
      BY DEF Due
    <3> QED
      BY <3>1, <3>2, <3>4, <3>5, <3>6
  <2>4. ASSUME NEW p \in Order, NEW y \in SimpleOrder, Stands(p, y)
        PROVE  /\ Timely(y, c, p) /\ Timely(Told(y, c, p), d, p)
               /\ Stands(p, Told(Told(y, c, p), d, p))'
    <3>1. CASE p = o
      <4>1. PICK z \in SimpleOrder :
              z = Told(y, c, o) /\ z.state = "accepted" /\ z.filled = traded'[o]
        BY <1>10, <2>4, <3>1
      <4>2. PICK w \in SimpleOrder : w = Told(z, d, o) /\ w.state = "cancelled" /\ w.filled = z.filled
        BY ONLY <1>5, d \in Callback, z \in SimpleOrder, ToldCancel
      <4>3. ~Carried(o)' /\ ~Waits(o)' /\ ~Resting(o)' /\ ~Taken(o)'
        BY <1>1, <1>6, <2>2 DEF Carried
      <4>4. Stands(o, w)'
        BY <4>1, <4>2, <4>3 DEF Stands
      <4>5. Timely(y, c, o) /\ Timely(z, d, o)
        BY <1>5, <1>10, <2>4, <3>1, <4>1 DEF Timely
      <4> QED
        BY <3>1, <4>1, <4>2, <4>4, <4>5
    <3>2. CASE p # o
      <4>1. /\ Told(y, c, p) = y /\ Timely(y, c, p)
            /\ Told(y, d, p) = y /\ Timely(y, d, p)
        BY <1>11, <3>2, ToldNothing
      <4>2. Stands(p, y)'
        BY <1>13, <2>2, <2>4, <3>2
      <4> QED
        BY <4>1, <4>2
    <3> QED
      BY <3>1, <3>2
  <2>5. \A p \in Order : Informed(p)'
    <3> TAKE p \in Order
    <3>1. Informed(p) /\ order'[p] = order[p]
      BY <1>12
    <3> QED
      BY <1>7, <2>3, <2>4, <3>1, InformedTwice
  <2>6. Announced'
    BY <2>5 DEF Announced
  <2>7. Fitting'
    BY <1>6, <1>7, <1>8, <2>3, FittingTwice DEF AInv
  <2>8. AcceptNoted' /\ Standing' /\ IocDone'
    BY <2>2 DEF AcceptNoted, Standing, IocDone
  <2>9. NoneDropped'
    BY <1>6, <2>2, NoneDroppedStill DEF AInv
  <2>10. Handed'
    BY <1>2, <2>1 DEF AInv, Handed
  <2> QED
    BY <1>9, <2>6, <2>7, <2>8, <2>9, <2>10 DEF AInv
<1>15. CASE open[o] + delta # 0
  <2> DEFINE c1 == [NoCall EXCEPT !.kind = "replace"]
  <2>1. /\ callbacks' = Append(callbacks, ReplaceCb(o, delta, price)) /\ pc' = "match"
        /\ m' = [taker |-> o, price |-> price, left |-> open[o] + delta,
                 todo |-> market[Opposite(o)], dqty |-> 0, deferred |-> {}]
    BY <1>15 DEF ReplaceFound, StartMatch
  <2>2. call' = [c1 EXCEPT !.order = o]
    BY <1>15 DEF ReplaceFound
  <2>3. DOMAIN c1 = DOMAIN NoCall /\ c1.kind = "replace"
    BY DEF NoCall
  <2> HIDE DEF c1
  <2>4. call'.order = o /\ call'.kind = "replace"
    BY <2>2, <2>3 DEF NoCall
  <2>5. /\ Matching' /\ InAddOrder' /\ ~Nested' /\ m'.taker = o /\ m'.price = price
        /\ m'.todo = market[Opposite(o)] /\ m'.deferred = {} /\ aons' = {}
        /\ \A p : ~Leftover(p)' /\ (Taken(p)' <=> p = o)
    BY <1>1, <1>2, <2>1, <2>4 DEF Matching, InAddOrder, Nested, Leftover, Taken
  <2>6. Due' = Append(Due, c)
    BY <1>2, <1>4, <1>7, <2>1 DEF Due
  <2>7. ASSUME NEW p \in Order, NEW y \in SimpleOrder, Stands(p, y)
        PROVE  Timely(y, c, p) /\ Stands(p, Told(y, c, p))'
    <3>1. CASE p = o
      <4>1. PICK z \in SimpleOrder :
              /\ z = Told(y, c, o) /\ z.state = "accepted" /\ z.filled = traded'[o]
              /\ z.qty - z.filled = open'[o] /\ z.price = price
        BY <1>10, <2>7, <3>1
      <4>2. Carried(o)' /\ ~Waits(o)' /\ ~Resting(o)' /\ open'[o] > 0 /\ z.price = m'.price
        BY <1>1, <1>3, <1>6, <1>15, <2>5, <4>1 DEF Carried
      <4>3. Stands(o, z)'
        BY <4>1, <4>2 DEF Stands
      <4> QED
        BY <1>10, <2>7, <3>1, <4>1, <4>3
    <3>2. CASE p # o
      <4>1. Told(y, c, p) = y /\ Timely(y, c, p)
        BY <1>11, <3>2, ToldNothing
      <4>2. Stands(p, y)'
        BY <1>13, <2>5, <2>7, <3>2
      <4> QED
        BY <4>1, <4>2
    <3> QED
      BY <3>1, <3>2
  <2>8. \A p \in Order : Informed(p)'
    <3> TAKE p \in Order
    <3>1. Informed(p) /\ order'[p] = order[p]
      BY <1>12
    <3> QED
      BY <1>7, <2>6, <2>7, <3>1, InformedOn
  <2>9. Announced'
    BY <2>8 DEF Announced
  <2>10. Fitting'
    BY <1>6, <1>7, <1>8, <2>6, FittingOn DEF AInv
  <2>11. AcceptNoted' /\ IocDone'
    BY <2>4, <2>5 DEF AcceptNoted, IocDone
  <2>12. Standing'
    <3>1. Opposite(o) \in Side /\ Opposite(o) # order[o].buy /\ Opposite(o)' = Opposite(o)
      BY <1>1 DEF Opposite, Side
    <3>2. Visited' = market'[Opposite(o)] /\ ~Trying'
      BY <1>3, <2>1, <2>5, <3>1 DEF Visited, Trying
    <3> QED
      BY <2>4, <2>5, <3>1, <3>2 DEF Standing
  <2>13. Handed'
    BY <1>2, <2>1 DEF AInv, Handed
  <2>14. NoneDropped'
    <3>1. \A p : ImmediateOrCancel(p)' <=> ImmediateOrCancel(p)
      BY DEF ImmediateOrCancel
    <3>2. NothingDropped' <=> NothingDropped
      BY DEF NothingDropped
    <3>3. ~ImmediateOrCancel(call.order)'
      BY <1>1, <2>4 DEF ImmediateOrCancel
    <3> QED
      BY <1>6, <3>1, <3>2, <3>3 DEF AInv, NoneDropped
  <2> QED
    BY <1>9, <2>9, <2>10, <2>11, <2>12, <2>13, <2>14 DEF AInv
<1> QED
  BY <1>14, <1>15

(* A replace is one of an order that is found, or is refused.              *)
LEMMA ReplaceAgrees ==
  ASSUME IInv, AInv, NEW o \in Order, NEW delta \in Deltas, NEW newPrice \in NewPrices,
         Replace(o, delta, newPrice)
  PROVE  AInv'
<1>1. CanCall /\ UNCHANGED <<order, stops, key, traded, pending, submitting>>
  BY DEF Replace, triggered
<1>2. CASE OnMarket(o)
  <2>1. ReplaceFound(o, AllowedDelta(o, delta), ReplacedPrice(o, newPrice))
    BY <1>2 DEF Replace
  <2>2. ReplacedPrice(o, newPrice) \in Price
    BY ConstantsAssumption DEF ReplacedPrice, ConstantsAssumption, IInv, TypeOK, SimpleOrder
  <2>3. ReplacedPrice(o, newPrice) = MARKET_ORDER_PRICE => order[o].price = MARKET_ORDER_PRICE
    BY DEF ReplacedPrice, MARKET_ORDER_PRICE
  <2> QED
    BY <1>1, <1>2, <2>1, <2>2, <2>3, DeltaFacts, ReplaceFoundAgrees
<1>3. CASE ~OnMarket(o)
  <2>1. CallbackNow(<<Cb("replace_reject", o)>>) /\ UNCHANGED <<open, market>>
    BY <1>3 DEF Replace
  <2>2. ~InAddOrder /\ pending = <<>> /\ submitting = <<>>
    BY <1>1 DEF CanCall, Ready, Matching, InAddOrder, AInv, Handed
  <2>3. PICK c \in Callback : c = Cb("replace_reject", o)
    BY PlainCb
  <2>4. c.type = "replace_reject" /\ \A p \in Order : ~Concerns(c, p)
    BY <2>3 DEF Cb, Concerns
  <2> QED
    BY <1>1, <2>1, <2>2, <2>3, <2>4, IdleCallback
<1> QED
  BY <1>2, <1>3

(* Before the first order there is nobody to tell. *)
LEMMA MarketPriceSetAgrees ==
  ASSUME IInv, AInv, NEW price \in MarketPrices, MarketPriceSet(price)
  PROVE  AInv'
<1>1. /\ pc = "idle" /\ pc' = pc /\ Used = {} /\ SetMarketPrice(price)
      /\ UNCHANGED <<order, market, key, open, traded, submitting, callbacks, working,
                     handling, call, m, aons, plan>>
  BY DEF MarketPriceSet, containers, trackers, queues, locals
<1>2. \A s \in Side : stops[s] = {}
  BY <1>1 DEF IInv, Filed
<1>3. stops' = stops /\ pending' = pending
  <2>1. StopSide(price) \in Side
    BY DEF StopSide, Side
  <2>2. Triggered(StopSide(price), price) = {}
    BY <1>2, <2>1 DEF Triggered
  <2>3. /\ stops' = [stops EXCEPT ![StopSide(price)] = @ \ {}]
        /\ pending' = pending
    BY <1>1, <2>2 DEF SetMarketPrice
  <2> QED
    BY <2>1, <2>3 DEF IInv, TypeOK
<1>4. ~InAddOrder /\ ~InAddOrder' /\ ~Matching /\ ~Matching' /\ Due' = Due
  BY <1>1 DEF InAddOrder, Matching, Due
<1>5. \A o : /\ (Waits(o)' <=> Waits(o)) /\ (Resting(o)' <=> Resting(o))
             /\ ~Taken(o) /\ ~Taken(o)' /\ ~Leftover(o) /\ ~Leftover(o)'
  BY <1>1, <1>3, <1>4 DEF Waits, InQueue, Resting, Taken, Leftover
<1>6. ASSUME NEW o \in Order, NEW y \in SimpleOrder, Stands(o, y)
      PROVE  Stands(o, y)'
  BY <1>1, <1>5, <1>6, StandsStill
<1>7. Announced' /\ Fitting' /\ Untouched'
  BY <1>1, <1>4, <1>5, <1>6, SilentStep
<1>8. Handed'
  BY <1>1, <1>3 DEF AInv, Handed
<1>9. AcceptNoted' /\ Standing' /\ IocDone'
  BY <1>4 DEF AcceptNoted, Standing, IocDone
<1>10. NoneDropped'
  BY <1>1, <1>4, <1>5, NoneDroppedStill DEF AInv
<1> QED
  BY <1>7, <1>8, <1>9, <1>10 DEF AInv

-----------------------------------------------------------------------------
(* The delivery *)

(* SimpleOrder changes as it is told, for a callback in its time.          *)
LEMMA NotifiedTold ==
  ASSUME TypeOK, NEW cb \in Callback, \A o \in Order : Timely(order[o], cb, o)
  PROVE  \A o \in Order : Notified(cb)[o] = Told(order[o], cb, o)
<1>1. PICK o, q : o = cb.order /\ q = cb.matched
  OBVIOUS
<1>2. order \in [Order -> SimpleOrder] /\ o \in Order /\ q \in Order
  BY <1>1 DEF TypeOK, Callback
<1>3. ASSUME NEW p \in Order, ~Concerns(cb, p)
      PROVE  Told(order[p], cb, p) = order[p]
  BY <1>3, ToldNothing
<1>4. CASE cb.type = "accept"
  <2>1. Concerns(cb, o) /\ \A p \in Order : p # o => ~Concerns(cb, p)
    BY <1>1, <1>4 DEF Concerns
  <2>2. order[o].state = "new"
    BY <1>2, <1>4, <2>1 DEF Timely
  <2>3. Notified(cb) = [order EXCEPT ![o].state = "accepted"]
    BY <1>1, <1>4, <2>2 DEF Notified
  <2>4. Told(order[o], cb, o) = [order[o] EXCEPT !.state = "accepted"]
    BY <1>4, <2>1 DEF Told
  <2>5. Notified(cb)[o] = Told(order[o], cb, o)
    BY <1>2, <2>3, <2>4
  <2>6. \A p \in Order : p # o => Notified(cb)[p] = order[p]
    BY <1>2, <2>3
  <2> QED
    BY <1>3, <2>1, <2>5, <2>6
<1>5. CASE cb.type = "fill"
  <2>1. Notified(cb) = [p \in Order |-> IF p \in {o, q} THEN Filled(order[p], cb.qty)
                                       ELSE order[p]]
    BY <1>1, <1>5 DEF Notified
  <2>2. ASSUME NEW p \in Order
        PROVE  Notified(cb)[p] = Told(order[p], cb, p)
    <3>1. CASE p \in {o, q}
      <4>1. Told(order[p], cb, p) = Filled(order[p], cb.qty)
        BY <1>1, <1>5, <3>1 DEF Told, Concerns
      <4> QED
        BY <2>1, <3>1, <4>1
    <3>2. CASE p \notin {o, q}
      <4>1. ~Concerns(cb, p)
        BY <1>1, <1>5, <3>2 DEF Concerns
      <4> QED
        BY <1>3, <2>1, <3>2, <4>1
    <3> QED
      BY <3>1, <3>2
  <2> QED
    BY <2>2
<1>6. CASE cb.type = "cancel"
  <2>1. Concerns(cb, o) /\ \A p \in Order : p # o => ~Concerns(cb, p)
    BY <1>1, <1>6 DEF Concerns
  <2>2. order[o].state # "complete"
    BY <1>2, <1>6, <2>1 DEF Timely
  <2>3. Notified(cb) = [order EXCEPT ![o].state = "cancelled"]
    BY <1>1, <1>6, <2>2 DEF Notified
  <2>4. Told(order[o], cb, o) = [order[o] EXCEPT !.state = "cancelled"]
    BY <1>6, <2>1 DEF Told
  <2>5. Notified(cb)[o] = Told(order[o], cb, o)
    BY <1>2, <2>3, <2>4
  <2>6. \A p \in Order : p # o => Notified(cb)[p] = order[p]
    BY <1>2, <2>3
  <2> QED
    BY <1>3, <2>1, <2>5, <2>6
<1>7. CASE cb.type = "replace"
  <2> DEFINE f == [order EXCEPT ![o].qty = @ + cb.delta]
  <2>1. Concerns(cb, o) /\ \A p \in Order : p # o => ~Concerns(cb, p)
    BY <1>1, <1>7 DEF Concerns
  <2>2. order[o].state = "accepted"
    BY <1>2, <1>7, <2>1 DEF Timely
  <2>3. Notified(cb) = [f EXCEPT ![o].price = cb.price]
    BY <1>1, <1>7, <2>2 DEF Notified
  <2>4. PICK x : x = [order[o] EXCEPT !.qty = @ + cb.delta]
    OBVIOUS
  <2>5. f[o] = x /\ DOMAIN f = Order /\ \A p \in Order : p # o => f[p] = order[p]
    BY <1>2, <2>4
  <2>6. Told(order[o], cb, o) = [x EXCEPT !.price = cb.price]
    BY <1>7, <2>1, <2>4 DEF Told
  <2> HIDE DEF f
  <2>7. Notified(cb)[o] = [x EXCEPT !.price = cb.price]
    BY <1>2, <2>3, <2>5
  <2>8. \A p \in Order : p # o => Notified(cb)[p] = order[p]
    BY <1>2, <2>3, <2>5
  <2> QED
    BY <1>3, <2>1, <2>6, <2>7, <2>8
<1>8. CASE cb.type = "reject"
  BY <1>2, <1>8, ToldReject DEF Notified
<1>9. CASE cb.type \notin {"accept", "reject", "fill", "cancel", "replace"}
  <2>1. Notified(cb) = order
    BY <1>9 DEF Notified
  <2>2. \A p \in Order : ~Concerns(cb, p)
    BY <1>9 DEF Concerns
  <2> QED
    BY <1>3, <2>1, <2>2
<1> QED
  BY <1>4, <1>5, <1>6, <1>7, <1>8, <1>9

(* The callback that is delivered is the first of those that are due: it   *)
(* finds every object in the state that it is for.                         *)
LEMMA PerformedTells ==
  ASSUME IInv, AInv, Performed
  PROVE  \E cb \in Callback :
           /\ cb = Head(working) /\ Due # <<>> /\ cb = Head(Due) /\ Due' = Tail(Due)
           /\ Fits(cb) /\ Handed'
           /\ \A o \in Order : /\ Timely(order[o], cb, o)
                               /\ Notified(cb)[o] = Told(order[o], cb, o)
<1>1. /\ pc = "deliver" /\ handling /\ working # <<>>
      /\ pending' = pending /\ submitting' = submitting
  BY DEF Performed, IInv, Delivering, triggered
<1>2. /\ working \in Seq(Callback) /\ callbacks \in Seq(Callback) /\ Due \in Seq(Callback)
      /\ pending = <<>> /\ submitting = <<>>
  BY <1>1, DueType DEF AInv, Handed
<1>3. PICK cb \in Callback : cb = Head(working)
  BY <1>1, <1>2
<1>4. Due # <<>> /\ Head(Due) = cb /\ Tail(Due) = Tail(working) \o callbacks
  BY <1>1, <1>2, <1>3 DEF Due
<1>5. Due' = Tail(Due) /\ Handed'
  <2>1. CASE Tail(working) # <<>>
    <3>1. working' = Tail(working) /\ UNCHANGED <<callbacks, handling, pc>>
      BY <2>1 DEF Performed
    <3> QED
      BY <1>1, <1>2, <1>4, <3>1 DEF Due, Handed
  <2>2. CASE Tail(working) = <<>>
    <3>1. /\ working' = callbacks /\ callbacks' = <<>> /\ handling' = (callbacks # <<>>)
          /\ pc' = IF callbacks = <<>> THEN "idle" ELSE "deliver"
      BY <2>2 DEF Performed
    <3>2. callbacks \o <<>> = callbacks /\ <<>> \o callbacks = callbacks
      BY <1>2
    <3>3. Due' = Tail(Due)
      BY <1>4, <2>2, <3>1, <3>2 DEF Due
    <3>4. CASE callbacks = <<>>
      BY <1>1, <1>2, <3>1, <3>3, <3>4 DEF Handed
    <3>5. CASE callbacks # <<>>
      BY <1>1, <1>2, <3>1, <3>3, <3>5 DEF Handed
    <3> QED
      BY <3>4, <3>5
  <2> QED
    BY <2>1, <2>2
<1>6. Fits(cb)
  <2>1. 1 \in DOMAIN Due /\ Due[1] = Head(Due)
    BY <1>2, <1>4
  <2> QED
    BY <1>4, <2>1 DEF AInv, Fitting
<1>7. \A o \in Order : Timely(order[o], cb, o)
  <2> TAKE o \in Order
  <2>1. PICK y \in SimpleOrder : Leads(o, Due, order[o], y)
    BY DEF AInv, Announced, Informed
  <2> QED
    BY <1>2, <1>4, <2>1, LeadsFrom
<1>8. \A o \in Order : Notified(cb)[o] = Told(order[o], cb, o)
  BY <1>7, NotifiedTold DEF IInv
<1> QED
  BY <1>3, <1>4, <1>5, <1>6, <1>7, <1>8

LEMMA PerformTells ==
  ASSUME IInv, AInv, Perform
  PROVE  \E cb \in Callback :
           /\ Due # <<>> /\ cb = Head(Due) /\ Due' = Tail(Due) /\ Fits(cb) /\ Handed'
           /\ \A o \in Order : Timely(order[o], cb, o) /\ order'[o] = Told(order[o], cb, o)
BY PerformedTells DEF Perform

(* One callback less leads to the same object. *)
LEMMA PerformAgrees ==
  ASSUME IInv, AInv, Perform
  PROVE  AInv'
<1>1. /\ pc = "deliver" /\ pc' \in {"idle", "deliver"}
      /\ UNCHANGED <<market, stops, key, open, traded, pending, submitting, call, m, aons, plan>>
  BY DEF Perform, Performed, containers, trackers, triggered, locals
<1>2. PICK cb \in Callback :
        /\ Due # <<>> /\ cb = Head(Due) /\ Due' = Tail(Due) /\ Fits(cb) /\ Handed'
        /\ \A o \in Order : Timely(order[o], cb, o) /\ order'[o] = Told(order[o], cb, o)
  BY PerformTells
<1>3. ~InAddOrder /\ ~InAddOrder' /\ ~Matching /\ ~Matching'
  BY <1>1 DEF InAddOrder, Matching
<1>4. \A o : /\ (Waits(o)' <=> Waits(o)) /\ (Resting(o)' <=> Resting(o))
             /\ ~Taken(o) /\ ~Taken(o)' /\ ~Leftover(o) /\ ~Leftover(o)'
  BY <1>1, <1>3 DEF Waits, InQueue, Resting, Taken, Leftover, InAddOrder
<1>5. \A o \in Order : order[o] \in SimpleOrder
  BY DEF IInv, TypeOK
<1>6. ASSUME NEW o \in Order
      PROVE  /\ order'[o].aon = order[o].aon /\ order'[o].ioc = order[o].ioc
             /\ Waits(o) => order'[o].price = order[o].price
             /\ o \notin Used => order'[o].filled = order[o].filled
  <2>1. /\ order'[o].aon = order[o].aon /\ order'[o].ioc = order[o].ioc
        /\ ~(cb.type = "replace" /\ Concerns(cb, o)) => order'[o].price = order[o].price
        /\ order'[o].filled # order[o].filled => Concerns(cb, o)
    BY <1>2, <1>5, ToldType
  <2>2. cb.type = "replace" /\ Concerns(cb, o) => ~Waits(o)
    BY <1>2 DEF Fits, Concerns
  <2>3. Concerns(cb, o) => o \in Used
    BY <1>2 DEF Fits
  <2> QED
    BY <2>1, <2>2, <2>3
<1>7. Used \subseteq Used' /\ Used \subseteq Order
  <2>1. IInv'
    BY PerformStep
  <2>2. Head(working) \in Callback /\ order' = Notified(Head(working))
    BY <1>1 DEF Perform, IInv, TypeOK, Delivering
  <2> QED
    BY <2>2, NotifiedType DEF Used, IInv
<1>8. ASSUME NEW o \in Order
      PROVE  Informed(o)'
  <2>1. PICK y \in SimpleOrder : Leads(o, Due, order[o], y) /\ Stands(o, y)
    BY DEF AInv, Announced, Informed
  <2>2. Leads(o, Due', order'[o], y)
    BY <1>2, <2>1, DueType, LeadsFrom
  <2>3. Stands(o, y)'
    <3>1. Carried(o)' <=> Carried(o)
      BY <1>4 DEF Carried
    <3>2. Waits(o)' => y.price = order'[o].price
      BY <1>4, <1>6, <2>1 DEF Stands
    <3> QED
      BY <1>1, <1>4, <2>1, <3>1, <3>2 DEF Stands
  <2> QED
    BY <2>2, <2>3 DEF Informed
<1>9. Announced'
  BY <1>8 DEF Announced
<1>10. Fitting'
  <2>1. Due \in Seq(Callback) /\ Due # <<>> /\ Due' = Tail(Due)
    BY <1>2, DueType
  <2>2. ASSUME NEW k \in DOMAIN Due'
        PROVE  Fits(Due[k])'
    <3>1. k + 1 \in DOMAIN Due /\ Due'[k] = Due[k + 1]
      BY <2>1
    <3>2. PICK d \in Callback : d = Due[k + 1] /\ Fits(d)
      BY <2>1, <3>1 DEF AInv, Fitting
    <3>3. Fits(d)'
      BY <1>4, <1>7, <3>2, FitsStill
    <3> QED
      BY <3>1, <3>2, <3>3
  <2> QED
    BY <2>2 DEF Fitting
<1>11. Untouched'
  BY <1>1, <1>6, <1>7 DEF AInv, Untouched
<1>12. AcceptNoted' /\ Standing' /\ IocDone'
  BY <1>3 DEF AcceptNoted, Standing, IocDone
<1>13. NoneDropped'
  <2>1. \A p \in Order : ImmediateOrCancel(p)' <=> ImmediateOrCancel(p)
    BY <1>6 DEF ImmediateOrCancel
  <2>2. NothingDropped' <=> NothingDropped
    BY DEF NothingDropped
  <2> QED
    BY <1>3, <1>4, <2>1, <2>2 DEF AInv, NoneDropped
<1> QED
  BY <1>2, <1>9, <1>10, <1>11, <1>12, <1>13 DEF AInv

-----------------------------------------------------------------------------
(* The theorems *)

(* There is nothing to agree about at first. *)
LEMMA InitAInv ==
  ASSUME Init
  PROVE  AInv
<1>1. /\ pc = "idle" /\ ~Matching /\ ~InAddOrder /\ Due = <<>> /\ working = <<>>
      /\ callbacks = <<>> /\ ~handling /\ pending = <<>> /\ submitting = <<>>
      /\ \A s \in Side : market[s] = {} /\ stops[s] = {}
  BY DEF Init, Matching, InAddOrder, Due
<1>2. \A o : ~Resting(o) /\ ~Waits(o) /\ ~Taken(o) /\ ~Leftover(o) /\ ~Carried(o)
  BY <1>1 DEF Resting, Waits, InQueue, Taken, Leftover, Carried
<1>3. ASSUME NEW o \in Order
      PROVE  /\ order[o] \in SimpleOrder /\ order[o].state = "none" /\ order[o].filled = 0
             /\ order[o].aon = FALSE /\ traded[o] = 0
  BY InitIInv DEF Init, NoOrder, IInv, TypeOK
<1>4. DOMAIN Due = {}
  BY <1>1
<1>5. Announced
  <2> SUFFICES ASSUME NEW o \in Order PROVE Informed(o)
    BY DEF Announced
  <2>1. PICK y \in SimpleOrder : y = order[o] /\ y.state = "none" /\ y.filled = 0
    BY <1>3
  <2>2. Leads(o, Due, order[o], y)
    <3>1. Due \in Seq(Callback)
      BY InitIInv, DueType
    <3>2. \A k \in DOMAIN Due : ~Concerns(Due[k], o)
      BY <1>4
    <3> QED
      BY <2>1, <3>1, <3>2, LeadsAround
  <2>3. Stands(o, y)
    BY <1>2, <1>3, <2>1 DEF Stands
  <2> QED
    BY <2>2, <2>3 DEF Informed
<1>6. Fitting
  BY <1>4 DEF Fitting
<1>7. Untouched /\ Handed
  BY <1>1, <1>3 DEF Untouched, Handed
<1>8. AcceptNoted /\ Standing /\ IocDone
  BY <1>1 DEF AcceptNoted, Standing, IocDone
<1>9. NoneDropped
  BY <1>1, <1>2, <1>3 DEF NoneDropped, AllOrNone
<1> QED
  BY <1>5, <1>6, <1>7, <1>8, <1>9 DEF AInv

(* A step in which no listener throws. *)
ToldStep == MatchStep \/ AddOrderStep \/ PendingStep \/ Perform \/ Application

(* There is no other step when listeners do not throw. *)
LEMMA NoOneThrows ==
  ASSUME ~Throwing, [Next]_vars PROVE [ToldStep]_vars
BY DEF Next, BookStep, ListenerThrows, ToldStep

(* Such a step is one of the book. *)
LEMMA ToldStepIsStep ==
  ASSUME [ToldStep]_vars PROVE [Next]_vars
BY DEF Next, BookStep, ToldStep

(* Every step keeps the agreement, unless a listener throws. *)
LEMMA NextKeepsAInv ==
  ASSUME IInv, AInv, Whole, [ToldStep]_vars
  PROVE  AInv'
<1>1. CASE MatchStep
  <2>1. ASSUME NEW e \in m.todo, DeferAon(e) \/ MatchRegular(e) \/ DeferMatch(e) \/ TryDeferred(e)
        PROVE  AInv'
    BY <2>1, DeferAonAgrees, MatchRegularAgrees, DeferMatchAgrees, TryDeferredAgrees
  <2>2. ASSUME NEW d \in plan.todo, Propose(d) \/ Settle(d)
        PROVE  AInv'
    BY <2>2, ProposeAgrees, SettleAgrees
  <2> QED
    BY <1>1, <2>1, <2>2, ProposalEndsAgrees, SettleEndsAgrees, CloseAgrees DEF MatchStep
<1>2. CASE AddOrderStep
  BY <1>2, RestAgrees, CheckDeferredAgrees, NestedEndsAgrees, SubmittedAgrees DEF AddOrderStep
<1>3. CASE PendingStep
  BY <1>3, TakePendingAgrees, SubmitPendingAgrees, FinishAgrees DEF PendingStep
<1>4. CASE Perform
  BY <1>4, PerformAgrees
<1>5. CASE Application
  BY <1>5, AddAgrees, CancelAgrees, ReplaceAgrees, MarketPriceSetAgrees DEF Application
<1>6. CASE UNCHANGED vars
  <2>1. UNCHANGED <<order, market, stops, key, open, pending, submitting, callbacks, working,
                    handling, pc, call, m, aons, plan, traded>>
    BY <1>6 DEF vars
  <2>2. /\ (InAddOrder' <=> InAddOrder) /\ (Matching' <=> Matching) /\ (Nested' <=> Nested)
        /\ Due' = Due /\ Used' = Used /\ (NothingDropped' <=> NothingDropped)
    BY <2>1 DEF InAddOrder, Matching, Nested, Due, Used, NothingDropped
  <2>3. \A o : /\ (AllOrNone(o)' <=> AllOrNone(o))
               /\ (ImmediateOrCancel(o)' <=> ImmediateOrCancel(o))
    BY <2>1 DEF AllOrNone, ImmediateOrCancel
  <2>4. \A o : /\ (Waits(o)' <=> Waits(o)) /\ (Resting(o)' <=> Resting(o))
               /\ (Taken(o)' <=> Taken(o)) /\ (Leftover(o)' <=> Leftover(o))
    BY <2>1, <2>2, <2>3 DEF Waits, InQueue, Resting, Taken, Leftover
  <2>5. ASSUME NEW o \in Order, NEW y \in SimpleOrder, Stands(o, y)
        PROVE  Stands(o, y)'
    BY <2>1, <2>4, <2>5, StandsStill
  <2>6. Announced' /\ Fitting' /\ Untouched'
    BY <2>1, <2>2, <2>4, <2>5, SilentStep
  <2>7. Handed' /\ AcceptNoted'
    BY <2>1, <2>2 DEF AInv, Handed, AcceptNoted
  <2>8. Standing'
    <3>1. \A o : Opposite(o)' = Opposite(o)
      BY <2>1 DEF Opposite
    <3>2. Visited' = Visited /\ (Trying' <=> Trying)
      BY <2>1 DEF Visited, Trying
    <3>3. Opposite(m.taker)' = Opposite(m.taker) /\ Opposite(call.order)' = Opposite(call.order)
      BY <2>1 DEF Opposite
    <3> QED
      BY <2>1, <2>2, <3>2, <3>3 DEF AInv, Standing
  <2>9. IocDone'
    <3>1. /\ ImmediateOrCancel(call.order)' <=> ImmediateOrCancel(call.order)
          /\ Waits(call.order)' <=> Waits(call.order)
      BY <2>1 DEF ImmediateOrCancel, Waits, InQueue
    <3> QED
      BY <2>1, <2>2, <3>1 DEF AInv, IocDone
  <2>10. NoneDropped'
    <3>1. ImmediateOrCancel(call.order)' <=> ImmediateOrCancel(call.order)
      BY <2>1 DEF ImmediateOrCancel
    <3> QED
      BY <2>1, <2>2, <2>3, <2>4, <3>1 DEF AInv, NoneDropped
  <2> QED
    BY <2>6, <2>7, <2>8, <2>9, <2>10 DEF AInv
<1> QED
  BY <1>1, <1>2, <1>3, <1>4, <1>5, <1>6 DEF ToldStep

(* Between two calls everybody was told everything. *)
LEMMA ToldAtIdle ==
  ASSUME IInv, AInv, Idle, NEW o \in Order
  PROVE  /\ Stands(o, order[o]) /\ ~Matching /\ ~Taken(o) /\ ~Leftover(o)
         /\ pending = <<>> /\ submitting = <<>>
<1>1. /\ pc = "idle" /\ ~Matching /\ pending = <<>> /\ submitting = <<>>
      /\ working = <<>> /\ callbacks = <<>>
  BY DEF Idle, Matching, AInv, Handed
<1>2. ~Taken(o) /\ ~Leftover(o)
  BY <1>1 DEF Taken, Leftover
<1>3. Due = <<>>
  BY <1>1 DEF Due
<1>4. PICK y \in SimpleOrder : Leads(o, <<>>, order[o], y) /\ Stands(o, y)
  BY <1>3 DEF AInv, Announced, Informed
<1>5. order[o] = y
  BY <1>4, LeadsNowhere
<1> QED
  BY <1>1, <1>2, <1>4, <1>5

(* All-or-none orders are traded as a whole, if they have limits.          *)
LEMMA InitWholeness ==
  ASSUME Init PROVE Whole
BY InitLInv, InitWhole DEF Whole

LEMMA NextKeepsWhole ==
  ASSUME IInv, Whole, [Next]_vars
  PROVE  Whole'
<1>1. AonAreLimits' => AonAreLimits
  BY DEF AonAreLimits
<1>2. ASSUME AonAreLimits
      PROVE  LInv' /\ WInv'
  BY <1>2, NextKeepsLInv, NextKeepsWInv DEF Whole
<1> QED
  BY <1>1, <1>2 DEF Whole

(* For every menu, every number of orders and calls, and listeners that    *)
(* call the book while they are notified, the callbacks that are still due *)
(* take each order object to what the book holds of the order.             *)
THEOREM Agreement ==
  ASSUME ~Throwing PROVE Spec => []AInv
<1>1. IInv /\ Init => AInv
  BY InitAInv
<1>2. IInv /\ AInv /\ Whole /\ [Next]_vars => AInv'
  BY NextKeepsAInv, NoOneThrows
<1>3. Init => Whole
  BY InitWholeness
<1>4. IInv /\ Whole /\ [Next]_vars => Whole'
  BY NextKeepsWhole
<1> QED
  BY <1>1, <1>2, <1>3, <1>4, Invariance, PTL DEF Spec

(* What the two theorems that follow say of the time between two calls,    *)
(* from the invariants.                                                    *)
LEMMA AgreesAtIdle ==
  ASSUME IInv, AInv PROVE ApplicationAgrees
<1> SUFFICES ASSUME Idle
             PROVE  /\ \A o \in Order : order[o].filled = traded[o]
                    /\ \A s \in Side : \A o \in market[s] :
                         /\ order[o].state = "accepted"
                         /\ order[o].qty - order[o].filled = open[o]
                         /\ OnMarket(o)
  BY DEF ApplicationAgrees
<1>1. \A o \in Order : order[o].filled = traded[o]
  BY ToldAtIdle DEF Stands
<1>2. ASSUME NEW s \in Side, NEW o \in market[s]
      PROVE  /\ order[o].state = "accepted"
             /\ order[o].qty - order[o].filled = open[o]
             /\ OnMarket(o)
  <2>1. o \in Order /\ order[o].buy = s /\ Resting(o) /\ Carried(o)
    BY DEF IInv, Filed, Used, Resting, Carried
  <2>2. Stands(o, order[o]) /\ ~Matching
    BY <2>1, ToldAtIdle
  <2>3. open[o] > 0
    BY <2>1, <2>2, CarriedFacts
  <2> QED
    BY <2>1, <2>2, <2>3 DEF Stands, OnMarket
<1> QED
  BY <1>1, <1>2

LEMMA KeptAtIdle ==
  ASSUME IInv, AInv, NothingDropped PROVE NoOrderIsLost
<1> SUFFICES ASSUME Idle, NEW o \in Order, order[o].state = "accepted"
             PROVE  o \in market[order[o].buy] \cup stops[order[o].buy]
  BY DEF NoOrderIsLost
<1>1. /\ Stands(o, order[o]) /\ ~Taken(o) /\ ~Leftover(o)
      /\ pending = <<>> /\ submitting = <<>>
  BY ToldAtIdle
<1>2. Resting(o) \/ Waits(o)
  BY <1>1 DEF Stands, Carried
<1>3. ~InQueue(o, pending) /\ ~InQueue(o, submitting)
  BY <1>1 DEF InQueue
<1>4. \E s \in Side : o \in market[s] \/ o \in stops[s]
  BY <1>2, <1>3 DEF Resting, Waits
<1> QED
  BY <1>4 DEF IInv, Filed

(* Between two calls the objects of SimpleOrder show the fills of every    *)
(* order, and of those that rest in the book the open quantity, and the    *)
(* price at which cancel() and replace() look for them.                    *)
THEOREM ApplicationIsTold ==
  ASSUME ~Throwing PROVE Spec => []ApplicationAgrees
<1>1. IInv /\ AInv => ApplicationAgrees
  BY AgreesAtIdle
<1> QED
  BY <1>1, Invariance, Agreement, PTL

(* An order whose object says that it is accepted is in the book or held   *)
(* as a stop, where cancel() and replace() can still reach it or a trigger *)
(* finds it: as long as no all-or-none market order and no stop order that *)
(* is immediate-or-cancel is submitted, the orders that the engine drops   *)
(* without a callback.                                                     *)
THEOREM AcceptedOrdersAreKept ==
  ASSUME ~Throwing, NothingDropped PROVE Spec => []NoOrderIsLost
<1>1. IInv /\ AInv => NoOrderIsLost
  BY KeptAtIdle
<1> QED
  BY <1>1, Invariance, Agreement, PTL

(* The objects change in callbacks only, once they are submitted. *)
LEMMA CallsLeaveObjects ==
  ASSUME MatchStep \/ AddOrderStep \/ PendingStep
  PROVE  order' = order
<1>1. CASE MatchStep
  <2>1. ASSUME NEW e \in m.todo, DeferAon(e) \/ DeferMatch(e) \/ TryDeferred(e)
        PROVE  order' = order
    BY <2>1 DEF DeferAon, DeferMatch, TryDeferred
  <2>2. ASSUME NEW e \in m.todo, MatchRegular(e)
        PROVE  order' = order
    BY <2>2 DEF MatchRegular, MaybeTrade
  <2>3. ASSUME NEW d \in plan.todo, Propose(d) \/ Settle(d)
        PROVE  order' = order
    BY <2>3 DEF Propose, Settle, MaybeTrade
  <2>4. ASSUME ProposalEnds \/ SettleEnds \/ Close(plan.goal)
        PROVE  order' = order
    BY <2>4 DEF ProposalEnds, SettleEnds, Close, MaybeTrade
  <2> QED
    BY <1>1, <2>1, <2>2, <2>3, <2>4 DEF MatchStep
<1>2. CASE AddOrderStep
  BY <1>2 DEF AddOrderStep, Rest, CheckDeferred, NestedEnds, Submitted
<1>3. CASE PendingStep
  BY <1>3 DEF PendingStep, TakePending, SubmitPending, Finish
<1> QED
  BY <1>1, <1>2, <1>3

(* An order object is filled by a callback only, and only while it is in   *)
(* state "accepted": never before the accept callback, nor after the order *)
(* was told to be complete or cancelled.                                   *)
THEOREM FillsAreInTime ==
  ASSUME ~Throwing PROVE Spec => FillsOnlyLiveOrders
<1> DEFINE Live == \A o \in Order : order'[o].filled # order[o].filled =>
                     order[o].state = "accepted"
<1>1. ASSUME IInv, AInv, [Next]_vars, ~Throwing
      PROVE  Live
  <2>1. CASE order' = order
    BY <2>1
  <2>2. CASE Perform
    <3>1. PICK cb \in Callback :
            \A o \in Order : Timely(order[o], cb, o) /\ order'[o] = Told(order[o], cb, o)
      BY <1>1, <2>2, PerformTells
    <3>2. ASSUME NEW o \in Order, order'[o].filled # order[o].filled
          PROVE  order[o].state = "accepted"
      <4>1. order[o] \in SimpleOrder /\ order'[o] = Told(order[o], cb, o)
        BY <1>1, <3>1 DEF IInv, TypeOK
      <4>2. cb.type = "fill" /\ Concerns(cb, o)
        BY <3>2, <4>1, ToldType
      <4> QED
        BY <3>1, <4>2 DEF Timely
    <3> QED
      BY <3>2
  <2>3. ASSUME NEW p \in Order, NEW t \in Menu, Add(p, t)
        PROVE  Live
    <3>1. order' = [order EXCEPT ![p] = NewOrder(p, t)] /\ Used = 1..(p - 1)
      BY <2>3 DEF Add
    <3>2. p \notin Used
      BY <3>1, ConstantsAssumption DEF Order, ConstantsAssumption
    <3>3. order[p].filled = 0
      BY <1>1, <3>2 DEF AInv, Untouched
    <3>4. order'[p] = NewOrder(p, t) /\ \A o \in Order : o # p => order'[o] = order[o]
      BY <1>1, <3>1 DEF IInv, TypeOK
    <3>5. order'[p].filled = 0
      BY <3>4 DEF NewOrder
    <3> QED
      BY <3>3, <3>4, <3>5
  <2>4. order' = order \/ Perform \/ \E p \in Order, t \in Menu : Add(p, t)
    <3>1. CASE MatchStep \/ AddOrderStep \/ PendingStep
      BY <3>1, CallsLeaveObjects
    <3>2. CASE Application
      BY <3>2 DEF Application, Cancel, Replace, MarketPriceSet
    <3>3. CASE ListenerThrows \/ UNCHANGED vars
      BY <3>3 DEF ListenerThrows, vars
    <3> QED
      BY <1>1, <3>1, <3>2, <3>3 DEF Next, BookStep
  <2> QED
    BY <2>1, <2>2, <2>3, <2>4
<1>2. IInv /\ AInv /\ [Next]_vars => [Live]_vars
  BY <1>1
<1> QED
  BY <1>2, Invariance, Agreement, PTL DEF Spec, FillsOnlyLiveOrders
===============================================================================
