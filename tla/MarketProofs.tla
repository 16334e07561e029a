----------------------------- MODULE MarketProofs -----------------------------
(***************************************************************************)
(* What the order entry program shows is what the book holds, for every    *)
(* menu, every number of orders and commands, and every bound on what is   *)
(* entered.                                                                *)
(***************************************************************************)
EXTENDS Market, ApplicationProofs

USE ConstantsAssumption

-----------------------------------------------------------------------------
(* The book below the program *)

(* Each step of the program is one of the book, or leaves the book alone.  *)
LEMMA MarketStepIsBookStep ==
  ASSUME [MarketNext]_marketVars PROVE [Next]_vars
<1>1. ASSUME NEW o \in Order, NEW t \in Menu, DoAdd(o, t)
      PROVE  Next
  BY <1>1 DEF DoAdd, Next, Application
<1>2. ASSUME NEW o \in Order, DoCancel(o)
      PROVE  Next
  BY <1>2 DEF DoCancel, Next, Application
<1>3. ASSUME NEW o \in Order, NEW quantity \in Deltas, NEW price \in NewPrices,
             DoModify(o, quantity, price)
      PROVE  Next
  BY <1>3 DEF DoModify, Next, Application
<1>4. CASE PerformShown
  BY <1>4 DEF PerformShown, Next, BookStep
<1>5. CASE MatchStep \/ AddOrderStep \/ PendingStep
  BY <1>5 DEF Next, BookStep
<1>6. CASE UNCHANGED marketVars
  BY <1>6 DEF marketVars
<1> QED
  BY <1>1, <1>2, <1>3, <1>4, <1>5, <1>6 DEF MarketNext, Command

(* So the invariants of the book hold below the program. *)
LEMMA BookInvariants ==
  ASSUME ~Throwing PROVE MarketSpec => [](IInv /\ AInv)
<1>1. MarketInit => IInv /\ AInv /\ Whole
  BY InitIInv, InitAInv, InitWholeness DEF MarketInit
<1>2. IInv /\ AInv /\ Whole /\ [MarketNext]_marketVars => (IInv /\ AInv /\ Whole)'
  BY MarketStepIsBookStep, NextKeepsIInv, NextKeepsAInv, NextKeepsWhole, NoOneThrows
<1> QED
  BY <1>1, <1>2, PTL DEF MarketSpec

-----------------------------------------------------------------------------
(* The inductive invariant *)

(* What an order that was cancelled may yet note. *)
Ends == {"Cancelled", "CancelRejected", "ModifyRejected"}

(* The object s of the program goes with the object x that the book reads, *)
(* as both hear the same callbacks: price and quantity are the same, an    *)
(* accepted order has on the market what is left of it, any other one      *)
(* nothing.  A new order is not filled yet, a cancelled one stays so.      *)
Counts(x, s) ==
  /\ s.price = x.price /\ s.quantity = x.qty
  /\ x.state = "new" => x.filled = 0 /\ x.qty \in Nat
  /\ x.state = "accepted" => x.filled <= x.qty /\ s.onMarket = x.qty - x.filled
  /\ x.state # "accepted" => s.onMarket = 0
  /\ "Cancelled" \in s.history => x.state = "cancelled" /\ s.event \in Ends

(* The inductive invariant of the program: every order counts, also while  *)
(* callbacks are due, when object and book disagree.                       *)
MInv ==
  /\ shown \in [Order -> Shown]
  /\ \A o \in Order : Counts(order[o], shown[o])

-----------------------------------------------------------------------------
(* The listener *)

(* The events that are noted later. *)
LEMMA Events ==
  {"Accepted", "Rejected", "Filled", "Cancelled", "CancelRejected", "Modified",
   "ModifyRejected", "Submitted", "Unknown"} \subseteq Event
BY DEF Event

(* An object that has noted an event. *)
LEMMA NotedFields ==
  ASSUME NEW s \in Shown, NEW event \in Event, NEW onMarket \in Nat,
         NEW t, t = Noted(s, event, onMarket)
  PROVE  /\ t \in Shown /\ t.event = event /\ t.onMarket = onMarket
         /\ t.history = s.history \cup {event}
         /\ t.price = s.price /\ t.quantity = s.quantity
<1> DEFINE r == [s EXCEPT !.event = event]
           u == [r EXCEPT !.history = s.history \cup {event}]
           v == [u EXCEPT !.onMarket = onMarket]
<1>1. /\ r \in Shown /\ r.event = event /\ r.history = s.history
      /\ r.price = s.price /\ r.quantity = s.quantity
  BY DEF Shown
<1>2. Noted(s, event, onMarket) = v
  BY <1>1 DEF Noted
<1> HIDE DEF r
<1>3. /\ u \in Shown /\ u.event = event /\ u.history = s.history \cup {event}
      /\ u.price = s.price /\ u.quantity = s.quantity
  BY <1>1 DEF Shown
<1> HIDE DEF u
<1>4. /\ v \in Shown /\ v.event = event /\ v.history = s.history \cup {event}
      /\ v.onMarket = onMarket /\ v.price = s.price /\ v.quantity = s.quantity
  BY <1>3 DEF Shown
<1> HIDE DEF v
<1> QED
  BY <1>2, <1>4

(* An object that is modified. *)
LEMMA ReplacedFields ==
  ASSUME NEW s \in Shown, NEW delta \in Int, NEW price \in Price, s.onMarket + delta \in Nat
  PROVE  /\ OnReplaced(s, delta, price) \in Shown
         /\ OnReplaced(s, delta, price).event = "Modified"
         /\ OnReplaced(s, delta, price).onMarket = s.onMarket + delta
         /\ OnReplaced(s, delta, price).history = s.history \cup {"Modified"}
         /\ OnReplaced(s, delta, price).price = IF price = 0 THEN s.price ELSE price
         /\ OnReplaced(s, delta, price).quantity = s.quantity + delta
<1> DEFINE r == Noted(s, "Modified", s.onMarket + delta)
           u == [r EXCEPT !.quantity = s.quantity + delta]
           to == IF price = 0 THEN s.price ELSE price
           v == [u EXCEPT !.price = to]
<1>1. /\ r \in Shown /\ r.event = "Modified" /\ r.onMarket = s.onMarket + delta
      /\ r.history = s.history \cup {"Modified"}
      /\ r.price = s.price /\ r.quantity = s.quantity
  BY NotedFields, Events DEF Shown
<1> HIDE DEF r
<1>2. OnReplaced(s, delta, price) = v
  BY <1>1 DEF OnReplaced, r
<1>3. /\ u \in Shown /\ u.event = "Modified" /\ u.onMarket = s.onMarket + delta
      /\ u.history = s.history \cup {"Modified"}
      /\ u.price = s.price /\ u.quantity = s.quantity + delta
  BY <1>1 DEF Shown
<1>4. to \in Price
  BY DEF Shown
<1> HIDE DEF u, to
<1>5. /\ v \in Shown /\ v.event = "Modified" /\ v.onMarket = s.onMarket + delta
      /\ v.history = s.history \cup {"Modified"}
      /\ v.price = to /\ v.quantity = s.quantity + delta
  BY <1>3, <1>4 DEF Shown
<1> HIDE DEF v
<1> QED
  BY <1>2, <1>5 DEF to

(* What the listener makes of the object s of the order o by the callback. *)
Heard(s, c, o) ==
  IF c.type = "fill"
  THEN IF o \in {c.order, c.matched} THEN OnFilled(s, c.qty) ELSE s
  ELSE IF c.type = "book_update" \/ o # c.order
  THEN s
  ELSE CASE c.type = "accept" -> Noted(s, "Accepted", s.quantity)
         [] c.type = "reject" -> Noted(s, "Rejected", s.onMarket)
         [] c.type = "cancel" -> OnCancelled(s)
         [] c.type = "cancel_reject" -> Noted(s, "CancelRejected", s.onMarket)
         [] c.type = "replace" -> OnReplaced(s, c.delta, c.price)
         [] c.type = "replace_reject" -> Noted(s, "ModifyRejected", s.onMarket)

(* Listen() changes the objects so. *)
LEMMA ListenHeard ==
  ASSUME MInv, NEW c \in Callback, Listen(c)
  PROVE  shown' = [o \in Order |-> Heard(shown[o], c, o)]
<1>1. shown \in [Order -> Shown] /\ c.order \in Order /\ c.type \in CallbackTypes
  BY DEF MInv, Callback
<1>2. CASE c.type = "fill"
  BY <1>1, <1>2 DEF Listen, OnFill, Heard
<1>3. CASE c.type = "book_update"
  <2>1. shown' = shown
    BY <1>3 DEF Listen
  <2>2. \A o \in Order : Heard(shown[o], c, o) = shown[o]
    BY <1>3 DEF Heard
  <2> QED
    BY <1>1, <2>1, <2>2
<1>4. CASE c.type \notin {"fill", "book_update"}
  <2>1. PICK s : s = Heard(shown[c.order], c, c.order)
    OBVIOUS
  <2>2. shown' = [shown EXCEPT ![c.order] = s]
    <3>1. CASE c.type = "accept"
      BY <2>1, <3>1 DEF Listen, Show, Heard
    <3>2. CASE c.type = "reject"
      BY <2>1, <3>2 DEF Listen, Show, Heard
    <3>3. CASE c.type = "cancel"
      BY <2>1, <3>3 DEF Listen, Show, Heard
    <3>4. CASE c.type = "cancel_reject"
      BY <2>1, <3>4 DEF Listen, Show, Heard
    <3>5. CASE c.type = "replace"
      BY <2>1, <3>5 DEF Listen, Show, Heard
    <3>6. CASE c.type = "replace_reject"
      BY <2>1, <3>6 DEF Listen, Show, Heard
    <3> QED
      BY <1>1, <1>4, <3>1, <3>2, <3>3, <3>4, <3>5, <3>6 DEF CallbackTypes
  <2>3. \A o \in Order : o # c.order => Heard(shown[o], c, o) = shown[o]
    BY <1>4 DEF Heard
  <2> QED
    BY <1>1, <2>1, <2>2, <2>3
<1> QED
  BY <1>1, <1>2, <1>3, <1>4 DEF CallbackTypes

(* What was cancelled stays in the history. *)
StaysCancelled(s, t) == "Cancelled" \in s.history => "Cancelled" \in t.history

(* An order counts on when both objects have heard a callback that is in   *)
(* its time.                                                               *)
LEMMA CountsAfterCallback ==
  ASSUME NEW x \in SimpleOrder, NEW s \in Shown, NEW c \in Callback, NEW o,
         Counts(x, s), Timely(x, c, o)
  PROVE  /\ Heard(s, c, o) \in Shown
         /\ Counts(Told(x, c, o), Heard(s, c, o))
         /\ StaysCancelled(s, Heard(s, c, o))
<1>1. /\ x.qty \in Int /\ x.filled \in Nat /\ s.onMarket \in Nat /\ s.event \in Event
      /\ s.quantity = x.qty /\ s.price = x.price
      /\ c.qty \in Nat /\ c.delta \in Int /\ c.price \in Price /\ c.type \in CallbackTypes
  BY DEF SimpleOrder, Quantity, Shown, Callback, Counts
<1>2. PICK t, y : t = Heard(s, c, o) /\ y = Told(x, c, o)
  OBVIOUS
<1>3. SUFFICES t \in Shown /\ Counts(y, t) /\ StaysCancelled(s, t)
  BY <1>2
<1>4. CASE c.type = "fill" /\ o \in {c.order, c.matched}
  <2>1. x.state = "accepted" /\ x.filled + c.qty <= x.qty
    BY <1>4 DEF Timely, Concerns
  <2>2. s.onMarket = x.qty - x.filled /\ "Cancelled" \notin s.history
    BY <2>1 DEF Counts
  <2>3. s.onMarket - c.qty \in Nat /\ s.onMarket - c.qty = x.qty - (x.filled + c.qty)
    BY <1>1, <2>1, <2>2
  <2>4. t = Noted(s, "Filled", s.onMarket - c.qty)
    BY <1>2, <1>4 DEF Heard, OnFilled
  <2>5. /\ t \in Shown /\ t.onMarket = s.onMarket - c.qty
        /\ t.history = s.history \cup {"Filled"}
        /\ t.price = s.price /\ t.quantity = s.quantity
    BY <2>3, <2>4, NotedFields, Events DEF Shown
  <2>6. /\ y.state = IF x.filled + c.qty >= x.qty THEN "complete" ELSE x.state
        /\ y.qty = x.qty /\ y.filled = x.filled + c.qty /\ y.price = x.price
    BY <1>2, <1>4, ToldFill
  <2>7. "Cancelled" \notin t.history /\ t.price = y.price /\ t.quantity = y.qty
    BY <1>1, <2>2, <2>5, <2>6
  <2>8. Counts(y, t)
    <3>1. CASE x.filled + c.qty >= x.qty
      <4>1. y.state = "complete" /\ t.onMarket = 0
        BY <1>1, <2>1, <2>3, <2>5, <2>6, <3>1
      <4> QED
        BY <2>7, <4>1 DEF Counts
    <3>2. CASE ~(x.filled + c.qty >= x.qty)
      <4>1. y.state = "accepted" /\ y.filled <= y.qty /\ t.onMarket = y.qty - y.filled
        BY <1>1, <2>1, <2>3, <2>5, <2>6, <3>2
      <4> QED
        BY <2>7, <4>1 DEF Counts
    <3> QED
      BY <3>1, <3>2
  <2> QED
    BY <2>2, <2>5, <2>8 DEF StaysCancelled
<1>5. CASE c.type = "book_update" \/ (c.type = "fill" /\ o \notin {c.order, c.matched})
           \/ (c.type # "fill" /\ o # c.order)
  <2>1. ~Concerns(c, o)
    BY <1>5 DEF Concerns
  <2>2. y = x /\ t = s
    BY <1>2, <1>5, <2>1, ToldNothing DEF Heard
  <2> QED
    BY <2>2 DEF StaysCancelled
<1>6. CASE c.type = "accept" /\ o = c.order
  <2>1. t = Noted(s, "Accepted", s.quantity)
    BY <1>2, <1>6 DEF Heard
  <2>2. x.state = "new"
    BY <1>6 DEF Timely, Concerns
  <2>3. x.filled = 0 /\ x.qty \in Nat /\ "Cancelled" \notin s.history
    BY <2>2 DEF Counts
  <2>4. /\ t \in Shown /\ t.onMarket = s.quantity
        /\ t.history = s.history \cup {"Accepted"}
        /\ t.price = s.price /\ t.quantity = s.quantity
    BY <1>1, <2>1, <2>3, NotedFields, Events DEF Shown
  <2>5. /\ y.state = "accepted" /\ y.qty = x.qty /\ y.filled = x.filled
        /\ y.price = x.price
    BY <1>2, <1>6, ToldAccept
  <2>6. y.filled <= y.qty /\ t.onMarket = y.qty - y.filled /\ "Cancelled" \notin t.history
    BY <1>1, <2>3, <2>4, <2>5
  <2>7. Counts(y, t)
    BY <1>1, <2>4, <2>5, <2>6 DEF Counts
  <2> QED
    BY <2>3, <2>4, <2>7 DEF StaysCancelled
<1>7. CASE c.type = "reject" /\ o = c.order
  <2>1. t = Noted(s, "Rejected", s.onMarket) /\ y = x
    BY <1>2, <1>7, ToldReject DEF Heard
  <2>2. x.state = "new"
    BY <1>7 DEF Timely, Concerns
  <2>3. "Cancelled" \notin s.history
    BY <2>2 DEF Counts
  <2>4. /\ t \in Shown /\ t.onMarket = s.onMarket
        /\ t.history = s.history \cup {"Rejected"}
        /\ t.price = s.price /\ t.quantity = s.quantity
    BY <1>1, <2>1, NotedFields, Events DEF Shown
  <2>5. "Cancelled" \notin t.history
    BY <2>3, <2>4
  <2>6. Counts(y, t)
    BY <2>1, <2>4, <2>5 DEF Counts
  <2> QED
    BY <2>3, <2>4, <2>6 DEF StaysCancelled
<1>8. CASE c.type = "cancel" /\ o = c.order
  <2>1. t = Noted(s, "Cancelled", 0)
    BY <1>2, <1>8 DEF Heard, OnCancelled
  <2>2. /\ t \in Shown /\ t.onMarket = 0 /\ t.event = "Cancelled"
        /\ t.history = s.history \cup {"Cancelled"}
        /\ t.price = s.price /\ t.quantity = s.quantity
    BY <2>1, NotedFields, Events DEF Shown
  <2>3. y.state = "cancelled" /\ y.qty = x.qty /\ y.price = x.price
    BY <1>2, <1>8, ToldCancel
  <2>4. Counts(y, t)
    BY <1>1, <2>2, <2>3 DEF Counts, Ends
  <2> QED
    BY <2>2, <2>4 DEF StaysCancelled
<1>9. CASE c.type \in {"cancel_reject", "replace_reject"} /\ o = c.order
  <2>1. PICK e \in {"CancelRejected", "ModifyRejected"} : t = Noted(s, e, s.onMarket)
    BY <1>2, <1>9 DEF Heard
  <2>2. /\ t \in Shown /\ t.onMarket = s.onMarket /\ t.event = e
        /\ t.history = s.history \cup {e}
        /\ t.price = s.price /\ t.quantity = s.quantity
    BY <1>1, <2>1, NotedFields, Events DEF Shown
  <2>3. y = x
    BY <1>2, <1>9, ToldNothing DEF Concerns
  <2>4. t.event \in Ends /\ ("Cancelled" \in t.history <=> "Cancelled" \in s.history)
    BY <2>2 DEF Ends
  <2>5. Counts(y, t)
    BY <2>2, <2>3, <2>4 DEF Counts
  <2> QED
    BY <2>2, <2>4, <2>5 DEF StaysCancelled
<1>10. CASE c.type = "replace" /\ o = c.order
  <2>1. t = OnReplaced(s, c.delta, c.price)
    BY <1>2, <1>10 DEF Heard
  <2>2. /\ x.state = "accepted" /\ x.filled <= x.qty + c.delta
        /\ c.price = 0 => x.price = 0
    BY <1>10 DEF Timely, Concerns, MARKET_ORDER_PRICE
  <2>3. s.onMarket = x.qty - x.filled /\ "Cancelled" \notin s.history
    BY <2>2 DEF Counts
  <2>4. s.onMarket + c.delta \in Nat
    BY <1>1, <2>2, <2>3
  <2>5. /\ t \in Shown /\ t.onMarket = s.onMarket + c.delta
        /\ t.history = s.history \cup {"Modified"}
        /\ t.price = IF c.price = 0 THEN s.price ELSE c.price
        /\ t.quantity = s.quantity + c.delta
    BY <1>1, <2>1, <2>4, ReplacedFields
  <2>6. /\ y.state = x.state /\ y.qty = x.qty + c.delta /\ y.filled = x.filled
        /\ y.price = c.price
    BY <1>2, <1>10, ToldReplace
  <2>7. t.price = y.price
    BY <1>1, <2>2, <2>5, <2>6
  <2>8. /\ y.filled <= y.qty /\ t.onMarket = y.qty - y.filled /\ t.quantity = y.qty
        /\ "Cancelled" \notin t.history
    BY <1>1, <2>2, <2>3, <2>5, <2>6
  <2>9. Counts(y, t)
    BY <2>2, <2>6, <2>7, <2>8 DEF Counts
  <2> QED
    BY <2>3, <2>5, <2>9 DEF StaysCancelled
<1> QED
  BY <1>1, <1>4, <1>5, <1>6, <1>7, <1>8, <1>9, <1>10 DEF CallbackTypes

-----------------------------------------------------------------------------
(* The steps *)

(* What a step keeps of the objects. *)
Cancellations == \A o \in Order : StaysCancelled(shown[o], shown'[o])

LEMMA NothingShown ==
  ASSUME MInv, order' = order, shown' = shown
  PROVE  MInv' /\ Cancellations
BY DEF MInv, Cancellations, StaysCancelled

(* A delivery. *)
LEMMA PerformShownCounts ==
  ASSUME IInv, AInv, MInv, PerformShown
  PROVE  MInv' /\ Cancellations
<1>1. /\ Perform /\ Listen(Head(working)) /\ pc = "deliver"
      /\ working # <<>> /\ working \in Seq(Callback) /\ callbacks \in Seq(Callback)
  BY DueType DEF PerformShown, Perform, Performed, IInv, Delivering
<1>2. PICK c \in Callback :
        /\ c = Head(Due)
        /\ \A o \in Order : Timely(order[o], c, o) /\ order'[o] = Told(order[o], c, o)
  BY <1>1, PerformTells
<1>3. Head(Due) = Head(working)
  BY <1>1 DEF Due
<1>4. shown' = [o \in Order |-> Heard(shown[o], c, o)]
  BY <1>1, <1>2, <1>3, ListenHeard
<1>5. shown \in [Order -> Shown] /\ order \in [Order -> SimpleOrder]
  BY DEF MInv, IInv, TypeOK
<1>6. ASSUME NEW o \in Order
      PROVE  /\ Heard(shown[o], c, o) \in Shown
             /\ Counts(order'[o], Heard(shown[o], c, o))
             /\ StaysCancelled(shown[o], Heard(shown[o], c, o))
  <2>1. PICK x \in SimpleOrder, s \in Shown : x = order[o] /\ s = shown[o]
    BY <1>5
  <2>2. order'[o] = Told(x, c, o) /\ Counts(x, s) /\ Timely(x, c, o)
    BY <1>2, <2>1 DEF MInv
  <2> QED
    BY <2>1, <2>2, CountsAfterCallback
<1>7. shown' \in [Order -> Shown] /\ \A o \in Order : shown'[o] = Heard(shown[o], c, o)
  BY <1>4, <1>6
<1> QED
  BY <1>6, <1>7 DEF MInv, Cancellations

(* A new order. *)
LEMMA DoAddCounts ==
  ASSUME IInv, AInv, MInv, NEW o \in Order, NEW t \in Menu, DoAdd(o, t)
  PROVE  MInv' /\ Cancellations
<1>1. /\ order' = [order EXCEPT ![o] = NewOrder(o, t)] /\ Used = 1..(o - 1)
      /\ shown' = [shown EXCEPT ![o] = NewShown(t)]
  BY DEF DoAdd, Add, Show
<1>2. /\ shown \in [Order -> Shown] /\ order \in [Order -> SimpleOrder]
      /\ t.qty \in Nat /\ t.price \in Price
  BY DEF MInv, IInv, TypeOK, ConstantsAssumption, Request, Quantity
<1>3. o \notin Used
  BY <1>1 DEF Order, ConstantsAssumption
<1>4. order[o].state = "none"
  BY <1>3 DEF Used
<1>5. "Cancelled" \notin shown[o].history
  BY <1>4 DEF MInv, Counts
<1>6. /\ order'[o] = NewOrder(o, t) /\ shown'[o] = NewShown(t)
      /\ \A p \in Order : p # o => order'[p] = order[p] /\ shown'[p] = shown[p]
  BY <1>1, <1>2
<1>7. Counts(order'[o], shown'[o])
  BY <1>2, <1>6 DEF Counts, NewOrder, NewShown
<1>8. shown' \in [Order -> Shown]
  <2>1. NewShown(t) \in Shown
    BY <1>2 DEF NewShown, Shown, Event
  <2> QED
    BY <1>1, <1>2, <2>1
<1> QED
  BY <1>5, <1>6, <1>7, <1>8 DEF MInv, Cancellations, StaysCancelled

(* Every step. *)
LEMMA NextKeepsMInv ==
  ASSUME IInv, AInv, MInv, [MarketNext]_marketVars
  PROVE  MInv' /\ Cancellations
<1>1. ASSUME NEW o \in Order, NEW t \in Menu, DoAdd(o, t)
      PROVE  MInv' /\ Cancellations
  BY <1>1, DoAddCounts
<1>2. ASSUME NEW o \in Order, DoCancel(o)
      PROVE  MInv' /\ Cancellations
  BY <1>2, NothingShown DEF DoCancel, Cancel
<1>3. ASSUME NEW o \in Order, NEW quantity \in Deltas, NEW price \in NewPrices,
             DoModify(o, quantity, price)
      PROVE  MInv' /\ Cancellations
  BY <1>3, NothingShown DEF DoModify, Replace
<1>4. CASE PerformShown
  BY <1>4, PerformShownCounts
<1>5. CASE (MatchStep \/ AddOrderStep \/ PendingStep) /\ UNCHANGED shown
  BY <1>5, CallsLeaveObjects, NothingShown
<1>6. CASE UNCHANGED marketVars
  BY <1>6, NothingShown DEF marketVars, vars
<1> QED
  BY <1>1, <1>2, <1>3, <1>4, <1>5, <1>6 DEF MarketNext, Command

(* At the start there are no orders. *)
LEMMA InitMInv ==
  ASSUME MarketInit PROVE MInv
<1>1. shown = [o \in Order |-> NoShown] /\ order = [o \in Order |-> NoOrder]
  BY DEF MarketInit, Init
<1>2. NoShown \in Shown
  BY DEF NoShown, Shown, Event, Price
<1>3. Counts(NoOrder, NoShown)
  BY DEF Counts, NoOrder, NoShown
<1> QED
  BY <1>1, <1>2, <1>3 DEF MInv

-----------------------------------------------------------------------------
(* Orders that are over *)

(* No callbacks, however many are due, change a cancelled object.          *)
LEMMA OverStays ==
  ASSUME NEW o, NEW q \in Seq(Callback), NEW x, NEW y, Leads(o, q, x, y),
         x.state = "cancelled"
  PROVE  y = x
<1>1. PICK h : /\ h[0] = x /\ h[Len(q)] = y
               /\ \A k \in 1..Len(q) :
                    Timely(h[k - 1], q[k], o) /\ h[k] = Told(h[k - 1], q[k], o)
  BY DEF Leads
<1> DEFINE Changed == {k \in 0..Len(q) : h[k] # x}
<1>2. Len(q) \in Nat
  OBVIOUS
<1>3. Changed = {}
  <2> SUFFICES ASSUME Changed # {} PROVE FALSE
    OBVIOUS
  <2>1. PICK k \in Changed : \A j \in Changed : k <= j
    <3>1. Changed \in SUBSET Nat
      BY <1>2
    <3> HIDE DEF Changed
    <3> QED
      BY <3>1, LeastMember
  <2>2. k \in 1..Len(q) /\ k - 1 \in 0..Len(q)
    BY <1>1, <1>2
  <2>3. h[k - 1] = x
    BY <2>1, <2>2
  <2>4. Timely(x, q[k], o) /\ h[k] = Told(x, q[k], o)
    BY <1>1, <2>2, <2>3
  <2>5. ~Concerns(q[k], o)
    BY <2>4 DEF Timely
  <2>6. h[k] = x
    BY <2>4, <2>5, ToldNothing
  <2> QED
    BY <2>6
<1> QED
  BY <1>1, <1>2, <1>3

(* Of a cancelled order all that was traded has been told. *)
LEMMA CancelledKnowsAll ==
  ASSUME IInv, AInv, NEW o \in Order, order[o].state = "cancelled"
  PROVE  order[o].filled = traded[o]
<1>1. PICK y \in SimpleOrder : Leads(o, Due, order[o], y) /\ Stands(o, y)
  BY DEF AInv, Announced, Informed
<1>2. y = order[o]
  BY <1>1, OverStays, DueType
<1> QED
  BY <1>1, <1>2 DEF Stands

(* No step changes the object of a cancelled order. *)
LEMMA CancelledObjectStays ==
  ASSUME IInv, AInv, NEW o \in Order, order[o].state = "cancelled", [MarketNext]_marketVars
  PROVE  order'[o] = order[o]
<1>1. ASSUME NEW p \in Order, NEW t \in Menu, DoAdd(p, t)
      PROVE  order'[o] = order[o]
  <2>1. order' = [order EXCEPT ![p] = NewOrder(p, t)] /\ Used = 1..(p - 1)
    BY <1>1 DEF DoAdd, Add
  <2>2. p \notin Used /\ o \in Used
    BY <2>1 DEF Order, Used, ConstantsAssumption
  <2> QED
    BY <2>1, <2>2 DEF IInv, TypeOK
<1>2. ASSUME NEW p \in Order, DoCancel(p)
      PROVE  order'[o] = order[o]
  BY <1>2 DEF DoCancel, Cancel
<1>3. ASSUME NEW p \in Order, NEW quantity \in Deltas, NEW price \in NewPrices,
             DoModify(p, quantity, price)
      PROVE  order'[o] = order[o]
  BY <1>3 DEF DoModify, Replace
<1>4. CASE PerformShown
  <2>1. PICK c \in Callback : Timely(order[o], c, o) /\ order'[o] = Told(order[o], c, o)
    BY <1>4, PerformTells DEF PerformShown
  <2>2. ~Concerns(c, o)
    BY <2>1 DEF Timely
  <2> QED
    BY <2>1, <2>2, ToldNothing
<1>5. CASE MatchStep \/ AddOrderStep \/ PendingStep
  BY <1>5, CallsLeaveObjects
<1>6. CASE UNCHANGED marketVars
  BY <1>6 DEF marketVars, vars
<1> QED
  BY <1>1, <1>2, <1>3, <1>4, <1>5, <1>6 DEF MarketNext, Command

-----------------------------------------------------------------------------
(* The theorems *)

(* Every order object of the program has the price and the quantity that   *)
(* the book reads, and counts on what it has on the market, also in the    *)
(* middle of a delivery, and with listeners that enter orders.             *)
THEOREM DisplaysCount ==
  ASSUME ~Throwing PROVE MarketSpec => []MInv
<1>1. MarketInit => MInv
  BY InitMInv
<1>2. IInv /\ AInv /\ MInv /\ [MarketNext]_marketVars => MInv'
  BY NextKeepsMInv
<1> QED
  BY <1>1, <1>2, BookInvariants, PTL DEF MarketSpec

(* The quantity on the market never becomes negative: no fill or reduction *)
(* that Order hears of takes more than it has.                             *)
THEOREM MarketIsTyped ==
  ASSUME ~Throwing PROVE MarketSpec => []MarketTypeOK
<1>1. IInv /\ MInv => MarketTypeOK
  BY DEF IInv, MInv, MarketTypeOK
<1> QED
  BY <1>1, BookInvariants, DisplaysCount, PTL

(* Between two commands the program shows of every order what is open of   *)
(* it in the book or in a stop, and 0 of all others.                       *)
THEOREM MarketShowsTheBook ==
  ASSUME ~Throwing, NothingDropped PROVE MarketSpec => []ShowsOpenQuantity
<1>1. ASSUME IInv, AInv, MInv, Idle, NothingDropped, NEW o \in Order
      PROVE  shown[o].onMarket = IF o \in market[order[o].buy] \cup stops[order[o].buy]
                                 THEN open[o] ELSE 0
  <2>1. Counts(order[o], shown[o]) /\ Stands(o, order[o])
    BY <1>1, ToldAtIdle DEF MInv
  <2>2. order[o].buy \in Side /\ open[o] \in Nat
    BY <1>1, CarriedFacts
  <2>3. CASE order[o].state = "accepted"
    <3>1. o \in market[order[o].buy] \cup stops[order[o].buy]
      BY <1>1, <2>3, KeptAtIdle DEF NoOrderIsLost
    <3>2. shown[o].onMarket = open[o]
      BY <2>1, <2>3 DEF Counts, Stands
    <3> QED
      BY <3>1, <3>2
  <2>4. CASE order[o].state # "accepted"
    <3>1. shown[o].onMarket = 0
      BY <2>1, <2>4 DEF Counts
    <3>2. ASSUME o \in market[order[o].buy] \cup stops[order[o].buy]
          PROVE  open[o] = 0
      <4>1. Carried(o)
        BY <2>2, <3>2 DEF Carried, Resting, Waits
      <4> QED
        BY <2>1, <2>2, <2>4, <4>1 DEF Stands
    <3> QED
      BY <3>1, <3>2
  <2> QED
    BY <2>3, <2>4
<1>2. IInv /\ AInv /\ MInv /\ NothingDropped => ShowsOpenQuantity
  BY <1>1 DEF ShowsOpenQuantity
<1> QED
  BY <1>2, BookInvariants, DisplaysCount, PTL

(* Between two commands the program's own object of every resting order    *)
(* has the price that the book has filed it under, so that CANCEL and      *)
(* MODIFY find it, and of its quantity all is accounted for that was       *)
(* traded or is open.                                                      *)
THEOREM MarketFindsItsOrders ==
  ASSUME ~Throwing PROVE MarketSpec => []OrdersAreFound
<1>1. ASSUME IInv, AInv, MInv, Idle, NEW s \in Side, NEW o \in market[s]
      PROVE  shown[o].price = key[o] /\ shown[o].quantity = traded[o] + open[o]
  <2>1. o \in Order /\ Resting(o)
    BY <1>1 DEF IInv, TypeOK, Resting
  <2>2. Counts(order[o], shown[o]) /\ Stands(o, order[o]) /\ ~Matching
    BY <1>1, <2>1, ToldAtIdle DEF MInv
  <2>3. /\ open[o] > 0 /\ Carried(o)
        /\ order[o] \in SimpleOrder /\ open[o] \in Nat /\ traded[o] \in Nat
    BY <1>1, <2>1, <2>2, CarriedFacts DEF Carried
  <2>4. order[o].price = key[o] /\ order[o].filled = traded[o]
        /\ order[o].qty - order[o].filled = open[o]
    BY <2>1, <2>2, <2>3 DEF Stands
  <2>5. order[o].qty \in Int /\ order[o].filled \in Nat
    BY <2>3 DEF SimpleOrder, Quantity
  <2> QED
    BY <2>2, <2>3, <2>4, <2>5 DEF Counts
<1>2. IInv /\ AInv /\ MInv => OrdersAreFound
  BY <1>1 DEF OrdersAreFound
<1> QED
  BY <1>2, BookInvariants, DisplaysCount, PTL

(* An order that was ever cancelled is over: no step of the book trades    *)
(* it, and it shows no quantity, whatever it notes of refused requests.    *)
THEOREM CancelledStaysCancelled ==
  ASSUME ~Throwing PROVE MarketSpec => CancelledOrdersAreOver
<1> DEFINE Over == \A o \in Order : "Cancelled" \in shown[o].history =>
                     /\ traded'[o] = traded[o]
                     /\ shown'[o].onMarket = 0
                     /\ shown'[o].event \in {"Cancelled", "CancelRejected", "ModifyRejected"}
<1>1. ASSUME IInv, AInv, Whole, MInv, [MarketNext]_marketVars
      PROVE  Over
  <2>1. IInv' /\ AInv' /\ MInv' /\ Cancellations
    BY <1>1, MarketStepIsBookStep, NextKeepsIInv, NextKeepsAInv, NoOneThrows, NextKeepsMInv
  <2>2. ASSUME NEW o \in Order, "Cancelled" \in shown[o].history
        PROVE  /\ traded'[o] = traded[o]
               /\ shown'[o].onMarket = 0
               /\ shown'[o].event \in {"Cancelled", "CancelRejected", "ModifyRejected"}
    <3>1. order[o].state = "cancelled" /\ Counts(order'[o], shown'[o])
      BY <1>1, <2>1, <2>2 DEF MInv, Counts
    <3>2. order'[o] = order[o]
      BY <1>1, <3>1, CancelledObjectStays
    <3>3. order[o].filled = traded[o]
      BY <1>1, <3>1, CancelledKnowsAll
    <3>4. order'[o].filled = traded'[o]
      <4>1. PICK y \in SimpleOrder : Leads(o, Due', order'[o], y) /\ Stands(o, y)'
        BY <2>1 DEF AInv, Announced, Informed
      <4>2. Due' \in Seq(Callback)
        BY <2>1 DEF IInv, TypeOK, Due
      <4>3. y = order'[o]
        BY <3>1, <3>2, <4>1, <4>2, OverStays
      <4> QED
        BY <4>1, <4>3 DEF Stands
    <3>5. "Cancelled" \in shown'[o].history
      BY <2>1, <2>2 DEF Cancellations, StaysCancelled
    <3> QED
      BY <3>1, <3>2, <3>3, <3>4, <3>5 DEF Counts, Ends
  <2> QED
    BY <2>2
<1>2. MarketSpec => []Whole
  <2>1. MarketInit => IInv /\ Whole
    BY InitIInv, InitWholeness DEF MarketInit
  <2>2. IInv /\ Whole /\ [MarketNext]_marketVars => (IInv /\ Whole)'
    BY MarketStepIsBookStep, NextKeepsIInv, NextKeepsWhole
  <2> QED
    BY <2>1, <2>2, PTL DEF MarketSpec
<1>3. IInv /\ AInv /\ Whole /\ MInv /\ [MarketNext]_marketVars => [Over]_marketVars
  BY <1>1
<1> QED
  BY <1>2, <1>3, BookInvariants, DisplaysCount, PTL DEF MarketSpec, CancelledOrdersAreOver
===============================================================================
